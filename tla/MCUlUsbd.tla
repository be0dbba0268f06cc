------------------------------ MODULE MCUlUsbd ------------------------------
(* A small instance of UlUsbd.                                             *)
EXTENDS UlUsbd

CONSTANTS c1, c2

BothModes == {TRUE, FALSE}
=============================================================================
