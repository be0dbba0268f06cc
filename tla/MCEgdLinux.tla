----------------------------- MODULE MCEgdLinux -----------------------------
(* Small instances of EgdLinux: two connections, used in turn.             *)
EXTENDS EgdLinux

CONSTANTS l1, l2

Nobody == {}
NoScripts == {}
=============================================================================
