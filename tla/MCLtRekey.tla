----------------------------- MODULE MCLtRekey ------------------------------
(* A small instance of LtRekey.                                            *)
EXTENDS LtRekey

CONSTANTS d1, d2, p1, p2

Entry(d) == [snum |-> d, ltkey |-> <<0, 0>>]

(* The keyring is missing, or knows both devices, or the first one is yet  *)
(* to be entered.                                                          *)
SomeRings == {Absent, <<Entry(d2)>>, <<Entry(d1), Entry(d2)>>}

(* Much may be left under way of the first device, little of the second.   *)
Caps == [d \in Devices |-> IF d = d1 THEN 3 ELSE 1]
=============================================================================
