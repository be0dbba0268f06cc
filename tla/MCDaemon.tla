------------------------------ MODULE MCDaemon ------------------------------
(* Small instances of Daemon.                                              *)
EXTENDS Daemon

CONSTANTS a, b, k1, listener

Impolite == {a}
Sayings == [c \in {a, b} |-> IF c = a THEN {"List", "half"}
                                     ELSE {"Add", "Remove", "Bye", "Shutdown"}]
TwoAndOne == [c \in {a, b} |-> IF c = a THEN 2 ELSE 1]
=============================================================================
