--------------------------- MODULE MCEkeySession ----------------------------
(* Small instances of EkeySession.                                         *)
EXTENDS EkeySession

CONSTANTS s1, s2, good, wrong

(* Keyrings an operator may load: right key, wrong key, a keyring that     *)
(* also knows another device, and one that does not know this device.      *)
GoodRing == [s \in Serials |-> IF s = s1 THEN good ELSE NULL]
WrongRing == [s \in Serials |-> wrong]
BothRing == [s \in Serials |-> IF s = s1 THEN good ELSE wrong]
WrongOnlyRing == [s \in Serials |-> IF s = s1 THEN wrong ELSE NULL]
OtherRing == [s \in Serials |-> IF s = s1 THEN NULL ELSE wrong]

GoodOrWrong == {GoodRing, WrongRing}
AnyRing == {BothRing, WrongOnlyRing, OtherRing}

BusyDevice == {ZeroKey, <<good, 0, NonceMod>>}

HealthInfo == {"0", NULL}
AnyInfo == {"1"}
AlwaysOk == {TRUE}
SomeFail == {TRUE, FALSE}
Unset == {NULL}
AnySerial == {NULL, s1, s2}
=============================================================================
