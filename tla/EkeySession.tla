---------------------------- MODULE EkeySession -----------------------------
(***************************************************************************)
(* ekeyd and one entropy key joined by their two links, with the faults    *)
(* the host code has to live with: frames the framer discards, damaged     *)
(* frames and commands, failed writes, an unplugged device, a failing      *)
(* nonce source, and a keyring reloaded under a running connection.        *)
(***************************************************************************)
EXTENDS EkeyConnection, EkeyDevice

CONSTANTS
  Configured,    \* serial numbers the connection may be configured with
  Keyrings,      \* keyring files an operator may load
  OldKeys,       \* session keys the device may still hold when attached
  MaxFaults,     \* bound: link faults per behaviour
  MaxReloads,    \* bound: keyring reloads per behaviour
  Damage,        \* TRUE: a fault may damage a frame or command, not only lose it
  NonceResults,  \* results fill_nonce may have
  Unplugged      \* TRUE: a read may report end of file or an error

ASSUME SessionAssumption ==
  /\ Configured \subseteq Serials \cup {NULL}
  /\ Keyrings \subseteq [Serials -> LTKeys \cup {NULL}]
  /\ OldKeys \subseteq {k \in Keys : k = ZeroKey \/ k[1] = DevLTKey}
  /\ MaxFaults \in Nat
  /\ MaxReloads \in Nat
  /\ NonceResults \subseteq BOOLEAN

VARIABLES
  faults,        \* link faults so far
  reloads        \* keyring reloads so far

vars == <<conVars, devVars, toHost, toDev, faults, reloads>>

-----------------------------------------------------------------------------
(* econ_open, econ_setsnum: the device may have just been plugged in (its  *)
(* serial number frame may have been flushed) or be in the middle of a     *)
(* session with an earlier ekeyd.                                          *)
econ_open ==
  /\ current_state = "INIT"
  /\ snum \in Configured
  /\ sk_mac = NULL
  /\ ltkey = NULL
  /\ session_state = NULL
  /\ nonce = NULL
  /\ keyreq_counter = 0
  /\ con_nonces = 0
  /\ key_badness = NULL
  /\ keyring \in Keyrings
  /\ out = <<>>

Init ==
  /\ econ_open
  /\ dev_key \in OldKeys
  /\ dev_seq = 0
  /\ dev_nonces = 1 % NonceMod
  /\ toHost \in {<<>>} \cup (IF dev_key = ZeroKey THEN {<<SerialFrame>>} ELSE {})
  /\ toDev = <<>>
  /\ faults = 0
  /\ reloads = 0

-----------------------------------------------------------------------------
(* Link faults *)

fault ==
  /\ current_state # "CLOSE"
  /\ faults < MaxFaults
  /\ faults' = faults + 1

(* The framer finds no frame in damaged bytes and skips them.              *)
LoseFrame ==
  /\ fault
  /\ toHost # <<>>
  /\ toHost' = Tail(toHost)
  /\ UNCHANGED <<conVars, devVars, toDev, reloads>>

(* A damaged frame that still frames: any type letter, any class byte, any *)
(* serial number, no data, and a MAC that matches nothing.                 *)
DamageFrame ==
  /\ Damage
  /\ fault
  /\ toHost # <<>>
  /\ \E t \in WireTypes, f \in Forms, s \in Serials \cup {NULL} :
       toHost' = <<[Frame(t, BadMac, 0) EXCEPT !.form = f, !.serial = s]>> \o Tail(toHost)
  /\ UNCHANGED <<conVars, devVars, toDev, reloads>>

(* estream_write fails (it is only logged), or the bytes are lost.         *)
LoseCommand ==
  /\ fault
  /\ toDev # <<>>
  /\ toDev' = Tail(toDev)
  /\ UNCHANGED <<conVars, devVars, toHost, reloads>>

(* Bytes of a command are lost or changed on the way.                      *)
DamageCommand ==
  /\ Damage
  /\ fault
  /\ toDev # <<>>
  /\ \E c \in {Unknown} \cup
              (IF Head(toDev).cmd = "key"
                 THEN [cmd : {"key"}, nonce : {NonceMod}, len : {NonceLen, ShortLen}]
                 ELSE {}) :
       toDev' = <<c>> \o Tail(toDev)
  /\ UNCHANGED <<conVars, devVars, toHost, reloads>>

-----------------------------------------------------------------------------
HostStep(ok) == econ_run(ok) /\ UNCHANGED <<devVars, faults, reloads>>

HostEof == Unplugged /\ econ_run_eof /\ UNCHANGED <<devVars, faults, reloads>>

Reload ==
  /\ reloads < MaxReloads
  /\ reloads' = reloads + 1
  /\ \E table \in Keyrings : read_keyring(table)
  /\ UNCHANGED <<devVars, faults>>

(* Nothing the device does is observed once the stream is closed.          *)
Device == current_state # "CLOSE" /\ UNCHANGED <<conVars, faults, reloads>>

DeviceStep == DevNext /\ Device

Next ==
  \/ \E ok \in NonceResults : HostStep(ok)
  \/ HostEof
  \/ Reload
  \/ DeviceStep
  \/ LoseFrame
  \/ DamageFrame
  \/ LoseCommand
  \/ DamageCommand

Spec == Init /\ [][Next]_vars

-----------------------------------------------------------------------------
(* Types *)

(* Every variable has the type its C declaration and the bounds give it.   *)
TypeOK ==
  /\ current_state \in States
  /\ snum \in Serials \cup {NULL}
  /\ sk_mac \in MacKeys \cup {NULL}
  /\ ltkey \in LTKeys \cup {NULL}
  /\ session_state \in SessionKeys \cup {NULL}
  /\ nonce \in Nonces \cup {NULL}
  /\ keyreq_counter \in Nat
  /\ con_nonces \in Nonces
  /\ key_badness \in Modes \cup {NULL}
  /\ keyring \in [Serials -> LTKeys \cup {NULL}]
  /\ out \in Seq(Blocks \cup {Garbage}) /\ Len(out) <= 2
  /\ DevTypeOK
  /\ toHost \in Seq(Frames) /\ Len(toHost) <= LinkCap
  /\ toDev \in Seq(Commands) /\ Len(toDev) <= CmdCap
  /\ faults \in 0 .. MaxFaults
  /\ reloads \in 0 .. MaxReloads

-----------------------------------------------------------------------------
(* Safety *)

(* entropy_pkt_handler decrypts with session_state what the packet layer   *)
(* authenticated with sk_mac: two copies of the session key, set in        *)
(* different places.  Whatever is lost, damaged, reset or rekeyed, nothing *)
(* but entropy the device generated is ever written to the output.         *)
EntropyIntact == \A i \in DOMAIN out : out[i] # Garbage

(* No block reaches the output twice, blocks reach it in the order the     *)
(* device generated them, across resets and session keys, although         *)
(* entropy_pkt_handler never looks at the previous sequence number, and    *)
(* none reaches it once the connection is closed.                          *)
Later(b, a) ==
  \/ b.key[2] > a.key[2]
  \/ b.key = a.key /\ b.seq > a.seq

Source == INSTANCE EntropySource WITH open <- current_state # "CLOSE"

EntropyInOrder == Source!Spec

(* A connection is KEYED, and has ever written entropy, only when the host *)
(* holds the long-term key of this very device and knows its true serial   *)
(* number, even when it first learnt a serial number from a damaged frame  *)
(* or the keyring was reloaded meanwhile.                                  *)
Trusted ==
  /\ current_state = "KEYED" =>
       snum = DevSerial /\ ltkey = DevLTKey /\ session_state[1] = DevLTKey
  /\ out # <<>> => snum = DevSerial

(* What the operator reads is true: the serial number of a key whose       *)
(* serial is reported as good is shown and there is a long-term key for    *)
(* it, and a key reported as running runs under that long-term key.        *)
ReportTrue ==
  l_query_ekey.okay /\ l_query_ekey.status # "UNKNOWN" =>
    /\ l_query_ekey.serial # NULL /\ ltkey # NULL
    /\ l_query_ekey.status = "KEYED" => session_state[1] = ltkey

(* Both together: nothing is trusted, and nothing is called good in a      *)
(* report, on account of an earlier key, session or serial number.         *)
KeyedMeansTrusted == Trusted /\ ReportTrue

(* As long as nothing is lost, with a device that answers before it speaks *)
(* again, keying never fails under the right long-term key: the 50 ignored *)
(* key requests of KEYED_BAD are only ever spent on a key that is really   *)
(* wrong, also when the keyring is corrected in any state of the session.  *)
NoFalseBadKey ==
  faults = 0 /\ current_state \in {"KEYED_BAD", "UNTRUSTED", "CLOSE"} =>
    ltkey # DevLTKey

-----------------------------------------------------------------------------
(* Liveness *)

(* ekeyd polls for input and reads what there is; the device reads its     *)
(* commands; its generators never stop, whatever else it sends.            *)
Fairness ==
  /\ WF_vars(\E ok \in NonceResults : HostStep(ok))
  /\ WF_vars(DevCommand /\ Device)
  /\ SF_vars(DevKeyReq /\ Device)
  /\ SF_vars(DevEntropy /\ Device)

FairSpec == Spec /\ Fairness

KeyKnown == keyring[DevSerial] = DevLTKey

(* Frames and commands may be lost (finitely often); the reset and counter *)
(* paths still bring a connection whose key is in the keyring back to      *)
(* producing entropy, forever.                                             *)
EntropyFlows == []KeyKnown => []<>(current_state = "KEYED")

(* A wrong long-term key parks the connection in KEYED_BAD, but not for    *)
(* good: it retries, so that once the keyring is corrected the connection  *)
(* starts to produce entropy without being detached, if nothing is lost.   *)
CorrectedKeyAdopted ==
  [](faults = 0) /\ <>[]KeyKnown => []<>(current_state = "KEYED")

(* connection.c:37 gives the number of key requests after which KEYED_BAD  *)
(* is left: a failed keying is retried.                                    *)
BadKeyRetried == current_state = "KEYED_BAD" ~> current_state # "KEYED_BAD"

=============================================================================
