------------------------ MODULE EkeySession_proofs --------------------------
(***************************************************************************)
(* Proofs about EkeySession, for every value of its constants: any serial  *)
(* numbers, keys, keyrings, link capacities, thresholds and number of      *)
(* faults.  The argument: a frame whose MAC verifies was made by the       *)
(* device under the key named in it, and while a session is keyed the two  *)
(* places the host keeps the session key in (sk_mac, session_state) agree. *)
(***************************************************************************)
EXTENDS EkeySession, TLAPS

(* What a frame that carries a valid MAC tells: it is the device's own, an *)
(* entropy frame is sealed with the key its pad was made with, a key frame *)
(* carries a nonce.                                                        *)
Authentic(f) ==
  f.mac # BadMac =>
    /\ f.type = "ENTROPY" => /\ f.block \in Blocks
                             /\ f.mac = <<DevSerial, f.block.key>>
                             /\ f.sub = f.block.seq
                             /\ f.block.key[1] = DevLTKey
    /\ f.type = "KEY" => f.devnonce \in Nonces

AuthenticFrames == {f \in Frames : Authentic(f)}

Keyed == {"KEYED_FIRST", "KEYED"}

(* The two copies of the session key agree while a session is keyed, and   *)
(* the session key is made of the long-term key the host holds.            *)
KeysAgree ==
  current_state \in Keyed =>
    /\ sk_mac = <<snum, session_state>>
    /\ session_state # NULL
    /\ session_state[1] = ltkey

(* From SESSION on there is a serial number and a long-term key, and in    *)
(* SESSION_SENT also a nonce.                                              *)
Progress ==
  /\ current_state \in Keyed \cup {"SESSION", "SESSION_SENT"} =>
       snum # NULL /\ ltkey # NULL
  /\ current_state = "SESSION_SENT" => nonce # NULL

IInv ==
  /\ TypeOK
  /\ toHost \in Seq(AuthenticFrames)
  /\ dev_key # ZeroKey => dev_key[1] = DevLTKey
  /\ KeysAgree
  /\ Progress
  /\ EntropyIntact
  /\ Trusted
-----------------------------------------------------------------------------
(* Facts about the operators *)

(* Two MAC states are the same only if serial number and key are.          *)
LEMMA PairEq ==
  ASSUME NEW a, NEW b, NEW c, NEW d, <<a, b>> = <<c, d>>
  PROVE  a = c /\ b = d
<1>1. <<a, b>>[1] = <<c, d>>[1] /\ <<a, b>>[2] = <<c, d>>[2]
  OBVIOUS
<1> QED
  BY <1>1

(* A MAC state made for a known serial number and a key is well formed.    *)
LEMMA SessionKeyType ==
  ASSUME sk_mac \in MacKeys \cup {NULL}, NEW s \in Serials \cup {NULL},
         NEW k \in Keys
  PROVE  epkt_setsessionkey(s, k) \in MacKeys \cup {NULL}
BY DEF epkt_setsessionkey, MacKeys

(* Appending to a bounded sequence of S, and taking its tail.              *)
LEMMA AppendType ==
  ASSUME NEW S, NEW q \in Seq(S), NEW e \in S, NEW cap \in Nat, Len(q) < cap
  PROVE  Append(q, e) \in Seq(S) /\ Len(Append(q, e)) <= cap
OBVIOUS

(* Taking the first element of a sequence of S that has at most cap.       *)
LEMMA TailType ==
  ASSUME NEW S, NEW q \in Seq(S), q # <<>>, NEW cap \in Nat, Len(q) <= cap
  PROVE  /\ Tail(q) \in Seq(S) /\ Len(Tail(q)) <= cap
         /\ Head(q) \in S
OBVIOUS

(* Replacing the first element of such a sequence.                         *)
LEMMA ReplaceHeadType ==
  ASSUME NEW S, NEW q \in Seq(S), q # <<>>, NEW cap \in Nat, Len(q) <= cap,
         NEW e \in S
  PROVE  <<e>> \o Tail(q) \in Seq(S) /\ Len(<<e>> \o Tail(q)) <= cap
OBVIOUS

(* The output keeps at most two blocks, the last of them the one written.  *)
LEMMA WrittenType ==
  ASSUME NEW S, out \in Seq(S), Len(out) <= 2, NEW b \in S
  PROVE  /\ written(b) \in Seq(S) /\ Len(written(b)) <= 2
         /\ written(b) # <<>>
         /\ \A i \in DOMAIN written(b) :
              written(b)[i] = b \/ \E j \in DOMAIN out : written(b)[i] = out[j]
BY DEF written

(* Which rows of the dispatch table lead to the handlers that matter.      *)
LEMMA TableFacts ==
  ASSUME NEW s \in States, NEW t, NEW h, pkt_handlers(s, t, h)
  PROVE  /\ h = "entropy" => s \in Keyed /\ t = "ENTROPY"
         /\ h = "key" => s = "SESSION_SENT" /\ t = "KEY"
         /\ h = "keyreq" => s \in {"SESSION", "KEYED"}
         /\ h = "snum" => s = "INIT"
BY DEF pkt_handlers, set_handlers, default_handler_for, Keyed

(* A frame handled as anything but a rejected or serial number frame has   *)
(* the MAC of the connection's current MAC state.                          *)
LEMMA VerifiedMac ==
  ASSUME NEW p, sk_mac \in MacKeys \cup {NULL},
         pkt_type(p) \notin {"SNUM", "KEYREJECTED"}
  PROVE  /\ p.mac = sk_mac /\ p.mac \in MacKeys /\ p.mac # BadMac
         /\ p.type = pkt_type(p)
BY DistinctAssumption DEF pkt_type, verified, verify_mac

-----------------------------------------------------------------------------
(* One frame handled by the host.  The context every handler runs in: the  *)
(* frame comes off the link, nothing but the connection changes.           *)
Handling(p) ==
  /\ IInv
  /\ toHost # <<>>
  /\ p = Head(toHost)
  /\ toHost' = Tail(toHost)
  /\ UNCHANGED <<keyring, devVars, faults, reloads>>

(* What a handler leaves to prove once its context is taken care of.       *)
LEMMA HandlingStep ==
  ASSUME NEW p, Handling(p),
         /\ current_state' \in States
         /\ snum' \in Serials \cup {NULL}
         /\ sk_mac' \in MacKeys \cup {NULL}
         /\ ltkey' \in LTKeys \cup {NULL}
         /\ session_state' \in SessionKeys \cup {NULL}
         /\ nonce' \in Nonces \cup {NULL}
         /\ keyreq_counter' \in Nat
         /\ con_nonces' \in Nonces
         /\ key_badness' \in Modes \cup {NULL}
         /\ out' \in Seq(Blocks \cup {Garbage}) /\ Len(out)' <= 2
         /\ toDev' \in Seq(Commands) /\ Len(toDev)' <= CmdCap,
         KeysAgree', Progress', EntropyIntact', Trusted'
  PROVE  IInv'
<1>1. toHost' \in Seq(AuthenticFrames)
  BY DEF Handling, IInv
<1>2. toHost' \in Seq(Frames) /\ Len(toHost') <= LinkCap
  BY WireAssumption DEF Handling, IInv, TypeOK
<1>3. TypeOK'
  BY <1>2 DEF Handling, IInv, TypeOK, DevTypeOK, devVars
<1> QED
  BY <1>1, <1>3 DEF Handling, IInv, devVars

(* The frame handled is authentic.                                         *)
LEMMA HandledFrame ==
  ASSUME NEW p, Handling(p)
  PROVE  p \in Frames /\ Authentic(p)
BY DEF Handling, IInv, AuthenticFrames

(* A command written keeps the link to the device within its type.         *)
LEMMA WriteType ==
  ASSUME NEW cmd \in Commands, IInv, estream_write(cmd)
  PROVE  toDev' \in Seq(Commands) /\ Len(toDev)' <= CmdCap
BY WireAssumption, AppendType DEF IInv, TypeOK, estream_write

(* What the host and a damaged link put on the command link.               *)
LEMMA CommandTypes ==
  /\ CtrlC \in Commands /\ Unknown \in Commands
  /\ \A n \in Nonces : KeyCmd(n) \in Commands
BY WireAssumption DEF CtrlC, Unknown, KeyCmd, Commands, Nonces

(* A frame that is ignored.                                                *)
LEMMA NullStep ==
  ASSUME NEW p, Handling(p), null_pkt_handler(p)
  PROVE  IInv'
<1>1. KeysAgree' /\ Progress' /\ EntropyIntact' /\ Trusted'
  BY DEF Handling, IInv, null_pkt_handler, KeysAgree, Progress,
         EntropyIntact, Trusted
<1> QED
  BY <1>1, HandlingStep DEF Handling, IInv, TypeOK, null_pkt_handler

(* An information frame: only the failure mode changes.                    *)
LEMMA InfoStep ==
  ASSUME NEW p, Handling(p), info_pkt_handler(p)
  PROVE  IInv'
<1>1. KeysAgree' /\ Progress' /\ EntropyIntact' /\ Trusted'
  BY DEF Handling, IInv, info_pkt_handler, KeysAgree, Progress,
         EntropyIntact, Trusted
<1>2. key_badness' \in Modes \cup {NULL}
  <2>1. p.mode \in Modes \cup {NULL}
    BY HandledFrame DEF Frames
  <2> QED
    BY <2>1 DEF Handling, IInv, TypeOK, info_pkt_handler
<1> QED
  BY <1>1, <1>2, HandlingStep DEF Handling, IInv, TypeOK, info_pkt_handler

(* The part of a reset all handlers that reset share.                      *)
LEMMA ResetType ==
  ASSUME IInv, reset
  PROVE  /\ sk_mac' \in MacKeys \cup {NULL}
         /\ toDev' \in Seq(Commands) /\ Len(toDev)' <= CmdCap
<1>1. sk_mac' \in MacKeys \cup {NULL}
  BY SessionKeyType DEF reset, IInv, TypeOK, Keys
<1> QED
  BY <1>1, WriteType, CommandTypes DEF reset

(* A frame answered with a reset: back to INIT.                            *)
LEMMA ResetStep ==
  ASSUME NEW p, Handling(p), reset_pkt_handler(p)
  PROVE  IInv'
<1>1. KeysAgree' /\ Progress' /\ EntropyIntact' /\ Trusted'
  BY DEF Handling, IInv, reset_pkt_handler, KeysAgree, Progress,
         EntropyIntact, Trusted, Keyed
<1> QED
  BY <1>1, ResetType, HandlingStep
     DEF Handling, IInv, TypeOK, reset_pkt_handler, States

(* A rejected first frame after keying: KEYED_BAD.                         *)
LEMMA BadKeyStep ==
  ASSUME NEW p, Handling(p), badkey_pkt_handler(p)
  PROVE  IInv'
<1>1. KeysAgree' /\ Progress' /\ EntropyIntact' /\ Trusted'
  BY DEF Handling, IInv, badkey_pkt_handler, KeysAgree, Progress,
         EntropyIntact, Trusted, Keyed
<1> QED
  BY <1>1, ResetType, HandlingStep
     DEF Handling, IInv, TypeOK, badkey_pkt_handler, States

(* Both counting handlers either ignore the request or reset.              *)
LEMMA CountingStep ==
  ASSUME NEW p, Handling(p),
         badkey_count_pkt_handler(p) \/ keyreq_count_pkt_handler(p)
  PROVE  IInv'
<1>1. keyreq_counter' \in Nat
  BY DEF Handling, IInv, TypeOK, badkey_count_pkt_handler,
         keyreq_count_pkt_handler
<1>2. CASE UNCHANGED <<current_state, sk_mac, toDev>>
  <2>1. KeysAgree' /\ Progress' /\ EntropyIntact' /\ Trusted'
    BY <1>2 DEF Handling, IInv, badkey_count_pkt_handler,
       keyreq_count_pkt_handler, KeysAgree, Progress, EntropyIntact,
       Trusted
  <2> QED
    BY <1>1, <1>2, <2>1, HandlingStep
       DEF Handling, IInv, TypeOK, badkey_count_pkt_handler,
           keyreq_count_pkt_handler
<1>3. CASE reset /\ current_state' = "INIT"
  <2>1. KeysAgree' /\ Progress' /\ EntropyIntact' /\ Trusted'
    BY <1>3 DEF Handling, IInv, badkey_count_pkt_handler,
       keyreq_count_pkt_handler, KeysAgree, Progress, EntropyIntact,
       Trusted, Keyed
  <2> QED
    BY <1>1, <1>3, <2>1, ResetType, HandlingStep
       DEF Handling, IInv, TypeOK, badkey_count_pkt_handler,
           keyreq_count_pkt_handler, States
<1> QED
  BY <1>2, <1>3 DEF badkey_count_pkt_handler, keyreq_count_pkt_handler

(* Asking for a session key: from SESSION, and from KEYED when the device  *)
(* asks or has used its last sequence number.                              *)
LEMMA KeyReqType ==
  ASSUME NEW ok, IInv, keyreq(ok)
  PROVE  /\ current_state' \in {"SESSION_SENT", "UNTRUSTED"}
         /\ current_state' = "SESSION_SENT" => nonce' # NULL
         /\ nonce' \in Nonces \cup {NULL}
         /\ con_nonces' \in Nonces
         /\ keyreq_counter' \in Nat
         /\ toDev' \in Seq(Commands) /\ Len(toDev)' <= CmdCap
<1>1. con_nonces \in Nonces /\ con_nonces # NULL
  BY DistinctAssumption DEF IInv, TypeOK
<1>2. (con_nonces + 1) % NonceMod \in Nonces
  BY <1>1, WireAssumption DEF Nonces
<1>3. CASE ok
  <2>1. toDev' \in Seq(Commands) /\ Len(toDev)' <= CmdCap
    BY <1>1, <1>3, WriteType, CommandTypes DEF keyreq
  <2> QED
    BY <1>1, <1>2, <1>3, <2>1 DEF keyreq
<1>4. CASE ~ok
  BY <1>4 DEF keyreq, IInv, TypeOK
<1> QED
  BY <1>3, <1>4

(* A key request that is answered with a keying command.                   *)
LEMMA KeyReqStep ==
  ASSUME NEW p, NEW ok, Handling(p), keyreq_pkt_handler(p, ok),
         current_state \in {"SESSION", "KEYED"}
  PROVE  IInv'
<1>1. keyreq(ok) /\ IInv
  BY DEF keyreq_pkt_handler, Handling
<1>2. KeysAgree' /\ Progress' /\ EntropyIntact' /\ Trusted'
  BY <1>1, KeyReqType
     DEF IInv, keyreq_pkt_handler, KeysAgree, Progress, EntropyIntact,
         Trusted, Keyed
<1>3. current_state' \in States
  BY <1>1, KeyReqType DEF States
<1> QED
  BY <1>1, <1>2, <1>3, KeyReqType, HandlingStep
     DEF IInv, TypeOK, keyreq_pkt_handler

(* The answer to a keying command sets both copies of the session key.     *)
LEMMA KeyStep ==
  ASSUME NEW p, Handling(p), key_pkt_handler(p),
         current_state = "SESSION_SENT", pkt_type(p) = "KEY"
  PROVE  IInv'
<1>1. CASE p.sub # NonceLen
  BY <1>1, ResetStep DEF key_pkt_handler
<1>2. CASE p.sub = NonceLen
  <2>1. p.devnonce \in Nonces
    BY HandledFrame, VerifiedMac DEF Authentic, Handling, IInv, TypeOK
  <2>2. ltkey \in LTKeys /\ nonce \in Nonces /\ snum \in Serials
    BY DEF Handling, IInv, TypeOK, Progress, Keyed
  <2>3. session_state' = <<ltkey, p.devnonce, nonce>>
    BY <1>2 DEF key_pkt_handler
  <2>4. session_state' \in SessionKeys /\ session_state' \in Keys
    BY <2>1, <2>2, <2>3 DEF SessionKeys, Keys
  <2>5. session_state' # NULL /\ session_state'[1] = ltkey /\ snum # NULL
    BY <2>2, <2>3, <2>4, DistinctAssumption
  <2>6. sk_mac' = <<snum, session_state'>>
    BY <1>2, <2>5 DEF key_pkt_handler, epkt_setsessionkey
  <2>7. sk_mac' \in MacKeys
    BY <2>2, <2>4, <2>6 DEF MacKeys
  <2>8. KeysAgree' /\ Progress' /\ EntropyIntact' /\ Trusted'
    BY <1>2, <2>2, <2>5, <2>6, DistinctAssumption
       DEF Handling, IInv, key_pkt_handler, KeysAgree, Progress,
           EntropyIntact, Trusted, Keyed
  <2>9. current_state' \in States
    BY <1>2 DEF key_pkt_handler, States
  <2> QED
    BY <1>2, <2>4, <2>7, <2>8, <2>9, HandlingStep
       DEF Handling, IInv, TypeOK, key_pkt_handler
<1> QED
  BY <1>1, <1>2

(* An entropy frame whose MAC verifies was made under the host's own       *)
(* session key: it decrypts to what the device generated, and the device   *)
(* shares serial number and long-term key with the host.                   *)
LEMMA VerifiedEntropy ==
  ASSUME NEW p, Handling(p), current_state \in Keyed, pkt_type(p) = "ENTROPY"
  PROVE  /\ decrypt(p) \in Blocks /\ decrypt(p) # Garbage
         /\ decrypt(p) = p.block /\ p.type = "ENTROPY" /\ p.mac # BadMac
         /\ snum = DevSerial /\ ltkey = DevLTKey /\ session_state[1] = DevLTKey
<1>1. p \in Frames /\ Authentic(p)
  BY HandledFrame
<1>2. p.mac = sk_mac /\ p.mac # BadMac /\ p.type = "ENTROPY"
  BY VerifiedMac DEF Handling, IInv, TypeOK
<1>3. /\ p.block \in Blocks /\ p.mac = <<DevSerial, p.block.key>>
      /\ p.sub = p.block.seq /\ p.block.key[1] = DevLTKey
  BY <1>1, <1>2 DEF Authentic
<1>4. sk_mac = <<snum, session_state>> /\ session_state[1] = ltkey
  BY DEF Handling, IInv, KeysAgree
<1>5. snum = DevSerial /\ session_state = p.block.key
  <2>1. <<snum, session_state>> = <<DevSerial, p.block.key>>
    BY <1>2, <1>3, <1>4
  <2> QED
    BY <2>1, PairEq
<1>6. p.block = [key |-> session_state, seq |-> p.sub]
  BY <1>3, <1>5 DEF Blocks
<1>7. decrypt(p) = p.block
  BY <1>6 DEF decrypt
<1> QED
  BY <1>2, <1>3, <1>4, <1>5, <1>7, DistinctAssumption

(* An entropy frame whose MAC verifies, the last of a session or not.      *)
LEMMA EntropyStep ==
  ASSUME NEW p, NEW ok, Handling(p), entropy_pkt_handler(p, ok),
         current_state \in Keyed, pkt_type(p) = "ENTROPY"
  PROVE  IInv'
<1>1. out' = written(decrypt(p))
  BY DEF entropy_pkt_handler
<1>2. out \in Seq(Blocks \cup {Garbage}) /\ Len(out) <= 2 /\ EntropyIntact
  BY DEF Handling, IInv, TypeOK
<1>3. out' \in Seq(Blocks \cup {Garbage}) /\ Len(out') <= 2
  BY <1>1, <1>2, VerifiedEntropy, WrittenType
<1>4. EntropyIntact'
  BY <1>1, <1>2, VerifiedEntropy, WrittenType DEF EntropyIntact
<1>5. /\ snum' = snum /\ ltkey' = ltkey /\ session_state' = session_state
      /\ sk_mac' = sk_mac /\ key_badness' = key_badness
  BY DEF entropy_pkt_handler
<1>6. IInv /\ snum # NULL /\ ltkey # NULL
  BY DEF Handling, IInv, Progress
<1>7. CASE p.sub = MaxSeq
  <2>1. keyreq(ok)
    BY <1>7 DEF entropy_pkt_handler
  <2>2. KeysAgree' /\ Progress' /\ Trusted'
    BY <1>5, <1>6, <2>1, KeyReqType, VerifiedEntropy
       DEF KeysAgree, Progress, Trusted, Keyed
  <2>3. current_state' \in States
    BY <1>6, <2>1, KeyReqType DEF States
  <2> QED
    BY <1>3, <1>4, <1>5, <1>6, <2>1, <2>2, <2>3, KeyReqType,
       HandlingStep DEF IInv, TypeOK
<1>8. CASE p.sub # MaxSeq
  <2>1. /\ current_state' = "KEYED"
        /\ UNCHANGED <<toDev, nonce, con_nonces, keyreq_counter>>
    BY <1>8 DEF entropy_pkt_handler
  <2>2. KeysAgree' /\ Progress' /\ Trusted'
    BY <1>5, <1>6, <2>1, VerifiedEntropy
       DEF IInv, KeysAgree, Progress, Trusted, Keyed
  <2> QED
    BY <1>3, <1>4, <1>5, <1>6, <2>1, <2>2, HandlingStep
       DEF IInv, TypeOK, States
<1> QED
  BY <1>7, <1>8

(* A serial number is learnt once, and confirmed or refused ever after.    *)
LEMMA SnumStep ==
  ASSUME NEW p, Handling(p), snum_pkt_handler(p), current_state = "INIT"
  PROVE  IInv'
<1>1. CASE p.serial = NULL
  BY <1>1, ResetStep DEF snum_pkt_handler
<1>2. CASE p.serial # NULL /\ snum \notin {NULL, p.serial}
  <2>1. KeysAgree' /\ Progress' /\ EntropyIntact' /\ Trusted'
    BY <1>2 DEF Handling, IInv, snum_pkt_handler, KeysAgree, Progress,
       EntropyIntact, Trusted, Keyed
  <2> QED
    BY <1>2, <2>1, HandlingStep
       DEF Handling, IInv, TypeOK, snum_pkt_handler, States
<1>3. CASE p.serial # NULL /\ snum \in {NULL, p.serial}
  <2>1. snum' = p.serial /\ p.serial \in Serials
    BY <1>3, HandledFrame DEF snum_pkt_handler, Frames
  <2>2. sk_mac' \in MacKeys
    BY <1>3, <2>1, DistinctAssumption
       DEF snum_pkt_handler, epkt_setsessionkey, MacKeys, Keys
  <2>3. ltkey' \in LTKeys \cup {NULL}
    BY <1>3, <2>1 DEF snum_pkt_handler, snum_to_ltkey, Handling, IInv, TypeOK
  <2>4. /\ current_state' \in {"SESSION", "UNTRUSTED"}
        /\ current_state' = "SESSION" => ltkey' # NULL
    BY <1>3 DEF snum_pkt_handler
  <2>5. out # <<>> => snum' = snum
    BY <1>3, <2>1, DistinctAssumption, DeviceAssumption
       DEF Handling, IInv, Trusted
  <2>6. KeysAgree' /\ Progress' /\ EntropyIntact' /\ Trusted'
    BY <1>3, <2>1, <2>4, <2>5, DistinctAssumption
       DEF Handling, IInv, snum_pkt_handler, KeysAgree, Progress,
           EntropyIntact, Trusted, Keyed
  <2> QED
    BY <1>3, <2>1, <2>2, <2>3, <2>4, <2>6, HandlingStep
       DEF Handling, IInv, TypeOK, snum_pkt_handler, States
<1> QED
  BY <1>1, <1>2, <1>3 DEF snum_pkt_handler

(* Whatever entry of the table a frame selects, IInv is kept.              *)
LEMMA DispatchStep ==
  ASSUME NEW p, NEW ok, Handling(p), dispatch(p, ok)
  PROVE  IInv'
<1> DEFINE Is(h) == pkt_handlers(current_state, pkt_type(p), h)
<1>1. current_state \in States
  BY DEF Handling, IInv, TypeOK
<1>2. CASE Is("null") /\ null_pkt_handler(p)
  BY <1>2, NullStep
<1>3. CASE Is("reset") /\ reset_pkt_handler(p)
  BY <1>3, ResetStep
<1>4. CASE Is("badkey") /\ badkey_pkt_handler(p)
  BY <1>4, BadKeyStep
<1>5. CASE Is("badkey_count") /\ badkey_count_pkt_handler(p)
  BY <1>5, CountingStep
<1>6. CASE Is("info") /\ info_pkt_handler(p)
  BY <1>6, InfoStep
<1>7. CASE Is("keyreq") /\ keyreq_pkt_handler(p, ok)
  BY <1>1, <1>7, TableFacts, KeyReqStep
<1>8. CASE Is("keyreq_count") /\ keyreq_count_pkt_handler(p)
  BY <1>8, CountingStep
<1>9. CASE Is("key") /\ key_pkt_handler(p)
  BY <1>1, <1>9, TableFacts, KeyStep
<1>10. CASE Is("entropy") /\ entropy_pkt_handler(p, ok)
  BY <1>1, <1>10, TableFacts, EntropyStep
<1>11. CASE Is("snum") /\ snum_pkt_handler(p)
  BY <1>1, <1>11, TableFacts, SnumStep
<1> QED
  BY <1>2, <1>3, <1>4, <1>5, <1>6, <1>7, <1>8, <1>9, <1>10, <1>11
     DEF dispatch

-----------------------------------------------------------------------------
(* The steps of the session *)

(* econ_run, whatever the frame and the result of fill_nonce.              *)
LEMMA HostStepInv ==
  ASSUME NEW ok, IInv, HostStep(ok)
  PROVE  IInv'
<1> DEFINE h == Head(toHost)
<1>1. PICK p : p = h
  OBVIOUS
<1>2. Handling(p) \/ ~UNCHANGED keyring
  BY <1>1 DEF HostStep, econ_run, Handling
<1>3. CASE unreadable(p)
  <2>1. close_connection /\ toHost # <<>> /\ toHost' = Tail(toHost)
    BY <1>1, <1>3 DEF HostStep, econ_run
  <2>2. Handling(p)
    BY <1>2, <2>1 DEF close_connection
  <2>3. KeysAgree' /\ Progress' /\ EntropyIntact' /\ Trusted'
    BY <2>1 DEF IInv, close_connection, KeysAgree, Progress, EntropyIntact,
       Trusted, Keyed
  <2> QED
    BY <2>1, <2>2, <2>3, HandlingStep
       DEF IInv, TypeOK, close_connection, States
<1>4. CASE ~unreadable(p)
  <2>1. dispatch(p, ok) /\ UNCHANGED keyring
    BY <1>1, <1>4 DEF HostStep, econ_run
  <2> QED
    BY <1>2, <2>1, DispatchStep
<1> QED
  BY <1>3, <1>4

(* Steps that leave the connection alone and keep its frames authentic.    *)
LEMMA LinkStepInv ==
  ASSUME IInv, UNCHANGED <<current_state, snum, sk_mac, ltkey, session_state,
                           nonce, keyreq_counter, con_nonces,
                           key_badness, out>>,
         keyring' \in [Serials -> LTKeys \cup {NULL}],
         toHost' \in Seq(AuthenticFrames), Len(toHost') <= LinkCap,
         toDev' \in Seq(Commands), Len(toDev') <= CmdCap,
         DevTypeOK', dev_key' # ZeroKey => dev_key'[1] = DevLTKey,
         faults' \in 0 .. MaxFaults, reloads' \in 0 .. MaxReloads
  PROVE  IInv'
<1>1. toHost' \in Seq(Frames)
  BY DEF AuthenticFrames
<1>2. TypeOK'
  BY <1>1 DEF IInv, TypeOK
<1>3. KeysAgree' /\ Progress' /\ EntropyIntact' /\ Trusted'
  BY DEF IInv, KeysAgree, Progress, EntropyIntact, Trusted
<1> QED
  BY <1>2, <1>3 DEF IInv

(* Every frame the device sends is authentic.                              *)
LEMMA DeviceFrames ==
  ASSUME IInv
  PROVE  /\ SerialFrame \in AuthenticFrames
         /\ \A t \in WireTypes \ {"ENTROPY", "KEY"} :
              Frame(t, DevMac, 0) \in AuthenticFrames
         /\ \A n \in Nat : [Frame("KEY", DevMac, n) EXCEPT !.devnonce = dev_nonces]
                             \in AuthenticFrames
         /\ \A m \in InfoModes : [Frame("INFO", DevMac, 0) EXCEPT !.mode = m]
                                   \in AuthenticFrames
         /\ dev_key # ZeroKey /\ dev_seq <= MaxSeq =>
              [Frame("ENTROPY", DevMac, dev_seq)
                 EXCEPT !.block = [key |-> dev_key, seq |-> dev_seq]]
                \in AuthenticFrames
<1>1. dev_key \in Keys /\ DevMac \in MacKeys /\ dev_nonces \in Nonces
      /\ dev_seq \in 0 .. MaxSeq + 1 /\ DevSerial \in Serials
      /\ <<DevSerial, ZeroKey>> \in MacKeys
  BY DeviceAssumption DEF IInv, TypeOK, DevTypeOK, DevMac, MacKeys, Keys
<1>2. SerialFrame \in AuthenticFrames
  BY <1>1 DEF SerialFrame, Frame, AuthenticFrames, Frames, Authentic,
     WireTypes, PktTypes, Forms
<1>3. ASSUME NEW t \in WireTypes \ {"ENTROPY", "KEY"}
      PROVE  Frame(t, DevMac, 0) \in AuthenticFrames
  BY <1>1 DEF Frame, AuthenticFrames, Frames, Authentic, Forms
<1>4. ASSUME NEW n \in Nat
      PROVE  [Frame("KEY", DevMac, n) EXCEPT !.devnonce = dev_nonces]
               \in AuthenticFrames
  BY <1>1 DEF Frame, AuthenticFrames, Frames, Authentic, Forms, WireTypes,
     PktTypes
<1>5. ASSUME NEW m \in InfoModes
      PROVE  [Frame("INFO", DevMac, 0) EXCEPT !.mode = m] \in AuthenticFrames
  BY <1>1, DeviceAssumption DEF Frame, AuthenticFrames, Frames, Authentic,
     Forms, WireTypes, PktTypes
<1>6. ASSUME dev_key # ZeroKey, dev_seq <= MaxSeq
      PROVE  [Frame("ENTROPY", DevMac, dev_seq)
                EXCEPT !.block = [key |-> dev_key, seq |-> dev_seq]]
               \in AuthenticFrames
  <2>1. [key |-> dev_key, seq |-> dev_seq] \in Blocks
    BY <1>1, <1>6, WireAssumption DEF Blocks, Keys
  <2>2. dev_key[1] = DevLTKey /\ dev_seq \in Nat
    BY <1>1, <1>6, WireAssumption DEF IInv
  <2> QED
    BY <1>1, <2>1, <2>2 DEF Frame, AuthenticFrames, Frames, Authentic, Forms,
       WireTypes, PktTypes, DevMac
<1> QED
  BY <1>2, <1>3, <1>4, <1>5, <1>6

(* Every action of the device.                                             *)
LEMMA DeviceStepInv ==
  ASSUME IInv, DeviceStep
  PROVE  IInv'
<1>1. /\ UNCHANGED <<conVars, faults, reloads>>
      /\ faults \in 0 .. MaxFaults /\ reloads \in 0 .. MaxReloads
      /\ keyring \in [Serials -> LTKeys \cup {NULL}]
  BY DEF DeviceStep, Device, IInv, TypeOK
<1>2. /\ toHost \in Seq(AuthenticFrames) /\ Len(toHost) <= LinkCap
      /\ toDev \in Seq(Commands) /\ Len(toDev) <= CmdCap
      /\ DevTypeOK /\ (dev_key # ZeroKey => dev_key[1] = DevLTKey)
  BY DEF IInv, TypeOK
<1>3. LinkCap \in Nat /\ CmdCap \in Nat /\ MaxSeq \in Nat
      /\ NonceMod \in Nat \ {0}
  BY WireAssumption
<1>4. ASSUME NEW f \in AuthenticFrames, send(f)
      PROVE  toHost' \in Seq(AuthenticFrames) /\ Len(toHost') <= LinkCap
  BY <1>2, <1>3, <1>4, AppendType DEF send, room
<1>5. ASSUME toDev # <<>>, toDev' = Tail(toDev)
      PROVE  /\ toDev' \in Seq(Commands) /\ Len(toDev') <= CmdCap
             /\ Head(toDev) \in Commands
  BY <1>2, <1>3, <1>5, TailType
<1>6. ASSUME toDev' \in Seq(Commands), Len(toDev') <= CmdCap,
             toHost' \in Seq(AuthenticFrames), Len(toHost') <= LinkCap,
             DevTypeOK', dev_key' # ZeroKey => dev_key'[1] = DevLTKey
      PROVE  IInv'
  BY <1>1, <1>6, LinkStepInv DEF conVars
<1>7. ASSUME UNCHANGED devVars
      PROVE  DevTypeOK' /\ (dev_key' # ZeroKey => dev_key'[1] = DevLTKey)
  BY <1>2, <1>7 DEF devVars, DevTypeOK
<1>8. CASE DevReset
  <2>1. DevTypeOK' /\ dev_key' = ZeroKey
    BY <1>2, <1>3, <1>8 DEF DevReset, DevTypeOK, Keys
  <2> QED
    BY <1>4, <1>5, <1>6, <1>8, <2>1, DeviceFrames DEF DevReset
<1>9. CASE DevRekey
  <2>1. Head(toDev) \in Commands
    BY <1>5, <1>9 DEF DevRekey
  <2>2. Head(toDev).nonce \in Nonces \cup {NonceMod} /\ Head(toDev).len \in Nat
    BY <2>1 DEF Commands, NonceLen, ShortLen
  <2>3. dev_key' = <<DevLTKey, dev_nonces, Head(toDev).nonce>> /\ dev_seq' = 0
        /\ dev_nonces' = (dev_nonces + 1) % NonceMod
    BY <1>9 DEF DevRekey
  <2>4. dev_key' \in SessionKeys /\ dev_key'[1] = DevLTKey
    BY <1>2, <2>2, <2>3, DeviceAssumption DEF SessionKeys, DevTypeOK
  <2>5. dev_nonces' \in Nonces
    BY <1>2, <1>3, <2>3 DEF Nonces, DevTypeOK
  <2>6. DevTypeOK'
    BY <1>3, <2>3, <2>4, <2>5 DEF DevTypeOK, Keys
  <2>7. toHost' \in Seq(AuthenticFrames) /\ Len(toHost') <= LinkCap
    BY <1>4, <1>9, <2>2, DeviceFrames DEF DevRekey
  <2> QED
    BY <1>5, <1>6, <1>9, <2>4, <2>6, <2>7 DEF DevRekey
<1>10. CASE DevGoneBad
  <2>1. toHost' \in Seq(AuthenticFrames) /\ Len(toHost') <= LinkCap
    BY <1>4, <1>10, DeviceFrames DEF DevGoneBad, WireTypes
  <2> QED
    BY <1>5, <1>6, <1>7, <1>10, <2>1 DEF DevGoneBad
<1>11. CASE DevWarn
  <2>1. toHost' \in Seq(AuthenticFrames) /\ Len(toHost') <= LinkCap
    BY <1>4, <1>11, DeviceFrames DEF DevWarn, WireTypes, PktTypes
  <2> QED
    BY <1>5, <1>6, <1>7, <1>11, <2>1 DEF DevWarn
<1>12. CASE DevKeyReq
  <2>1. toHost' \in Seq(AuthenticFrames) /\ Len(toHost') <= LinkCap
    BY <1>4, <1>12, DeviceFrames DEF DevKeyReq, WireTypes, PktTypes
  <2> QED
    BY <1>2, <1>6, <1>7, <1>12, <2>1 DEF DevKeyReq
<1>13. CASE DevEntropy
  <2>1. toHost' \in Seq(AuthenticFrames) /\ Len(toHost') <= LinkCap
    BY <1>4, <1>13, DeviceFrames DEF DevEntropy
  <2>2. DevTypeOK' /\ dev_key' = dev_key /\ toDev' = toDev
    BY <1>2, <1>3, <1>13 DEF DevEntropy, DevTypeOK
  <2> QED
    BY <1>2, <1>6, <2>1, <2>2
<1>14. ASSUME NEW m \in InfoModes, DevInfo(m)
       PROVE  IInv'
  <2>1. toHost' \in Seq(AuthenticFrames) /\ Len(toHost') <= LinkCap
    BY <1>4, <1>14, DeviceFrames DEF DevInfo
  <2> QED
    BY <1>2, <1>6, <1>7, <1>14, <2>1 DEF DevInfo
<1> QED
  BY <1>8, <1>9, <1>10, <1>11, <1>12, <1>13, <1>14
     DEF DeviceStep, DevNext, DevCommand

(* Whatever is lost or damaged, what still verifies is authentic.          *)
LEMMA FaultStepInv ==
  ASSUME IInv, LoseFrame \/ DamageFrame \/ LoseCommand \/ DamageCommand
  PROVE  IInv'
<1>1. /\ toHost \in Seq(AuthenticFrames) /\ Len(toHost) <= LinkCap
      /\ toDev \in Seq(Commands) /\ Len(toDev) <= CmdCap
      /\ keyring \in [Serials -> LTKeys \cup {NULL}]
      /\ DevTypeOK /\ (dev_key # ZeroKey => dev_key[1] = DevLTKey)
      /\ faults \in 0 .. MaxFaults /\ reloads \in 0 .. MaxReloads
  BY DEF IInv, TypeOK
<1>2. LinkCap \in Nat /\ CmdCap \in Nat /\ MaxFaults \in Nat
  BY WireAssumption, SessionAssumption
<1>3. /\ UNCHANGED <<conVars, devVars, reloads>>
      /\ faults' \in 0 .. MaxFaults
  <2>1. fault
    BY DEF LoseFrame, DamageFrame, LoseCommand, DamageCommand
  <2>2. conVars' = conVars /\ devVars' = devVars /\ reloads' = reloads
    <3>1. CASE LoseFrame
      BY <3>1 DEF LoseFrame
    <3>2. CASE DamageFrame
      BY <3>2 DEF DamageFrame
    <3>3. CASE LoseCommand
      BY <3>3 DEF LoseCommand
    <3>4. CASE DamageCommand
      BY <3>4 DEF DamageCommand
    <3> QED
      BY <3>1, <3>2, <3>3, <3>4
  <2> QED
    BY <1>1, <1>2, <2>1, <2>2 DEF fault
<1>4. ASSUME toDev' \in Seq(Commands), Len(toDev') <= CmdCap,
             toHost' \in Seq(AuthenticFrames), Len(toHost') <= LinkCap
      PROVE  IInv'
  BY <1>1, <1>3, <1>4, LinkStepInv DEF conVars, devVars, DevTypeOK
<1>5. CASE LoseFrame
  BY <1>1, <1>2, <1>4, <1>5, TailType DEF LoseFrame
<1>6. CASE LoseCommand
  BY <1>1, <1>2, <1>4, <1>6, TailType DEF LoseCommand
<1>7. CASE DamageFrame
  <2>1. PICK t \in WireTypes, f \in Forms, s \in Serials \cup {NULL} :
          toHost' = <<[Frame(t, BadMac, 0) EXCEPT !.form = f, !.serial = s]>>
                      \o Tail(toHost)
    BY <1>7 DEF DamageFrame
  <2>2. [Frame(t, BadMac, 0) EXCEPT !.form = f, !.serial = s]
          \in AuthenticFrames
    BY DEF AuthenticFrames, Frames, Authentic, Frame
  <2>3. toHost # <<>> /\ UNCHANGED toDev
    BY <1>7 DEF DamageFrame
  <2> QED
    BY <1>1, <1>2, <1>4, <2>1, <2>2, <2>3, ReplaceHeadType
<1>8. CASE DamageCommand
  <2>1. PICK c \in {Unknown} \cup
                   [cmd : {"key"}, nonce : {NonceMod}, len : {NonceLen, ShortLen}] :
          toDev' = <<c>> \o Tail(toDev)
    BY <1>8 DEF DamageCommand
  <2>2. c \in Commands
    BY CommandTypes DEF Commands
  <2>3. toDev # <<>> /\ UNCHANGED toHost
    BY <1>8 DEF DamageCommand
  <2> QED
    BY <1>1, <1>2, <1>4, <2>1, <2>2, <2>3, ReplaceHeadType
<1> QED
  BY <1>5, <1>6, <1>7, <1>8

(* The keyring is replaced under the connection, which keeps its key.      *)
LEMMA ReloadInv ==
  ASSUME IInv, Reload
  PROVE  IInv'
<1>1. keyring' \in [Serials -> LTKeys \cup {NULL}]
  BY SessionAssumption DEF Reload, read_keyring
<1>2. reloads' \in 0 .. MaxReloads
  BY SessionAssumption DEF Reload, IInv, TypeOK
<1> QED
  BY <1>1, <1>2, LinkStepInv
     DEF Reload, read_keyring, devVars, IInv, TypeOK, DevTypeOK

(* The device is unplugged.                                                *)
LEMMA EofInv ==
  ASSUME IInv, HostEof
  PROVE  IInv'
<1>1. TypeOK'
  BY DEF HostEof, econ_run_eof, close_connection, IInv, TypeOK, DevTypeOK,
     devVars, States
<1>2. KeysAgree' /\ Progress' /\ EntropyIntact' /\ Trusted'
  BY DEF HostEof, econ_run_eof, close_connection, IInv, KeysAgree, Progress,
     EntropyIntact, Trusted, Keyed
<1> QED
  BY <1>1, <1>2 DEF IInv, HostEof, econ_run_eof, devVars

(* A connection just opened, on a fresh device or a busy one.              *)
LEMMA InitInv == Init => IInv
<1> SUFFICES ASSUME Init PROVE IInv
  OBVIOUS
<1> USE DEF Init, econ_open
<1>1. dev_key \in Keys /\ (dev_key # ZeroKey => dev_key[1] = DevLTKey)
  BY SessionAssumption
<1>2. DevTypeOK
  BY <1>1, WireAssumption DEF DevTypeOK, Nonces
<1>3. SerialFrame \in AuthenticFrames
  BY DeviceAssumption
     DEF SerialFrame, Frame, AuthenticFrames, Frames, Authentic, WireTypes,
         PktTypes, Forms, MacKeys, Keys
<1>4. toHost \in Seq(AuthenticFrames) /\ Len(toHost) <= LinkCap
  <2>1. toHost = <<>> \/ toHost = <<SerialFrame>>
    OBVIOUS
  <2>2. CASE toHost = <<>>
    BY <2>2, WireAssumption
  <2>3. CASE toHost = <<SerialFrame>>
    <3>1. toHost \in Seq(AuthenticFrames) /\ Len(toHost) = 1
      BY <1>3, <2>3
    <3> QED
      BY <3>1, WireAssumption
  <2> QED
    BY <2>1, <2>2, <2>3
<1>5. toHost \in Seq(Frames)
  BY <1>4 DEF AuthenticFrames
<1>6. out \in Seq(Blocks \cup {Garbage}) /\ Len(out) <= 2
  OBVIOUS
<1>7. toDev \in Seq(Commands) /\ Len(toDev) <= CmdCap
  BY WireAssumption
<1>8. TypeOK
  BY <1>2, <1>4, <1>5, <1>6, <1>7, WireAssumption, SessionAssumption
     DEF TypeOK, States, Nonces
<1>9. KeysAgree /\ Progress /\ EntropyIntact /\ Trusted
  BY DEF KeysAgree, Progress, EntropyIntact, Trusted, Keyed
<1> QED
  BY <1>1, <1>4, <1>8, <1>9 DEF IInv

(* IInv is inductive.                                                      *)
LEMMA StepInv == IInv /\ [Next]_vars => IInv'
<1> SUFFICES ASSUME IInv, [Next]_vars PROVE IInv'
  OBVIOUS
<1>1. CASE UNCHANGED vars
  BY <1>1 DEF vars, conVars, devVars, IInv, TypeOK, DevTypeOK, KeysAgree,
     Progress, EntropyIntact, Trusted
<1>2. CASE Next
  BY <1>2, HostStepInv, EofInv, ReloadInv, DeviceStepInv, FaultStepInv
     DEF Next
<1> QED
  BY <1>1, <1>2

-----------------------------------------------------------------------------
(* The theorems *)

(* IInv is an invariant: the strengthening the theorems below rest on.     *)
THEOREM Invariant == Spec => []IInv
BY InitInv, StepInv, PTL DEF Spec

(* Type correctness of the connection, the device and their links.         *)
THEOREM TypeCorrect == Spec => []TypeOK
<1>1. IInv => TypeOK
  BY DEF IInv
<1> QED
  BY <1>1, Invariant, PTL

(* Nothing but entropy the device generated is written to the output.      *)
THEOREM OutputIntact == Spec => []EntropyIntact
<1>1. IInv => EntropyIntact
  BY DEF IInv
<1> QED
  BY <1>1, Invariant, PTL

(* A keyed connection holds the device's own serial number and long-term   *)
(* key, and is reported as what it is.                                     *)
THEOREM KeyedIsTrusted == Spec => []KeyedMeansTrusted
<1>1. KeysAgree /\ Progress => ReportTrue
  BY DEF KeysAgree, Progress, ReportTrue, l_query_ekey, query_ekey_status, Keyed
<1>2. IInv => KeyedMeansTrusted
  BY <1>1 DEF IInv, KeyedMeansTrusted
<1> QED
  BY <1>2, Invariant, PTL

-----------------------------------------------------------------------------
(* Keying under the right long-term key: while nothing is lost, what is on *)
(* the links follows the dialogue of host and device.                      *)

(* What is asked of the environment, besides that nothing is lost: the key *)
(* answers before it speaks again, stays plugged in and its generators and *)
(* the nonce source work, and no other key's serial number is configured.  *)
Faultless ==
  /\ Prompt /\ ~GoesBad /\ ~Unplugged
  /\ Configured \subseteq {NULL, DevSerial}
  /\ NonceResults \subseteq {TRUE}

(* Every frame on its way is one econ_run can read, and names no serial    *)
(* number but the device's; the host knows no other.                       *)
Readable ==
  /\ \A i \in DOMAIN toHost :
       ~unreadable(toHost[i]) /\ toHost[i].serial \in {NULL, DevSerial}
  /\ snum \in {NULL, DevSerial}

(* A key request travels alone, from a device that has nothing else to say.*)
Spent == dev_key = ZeroKey \/ dev_seq > MaxSeq

Lone ==
  \A i \in DOMAIN toHost :
    toHost[i].type = "KEYREQ" => Len(toHost) = 1 /\ toDev = <<>> /\ Spent

(* From frame n on, all frames are made under the device's session key,    *)
(* and the entropy frame of the last sequence number is the last.          *)
Current(n) ==
  \A i \in DOMAIN toHost :
    i >= n =>
      /\ toHost[i].mac = DevMac
      /\ toHost[i].type = "ENTROPY" /\ toHost[i].sub = MaxSeq =>
           i = Len(toHost) /\ Spent

(* A keying command is on its way to a device that says nothing, or it has *)
(* been answered and what follows the answer is made under the new key.    *)
Answering ==
  current_state = "SESSION_SENT" =>
    \/ toDev = <<KeyCmd(nonce)>> /\ toHost = <<>> /\ Spent
    \/ /\ toDev = <<>> /\ toHost # <<>>
       /\ Head(toHost).type = "KEY"
       /\ dev_key = <<DevLTKey, Head(toHost).devnonce, nonce>>
       /\ Current(2)

(* Under the right long-term key, host and device agree on the key.        *)
InTune ==
  current_state \in Keyed /\ ltkey = DevLTKey =>
    sk_mac = DevMac /\ toDev = <<>> /\ Current(1)

Parked ==
  current_state \in {"KEYED_BAD", "UNTRUSTED", "CLOSE"} => ltkey # DevLTKey

Keying == faults = 0 => Readable /\ Lone /\ Answering /\ InTune /\ Parked

-----------------------------------------------------------------------------
(* Facts the keying steps share *)

(* The rows of the dispatch table, by handler.                             *)
LEMMA HandlerRows ==
  ASSUME NEW s \in States, NEW t, NEW h, pkt_handlers(s, t, h)
  PROVE  /\ h = "null" => s \in {"CLOSE", "UNTRUSTED", "KEYED_BAD"}
         /\ h = "badkey" => s = "KEYED_FIRST" /\ t = "KEYREJECTED"
         /\ h = "badkey_count" => s = "KEYED_BAD"
         /\ h = "info" => s \in Keyed \cup {"SESSION", "SESSION_SENT"} /\ t = "INFO"
         /\ h = "keyreq" => s \in {"SESSION", "KEYED"} /\ t = "KEYREQ"
         /\ h = "keyreq_count" => s = "SESSION_SENT" /\ t = "KEYREQ"
BY DEF pkt_handlers, set_handlers, default_handler_for, Keyed

(* The elements of a sequence with one more at the end.                    *)
LEMMA Appended ==
  ASSUME NEW S, NEW q \in Seq(S), NEW e \in S
  PROVE  /\ Len(Append(q, e)) = Len(q) + 1
         /\ DOMAIN Append(q, e) = 1 .. Len(q) + 1
         /\ \A i \in 1 .. Len(q) : Append(q, e)[i] = q[i]
         /\ Append(q, e)[Len(q) + 1] = e
OBVIOUS

(* The elements of a sequence whose first is taken.                        *)
LEMMA Taken ==
  ASSUME NEW S, NEW q \in Seq(S), q # <<>>
  PROVE  /\ Len(q) \in Nat \ {0} /\ DOMAIN q = 1 .. Len(q)
         /\ Head(q) = q[1] /\ Tail(q) \in Seq(S)
         /\ Len(Tail(q)) = Len(q) - 1
         /\ DOMAIN Tail(q) = 1 .. Len(q) - 1
         /\ \A i \in 1 .. Len(q) - 1 : Tail(q)[i] = q[i + 1]
OBVIOUS

(* Taking a frame leaves those behind it as they were: readable, without a *)
(* key request, and current if they were.                                  *)
LEMMA FramesBehind ==
  ASSUME NEW p, Handling(p), Keying, faults = 0
  PROVE  /\ \A i \in DOMAIN toHost' :
              /\ ~unreadable(toHost'[i]) /\ toHost'[i].serial \in {NULL, DevSerial}
              /\ toHost'[i].type # "KEYREQ"
         /\ ~unreadable(p) /\ p.serial \in {NULL, DevSerial}
         /\ p.type = "KEYREQ" => toHost' = <<>> /\ toDev = <<>> /\ Spent
         /\ Current(1) => Current(1)' /\ p.mac = DevMac
         /\ Current(2) => Current(1)'
         /\ Current(1) /\ p.type = "ENTROPY" /\ p.sub = MaxSeq =>
              toHost' = <<>> /\ Spent
         /\ Spent' = Spent
<1>1. toHost \in Seq(AuthenticFrames) /\ toHost # <<>>
      /\ toHost' = Tail(toHost) /\ p = Head(toHost)
      /\ dev_key' = dev_key /\ dev_seq' = dev_seq
  BY DEF Handling, IInv, devVars
<1> DEFINE n == Len(toHost)
<1>2. /\ n \in Nat \ {0} /\ DOMAIN toHost = 1 .. n /\ p = toHost[1]
      /\ toHost' \in Seq(AuthenticFrames) /\ Len(toHost') = n - 1
      /\ DOMAIN toHost' = 1 .. n - 1
      /\ \A i \in 1 .. n - 1 : toHost'[i] = toHost[i + 1]
  BY <1>1, Taken
<1>3. Readable /\ Lone
  BY DEF Keying
<1>4. Spent' = Spent /\ DevMac' = DevMac
  BY <1>1 DEF Spent, DevMac
<1>5. 1 \in DOMAIN toHost /\ (n = 1 => toHost' = <<>>)
  BY <1>2
<1>6. ASSUME NEW i \in DOMAIN toHost'
      PROVE  i \in 1 .. n - 1 /\ i + 1 \in DOMAIN toHost /\ i + 1 # 1
             /\ i + 1 >= 2 /\ n # 1 /\ toHost'[i] = toHost[i + 1]
  BY <1>2
<1>7. \A i \in DOMAIN toHost' :
        /\ ~unreadable(toHost'[i]) /\ toHost'[i].serial \in {NULL, DevSerial}
        /\ toHost'[i].type # "KEYREQ"
  BY <1>3, <1>6 DEF Readable, Lone
<1>8. ~unreadable(p) /\ p.serial \in {NULL, DevSerial}
  BY <1>2, <1>3, <1>5 DEF Readable
<1>9. p.type = "KEYREQ" => toHost' = <<>> /\ toDev = <<>> /\ Spent
  BY <1>2, <1>3, <1>5 DEF Lone
<1>10. ASSUME Current(2) PROVE Current(1)'
  <2>1. ASSUME NEW i \in DOMAIN toHost', i >= 1
        PROVE  /\ toHost'[i].mac = DevMac
               /\ toHost'[i].type = "ENTROPY" /\ toHost'[i].sub = MaxSeq =>
                    i = Len(toHost') /\ Spent
    BY <1>2, <1>6, <1>10, <2>1 DEF Current
  <2> QED
    BY <1>4, <2>1 DEF Current
<1>11. ASSUME Current(1)
       PROVE  Current(2) /\ p.mac = DevMac
              /\ (p.type = "ENTROPY" /\ p.sub = MaxSeq => n = 1 /\ Spent)
  BY <1>2, <1>5, <1>11 DEF Current
<1> QED
  BY <1>4, <1>5, <1>7, <1>8, <1>9, <1>10, <1>11

(* What a handler leaves to prove.                                         *)
LEMMA KeyingHandled ==
  ASSUME NEW p, Handling(p), Keying, faults = 0,
         snum' \in {NULL, DevSerial}, Answering', InTune', Parked'
  PROVE  Keying'
<1>1. Readable' /\ Lone'
  BY FramesBehind DEF Readable, Lone
<1> QED
  BY <1>1 DEF Keying

(* Back to INIT, or in a state that ignores everything but key requests.   *)
LEMMA KeyingAside ==
  ASSUME NEW p, Handling(p), Keying, faults = 0, UNCHANGED <<snum, ltkey>>,
         \/ current_state' = "INIT"
         \/ /\ current_state' \in {"KEYED_BAD", "UNTRUSTED", "CLOSE"}
            /\ ltkey # DevLTKey
  PROVE  Keying'
<1>1. snum' \in {NULL, DevSerial}
  BY DEF Keying, Readable
<1>2. Answering' /\ InTune' /\ Parked'
  BY DEF Answering, InTune, Parked, Keyed
<1> QED
  BY <1>1, <1>2, KeyingHandled

(* A keying command written to a device that says nothing.                 *)
LEMMA KeyingAsked ==
  ASSUME NEW p, NEW ok, Handling(p), Keying, faults = 0, Faultless,
         ok \in NonceResults, keyreq(ok), UNCHANGED <<snum, ltkey>>,
         toHost' = <<>>, toDev = <<>>, Spent
  PROVE  Keying'
<1>1. snum' \in {NULL, DevSerial} /\ Spent'
  BY FramesBehind DEF Keying, Readable
<1>2. ok
  BY DEF Faultless
<1>3. /\ current_state' = "SESSION_SENT" /\ nonce' = con_nonces
      /\ toDev' = Append(<<>>, KeyCmd(con_nonces))
  BY <1>2 DEF keyreq, estream_write
<1>4. toDev' = <<KeyCmd(nonce')>>
  BY <1>3
<1>5. Answering' /\ InTune' /\ Parked'
  BY <1>1, <1>3, <1>4 DEF Answering, InTune, Parked, Keyed, KeyCmd
<1> QED
  BY <1>1, <1>5, KeyingHandled

-----------------------------------------------------------------------------
(* One frame handled *)

(* Under the right long-term key no frame is rejected while keyed.         *)
LEMMA NoneRejected ==
  ASSUME NEW p, Handling(p), Keying, faults = 0, current_state \in Keyed,
         ltkey = DevLTKey
  PROVE  pkt_type(p) # "KEYREJECTED"
<1>1. sk_mac = DevMac /\ p.mac = DevMac
  BY FramesBehind DEF Keying, InTune
<1>2. DevMac \in MacKeys /\ sk_mac # NULL
  BY <1>1, DeviceAssumption, DistinctAssumption
     DEF DevMac, MacKeys, Handling, IInv, TypeOK, DevTypeOK
<1>3. p.type # "KEYREJECTED"
  BY HandledFrame DEF Frames, WireTypes
<1> QED
  BY <1>1, <1>2, <1>3 DEF pkt_type, verified, verify_mac

(* While the host waits for the answer to a keying command, the next frame *)
(* is that answer.                                                         *)
LEMMA AnswerNext ==
  ASSUME NEW p, Handling(p), Keying, faults = 0, current_state = "SESSION_SENT"
  PROVE  /\ toDev = <<>> /\ p.type = "KEY" /\ Current(2)
         /\ dev_key = <<DevLTKey, p.devnonce, nonce>>
BY DEF Handling, Keying, Answering

(* An information frame.                                                   *)
LEMMA KeyingInfo ==
  ASSUME NEW p, Handling(p), Keying, faults = 0, info_pkt_handler(p),
         current_state \in Keyed \cup {"SESSION", "SESSION_SENT"},
         pkt_type(p) = "INFO"
  PROVE  Keying'
<1>1. current_state # "SESSION_SENT"
  BY AnswerNext, VerifiedMac DEF Handling, IInv, TypeOK
<1>2. UNCHANGED <<current_state, snum, sk_mac, ltkey, toDev, dev_key>>
  BY DEF info_pkt_handler, Handling, devVars
<1>3. snum' \in {NULL, DevSerial} /\ Parked'
  BY <1>2 DEF Keying, Readable, Parked
<1>4. InTune' /\ Answering'
  BY <1>1, <1>2, FramesBehind DEF Keying, InTune, Answering, DevMac
<1> QED
  BY <1>3, <1>4, KeyingHandled

(* The answer to the keying command.                                       *)
LEMMA KeyingKey ==
  ASSUME NEW p, Handling(p), Keying, faults = 0, key_pkt_handler(p),
         current_state = "SESSION_SENT"
  PROVE  Keying'
<1>1. CASE p.sub # NonceLen
  BY <1>1, KeyingAside DEF key_pkt_handler, reset_pkt_handler
<1>2. CASE p.sub = NonceLen
  <2>1. /\ session_state' = <<ltkey, p.devnonce, nonce>>
        /\ sk_mac' = epkt_setsessionkey(snum, session_state')
        /\ current_state' = "KEYED_FIRST"
        /\ UNCHANGED <<snum, ltkey, toDev, dev_key>>
    BY <1>2 DEF key_pkt_handler, Handling, devVars
  <2>2. snum = DevSerial
    BY DEF Keying, Readable, Handling, IInv, Progress
  <2>3. snum # NULL
    BY DEF Handling, IInv, Progress
  <2>4. ltkey = DevLTKey => sk_mac' = DevMac'
    BY <2>1, <2>2, <2>3, AnswerNext DEF epkt_setsessionkey, DevMac
  <2>5. InTune'
    BY <2>1, <2>4, AnswerNext, FramesBehind DEF InTune
  <2>6. Answering' /\ Parked' /\ snum' \in {NULL, DevSerial}
    BY <2>1, <2>2 DEF Answering, Parked
  <2> QED
    BY <2>5, <2>6, KeyingHandled
<1> QED
  BY <1>1, <1>2

(* An entropy frame, the last of its session or not.                       *)
LEMMA KeyingEntropy ==
  ASSUME NEW p, NEW ok, Handling(p), Keying, faults = 0, Faultless,
         ok \in NonceResults, entropy_pkt_handler(p, ok),
         current_state \in Keyed, pkt_type(p) = "ENTROPY"
  PROVE  Keying'
<1>1. ltkey = DevLTKey /\ p.type = "ENTROPY"
  BY VerifiedEntropy
<1>2. sk_mac = DevMac /\ toDev = <<>> /\ Current(1)
  BY <1>1 DEF Keying, InTune
<1>3. UNCHANGED <<snum, ltkey, sk_mac, dev_key>>
  BY DEF entropy_pkt_handler, Handling, devVars
<1>4. CASE p.sub = MaxSeq
  <2>1. toHost' = <<>> /\ Spent
    BY <1>1, <1>2, <1>4, FramesBehind
  <2>2. keyreq(ok)
    BY <1>4 DEF entropy_pkt_handler
  <2> QED
    BY <1>2, <1>3, <2>1, <2>2, KeyingAsked
<1>5. CASE p.sub # MaxSeq
  <2>1. current_state' = "KEYED" /\ UNCHANGED toDev
    BY <1>5 DEF entropy_pkt_handler
  <2>2. InTune'
    BY <1>2, <1>3, <2>1, FramesBehind DEF InTune, DevMac
  <2>3. Answering' /\ Parked' /\ snum' \in {NULL, DevSerial}
    BY <1>3, <2>1 DEF Answering, Parked, Keying, Readable
  <2> QED
    BY <2>2, <2>3, KeyingHandled
<1> QED
  BY <1>4, <1>5

(* A serial number: the device's own, with or without a long-term key.     *)
LEMMA KeyingSnum ==
  ASSUME NEW p, Handling(p), Keying, faults = 0, snum_pkt_handler(p)
  PROVE  Keying'
<1>1. p.serial \in {NULL, DevSerial} /\ snum \in {NULL, DevSerial}
  BY FramesBehind DEF Keying, Readable
<1>2. CASE p.serial = NULL
  BY <1>2, KeyingAside DEF snum_pkt_handler, reset_pkt_handler
<1>3. CASE p.serial # NULL
  <2>1. /\ snum' = p.serial
        /\ current_state' = IF ltkey' = NULL THEN "UNTRUSTED" ELSE "SESSION"
    BY <1>1, <1>3 DEF snum_pkt_handler
  <2>2. DevLTKey # NULL
    BY DeviceAssumption, DistinctAssumption
  <2>3. Answering' /\ InTune' /\ Parked' /\ snum' \in {NULL, DevSerial}
    BY <1>1, <2>1, <2>2 DEF Answering, InTune, Parked, Keyed
  <2> QED
    BY <2>3, KeyingHandled
<1> QED
  BY <1>2, <1>3

(* Whatever entry of the table the frame selects.                          *)
LEMMA KeyingDispatch ==
  ASSUME NEW p, NEW ok, Handling(p), Keying, faults = 0, Faultless,
         ok \in NonceResults, dispatch(p, ok)
  PROVE  Keying'
<1> DEFINE Is(h) == pkt_handlers(current_state, pkt_type(p), h)
<1>1. current_state \in States /\ sk_mac \in MacKeys \cup {NULL}
  BY DEF Handling, IInv, TypeOK
<1>2. Parked
  BY DEF Keying
<1>3. CASE Is("null") /\ null_pkt_handler(p)
  <2>1. current_state' \in {"CLOSE", "UNTRUSTED", "KEYED_BAD"}
        /\ UNCHANGED <<snum, ltkey>> /\ ltkey # DevLTKey
    BY <1>1, <1>2, <1>3, HandlerRows DEF null_pkt_handler, Parked
  <2> QED
    BY <2>1, KeyingAside
<1>4. CASE Is("reset") /\ reset_pkt_handler(p)
  BY <1>4, KeyingAside DEF reset_pkt_handler
<1>5. CASE Is("badkey") /\ badkey_pkt_handler(p)
  <2>1. current_state \in Keyed /\ pkt_type(p) = "KEYREJECTED"
    BY <1>1, <1>5, HandlerRows DEF Keyed
  <2>2. ltkey # DevLTKey
    BY <2>1, NoneRejected
  <2> QED
    BY <1>5, <2>2, KeyingAside DEF badkey_pkt_handler
<1>6. CASE Is("badkey_count") /\ badkey_count_pkt_handler(p)
  <2>1. current_state = "KEYED_BAD"
    BY <1>1, <1>6, HandlerRows
  <2> QED
    BY <1>2, <1>6, <2>1, KeyingAside DEF badkey_count_pkt_handler, Parked
<1>7. CASE Is("info") /\ info_pkt_handler(p)
  BY <1>1, <1>7, HandlerRows, KeyingInfo
<1>8. CASE Is("keyreq") /\ keyreq_pkt_handler(p, ok)
  <2>1. p.type = "KEYREQ"
    BY <1>1, <1>8, HandlerRows, VerifiedMac
  <2> QED
    BY <1>8, <2>1, FramesBehind, KeyingAsked DEF keyreq_pkt_handler
<1>9. CASE Is("keyreq_count") /\ keyreq_count_pkt_handler(p)
  <2>1. current_state = "SESSION_SENT" /\ p.type = "KEYREQ"
    BY <1>1, <1>9, HandlerRows, VerifiedMac
  <2> QED
    BY <2>1, AnswerNext
<1>10. CASE Is("key") /\ key_pkt_handler(p)
  BY <1>1, <1>10, TableFacts, KeyingKey
<1>11. CASE Is("entropy") /\ entropy_pkt_handler(p, ok)
  BY <1>1, <1>11, TableFacts, KeyingEntropy
<1>12. CASE Is("snum") /\ snum_pkt_handler(p)
  BY <1>12, KeyingSnum
<1> QED
  BY <1>3, <1>4, <1>5, <1>6, <1>7, <1>8, <1>9, <1>10, <1>11, <1>12
     DEF dispatch

(* econ_run: every frame can be read.                                      *)
LEMMA KeyingHost ==
  ASSUME NEW ok, IInv, Keying, faults = 0, Faultless, ok \in NonceResults,
         HostStep(ok)
  PROVE  Keying'
<1> DEFINE p == Head(toHost)
<1>1. /\ toHost # <<>> /\ toHost' = Tail(toHost)
      /\ UNCHANGED <<keyring, devVars, faults, reloads>>
      /\ unreadable(p) \/ dispatch(p, ok)
  BY DEF HostStep, econ_run, close_connection
<1>2. Handling(p)
  BY <1>1 DEF Handling
<1> QED
  BY <1>1, <1>2, FramesBehind, KeyingDispatch

-----------------------------------------------------------------------------
(* The device *)

(* A frame sent behind the others.                                         *)
LEMMA FrameSent ==
  ASSUME NEW f \in AuthenticFrames, IInv, toHost' = Append(toHost, f)
  PROVE  /\ Len(toHost) \in Nat /\ Len(toHost') = Len(toHost) + 1
         /\ DOMAIN toHost = 1 .. Len(toHost)
         /\ DOMAIN toHost' = 1 .. Len(toHost) + 1
         /\ \A i \in 1 .. Len(toHost) : toHost'[i] = toHost[i]
         /\ toHost'[Len(toHost) + 1] = f
         /\ toHost # <<>> => Head(toHost') = Head(toHost)
BY Appended DEF IInv

(* A frame the host can read, from a host that does not change.            *)
LEMMA KeyingSent ==
  ASSUME NEW f \in AuthenticFrames, IInv, Keying, faults = 0,
         toHost' = Append(toHost, f), UNCHANGED <<conVars, faults>>,
         ~unreadable(f), f.serial \in {NULL, DevSerial},
         Lone', Answering', InTune'
  PROVE  Keying'
<1>1. Readable'
  BY FrameSent DEF Keying, Readable, conVars
<1>2. Parked'
  BY DEF Keying, Parked, conVars
<1> QED
  BY <1>1, <1>2 DEF Keying

(* The host waits for nothing while a command other than a keying command  *)
(* is on its way.                                                          *)
LEMMA CommandPending ==
  ASSUME IInv, Keying, faults = 0, toDev # <<>>
  PROVE  /\ ~(current_state \in Keyed /\ ltkey = DevLTKey)
         /\ \A i \in DOMAIN toHost : toHost[i].type # "KEYREQ"
         /\ current_state = "SESSION_SENT" =>
              /\ toDev = <<KeyCmd(nonce)>> /\ toHost = <<>>
              /\ Head(toDev).cmd = "key" /\ Tail(toDev) = <<>>
              /\ Head(toDev).nonce = nonce
<1>1. KeyCmd(nonce).cmd = "key" /\ KeyCmd(nonce).nonce = nonce
  BY DEF KeyCmd
<1>2. current_state = "SESSION_SENT" => toDev = <<KeyCmd(nonce)>> /\ toHost = <<>>
  BY DEF Keying, Answering
<1>3. toDev = <<KeyCmd(nonce)>> => Head(toDev) = KeyCmd(nonce) /\ Tail(toDev) = <<>>
  OBVIOUS
<1>4. ~(current_state \in Keyed /\ ltkey = DevLTKey)
      /\ \A i \in DOMAIN toHost : toHost[i].type # "KEYREQ"
  BY DEF Keying, Lone, InTune
<1> QED
  BY <1>1, <1>2, <1>3, <1>4

(* The answers to a reset and to a command that is not understood.         *)
LEMMA KeyingAnswered ==
  ASSUME NEW f \in AuthenticFrames, IInv, Keying, faults = 0,
         toDev # <<>>, Head(toDev).cmd # "key",
         toHost' = Append(toHost, f), UNCHANGED <<conVars, faults>>,
         ~unreadable(f), f.serial \in {NULL, DevSerial}, f.type # "KEYREQ"
  PROVE  Keying'
<1>1. Lone'
  BY CommandPending, FrameSent DEF Lone
<1>2. Answering' /\ InTune'
  BY CommandPending DEF Answering, InTune, conVars
<1> QED
  BY <1>1, <1>2, KeyingSent

(* A slow frame: the links are empty.                                      *)
LEMMA KeyingSlow ==
  ASSUME NEW f \in AuthenticFrames, IInv, Keying, faults = 0, Faultless, slow,
         toHost' = Append(toHost, f), UNCHANGED <<conVars, devVars, toDev, faults>>,
         ~unreadable(f), f.serial = NULL, f.mac = DevMac,
         f.type # "ENTROPY", f.type = "KEYREQ" => Spent
  PROVE  Keying'
<1>1. toHost = <<>> /\ toDev = <<>>
  BY DEF slow, Faultless
<1>2. Spent' = Spent /\ DevMac' = DevMac
  BY DEF devVars, Spent, DevMac
<1>3. Len(toHost) = 0
  BY <1>1
<1>4. /\ Len(toHost') = 1 /\ DOMAIN toHost' = 1 .. 1 /\ toHost'[1] = f
  BY <1>3, FrameSent
<1>5. Lone'
  BY <1>1, <1>2, <1>4 DEF Lone
<1>6. Current(1)'
  BY <1>2, <1>4 DEF Current
<1>7. current_state # "SESSION_SENT"
  BY <1>1 DEF Keying, Answering
<1>8. Answering' /\ InTune'
  BY <1>1, <1>2, <1>6, <1>7 DEF Keying, Answering, InTune, conVars
<1> QED
  BY <1>5, <1>8, KeyingSent

(* The answer to a keying command.                                         *)
LEMMA KeyingRekey ==
  ASSUME IInv, Keying, faults = 0, DevRekey, UNCHANGED <<conVars, faults>>
  PROVE  Keying'
<1> DEFINE f == [Frame("KEY", DevMac, Head(toDev).len)
                   EXCEPT !.devnonce = dev_nonces]
<1>1. /\ toDev # <<>> /\ toDev' = Tail(toDev) /\ toHost' = Append(toHost, f)
      /\ dev_key' = <<DevLTKey, dev_nonces, Head(toDev).nonce>>
  BY DEF DevRekey, send
<1>2. Head(toDev) \in Commands
  BY <1>1 DEF IInv, TypeOK
<1>3. Head(toDev).len \in Nat
  BY <1>2 DEF Commands, NonceLen, ShortLen
<1>4. f \in AuthenticFrames
  BY <1>3, DeviceFrames
<1>5. /\ f.type = "KEY" /\ f.form = "ok" /\ f.serial = NULL
      /\ f.devnonce = dev_nonces
  BY DEF Frame
<1>6. ~unreadable(f)
  BY <1>5 DEF unreadable
<1>7. Lone'
  BY <1>1, <1>4, <1>5, CommandPending, FrameSent DEF Lone
<1>8. ASSUME current_state = "SESSION_SENT"
      PROVE  /\ toDev' = <<>> /\ toHost' # <<>> /\ Head(toHost') = f
             /\ dev_key' = <<DevLTKey, f.devnonce, nonce>>
             /\ Current(2)'
  <2>1. toHost = <<>> /\ toDev' = <<>> /\ Head(toDev).nonce = nonce
    BY <1>1, <1>8, CommandPending
  <2>2. toHost' = <<f>>
    BY <1>1, <2>1
  <2>3. Len(toHost') = 1 /\ DOMAIN toHost' = 1 .. 1 /\ Head(toHost') = f
        /\ toHost' # <<>>
    BY <2>2
  <2>4. Current(2)'
    BY <2>3 DEF Current
  <2> QED
    BY <1>1, <1>5, <2>1, <2>3, <2>4
<1>9. Answering' /\ InTune'
  BY <1>1, <1>5, <1>8, CommandPending DEF Answering, InTune, conVars
<1> QED
  BY <1>1, <1>4, <1>5, <1>6, <1>7, <1>9, KeyingSent

(* An entropy frame behind the others.                                     *)
LEMMA KeyingGenerated ==
  ASSUME IInv, Keying, faults = 0, DevEntropy, UNCHANGED <<conVars, faults>>
  PROVE  Keying'
<1> DEFINE f == [Frame("ENTROPY", DevMac, dev_seq)
                   EXCEPT !.block = [key |-> dev_key, seq |-> dev_seq]]
<1>1. /\ dev_key # ZeroKey /\ dev_seq <= MaxSeq /\ toHost' = Append(toHost, f)
      /\ dev_seq' = dev_seq + 1 /\ UNCHANGED <<dev_key, toDev>>
  BY DEF DevEntropy, send
<1>2. f \in AuthenticFrames
  BY <1>1, DeviceFrames
<1>3. /\ f.type = "ENTROPY" /\ f.form = "ok" /\ f.serial = NULL
      /\ f.mac = DevMac /\ f.sub = dev_seq
  BY DEF Frame
<1>4. ~unreadable(f)
  BY <1>3 DEF unreadable
<1>5. ~Spent /\ DevMac' = DevMac /\ (dev_seq = MaxSeq => Spent')
  <2>1. dev_seq \in Nat /\ MaxSeq \in Nat
    BY WireAssumption DEF IInv, TypeOK, DevTypeOK
  <2> QED
    BY <1>1, <2>1 DEF Spent, DevMac
<1>6. Lone'
  BY <1>2, <1>3, <1>5, <1>1, FrameSent DEF Keying, Lone
<1>7. ASSUME NEW n \in {1, 2}, Current(n)
      PROVE  Current(n)'
  <2> SUFFICES ASSUME NEW i \in DOMAIN toHost', i >= n
               PROVE  /\ toHost'[i].mac = DevMac'
                      /\ toHost'[i].type = "ENTROPY" /\ toHost'[i].sub = MaxSeq =>
                           i = Len(toHost') /\ Spent'
    BY DEF Current
  <2>1. CASE i \in 1 .. Len(toHost)
    BY <1>1, <1>2, <1>5, <1>7, <2>1, FrameSent DEF Current
  <2>2. CASE i = Len(toHost) + 1
    BY <1>1, <1>2, <1>3, <1>5, <2>2, FrameSent
  <2> QED
    BY <1>1, <1>2, <2>1, <2>2, FrameSent
<1>8. Answering'
  BY <1>1, <1>2, <1>5, <1>7, FrameSent DEF Keying, Answering, conVars
<1>9. InTune'
  BY <1>1, <1>5, <1>7 DEF Keying, InTune, conVars
<1> QED
  BY <1>1, <1>2, <1>3, <1>4, <1>6, <1>8, <1>9, KeyingSent

(* Every action of the device.                                             *)
LEMMA KeyingDevice ==
  ASSUME IInv, Keying, faults = 0, Faultless, DeviceStep
  PROVE  Keying'
<1>1. UNCHANGED <<conVars, faults>>
  BY DEF DeviceStep, Device
<1>2. CASE DevReset
  <2>1. /\ SerialFrame.type = "SNUM" /\ SerialFrame.form = "ok"
        /\ SerialFrame.serial = DevSerial
    BY DEF SerialFrame, Frame
  <2>2. ~unreadable(SerialFrame)
    BY <2>1 DEF unreadable
  <2> QED
    BY <1>1, <1>2, <2>1, <2>2, DeviceFrames, KeyingAnswered DEF DevReset, send
<1>3. CASE DevRekey
  BY <1>1, <1>3, KeyingRekey
<1>4. CASE DevGoneBad
  BY <1>4 DEF DevGoneBad, Faultless
<1>5. CASE DevWarn
  <2> DEFINE f == Frame("WARN", DevMac, 0)
  <2>1. /\ f.type = "WARN" /\ f.form = "ok" /\ f.serial = NULL
        /\ f \in AuthenticFrames
    BY DeviceFrames DEF Frame, WireTypes, PktTypes
  <2>2. ~unreadable(f)
    BY <2>1 DEF unreadable
  <2> QED
    BY <1>1, <1>5, <2>1, <2>2, KeyingAnswered DEF DevWarn, send
<1>6. CASE DevKeyReq
  <2> DEFINE f == Frame("KEYREQ", DevMac, 0)
  <2>1. /\ f.type = "KEYREQ" /\ f.form = "ok" /\ f.serial = NULL
        /\ f.mac = DevMac /\ f \in AuthenticFrames
    BY DeviceFrames DEF Frame, WireTypes, PktTypes
  <2>2. ~unreadable(f)
    BY <2>1 DEF unreadable
  <2>3. Spent /\ slow /\ toHost' = Append(toHost, f) /\ UNCHANGED <<devVars, toDev>>
    BY <1>6 DEF DevKeyReq, Spent, send
  <2> QED
    BY <1>1, <2>1, <2>2, <2>3, KeyingSlow
<1>7. CASE DevEntropy
  BY <1>1, <1>7, KeyingGenerated
<1>8. ASSUME NEW m \in InfoModes, DevInfo(m)
      PROVE  Keying'
  <2> DEFINE f == [Frame("INFO", DevMac, 0) EXCEPT !.mode = m]
  <2>1. /\ f.type = "INFO" /\ f.form = "ok" /\ f.serial = NULL
        /\ f.mac = DevMac /\ f \in AuthenticFrames
    BY DeviceFrames DEF Frame
  <2>2. ~unreadable(f)
    BY <2>1 DEF unreadable
  <2>3. slow /\ toHost' = Append(toHost, f) /\ UNCHANGED <<devVars, toDev>>
    BY <1>8 DEF DevInfo, send
  <2> QED
    BY <1>1, <2>1, <2>2, <2>3, KeyingSlow
<1> QED
  BY <1>2, <1>3, <1>4, <1>5, <1>6, <1>7, <1>8 DEF DeviceStep, DevNext, DevCommand

-----------------------------------------------------------------------------
(* Keying is inductive, on top of IInv *)

(* A connection just opened: there is a serial number frame, or none.      *)
LEMMA KeyingInit ==
  ASSUME Init, Faultless
  PROVE  Keying
<1>1. /\ snum \in {NULL, DevSerial} /\ current_state = "INIT"
      /\ toHost = <<>> \/ toHost = <<SerialFrame>>
  BY DEF Init, econ_open, Faultless
<1>2. /\ SerialFrame.type = "SNUM" /\ SerialFrame.form = "ok"
      /\ SerialFrame.serial = DevSerial
  BY DEF SerialFrame, Frame
<1>3. ~unreadable(SerialFrame)
  BY <1>2 DEF unreadable
<1>4. ASSUME NEW i \in DOMAIN toHost PROVE toHost[i] = SerialFrame
  BY <1>1
<1>5. Readable /\ Lone
  BY <1>1, <1>2, <1>3, <1>4 DEF Readable, Lone
<1> QED
  BY <1>1, <1>5 DEF Keying, Answering, InTune, Parked, Keyed

(* Once something is lost nothing is claimed any more.                     *)
LEMMA KeyingStep ==
  ASSUME IInv, Keying, Faultless, [Next]_vars
  PROVE  Keying'
<1> SUFFICES ASSUME faults' = 0 PROVE Keying'
  BY DEF Keying
<1>1. faults \in Nat
  BY SessionAssumption DEF IInv, TypeOK
<1>2. CASE UNCHANGED vars
  BY <1>2 DEF vars, conVars, devVars, Keying, Readable, Lone, Spent, Answering,
     InTune, Parked, Current, DevMac
<1>3. ASSUME NEW ok \in NonceResults, HostStep(ok)
      PROVE  Keying'
  BY <1>3, KeyingHost DEF HostStep
<1>4. CASE HostEof
  BY <1>4 DEF HostEof, Faultless
<1>5. CASE Reload
  BY <1>5 DEF Reload, read_keyring, devVars, Keying, Readable, Lone, Spent,
     Answering, InTune, Parked, Current, DevMac
<1>6. CASE DeviceStep
  BY <1>6, KeyingDevice DEF DeviceStep, Device
<1>7. ~(LoseFrame \/ DamageFrame \/ LoseCommand \/ DamageCommand)
  <2>1. ~fault
    BY <1>1 DEF fault
  <2> QED
    BY <2>1 DEF LoseFrame, DamageFrame, LoseCommand, DamageCommand
<1> QED
  BY <1>2, <1>3, <1>4, <1>5, <1>6, <1>7 DEF Next

(* While nothing is lost, a connection that holds the device's long-term   *)
(* key is never taken for one with a wrong key, closed or distrusted.      *)
THEOREM RightKeyNeverBad ==
  ASSUME Faultless
  PROVE  Spec => []NoFalseBadKey
<1>1. Init => IInv /\ Keying
  BY InitInv, KeyingInit
<1>2. IInv /\ Keying /\ [Next]_vars => (IInv /\ Keying)'
  BY StepInv, KeyingStep
<1>3. Keying => NoFalseBadKey
  BY DEF Keying, Parked, NoFalseBadKey
<1> QED
  BY <1>1, <1>2, <1>3, PTL DEF Spec

-----------------------------------------------------------------------------
(* EkeySession implements EntropySource, whatever is lost, damaged, reset, *)
(* rekeyed or reloaded: the blocks on their way, from the last one written *)
(* over the frames under way to the counter of the device, are always in   *)
(* the order they were generated in.                                       *)

(* The device never uses a nonce twice: it stops before they wrap, and an  *)
(* earlier ekeyd has used at most the first.                               *)
FreshNonces ==
  /\ ~WrapNonces
  /\ NonceMod > 1
  /\ \A k \in OldKeys : k # ZeroKey => k[2] = 0

(* Entropy frames the host may take for genuine.                           *)
Sealed(f) == f.type = "ENTROPY" /\ f.mac # BadMac

(* The device will not generate this block again, nor an earlier one.      *)
Past(b) ==
  /\ b.key[2] < dev_nonces
  /\ dev_key # ZeroKey =>
       \/ b.key[2] < dev_key[2]
       \/ b.key = dev_key /\ b.seq < dev_seq

last == out[Len(out)]

(* One queue from the output over the link to the device.                  *)
NoncePast == dev_key # ZeroKey => dev_key[2] < dev_nonces

LinkPast == \A i \in DOMAIN toHost : Sealed(toHost[i]) => Past(toHost[i].block)

LinkOrder ==
  \A i, j \in DOMAIN toHost :
    i < j /\ Sealed(toHost[i]) /\ Sealed(toHost[j]) =>
      Later(toHost[j].block, toHost[i].block)

LastPast == out # <<>> => Past(last)

LastFirst ==
  out # <<>> =>
    \A i \in DOMAIN toHost : Sealed(toHost[i]) => Later(toHost[i].block, last)

InOrder == NoncePast /\ LinkPast /\ LinkOrder /\ LastPast /\ LastFirst

OInv == IInv /\ InOrder

-----------------------------------------------------------------------------
(* Facts about blocks and frames *)

(* Order and age of blocks are numbers.                                    *)
LEMMA BlockNumbers ==
  ASSUME NEW b \in Blocks
  PROVE  b.key \in SessionKeys /\ b.key[2] \in Nat /\ b.seq \in Nat
BY WireAssumption DEF Blocks, SessionKeys, Nonces

(* So are those of the device.                                             *)
LEMMA DeviceNumbers ==
  ASSUME IInv
  PROVE  /\ dev_key # ZeroKey => dev_key \in SessionKeys /\ dev_key[2] \in Nat
         /\ dev_seq \in Nat /\ dev_nonces \in Nat
<1>1. dev_key \in Keys /\ dev_seq \in 0 .. MaxSeq + 1 /\ dev_nonces \in Nonces
  BY DEF IInv, TypeOK, DevTypeOK
<1>2. dev_key # ZeroKey => dev_key \in SessionKeys
  BY <1>1 DEF Keys
<1> QED
  BY <1>1, <1>2, WireAssumption DEF SessionKeys, Nonces

(* A sealed frame under way carries a block of the device.                 *)
LEMMA SealedBlock ==
  ASSUME IInv, NEW i \in DOMAIN toHost, Sealed(toHost[i])
  PROVE  toHost[i].block \in Blocks
<1>1. toHost[i] \in AuthenticFrames
  BY DEF IInv
<1> QED
  BY <1>1 DEF AuthenticFrames, Authentic, Sealed

(* The last block written is one of the device.                            *)
LEMMA LastBlock ==
  ASSUME IInv, out # <<>>
  PROVE  last \in Blocks /\ Len(out) \in DOMAIN out
<1>1. out \in Seq(Blocks \cup {Garbage}) /\ EntropyIntact
  BY DEF IInv, TypeOK
<1>2. Len(out) \in DOMAIN out
  BY <1>1
<1> QED
  BY <1>1, <1>2 DEF last, EntropyIntact

-----------------------------------------------------------------------------
(* The links *)

(* The first frame under way is handled or lost.                           *)
LEMMA TailOrder ==
  ASSUME OInv, toHost # <<>>, toHost' = Tail(toHost), UNCHANGED <<devVars, out>>
  PROVE  InOrder'
<1>1. toHost \in Seq(AuthenticFrames)
  BY DEF OInv, IInv
<1>2. \A i \in DOMAIN toHost' :
        i \in Nat /\ i + 1 \in DOMAIN toHost /\ toHost'[i] = toHost[i + 1]
  BY <1>1
<1>3. NoncePast' /\ LastPast'
  BY DEF OInv, InOrder, NoncePast, LastPast, Past, devVars, last
<1>4. LinkPast'
  BY <1>2 DEF OInv, InOrder, LinkPast, Sealed, Past, devVars
<1>5. LinkOrder'
  <2>1. \A i, j \in DOMAIN toHost' : i < j => i + 1 < j + 1
    BY <1>2
  <2> QED
    BY <1>2, <2>1 DEF OInv, InOrder, LinkOrder, Sealed, Later
<1>6. LastFirst'
  BY <1>2 DEF OInv, InOrder, LastFirst, Sealed, Later, last
<1> QED
  BY <1>3, <1>4, <1>5, <1>6 DEF InOrder

(* Steps after which every sealed frame under way was already under way at *)
(* the same place, and what was past is past.                              *)
LEMMA KeepOrder ==
  ASSUME OInv, UNCHANGED out,
         \A i \in DOMAIN toHost' : Sealed(toHost'[i]) =>
           i \in DOMAIN toHost /\ toHost'[i] = toHost[i],
         NoncePast', \A b \in Blocks : Past(b) => Past(b)'
  PROVE  InOrder'
<1>1. \A i \in DOMAIN toHost : Sealed(toHost[i]) =>
        toHost[i].block \in Blocks /\ Past(toHost[i].block)
  BY SealedBlock DEF OInv, InOrder, LinkPast
<1>2. LinkPast'
  <2>1. SUFFICES ASSUME NEW i \in DOMAIN toHost', Sealed(toHost'[i])
                 PROVE  (Past(toHost[i].block))'
    BY DEF LinkPast, Sealed
  <2>2. PICK b \in Blocks : b = toHost'[i].block /\ Past(b)
    BY <1>1, <2>1
  <2>3. Past(b)'
    BY <2>2
  <2> QED
    BY <2>2, <2>3 DEF Past
<1>3. LinkOrder'
  BY DEF OInv, InOrder, LinkOrder, Sealed, Later
<1>4. LastPast'
  <2>1. SUFFICES ASSUME out # <<>> PROVE (Past(last))'
    BY DEF LastPast
  <2>2. PICK b \in Blocks : b = last /\ Past(b)
    BY <2>1, LastBlock DEF OInv, InOrder, LastPast
  <2>3. Past(b)' /\ b = last'
    BY <2>2 DEF last
  <2> QED
    BY <2>3 DEF Past
<1>5. LastFirst'
  BY DEF OInv, InOrder, LastFirst, Sealed, Later, last
<1> QED
  BY <1>2, <1>3, <1>4, <1>5 DEF InOrder

(* The first frame under way is damaged: it is not sealed any more.        *)
LEMMA DamageOrder ==
  ASSUME OInv, toHost # <<>>, NEW f \in Frames, ~Sealed(f),
         toHost' = <<f>> \o Tail(toHost), UNCHANGED <<devVars, out>>
  PROVE  InOrder'
<1>1. toHost \in Seq(Frames)
  BY DEF OInv, IInv, TypeOK
<1>2. \A i \in DOMAIN toHost' : i \in DOMAIN toHost /\ (i # 1 => toHost'[i] = toHost[i])
  BY <1>1
<1>3. toHost'[1] = f
  BY <1>1
<1>4. \A i \in DOMAIN toHost' : Sealed(toHost'[i]) =>
        i \in DOMAIN toHost /\ toHost'[i] = toHost[i]
  BY <1>2, <1>3
<1>5. NoncePast' /\ \A b \in Blocks : Past(b) => Past(b)'
  BY DEF OInv, InOrder, NoncePast, Past, devVars
<1> QED
  BY <1>4, <1>5, KeepOrder

(* The device sends anything but entropy, and moves on.                    *)
LEMMA AppendOrder ==
  ASSUME OInv, NEW f, ~Sealed(f), toHost' = Append(toHost, f), UNCHANGED out,
         NoncePast', \A b \in Blocks : Past(b) => Past(b)'
  PROVE  InOrder'
<1>1. toHost \in Seq(AuthenticFrames)
  BY DEF OInv, IInv
<1>2. /\ DOMAIN toHost' = DOMAIN toHost \cup {Len(toHost) + 1}
      /\ toHost'[Len(toHost) + 1] = f
      /\ \A i \in DOMAIN toHost : toHost'[i] = toHost[i]
  BY <1>1
<1>3. \A i \in DOMAIN toHost' : Sealed(toHost'[i]) =>
        i \in DOMAIN toHost /\ toHost'[i] = toHost[i]
  BY <1>2
<1> QED
  BY <1>3, KeepOrder

(* The device sends its next block: it is later than all that are past.    *)
LEMMA EntropyOrder ==
  ASSUME OInv, DevEntropy, UNCHANGED out
  PROVE  InOrder'
<1>1. PICK f : /\ toHost' = Append(toHost, f)
               /\ f.block = [key |-> dev_key, seq |-> dev_seq]
  BY DEF DevEntropy, send, Frame
<1>2. /\ dev_key # ZeroKey /\ dev_key' = dev_key /\ dev_nonces' = dev_nonces
      /\ dev_seq' = dev_seq + 1
  BY DEF DevEntropy
<1>3. /\ dev_key[2] \in Nat /\ dev_seq \in Nat /\ dev_nonces \in Nat
      /\ dev_key[2] < dev_nonces
  BY <1>2, DeviceNumbers DEF OInv, InOrder, NoncePast
<1>4. ASSUME NEW b \in Blocks, Past(b)
      PROVE  Past(b)' /\ Later(f.block, b)
  BY <1>1, <1>2, <1>3, <1>4, BlockNumbers DEF Past, Later
<1>5. Past(f.block)'
  BY <1>1, <1>2, <1>3 DEF Past
<1>6. toHost \in Seq(AuthenticFrames)
  BY DEF OInv, IInv
<1>7. /\ DOMAIN toHost' = DOMAIN toHost \cup {Len(toHost) + 1}
      /\ toHost'[Len(toHost) + 1] = f
      /\ \A i \in DOMAIN toHost : toHost'[i] = toHost[i]
  BY <1>1, <1>6
<1>8. \A i \in DOMAIN toHost : Sealed(toHost[i]) =>
        toHost[i].block \in Blocks /\ Past(toHost[i].block)
  BY SealedBlock DEF OInv, InOrder, LinkPast
<1>9. LinkPast'
  <2>1. SUFFICES ASSUME NEW i \in DOMAIN toHost', Sealed(toHost'[i])
                 PROVE  (Past(toHost[i].block))'
    BY DEF LinkPast, Sealed
  <2>2. CASE i \in DOMAIN toHost
    <3>1. PICK b \in Blocks : b = toHost'[i].block /\ Past(b)
      BY <1>7, <1>8, <2>1, <2>2
    <3>2. Past(b)'
      BY <1>4, <3>1
    <3> QED
      BY <3>1, <3>2 DEF Past
  <2>3. CASE i = Len(toHost) + 1
    BY <1>5, <1>7, <2>3 DEF Past
  <2> QED
    BY <1>7, <2>2, <2>3
<1>10. LinkOrder'
  <2>1. SUFFICES ASSUME NEW i \in DOMAIN toHost', NEW j \in DOMAIN toHost', i < j,
                        Sealed(toHost'[i]), Sealed(toHost'[j])
                 PROVE  Later(toHost'[j].block, toHost'[i].block)
    BY DEF LinkOrder, Sealed, Later
  <2>2. i \in DOMAIN toHost
    <3>1. i \in 1 .. Len(toHost) + 1 /\ j \in 1 .. Len(toHost) + 1 /\ Len(toHost) \in Nat
      BY <1>6, <1>7
    <3> QED
      BY <1>6, <2>1, <3>1
  <2>3. CASE j \in DOMAIN toHost
    BY <1>7, <2>1, <2>2, <2>3 DEF OInv, InOrder, LinkOrder
  <2>4. CASE j = Len(toHost) + 1
    BY <1>4, <1>7, <1>8, <2>1, <2>2, <2>4
  <2> QED
    BY <1>7, <2>3, <2>4
<1>11. ASSUME out # <<>>
       PROVE  (Past(last))' /\ Later(f.block, last)
  <2>1. PICK b \in Blocks : b = last /\ b = last' /\ Past(b)
    BY <1>11, LastBlock DEF OInv, InOrder, LastPast, last
  <2>2. Past(b)' /\ Later(f.block, b)
    BY <1>4, <2>1
  <2> QED
    BY <2>1, <2>2 DEF Past
<1>12. LastPast'
  BY <1>11 DEF LastPast
<1>13. LastFirst'
  <2>1. SUFFICES ASSUME out # <<>>, NEW i \in DOMAIN toHost', Sealed(toHost'[i])
                 PROVE  Later(toHost'[i].block, last)
    BY DEF LastFirst, Sealed, Later, last
  <2> QED
    BY <1>7, <1>11, <2>1 DEF OInv, InOrder, LastFirst
<1>14. NoncePast'
  BY <1>2, <1>3 DEF NoncePast
<1> QED
  BY <1>9, <1>10, <1>12, <1>13, <1>14 DEF InOrder

-----------------------------------------------------------------------------
(* The actions *)

(* Commands and other frames of the device: a reset ends the session, and  *)
(* the key that follows has a nonce of its own.                            *)
LEMMA DeviceOrder ==
  ASSUME FreshNonces, OInv, DeviceStep
  PROVE  InOrder'
<1>1. UNCHANGED out
  BY DEF DeviceStep, Device, conVars
<1>2. /\ dev_nonces \in Nat
      /\ dev_key # ZeroKey => dev_key[2] \in Nat /\ dev_key[2] < dev_nonces
  BY DeviceNumbers DEF OInv, InOrder, NoncePast
<1>3. ASSUME NEW t, t # "ENTROPY", NEW m, NEW n PROVE ~Sealed(Frame(t, m, n))
  BY <1>3 DEF Sealed, Frame
<1>4. ASSUME NEW f, ~Sealed(f), send(f), UNCHANGED devVars
      PROVE  InOrder'
  <2>1. toHost' = Append(toHost, f) /\ \A b \in Blocks : Past(b) => Past(b)'
    BY <1>4 DEF send, Past, devVars
  <2>2. NoncePast'
    BY <1>2, <1>4 DEF NoncePast, devVars
  <2> QED
    BY <1>1, <1>4, <2>1, <2>2, AppendOrder
<1>5. CASE DevReset
  <2>1. toHost' = Append(toHost, SerialFrame) /\ ~Sealed(SerialFrame)
    BY <1>5 DEF DevReset, send, SerialFrame, Sealed, Frame
  <2>2. dev_key' = ZeroKey /\ dev_nonces' = dev_nonces
    BY <1>5 DEF DevReset
  <2>3. NoncePast' /\ \A b \in Blocks : Past(b) => Past(b)'
    BY <2>2 DEF NoncePast, Past
  <2> QED
    BY <1>1, <2>1, <2>3, AppendOrder
<1>6. CASE DevRekey
  <2> DEFINE f == [Frame("KEY", DevMac, Head(toDev).len) EXCEPT !.devnonce = dev_nonces]
  <2>1. toHost' = Append(toHost, f) /\ ~Sealed(f)
    BY <1>6 DEF DevRekey, send, Sealed, Frame
  <2>2. /\ dev_key' = <<DevLTKey, dev_nonces, Head(toDev).nonce>>
        /\ dev_nonces < NonceMod - 1 /\ dev_nonces' = (dev_nonces + 1) % NonceMod
    BY <1>6 DEF DevRekey, FreshNonces
  <2>3. dev_key'[2] = dev_nonces /\ dev_nonces' = dev_nonces + 1
    <3>1. dev_nonces + 1 \in 0 .. NonceMod - 1 /\ NonceMod \in Nat \ {0}
      BY <1>2, <2>2, WireAssumption
    <3>2. (dev_nonces + 1) % NonceMod = dev_nonces + 1
      BY <3>1, <1>2
    <3> QED
      BY <2>2, <3>2
  <2>4. ASSUME NEW b \in Blocks, Past(b) PROVE Past(b)'
    BY <1>2, <2>3, <2>4, BlockNumbers DEF Past
  <2>5. NoncePast'
    BY <1>2, <2>3 DEF NoncePast
  <2> QED
    BY <1>1, <2>1, <2>4, <2>5, AppendOrder
<1>7. CASE DevGoneBad
  BY <1>3, <1>4, <1>7 DEF DevGoneBad
<1>8. CASE DevWarn
  BY <1>3, <1>4, <1>8 DEF DevWarn
<1>9. CASE DevKeyReq
  BY <1>3, <1>4, <1>9 DEF DevKeyReq
<1>10. CASE DevEntropy
  BY <1>1, <1>10, EntropyOrder
<1>11. ASSUME NEW m \in InfoModes, DevInfo(m) PROVE InOrder'
  <2>1. ~Sealed([Frame("INFO", DevMac, 0) EXCEPT !.mode = m])
    BY DEF Sealed, Frame
  <2> QED
    BY <1>4, <1>11, <2>1 DEF DevInfo
<1> QED
  BY <1>5, <1>6, <1>7, <1>8, <1>9, <1>10, <1>11 DEF DeviceStep, DevNext, DevCommand

(* Losing and damaging frames keeps the order; commands have none.         *)
LEMMA FaultOrder ==
  ASSUME OInv, LoseFrame \/ DamageFrame \/ LoseCommand \/ DamageCommand
  PROVE  InOrder'
<1>1. CASE LoseFrame
  BY <1>1, TailOrder DEF LoseFrame, conVars
<1>2. CASE DamageFrame
  <2>1. PICK t \in WireTypes, f \in Forms, s \in Serials \cup {NULL} :
          toHost' = <<[Frame(t, BadMac, 0) EXCEPT !.form = f, !.serial = s]>>
                      \o Tail(toHost)
    BY <1>2 DEF DamageFrame
  <2> DEFINE g == [Frame(t, BadMac, 0) EXCEPT !.form = f, !.serial = s]
  <2>2. g \in Frames /\ ~Sealed(g)
    BY DEF Frames, Frame, Sealed
  <2>3. toHost # <<>> /\ UNCHANGED <<devVars, out>>
    BY <1>2 DEF DamageFrame, conVars
  <2> HIDE DEF g
  <2> QED
    BY <2>1, <2>2, <2>3, DamageOrder DEF g
<1>3. CASE LoseCommand \/ DamageCommand
  <2>1. UNCHANGED <<toHost, devVars, out>>
    BY <1>3 DEF LoseCommand, DamageCommand, conVars
  <2> QED
    <3>1. NoncePast' /\ \A b \in Blocks : Past(b) => Past(b)'
      BY <2>1 DEF OInv, InOrder, NoncePast, Past, devVars
    <3> QED
      BY <2>1, <3>1, KeepOrder
<1> QED
  BY <1>1, <1>2, <1>3

-----------------------------------------------------------------------------
(* The host *)

(* What handling a frame does to the output: nothing, or the block of a    *)
(* sealed frame is written.  No handler closes the connection.             *)
LEMMA DispatchOut ==
  ASSUME NEW p, NEW ok, Handling(p), dispatch(p, ok), current_state # "CLOSE"
  PROVE  /\ current_state' # "CLOSE"
         /\ \/ out' = out
            \/ Sealed(p) /\ p.block \in Blocks /\ out' = written(p.block)
<1> DEFINE Is(h) == pkt_handlers(current_state, pkt_type(p), h)
<1>1. current_state \in States /\ IInv
  BY DEF Handling, IInv, TypeOK
<1>2. CASE Is("null") /\ null_pkt_handler(p)
  BY <1>2 DEF null_pkt_handler
<1>3. CASE reset_pkt_handler(p)
  BY <1>3 DEF reset_pkt_handler
<1>4. CASE badkey_pkt_handler(p)
  BY <1>4 DEF badkey_pkt_handler
<1>5. CASE badkey_count_pkt_handler(p)
  BY <1>5 DEF badkey_count_pkt_handler
<1>6. CASE info_pkt_handler(p)
  BY <1>6 DEF info_pkt_handler
<1>7. CASE keyreq_pkt_handler(p, ok)
  BY <1>1, <1>7, KeyReqType DEF keyreq_pkt_handler
<1>8. CASE keyreq_count_pkt_handler(p)
  BY <1>8 DEF keyreq_count_pkt_handler
<1>9. CASE key_pkt_handler(p)
  BY <1>9 DEF key_pkt_handler, reset_pkt_handler
<1>10. CASE Is("entropy") /\ entropy_pkt_handler(p, ok)
  <2>1. current_state \in Keyed /\ pkt_type(p) = "ENTROPY"
    BY <1>1, <1>10, TableFacts
  <2>2. /\ decrypt(p) = p.block /\ decrypt(p) \in Blocks
        /\ p.type = "ENTROPY" /\ p.mac # BadMac
    BY <2>1, VerifiedEntropy
  <2>3. out' = written(p.block)
    BY <1>10, <2>2 DEF entropy_pkt_handler
  <2>4. current_state' # "CLOSE"
    <3>1. CASE keyreq(ok)
      BY <1>1, <3>1, KeyReqType
    <3>2. CASE current_state' = "KEYED"
      BY <3>2
    <3> QED
      BY <1>10, <3>1, <3>2 DEF entropy_pkt_handler
  <2> QED
    BY <2>2, <2>3, <2>4 DEF Sealed
<1>11. CASE snum_pkt_handler(p)
  BY <1>11 DEF snum_pkt_handler, reset_pkt_handler
<1> QED
  BY <1>2, <1>3, <1>4, <1>5, <1>6, <1>7, <1>8, <1>9, <1>10, <1>11 DEF dispatch

(* Writing the block of the first sealed frame is a step of EntropySource, *)
(* and the rest of the queue stays behind it.                              *)
LEMMA WriteOrder ==
  ASSUME OInv, toHost # <<>>, toHost' = Tail(toHost), UNCHANGED devVars,
         NEW b \in Blocks, Sealed(Head(toHost)), b = Head(toHost).block,
         out' = written(b), current_state # "CLOSE", current_state' # "CLOSE"
  PROVE  InOrder' /\ Source!Emit
<1>1. toHost \in Seq(AuthenticFrames)
  BY DEF OInv, IInv
<1>2. /\ 1 \in DOMAIN toHost /\ Head(toHost) = toHost[1]
      /\ \A i \in DOMAIN toHost' :
           i \in Nat /\ i + 1 \in DOMAIN toHost /\ toHost'[i] = toHost[i + 1]
           /\ 1 < i + 1
  BY <1>1
<1>3. Past(b) /\ (out # <<>> => Later(b, last))
  BY <1>2 DEF OInv, InOrder, LinkPast, LastFirst
<1>4. out \in Seq(Blocks \cup {Garbage}) /\ Len(out) <= 2
  BY DEF OInv, IInv, TypeOK
<1>5. out' # <<>> /\ last' = b
  <2>1. CASE out = <<>>
    BY <2>1 DEF written, last
  <2>2. CASE out # <<>>
    BY <2>2 DEF written, last
  <2> QED
    BY <2>1, <2>2
<1>6. NoncePast' /\ LastPast'
  BY <1>3, <1>5 DEF OInv, InOrder, NoncePast, LastPast, Past, devVars
<1>7. LinkPast'
  BY <1>2 DEF OInv, InOrder, LinkPast, Sealed, Past, devVars
<1>8. LinkOrder'
  <2>1. \A i, j \in DOMAIN toHost' : i < j => i + 1 < j + 1
    BY <1>2
  <2> QED
    BY <1>2, <2>1 DEF OInv, InOrder, LinkOrder, Sealed, Later
<1>9. LastFirst'
  <2>1. SUFFICES ASSUME NEW i \in DOMAIN toHost', Sealed(toHost'[i])
                 PROVE  Later(toHost'[i].block, b)
    BY <1>5 DEF LastFirst, Sealed, Later
  <2> QED
    BY <1>2, <2>1 DEF OInv, InOrder, LinkOrder
<1>10. Source!Emit
  <2>1. CASE out = <<>>
    <3>1. out' = <<b>> /\ Len(out') = 1 /\ out'[Len(out')] = b
      BY <2>1 DEF written
    <3> QED
      BY <2>1, <3>1 DEF Source!Emit
  <2>2. CASE out # <<>>
    <3>1. out' = <<last, b>>
      BY <2>2 DEF written, last
    <3>2. Len(out') = 2 /\ out'[1] = last /\ out'[2] = b
      BY <3>1
    <3> QED
      BY <1>3, <2>2, <3>2 DEF Source!Emit, last
  <2> QED
    BY <2>1, <2>2
<1> QED
  BY <1>6, <1>7, <1>8, <1>9, <1>10 DEF InOrder

(* econ_run, whatever the frame.                                           *)
LEMMA HostOrder ==
  ASSUME NEW ok, OInv, HostStep(ok)
  PROVE  InOrder' /\ [Source!Next]_(Source!sourceVars)
<1>1. PICK p : p = Head(toHost)
  OBVIOUS
<1>2. /\ current_state # "CLOSE" /\ toHost # <<>> /\ toHost' = Tail(toHost)
      /\ UNCHANGED <<devVars, faults, reloads>>
  BY DEF HostStep, econ_run
<1>3. CASE unreadable(p)
  <2>1. close_connection
    BY <1>1, <1>3 DEF HostStep, econ_run
  <2>2. out' = out /\ current_state' = "CLOSE"
    BY <2>1 DEF close_connection
  <2>3. Source!Close
    BY <1>2, <2>2 DEF Source!Close
  <2> QED
    BY <1>2, <2>2, <2>3, TailOrder DEF Source!Next
<1>4. CASE ~unreadable(p)
  <2>1. dispatch(p, ok) /\ UNCHANGED keyring
    BY <1>1, <1>4 DEF HostStep, econ_run
  <2>2. Handling(p)
    BY <1>1, <1>2, <2>1 DEF Handling, OInv
  <2>3. /\ current_state' # "CLOSE"
        /\ \/ out' = out
           \/ Sealed(p) /\ p.block \in Blocks /\ out' = written(p.block)
    BY <1>2, <2>1, <2>2, DispatchOut
  <2>4. CASE out' = out
    BY <1>2, <2>3, <2>4, TailOrder DEF Source!sourceVars
  <2>5. CASE Sealed(p) /\ p.block \in Blocks /\ out' = written(p.block)
    BY <1>1, <1>2, <2>3, <2>5, WriteOrder DEF Source!Next
  <2> QED
    BY <2>3, <2>4, <2>5
<1> QED
  BY <1>3, <1>4

(* Everything else writes nothing; end of file closes the connection.      *)
LEMMA QuietSteps ==
  ASSUME FreshNonces, OInv,
         HostEof \/ Reload \/ DeviceStep \/ LoseFrame \/ DamageFrame
           \/ LoseCommand \/ DamageCommand
  PROVE  InOrder' /\ [Source!Next]_(Source!sourceVars)
<1>1. CASE HostEof
  <2>1. /\ current_state # "CLOSE" /\ current_state' = "CLOSE"
        /\ UNCHANGED <<out, toHost, devVars>>
    BY <1>1 DEF HostEof, econ_run_eof, close_connection
  <2>2. NoncePast' /\ \A b \in Blocks : Past(b) => Past(b)'
    BY <2>1 DEF OInv, InOrder, NoncePast, Past, devVars
  <2>3. Source!Close
    BY <2>1 DEF Source!Close
  <2> QED
    BY <2>1, <2>2, <2>3, KeepOrder DEF Source!Next
<1>2. CASE Reload
  <2>1. UNCHANGED <<current_state, out, toHost, devVars>>
    BY <1>2 DEF Reload, read_keyring
  <2>2. NoncePast' /\ \A b \in Blocks : Past(b) => Past(b)'
    BY <2>1 DEF OInv, InOrder, NoncePast, Past, devVars
  <2> QED
    BY <2>1, <2>2, KeepOrder DEF Source!sourceVars
<1>3. CASE DeviceStep
  <2>1. UNCHANGED <<current_state, out>>
    BY <1>3 DEF DeviceStep, Device, conVars
  <2> QED
    BY <1>3, <2>1, DeviceOrder DEF Source!sourceVars
<1>4. CASE LoseFrame \/ DamageFrame \/ LoseCommand \/ DamageCommand
  <2>1. UNCHANGED <<current_state, out>>
    BY <1>4 DEF LoseFrame, DamageFrame, LoseCommand, DamageCommand, conVars
  <2> QED
    BY <1>4, <2>1, FaultOrder DEF Source!sourceVars
<1> QED
  BY <1>1, <1>2, <1>3, <1>4

(* At first nothing is written, and the frame that may be under way is a   *)
(* serial number.                                                          *)
LEMMA InitOrder ==
  ASSUME FreshNonces, Init
  PROVE  InOrder /\ Source!Init
<1>1. out = <<>> /\ current_state = "INIT"
  BY DEF Init, econ_open
<1>2. \A i \in DOMAIN toHost : ~Sealed(toHost[i])
  <2>1. toHost = <<>> \/ toHost = <<SerialFrame>>
    BY DEF Init
  <2>2. ~Sealed(SerialFrame)
    BY DEF Sealed, SerialFrame, Frame
  <2> QED
    BY <2>1, <2>2
<1>3. NoncePast
  <2>1. dev_nonces = 1
    BY WireAssumption DEF Init, FreshNonces
  <2>2. dev_key # ZeroKey => dev_key[2] = 0
    BY DEF Init, FreshNonces
  <2> QED
    BY <2>1, <2>2 DEF NoncePast
<1> QED
  BY <1>1, <1>2, <1>3
     DEF InOrder, LinkPast, LinkOrder, LastPast, LastFirst, Source!Init

(* The connection of ekeyd implements EntropySource: blocks are written in *)
(* the order the device generated them, none twice, none after the         *)
(* connection is closed.                                                   *)
THEOREM ConnectionIsSource == ASSUME FreshNonces PROVE Spec => EntropyInOrder
<1>1. Init => OInv /\ Source!Init
  BY InitInv, InitOrder DEF OInv
<1>2. OInv /\ [Next]_vars => OInv' /\ [Source!Next]_(Source!sourceVars)
  <2> SUFFICES ASSUME OInv, [Next]_vars
               PROVE  InOrder' /\ [Source!Next]_(Source!sourceVars)
    BY StepInv DEF OInv
  <2>1. CASE UNCHANGED vars
    <3>1. UNCHANGED <<current_state, out, toHost, devVars>>
      BY <2>1 DEF vars, conVars
    <3>2. NoncePast' /\ \A b \in Blocks : Past(b) => Past(b)'
      BY <3>1 DEF OInv, InOrder, NoncePast, Past, devVars
    <3> QED
      BY <3>1, <3>2, KeepOrder DEF Source!sourceVars
  <2>2. CASE Next
    BY <2>2, HostOrder, QuietSteps DEF Next
  <2> QED
    BY <2>1, <2>2
<1> QED
  BY <1>1, <1>2, PTL DEF Spec, EntropyInOrder, Source!Spec
=============================================================================
