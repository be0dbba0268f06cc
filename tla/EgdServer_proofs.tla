------------------------- MODULE EgdServer_proofs ---------------------------
(***************************************************************************)
(* Proofs about EgdServer, for any number of clients, any byte sequences   *)
(* they send, any block length and pool limit: the byte count the code     *)
(* keeps beside the block list never parts from it; no byte of entropy is  *)
(* handed out twice; egd_spreadwrite always finds what it promised, and    *)
(* clients do not wait without need; every client gets the answers to      *)
(* what it sent, in order and in full.                                     *)
(***************************************************************************)
EXTENDS EgdServer, WellFoundedInduction, SequenceTheorems, FiniteSetTheorems, TLAPS

Byte == 0 .. MaxAsk
Label == 0 .. Labels - 1

(* The pool part of the invariant.                                         *)
PoolOK ==
  /\ pool \in Seq(Label)
  /\ total_entropy = Len(pool)
  /\ total_entropy <= MAX_ENTROPY

(* The per-client part.                                                    *)
ClientsOK ==
  /\ readbuffers \in [Clients -> Seq(Byte)]
  /\ egdwriteblocked \in [Clients -> {nil} \cup 1 .. MaxAsk]
  /\ egdreadblocked \in [Clients -> {nil} \cup 0 .. MaxAsk]
  /\ status \in [Clients -> {"open", "tokill", "dead", "stuck"}]

(* The environment and the loops of egd_spreadwrite: a client still to be  *)
(* visited by the first loop is still blocked, so that what it waits for   *)
(* is a number.                                                            *)
LoopOK ==
  /\ fed \in 0 .. Labels
  /\ closed \subseteq Clients
  /\ script \in [Clients -> Seq(Byte)]
  /\ pos \in [Clients -> Nat]
  /\ pc \in {"idle", "spread", "try"}
  /\ todo \subseteq Clients
  /\ to_try \subseteq Clients
  /\ pc = "spread" => todo \subseteq Blocked

(* What any program at the other end of the connections leaves true.       *)
IInv == PoolOK /\ ClientsOK /\ LoopOK

(* The clients of this specification keep to the script they start with,   *)
(* and only some go away.                                                  *)
Scripted == closed \subseteq MayClose /\ script \in [Clients -> Scripts]

-----------------------------------------------------------------------------
(* The pool *)

(* Taking n bytes from the front of a sequence, and what is left.          *)
LEMMA FirstRest ==
  ASSUME NEW S, NEW s \in Seq(S), NEW n \in Nat
  PROVE  /\ First(s, n) \in Seq(S)
         /\ Len(First(s, n)) = Least(n, Len(s))
         /\ Rest(s, n) \in Seq(S)
         /\ Len(Rest(s, n)) = Len(s) - Least(n, Len(s))
<1>1. Least(n, Len(s)) \in Nat /\ Least(n, Len(s)) <= Len(s)
  BY DEF Least
<1>2. First(s, n) \in Seq(S) /\ Len(First(s, n)) = Least(n, Len(s))
  BY <1>1 DEF First
<1>3. Rest(s, n) \in Seq(S) /\ Len(Rest(s, n)) = Len(s) - Least(n, Len(s))
  <2>1. CASE n < Len(s)
    <3>1. n + 1 \in 1 .. Len(s) /\ Least(n, Len(s)) = n
      BY <2>1 DEF Least
    <3>2. \A i \in (n + 1) .. Len(s) : s[i] \in S
      BY <3>1
    <3>3. /\ SubSeq(s, n + 1, Len(s)) \in Seq(S)
          /\ Len(SubSeq(s, n + 1, Len(s))) = Len(s) - n
      BY <3>1, <3>2
    <3> QED
      BY <3>1, <3>3 DEF Rest
  <2>2. CASE ~(n < Len(s))
    <3>1. Least(n, Len(s)) = Len(s)
      BY <2>2 DEF Least
    <3>2. Rest(s, n) = <<>>
      BY <2>2 DEF Rest
    <3> QED
      BY <3>1, <3>2
  <2> QED
    BY <2>1, <2>2
<1> QED
  BY <1>2, <1>3

(* Taking entropy out keeps count and pool together, and hands out no more *)
(* than was asked for.                                                     *)
LEMMA DequeueOK ==
  ASSUME PoolOK, NEW n \in Nat
  PROVE  /\ dequeue_entropy(n) => PoolOK'
         /\ dequeued(n) \in Seq(Label)
         /\ Len(dequeued(n)) \in Nat
         /\ Len(dequeued(n)) <= n
<1> DEFINE m == Least(n, total_entropy)
<1>1. m \in Nat /\ m <= n /\ m <= Len(pool) /\ Least(m, Len(pool)) = m
  BY DEF Least, PoolOK
<1>2. /\ First(pool, m) \in Seq(Label) /\ Len(First(pool, m)) = m
      /\ Rest(pool, m) \in Seq(Label) /\ Len(Rest(pool, m)) = Len(pool) - m
  BY <1>1, FirstRest DEF PoolOK
<1>3. ASSUME dequeue_entropy(n) PROVE PoolOK'
  <2>1. pool' = Rest(pool, m) /\ total_entropy' = total_entropy - m
    BY <1>3 DEF dequeue_entropy
  <2> QED
    BY <2>1, <1>1, <1>2, EgdAssumption DEF PoolOK
<1>4. dequeued(n) = First(pool, m)
  BY DEF dequeued
<1> QED
  BY <1>1, <1>2, <1>3, <1>4

(* A new block enters only if it fits.                                     *)
LEMMA EnqueueOK ==
  ASSUME PoolOK, NEW b \in Seq(Label), enqueue_entropy(b)
  PROVE  PoolOK'
<1>1. CASE total_entropy + Len(b) <= MAX_ENTROPY
  <2>1. pool' = b \o pool /\ total_entropy' = total_entropy + Len(b)
    BY <1>1 DEF enqueue_entropy
  <2>2. b \o pool \in Seq(Label) /\ Len(b \o pool) = Len(b) + Len(pool)
    BY DEF PoolOK
  <2> QED
    BY <1>1, <2>1, <2>2, EgdAssumption DEF PoolOK
<1>2. CASE ~(total_entropy + Len(b) <= MAX_ENTROPY)
  BY <1>2 DEF enqueue_entropy, PoolOK
<1> QED
  BY <1>1, <1>2

-----------------------------------------------------------------------------
(* The commands *)

(* What a command keeps, egdreadblocked apart.                             *)
Kept ==
  /\ PoolOK
  /\ readbuffers \in [Clients -> Seq(Byte)]
  /\ egdwriteblocked \in [Clients -> {nil} \cup 1 .. MaxAsk]
  /\ status \in [Clients -> {"open", "tokill", "dead", "stuck"}]

(* What is left of the received bytes is again a sequence of bytes.        *)
LEMMA LeaveOK ==
  ASSUME ClientsOK, NEW c \in Clients, NEW buf \in Seq(Byte), leave(c, buf)
  PROVE  readbuffers' \in [Clients -> Seq(Byte)]
BY DEF ClientsOK, leave

(* The byte a command reads is a number that may be asked for.             *)
LEMMA ByteOK ==
  ASSUME NEW buf \in Seq(Byte), NEW i \in 1 .. Len(buf)
  PROVE  buf[i] \in Nat /\ buf[i] \in 0 .. MaxAsk
BY EgdAssumption DEF Byte

(* A blocking read waits for at least one byte and at most what it asked.  *)
LEMMA BlockReadOK ==
  ASSUME PoolOK, ClientsOK, NEW c \in Clients, NEW buf \in Seq(Byte),
         BlockRead(c, buf)
  PROVE  Kept'
<1>1. buf[2] \in Nat /\ buf[2] <= MaxAsk
  BY ByteOK, EgdAssumption DEF BlockRead
<1>2. PoolOK' /\ Len(dequeued(buf[2])) \in Nat
  BY <1>1, DequeueOK DEF BlockRead
<1>3. Rest(buf, 2) \in Seq(Byte)
  BY FirstRest
<1>4. readbuffers' \in [Clients -> Seq(Byte)]
  BY <1>3, LeaveOK DEF BlockRead
<1>5. egdwriteblocked' \in [Clients -> {nil} \cup 1 .. MaxAsk]
  <2> DEFINE got == Len(dequeued(buf[2]))
  <2>1. CASE got < buf[2]
    <3>1. buf[2] - got \in 1 .. MaxAsk
      BY <1>1, <1>2, <2>1, EgdAssumption
    <3>2. egdwriteblocked' = [egdwriteblocked EXCEPT ![c] = buf[2] - got]
      BY <2>1 DEF BlockRead
    <3> QED
      BY <3>1, <3>2 DEF ClientsOK
  <2>2. CASE ~(got < buf[2])
    BY <2>2 DEF BlockRead, ClientsOK
  <2> QED
    BY <2>1, <2>2
<1> QED
  BY <1>2, <1>4, <1>5 DEF Kept, ClientsOK, BlockRead

(* A read takes what there is, and waits for nothing.                      *)
LEMMA ReadBytesOK ==
  ASSUME PoolOK, ClientsOK, NEW c \in Clients, NEW buf \in Seq(Byte),
         ReadBytes(c, buf)
  PROVE  Kept'
<1>1. buf[2] \in Nat
  BY ByteOK DEF ReadBytes
<1>2. PoolOK'
  BY <1>1, DequeueOK DEF ReadBytes
<1>3. Rest(buf, 2) \in Seq(Byte)
  BY FirstRest
<1>4. readbuffers' \in [Clients -> Seq(Byte)]
  BY <1>3, LeaveOK DEF ReadBytes
<1> QED
  BY <1>2, <1>4 DEF Kept, ClientsOK, ReadBytes

(* The commands that take nothing from the pool.                           *)
LEMMA OthersOK ==
  ASSUME PoolOK, ClientsOK, NEW c \in Clients, NEW buf \in Seq(Byte),
         \/ QueryPool(c, buf)
         \/ GetPid(c, buf)
         \/ PushBack(c, buf)
         \/ UnknownCmd(c, buf)
  PROVE  Kept'
<1>1. PoolOK' /\ egdwriteblocked' = egdwriteblocked
  BY DEF PoolOK, QueryPool, GetPid, PushBack, UnknownCmd
<1>2. Rest(buf, 1) \in Seq(Byte)
  BY FirstRest
<1>3. readbuffers' \in [Clients -> Seq(Byte)]
  BY <1>2, LeaveOK DEF QueryPool, GetPid, PushBack, UnknownCmd
<1>4. status' \in [Clients -> {"open", "tokill", "dead", "stuck"}]
  BY DEF ClientsOK, QueryPool, GetPid, PushBack, UnknownCmd
<1> QED
  BY <1>1, <1>3, <1>4 DEF Kept, ClientsOK

(* A payload to be ignored is skipped, or its length remembered.           *)
LEMMA AddEntropyOK ==
  ASSUME PoolOK, ClientsOK, NEW c \in Clients, NEW buf \in Seq(Byte),
         AddEntropy(c, buf)
  PROVE  PoolOK' /\ ClientsOK'
<1>1. buf[4] \in 0 .. MaxAsk /\ 4 + buf[4] \in Nat
  BY ByteOK DEF AddEntropy
<1>2. Rest(buf, 4) \in Seq(Byte) /\ Rest(buf, 4 + buf[4]) \in Seq(Byte)
  BY <1>1, FirstRest
<1>3. readbuffers' \in [Clients -> Seq(Byte)]
  BY <1>2, LeaveOK DEF AddEntropy
<1>4. egdreadblocked' \in [Clients -> {nil} \cup 0 .. MaxAsk]
  BY <1>1 DEF AddEntropy, ClientsOK
<1> QED
  BY <1>3, <1>4 DEF AddEntropy, PoolOK, ClientsOK

(* Whatever command is next, if any.                                       *)
LEMMA CommandOK ==
  ASSUME PoolOK, ClientsOK, NEW c \in Clients, NEW buf \in Seq(Byte),
         command(c, buf)
  PROVE  PoolOK' /\ ClientsOK'
<1>1. ASSUME egdreadblocked' = [egdreadblocked EXCEPT ![c] = nil],
             Dispatch(c, buf)
      PROVE  PoolOK' /\ ClientsOK'
  <2>1. CASE buf = <<>>
    <3>1. PoolOK' /\ readbuffers' \in [Clients -> Seq(Byte)]
      BY <1>1, <2>1, LeaveOK DEF Dispatch, PoolOK
    <3> QED
      BY <1>1, <2>1, <3>1 DEF Dispatch, ClientsOK
  <2>2. CASE buf # <<>>
    <3>1. Kept'
      BY <1>1, <2>2, BlockReadOK, ReadBytesOK, OthersOK DEF Dispatch
    <3> QED
      BY <1>1, <3>1 DEF Kept, ClientsOK
  <2> QED
    BY <2>1, <2>2
<1> QED
  BY <1>1, AddEntropyOK DEF command

(* One call of egd_try_cmd on a client with any received bytes.            *)
LEMMA TryOK ==
  ASSUME PoolOK, ClientsOK, NEW c \in Clients, NEW buf \in Seq(Byte),
         egd_try_cmd(c, buf)
  PROVE  PoolOK' /\ ClientsOK'
<1>1. ASSUME leave(c, buf),
             UNCHANGED <<pool, total_entropy, egdwriteblocked, egdreadblocked,
                         answers, status>>
      PROVE  PoolOK' /\ ClientsOK'
  <2>1. readbuffers' \in [Clients -> Seq(Byte)]
    BY <1>1, LeaveOK
  <2> QED
    BY <1>1, <2>1 DEF PoolOK, ClientsOK
<1>2. ASSUME egdreadblocked[c] # nil, command(c, Rest(buf, egdreadblocked[c]))
      PROVE  PoolOK' /\ ClientsOK'
  <2>1. egdreadblocked[c] \in Nat
    BY <1>2 DEF ClientsOK
  <2>2. Rest(buf, egdreadblocked[c]) \in Seq(Byte)
    BY <2>1, FirstRest
  <2> QED
    BY <1>2, <2>2, CommandOK
<1> QED
  BY <1>1, <1>2, CommandOK DEF egd_try_cmd

-----------------------------------------------------------------------------
(* The steps *)

(* A byte is received and a command tried.                                 *)
LEMMA ReadStep ==
  ASSUME IInv, NEW c \in Clients, egd_ctlread(c)
  PROVE  IInv'
<1>1. script[c] \in Seq(Byte) /\ pos[c] + 1 \in 1 .. Len(script[c])
  BY EgdAssumption DEF IInv, LoopOK, egd_ctlread, Byte
<1>2. Append(readbuffers[c], script[c][pos[c] + 1]) \in Seq(Byte)
  BY <1>1 DEF IInv, ClientsOK
<1>3. PoolOK' /\ ClientsOK'
  BY <1>2, TryOK DEF IInv, egd_ctlread
<1>4. LoopOK'
  BY DEF IInv, LoopOK, egd_ctlread
<1> QED
  BY <1>3, <1>4 DEF IInv

(* A turn of the receive loop after the peer has gone.                     *)
LEMMA SpinStep ==
  ASSUME IInv, NEW c \in Clients, egd_spin(c)
  PROVE  IInv'
<1>1. readbuffers[c] \in Seq(Byte)
  BY DEF IInv, ClientsOK
<1>2. PoolOK' /\ ClientsOK'
  BY <1>1, TryOK DEF IInv, egd_spin
<1>3. LoopOK'
  BY DEF IInv, LoopOK, egd_spin
<1> QED
  BY <1>2, <1>3 DEF IInv

(* A connection ends, is closed, is collected; a client goes away.         *)
LEMMA EndStep ==
  ASSUME IInv, NEW c \in Clients,
         egd_eof(c) \/ delctlsocket(c) \/ Collect(c) \/ Disconnect(c)
  PROVE  IInv'
<1>1. PoolOK'
  BY DEF IInv, PoolOK, egd_eof, delctlsocket, Collect, Disconnect, serverVars
<1>2. ClientsOK'
  <2>1. CASE egd_eof(c) \/ delctlsocket(c)
    BY <2>1 DEF IInv, ClientsOK, egd_eof, delctlsocket
  <2>2. CASE Collect(c)
    <3>1. <<>> \in Seq(Byte)
      OBVIOUS
    <3>2. readbuffers' \in [Clients -> Seq(Byte)]
      BY <2>2, <3>1 DEF IInv, ClientsOK, Collect
    <3> QED
      BY <2>2, <3>2 DEF IInv, ClientsOK, Collect
  <2>3. CASE Disconnect(c)
    BY <2>3 DEF IInv, ClientsOK, Disconnect, serverVars
  <2> QED
    BY <2>1, <2>2, <2>3
<1>3. LoopOK'
  BY EgdAssumption DEF IInv, LoopOK, Blocked, egd_eof, delctlsocket, Collect,
         Disconnect, serverVars
<1> QED
  BY <1>1, <1>2, <1>3 DEF IInv

(* A block arrives; the first loop starts with the blocked clients.        *)
LEMMA EntropyStep ==
  ASSUME IInv, ENTROPY
  PROVE  IInv'
<1> DEFINE b == [i \in 1 .. BlockLen |-> (fed + i - 1) % Labels]
<1>1. fed \in Nat /\ BlockLen \in Nat /\ Labels \in Nat \ {0}
  BY EgdAssumption DEF IInv, LoopOK
<1>2. \A x \in Nat : x % Labels \in Label
  BY <1>1 DEF Label
<1>3. \A i \in 1 .. BlockLen : (fed + i - 1) % Labels \in Label
  BY <1>1, <1>2
<1>4. b \in Seq(Label)
  BY <1>1, <1>3
<1>5. PoolOK'
  BY <1>4, EnqueueOK DEF IInv, ENTROPY
<1>6. ClientsOK'
  BY DEF IInv, ClientsOK, ENTROPY
<1>7. fed' \in 0 .. Labels
  <2>1. CASE Wrap
    <3>1. fed' = (fed + BlockLen) % Labels /\ fed + BlockLen \in Nat
      BY <1>1, <2>1 DEF ENTROPY
    <3>2. fed' \in Label
      BY <1>2, <3>1
    <3> QED
      BY <1>1, <3>2 DEF Label
  <2>2. CASE ~Wrap
    BY <1>1, <2>2 DEF ENTROPY
  <2> QED
    BY <2>1, <2>2
<1>8. LoopOK'
  <2>1. /\ closed' = closed /\ script' = script /\ pos' = pos
        /\ to_try' = to_try /\ egdwriteblocked' = egdwriteblocked
    BY DEF ENTROPY
  <2>2. pc' \in {"idle", "spread", "try"} /\ todo' \subseteq Clients
    BY DEF IInv, LoopOK, ENTROPY, Blocked
  <2>3. pc' = "spread" => todo' \subseteq Blocked'
    BY DEF ENTROPY, Blocked
  <2> QED
    BY <1>7, <2>1, <2>2, <2>3 DEF IInv, LoopOK
<1> QED
  BY <1>5, <1>6, <1>8 DEF IInv

(* One turn of the first loop: the client is still blocked, so that it is  *)
(* a number of bytes that is taken from the pool.                          *)
LEMMA SpreadStep ==
  ASSUME IInv, NEW c \in Clients, egd_spreadwrite(c)
  PROVE  IInv'
<1>1. c \in Blocked
  BY DEF IInv, LoopOK, egd_spreadwrite
<1>2. egdwriteblocked[c] \in Nat
  BY <1>1 DEF IInv, ClientsOK, Blocked
<1>3. PoolOK'
  BY <1>2, DequeueOK DEF IInv, egd_spreadwrite
<1>4. /\ \/ egdwriteblocked' = [egdwriteblocked EXCEPT ![c] = nil]
         \/ egdwriteblocked' = egdwriteblocked
      /\ readbuffers' = readbuffers /\ egdreadblocked' = egdreadblocked
      /\ status' = status
      /\ to_try' = to_try \/ to_try' = to_try \cup {c}
  BY DEF egd_spreadwrite
<1>5. ClientsOK'
  BY <1>4 DEF IInv, ClientsOK
<1>6. to_try' \subseteq Clients
  BY <1>4 DEF IInv, LoopOK
<1>7. \/ pc' = "spread" /\ todo' = todo \ {c}
      \/ pc' \in {"idle", "try"} /\ todo' = to_try'
  BY DEF egd_spreadwrite
<1>8. pc' = "spread" => todo' \subseteq Blocked'
  <2>1. \A d \in Clients \ {c} : egdwriteblocked'[d] = egdwriteblocked[d]
    BY <1>4 DEF IInv, ClientsOK
  <2>2. pc = "spread"
    BY DEF egd_spreadwrite
  <2> QED
    BY <1>7, <2>1, <2>2 DEF IInv, LoopOK, Blocked
<1>9. LoopOK'
  <2>1. /\ fed' = fed /\ closed' = closed /\ script' = script /\ pos' = pos
    BY DEF egd_spreadwrite
  <2>2. pc' \in {"idle", "spread", "try"} /\ todo' \subseteq Clients
    BY <1>6, <1>7 DEF IInv, LoopOK
  <2> QED
    BY <1>6, <1>8, <2>1, <2>2 DEF IInv, LoopOK
<1> QED
  BY <1>3, <1>5, <1>9 DEF IInv

(* One turn of the second loop.                                            *)
LEMMA RetryStep ==
  ASSUME IInv, NEW c \in Clients, egd_retry(c)
  PROVE  IInv'
<1>1. readbuffers[c] \in Seq(Byte)
  BY DEF IInv, ClientsOK
<1>2. PoolOK' /\ ClientsOK'
  BY <1>1, TryOK DEF IInv, egd_retry
<1>3. LoopOK'
  BY DEF IInv, LoopOK, egd_retry
<1> QED
  BY <1>2, <1>3 DEF IInv

(* No connection has sent anything yet.                                    *)
LEMMA InitInv == Init => IInv
<1> SUFFICES ASSUME Init PROVE IInv
  OBVIOUS
<1>1. PoolOK
  BY EgdAssumption DEF Init, PoolOK, Label
<1>2. ClientsOK
  BY DEF Init, ClientsOK, Byte
<1>3. LoopOK
  <2>1. script \in [Clients -> Seq(Byte)]
    BY EgdAssumption DEF Init, Byte
  <2> QED
    BY <2>1, EgdAssumption DEF Init, LoopOK
<1> QED
  BY <1>1, <1>2, <1>3 DEF IInv

(* IInv is inductive.                                                      *)
LEMMA StepInv == IInv /\ [Next]_vars => IInv'
<1> SUFFICES ASSUME IInv, [Next]_vars PROVE IInv'
  OBVIOUS
<1>1. CASE ENTROPY
  BY <1>1, EntropyStep
<1>2. ASSUME NEW c \in Clients,
             \/ egd_ctlread(c) \/ egd_spin(c) \/ egd_eof(c)
             \/ delctlsocket(c) \/ Collect(c) \/ egd_spreadwrite(c)
             \/ egd_retry(c) \/ Disconnect(c)
      PROVE  IInv'
  BY <1>2, ReadStep, SpinStep, EndStep, SpreadStep, RetryStep
<1>3. CASE UNCHANGED vars
  BY <1>3 DEF IInv, PoolOK, ClientsOK, LoopOK, Blocked, vars, serverVars
<1> QED
  BY <1>1, <1>2, <1>3 DEF Next

-----------------------------------------------------------------------------
(* The theorems *)

(* IInv is an invariant of the service.                                    *)
THEOREM Invariant == Spec => []IInv
BY InitInv, StepInv, PTL DEF Spec

(* Type correctness of the service.                                        *)
THEOREM TypeCorrect == Spec => []TypeOK
<1>1. IInv /\ Scripted => TypeOK
  <2>1. PoolOK => total_entropy \in 0 .. MAX_ENTROPY
    BY EgdAssumption DEF PoolOK
  <2> QED
    BY <2>1 DEF IInv, PoolOK, ClientsOK, LoopOK, Scripted, TypeOK, Byte, Label
<1>2. Init => Scripted
  BY DEF Init, Scripted
<1>3. Scripted /\ [Next]_vars => Scripted'
  BY DEF Scripted, Next, vars, serverVars, ENTROPY, egd_ctlread, egd_spin, egd_eof,
         delctlsocket, Collect, egd_spreadwrite, egd_retry, Disconnect
<1> QED
  BY <1>1, <1>2, <1>3, Invariant, PTL DEF Spec

(* The count dequeue_entropy loops on is what the pool holds, within the   *)
(* pool's limit.                                                           *)
THEOREM PoolIsCounted == Spec => []PoolCounted
<1>1. IInv => PoolCounted
  BY DEF IInv, PoolOK, PoolCounted
<1> QED
  BY <1>1, Invariant, PTL

-----------------------------------------------------------------------------
(* Induction over the natural numbers, and what the operators for          *)
(* sequences compute                                                       *)

(* Induction over the natural numbers, for a set of them.                  *)
LEMMA SetInduction ==
  ASSUME NEW S, 0 \in S, \A n \in Nat : n \in S => n + 1 \in S
  PROVE  Nat \subseteq S
<1> DEFINE T == Nat \ S
           R == {ss \in Nat \X Nat : ss[1] < ss[2]}
<1> SUFFICES ASSUME T # {} PROVE FALSE
  OBVIOUS
<1>1. OpToRel(<, Nat) = R
  BY DEF OpToRel
<1>2. IsWellFoundedOn(R, Nat)
  BY <1>1, NatLessThanWellFounded
<1>3. PICK x \in T : \A y \in T : ~ (<<y, x>> \in R)
  <2>1. T \subseteq Nat
    OBVIOUS
  <2> HIDE DEF T, R
  <2> QED
    BY <1>2, <2>1, WFMin
<1>4. \A y \in T : ~(y < x)
  BY <1>3
<1>5. x # 0
  BY <1>3
<1>6. x - 1 \in Nat
  BY <1>3, <1>5
<1>7. x - 1 \in S
  BY <1>4, <1>6
<1>8. x \in S
  BY <1>6, <1>7
<1> QED
  BY <1>8, <1>3

(* What FlattenSeq computes along a sequence of sequences.                 *)
Flattens(f, ss) ==
  f = [i \in 1 .. Len(ss) |-> IF i = 1 THEN ss[i] ELSE f[i - 1] \o ss[i]]

(* Such a function exists for every sequence of sequences.                 *)
LEMMA FlattenExists ==
  ASSUME NEW S, NEW ss \in Seq(Seq(S))
  PROVE  \E f : Flattens(f, ss)
<1> DEFINE Upto(f, n) ==
             f = [i \in 1 .. n |-> IF i = 1 THEN ss[i] ELSE f[i - 1] \o ss[i]]
           Q == {n \in Nat : \E f : Upto(f, n)}
<1>1. 0 \in Q
  <2>1. Upto(<<>>, 0)
    OBVIOUS
  <2> QED
    BY <2>1
<1>2. ASSUME NEW n \in Nat, n \in Q
      PROVE  n + 1 \in Q
  <2>1. PICK f : Upto(f, n)
    BY <1>2
  <2> DEFINE g == [i \in 1 .. n + 1 |->
                     IF i = n + 1 THEN IF i = 1 THEN ss[i] ELSE f[i - 1] \o ss[i] ELSE f[i]]
  <2>2. \A i \in 1 .. n + 1 : g[i] = IF i = 1 THEN ss[i] ELSE g[i - 1] \o ss[i]
    <3> SUFFICES ASSUME NEW i \in 1 .. n + 1
                 PROVE  g[i] = IF i = 1 THEN ss[i] ELSE g[i - 1] \o ss[i]
      OBVIOUS
    <3>1. CASE i = 1
      BY <2>1, <3>1
    <3>2. CASE i # 1
      <4>1. i - 1 \in 1 .. n /\ g[i - 1] = f[i - 1]
        BY <3>2
      <4>2. CASE i = n + 1
        BY <3>2, <4>1, <4>2
      <4>3. CASE i # n + 1
        <5>1. i \in 1 .. n /\ g[i] = f[i]
          BY <4>3
        <5> HIDE DEF g
        <5> QED
          BY <2>1, <3>2, <4>1, <5>1
      <4> QED
        BY <4>2, <4>3
    <3> QED
      BY <3>1, <3>2
  <2>3. Upto(g, n + 1)
    <3>1. g = [i \in 1 .. n + 1 |-> g[i]]
      OBVIOUS
    <3> HIDE DEF g
    <3> QED
      BY <2>2, <3>1
  <2> HIDE DEF g, Upto
  <2> QED
    BY <2>3
<1>3. Nat \subseteq Q
  <2> HIDE DEF Q
  <2> QED
    BY <1>1, <1>2, SetInduction
<1>4. \E f : Upto(f, Len(ss))
  <2> HIDE DEF Upto
  <2> QED
    BY <1>3
<1> QED
  BY <1>4 DEF Flattens

(* FlattenSeq is the last value of one.                                    *)
LEMMA FlattenIs ==
  ASSUME NEW S, NEW ss \in Seq(Seq(S)), ss # <<>>
  PROVE  \E f : Flattens(f, ss) /\ FlattenSeq(ss) = f[Len(ss)]
<1> DEFINE f == CHOOSE g : Flattens(g, ss)
<1>1. Flattens(f, ss)
  BY FlattenExists
<1>2. FlattenSeq(ss) = f[Len(ss)]
  BY DEF FlattenSeq, Flattens
<1> QED
  BY <1>1, <1>2

-----------------------------------------------------------------------------
(* Its values, one by one.                                                 *)
LEMMA FlattensAt ==
  ASSUME NEW ss, NEW f, Flattens(f, ss), NEW i \in 1 .. Len(ss)
  PROVE  f[i] = IF i = 1 THEN ss[i] ELSE f[i - 1] \o ss[i]
BY DEF Flattens

(* Two of them, for sequences that begin alike, begin alike.               *)
LEMMA FlattensAgree ==
  ASSUME NEW S, NEW ss \in Seq(Seq(S)), NEW tt \in Seq(Seq(S)),
         Len(ss) <= Len(tt), \A i \in 1 .. Len(ss) : ss[i] = tt[i],
         NEW f, NEW g, Flattens(f, ss), Flattens(g, tt)
  PROVE  \A i \in 1 .. Len(ss) : f[i] = g[i] /\ f[i] \in Seq(S)
<1> DEFINE n == Len(ss)
<1> DEFINE Q == {i \in Nat : i \in 1 .. n => f[i] = g[i] /\ f[i] \in Seq(S)}
<1>1. 0 \in Q
  OBVIOUS
<1>2. ASSUME NEW i \in Nat, i \in Q
      PROVE  i + 1 \in Q
  <2> SUFFICES ASSUME i + 1 \in 1 .. n
               PROVE  f[i + 1] = g[i + 1] /\ f[i + 1] \in Seq(S)
    OBVIOUS
  <2>1. /\ f[i + 1] = IF i + 1 = 1 THEN ss[i + 1] ELSE f[i + 1 - 1] \o ss[i + 1]
        /\ g[i + 1] = IF i + 1 = 1 THEN tt[i + 1] ELSE g[i + 1 - 1] \o tt[i + 1]
    <3>1. i + 1 \in 1 .. Len(ss) /\ i + 1 \in 1 .. Len(tt)
      BY LenProperties
    <3> QED
      BY <3>1, FlattensAt
  <2>2. ss[i + 1] = tt[i + 1] /\ ss[i + 1] \in Seq(S)
    OBVIOUS
  <2>3. CASE i = 0
    BY <2>1, <2>2, <2>3
  <2>4. CASE i # 0
    <3>1. f[i] = g[i] /\ f[i] \in Seq(S)
      BY <1>2, <2>4
    <3> QED
      BY <2>1, <2>2, <2>4, <3>1
  <2> QED
    BY <2>3, <2>4
<1>3. Nat \subseteq Q
  <2> HIDE DEF Q
  <2> QED
    BY <1>1, <1>2, SetInduction
<1> QED
  BY <1>3

(* FlattenSeq, one sequence more at a time.                                *)
LEMMA FlattenAppend ==
  ASSUME NEW S, NEW ss \in Seq(Seq(S)), NEW s \in Seq(S)
  PROVE  /\ FlattenSeq(ss) \in Seq(S)
         /\ FlattenSeq(Append(ss, s)) = FlattenSeq(ss) \o s
<1> DEFINE tt == Append(ss, s)
<1>1. /\ tt \in Seq(Seq(S)) /\ tt # <<>> /\ Len(tt) = Len(ss) + 1 /\ tt[Len(ss) + 1] = s
      /\ \A i \in 1 .. Len(ss) : ss[i] = tt[i]
  <2> s \in Seq(S)
    OBVIOUS
  <2> QED
    BY AppendProperties
<1>2. PICK g : Flattens(g, tt) /\ FlattenSeq(tt) = g[Len(tt)]
  <2> HIDE DEF tt
  <2> QED
    BY <1>1, FlattenIs
<1> HIDE DEF tt
<1>3. g[Len(tt)] = IF Len(tt) = 1 THEN s ELSE g[Len(ss)] \o s
  <2>1. Len(ss) \in Nat /\ Len(tt) \in 1 .. Len(tt) /\ Len(tt) - 1 = Len(ss)
    BY <1>1, LenProperties
  <2>2. g[Len(tt)] = IF Len(tt) = 1 THEN tt[Len(tt)] ELSE g[Len(tt) - 1] \o tt[Len(tt)]
    BY <1>2, <2>1, FlattensAt
  <2> QED
    BY <1>1, <2>1, <2>2
<1>4. CASE ss = <<>>
  <2>1. FlattenSeq(ss) = <<>>
    BY <1>4 DEF FlattenSeq
  <2>2. Len(tt) = 1
    BY <1>1, <1>4
  <2>3. FlattenSeq(ss) \in Seq(S) /\ FlattenSeq(ss) \o s = s
    BY <2>1, EmptySeq, ConcatEmptySeq
  <2> QED
    BY <1>2, <1>3, <2>2, <2>3 DEF tt
<1>5. CASE ss # <<>>
  <2>1. PICK f : Flattens(f, ss) /\ FlattenSeq(ss) = f[Len(ss)]
    BY <1>5, FlattenIs
  <2>2. Len(ss) \in Nat /\ Len(ss) >= 1 /\ Len(ss) <= Len(tt) /\ Len(tt) # 1
    BY <1>1, <1>5
  <2>3. \A i \in 1 .. Len(ss) : f[i] = g[i] /\ f[i] \in Seq(S)
    <3>1. Flattens(f, ss) /\ Flattens(g, tt)
      BY <1>2, <2>1
    <3> QED
      BY <1>1, <2>2, <3>1, FlattensAgree
  <2>4. f[Len(ss)] = g[Len(ss)] /\ f[Len(ss)] \in Seq(S)
    BY <2>2, <2>3
  <2> QED
    BY <1>2, <1>3, <2>1, <2>2, <2>4 DEF tt
<1> QED
  BY <1>4, <1>5

(* Concatenation is associative.                                           *)
LEMMA Associative ==
  ASSUME NEW S, NEW a \in Seq(S), NEW b \in Seq(S), NEW c \in Seq(S)
  PROVE  a \o (b \o c) = (a \o b) \o c
OBVIOUS

(* More at the end of the last sequence is more at the end of all.         *)
LEMMA FlattenLonger ==
  ASSUME NEW S, NEW ss \in Seq(Seq(S)), ss # <<>>, NEW s \in Seq(S)
  PROVE  FlattenSeq([ss EXCEPT ![Len(ss)] = @ \o s]) = FlattenSeq(ss) \o s
<1>1. PICK front \in Seq(Seq(S)), last \in Seq(S) : ss = Append(front, last)
  BY SequenceEmptyOrAppend
<1>2. /\ Len(ss) = Len(front) + 1 /\ ss[Len(ss)] = last /\ Len(front) \in Nat
      /\ \A i \in 1 .. Len(front) : ss[i] = front[i]
  BY <1>1, AppendProperties, LenProperties
<1>3. last \o s \in Seq(S)
  BY ConcatProperties
<1>4. DOMAIN ss = 1 .. Len(front) + 1
  BY <1>2, LenProperties
<1>5. [ss EXCEPT ![Len(ss)] = @ \o s] = Append(front, last \o s)
  <2> DEFINE a == [ss EXCEPT ![Len(ss)] = last \o s]
             b == Append(front, last \o s)
  <2>1. /\ b \in Seq(Seq(S)) /\ Len(b) = Len(front) + 1 /\ b[Len(front) + 1] = last \o s
        /\ \A i \in 1 .. Len(front) : b[i] = front[i]
    BY <1>3, AppendProperties
  <2>2. /\ a \in Seq(Seq(S)) /\ Len(a) = Len(ss)
    BY <1>2, <1>3, ExceptSeq
  <2>3. \A i \in 1 .. Len(front) + 1 : a[i] = b[i]
    <3>1. \A i \in 1 .. Len(front) + 1 :
            a[i] = IF i = Len(front) + 1 THEN last \o s ELSE ss[i]
      BY <1>2, <1>4
    <3> HIDE DEF a, b
    <3> SUFFICES ASSUME NEW i \in 1 .. Len(front) + 1
                 PROVE  a[i] = b[i]
      OBVIOUS
    <3>2. CASE i = Len(front) + 1
      BY <2>1, <3>1, <3>2
    <3>3. CASE i # Len(front) + 1
      <4>1. i \in 1 .. Len(front)
        BY <1>2, <3>3
      <4> QED
        BY <1>2, <2>1, <3>1, <3>3, <4>1
    <3> QED
      BY <3>2, <3>3
  <2>4. a = b
    <3> HIDE DEF a, b
    <3> QED
      BY <1>2, <2>1, <2>2, <2>3, SeqEqual
  <2> QED
    BY <1>2, <2>4
<1>6. /\ FlattenSeq(ss) = FlattenSeq(front) \o last
      /\ FlattenSeq(Append(front, last \o s)) = FlattenSeq(front) \o (last \o s)
      /\ FlattenSeq(front) \in Seq(S)
  BY <1>1, <1>3, FlattenAppend
<1>7. FlattenSeq(front) \o (last \o s) = (FlattenSeq(front) \o last) \o s
  <2>1. \A x \in Seq(S) : x \o (last \o s) = (x \o last) \o s
    BY Associative
  <2>2. FlattenSeq(front) \in Seq(S)
    BY <1>6
  <2> QED
    BY ONLY <2>1, <2>2
<1> QED
  BY <1>5, <1>6, <1>7

-----------------------------------------------------------------------------
(* The facts about sequences that are needed again and again.              *)
LEMMA SeqFacts ==
  ASSUME NEW S, NEW s \in Seq(S)
  PROVE  /\ Len(s) \in Nat /\ DOMAIN s = 1 .. Len(s) /\ (s # <<>> => Len(s) >= 1)
         /\ \A i \in 1 .. Len(s) : s[i] \in S
BY LenProperties, ElementOfSeq, EmptySeq

(* A sequence with one element more.                                       *)
LEMMA AppendFacts ==
  ASSUME NEW S, NEW s \in Seq(S), NEW e \in S
  PROVE  /\ Append(s, e) \in Seq(S) /\ Len(Append(s, e)) = Len(s) + 1
         /\ Append(s, e)[Len(s) + 1] = e
         /\ \A i \in 1 .. Len(s) : Append(s, e)[i] = s[i]
BY AppendProperties

(* A sequence with one element replaced.                                   *)
LEMMA ExceptFacts ==
  ASSUME NEW S, NEW s \in Seq(S), NEW n \in 1 .. Len(s), NEW e \in S
  PROVE  /\ [s EXCEPT ![n] = e] \in Seq(S) /\ Len([s EXCEPT ![n] = e]) = Len(s)
         /\ \A i \in 1 .. Len(s) : [s EXCEPT ![n] = e][i] = IF i = n THEN e ELSE s[i]
BY ExceptSeq, LenProperties

(* What is taken and what is left, element by element.                     *)
LEMMA FirstRestAt ==
  ASSUME NEW S, NEW s \in Seq(S), NEW m \in 0 .. Len(s)
  PROVE  /\ First(s, m) \in Seq(S) /\ Len(First(s, m)) = m
         /\ \A i \in 1 .. m : First(s, m)[i] = s[i]
         /\ Rest(s, m) \in Seq(S) /\ Len(Rest(s, m)) = Len(s) - m
         /\ \A i \in 1 .. Len(s) - m : Rest(s, m)[i] = s[m + i]
<1>1. m \in Nat /\ Len(s) \in Nat /\ m <= Len(s) /\ Least(m, Len(s)) = m
  BY LenProperties DEF Least
<1>2. \A i \in 1 .. Len(s) : s[i] \in S
  BY ElementOfSeq
<1>3. \A i \in 1 .. m : s[i] \in S
  BY <1>1, <1>2
<1>4. \A i \in m + 1 .. Len(s) : s[i] \in S
  BY <1>1, <1>2
<1>5. /\ First(s, m) \in Seq(S) /\ Len(First(s, m)) = m
      /\ \A i \in 1 .. m : First(s, m)[i] = s[i]
  BY <1>1, <1>3, SubSeqProperties DEF First
<1>6. /\ Rest(s, m) \in Seq(S) /\ Len(Rest(s, m)) = Len(s) - m
      /\ \A i \in 1 .. Len(s) - m : Rest(s, m)[i] = s[m + i]
  BY <1>1, <1>4, SubSeqProperties DEF Rest
<1> QED
  BY <1>5, <1>6

(* Distinct bytes, the first m of which move from the pool to the end of   *)
(* what a client has, stay distinct.                                       *)
LEMMA MoveDistinct ==
  ASSUME NEW p \in Seq(Label), NEW m \in 0 .. Len(p), NEW h \in Seq(Label),
         IsInjective(p), IsInjective(h), Range(h) \cap Range(p) = {}
  PROVE  LET q == Rest(p, m)
             g == h \o First(p, m)
         IN  /\ IsInjective(q) /\ Range(q) \subseteq Range(p)
             /\ IsInjective(g) /\ Range(g) \subseteq Range(h) \cup Range(p)
             /\ Range(g) \cap Range(q) = {}
<1> DEFINE f == First(p, m)
           q == Rest(p, m)
           g == h \o f
<1>1. /\ f \in Seq(Label) /\ Len(f) = m /\ \A i \in 1 .. m : f[i] = p[i]
      /\ q \in Seq(Label) /\ Len(q) = Len(p) - m /\ \A i \in 1 .. Len(p) - m : q[i] = p[m + i]
      /\ Len(p) \in Nat /\ m \in Nat /\ m <= Len(p) /\ Len(h) \in Nat
  <2>1. /\ f \in Seq(Label) /\ Len(f) = m /\ \A i \in 1 .. m : f[i] = p[i]
        /\ q \in Seq(Label) /\ Len(q) = Len(p) - m
        /\ \A i \in 1 .. Len(p) - m : q[i] = p[m + i]
    BY FirstRestAt
  <2>2. Len(p) \in Nat /\ Len(h) \in Nat
    BY SeqFacts
  <2> QED
    BY <2>1, <2>2
<1>2. /\ g \in Seq(Label) /\ Len(g) = Len(h) + m
      /\ \A i \in 1 .. Len(h) + m : g[i] = IF i <= Len(h) THEN h[i] ELSE p[i - Len(h)]
  <2> HIDE DEF f
  <2>1. /\ g \in Seq(Label) /\ Len(g) = Len(h) + Len(f)
        /\ \A i \in 1 .. Len(h) + Len(f) : g[i] = IF i <= Len(h) THEN h[i] ELSE f[i - Len(h)]
    BY <1>1, ConcatProperties
  <2>2. \A i \in 1 .. Len(h) + m : ~(i <= Len(h)) => i - Len(h) \in 1 .. m
    BY <1>1
  <2> HIDE DEF g
  <2> QED
    BY <1>1, <2>1, <2>2
<1>3. /\ DOMAIN p = 1 .. Len(p) /\ DOMAIN h = 1 .. Len(h)
      /\ DOMAIN g = 1 .. Len(h) + m /\ DOMAIN q = 1 .. Len(p) - m
  BY <1>1, <1>2, LenProperties
<1> HIDE DEF f, g, q
<1>4. \A i \in DOMAIN p, j \in DOMAIN p : p[i] = p[j] => i = j
  BY DEF IsInjective
<1>5. \A i \in DOMAIN h, j \in DOMAIN h : h[i] = h[j] => i = j
  BY DEF IsInjective
<1>6. \A i \in DOMAIN h, j \in DOMAIN p : h[i] # p[j]
  BY DEF Range
<1>7. IsInjective(q) /\ Range(q) \subseteq Range(p)
  <2>1. \A i \in DOMAIN q : m + i \in DOMAIN p /\ q[i] = p[m + i]
    BY <1>1, <1>3
  <2> QED
    <3>1. \A i \in DOMAIN q, j \in DOMAIN q : q[i] = q[j] => i = j
      <4> SUFFICES ASSUME NEW i \in DOMAIN q, NEW j \in DOMAIN q, q[i] = q[j]
                   PROVE  i = j
        OBVIOUS
      <4>1. m + i = m + j
        BY <1>4, <2>1
      <4> QED
        BY <1>1, <1>3, <4>1
    <3> QED
      BY <2>1, <3>1 DEF IsInjective, Range
<1>8. \A i \in DOMAIN g : \/ i \in DOMAIN h /\ g[i] = h[i]
                          \/ /\ i - Len(h) \in 1 .. m /\ i - Len(h) \in DOMAIN p
                             /\ g[i] = p[i - Len(h)]
  BY <1>1, <1>2, <1>3
<1>9. IsInjective(g) /\ Range(g) \subseteq Range(h) \cup Range(p)
  <2>1. \A i \in DOMAIN g, j \in DOMAIN g : g[i] = g[j] => i = j
    <3> SUFFICES ASSUME NEW i \in DOMAIN g, NEW j \in DOMAIN g, g[i] = g[j]
                 PROVE  i = j
      OBVIOUS
    <3>1. i \in Int /\ j \in Int /\ Len(h) \in Int
      BY <1>1, <1>3
    <3>2. CASE i \in DOMAIN h /\ g[i] = h[i]
      BY <1>5, <1>6, <1>8, <3>2
    <3>3. CASE i - Len(h) \in DOMAIN p /\ g[i] = p[i - Len(h)]
      <4>1. j - Len(h) \in DOMAIN p /\ g[j] = p[j - Len(h)]
        BY <1>6, <1>8, <3>3
      <4>2. i - Len(h) = j - Len(h)
        BY <1>4, <3>3, <4>1
      <4> QED
        BY <3>1, <4>2
    <3> QED
      BY <1>8, <3>2, <3>3
  <2> QED
    BY <1>8, <2>1 DEF IsInjective, Range
<1>10. Range(g) \cap Range(q) = {}
  <2>1. ASSUME NEW i \in DOMAIN g, NEW j \in DOMAIN q
        PROVE  g[i] # q[j]
    <3>1. m + j \in DOMAIN p /\ q[j] = p[m + j] /\ j >= 1
      BY <1>1, <1>3
    <3> QED
      BY <1>1, <1>3, <1>4, <1>6, <1>8, <3>1
  <2> QED
    BY <2>1 DEF Range
<1> QED
  BY <1>7, <1>9, <1>10 DEF f, g, q

-----------------------------------------------------------------------------
(* What was handed out *)

AnswerRecord == [kind : {"pool", "read", "block", "pid"}, size : Nat, bytes : Seq(Label)]

AnswersOK == answers \in [Clients -> Seq(AnswerRecord)]

BytesOf(rs) == [j \in DOMAIN rs |-> rs[j].bytes]

(* The bytes of the answers, one sequence each.                            *)
LEMMA BytesOfOK ==
  ASSUME NEW rs \in Seq(AnswerRecord)
  PROVE  /\ BytesOf(rs) \in Seq(Seq(Label))
         /\ Len(BytesOf(rs)) = Len(rs)
         /\ \A j \in 1 .. Len(rs) : BytesOf(rs)[j] = rs[j].bytes
         /\ FlattenSeq(BytesOf(rs)) \in Seq(Label)
<1>1. Len(rs) \in Nat /\ DOMAIN rs = 1 .. Len(rs)
  BY LenProperties
<1>2. \A j \in 1 .. Len(rs) : rs[j].bytes \in Seq(Label)
  <2>1. \A a \in AnswerRecord : a.bytes \in Seq(Label)
    BY DEF AnswerRecord
  <2> QED
    BY <2>1, SeqFacts
<1>3. BytesOf(rs) = [j \in 1 .. Len(rs) |-> rs[j].bytes]
  BY <1>1 DEF BytesOf
<1>4. BytesOf(rs) \in Seq(Seq(Label))
  <2>1. [j \in 1 .. Len(rs) |-> rs[j].bytes] \in Seq(Seq(Label))
    BY <1>1, <1>2, IsASeq
  <2> QED
    BY <1>3, <2>1
<1>5. /\ DOMAIN BytesOf(rs) = 1 .. Len(rs) /\ Len(BytesOf(rs)) \in Nat
      /\ DOMAIN BytesOf(rs) = 1 .. Len(BytesOf(rs))
  BY <1>3, <1>4, SeqFacts
<1>6. Len(BytesOf(rs)) = Len(rs)
  BY <1>1, <1>5
<1>7. FlattenSeq(BytesOf(rs)) \in Seq(Label)
  BY <1>4, EmptySeq, FlattenAppend
<1> QED
  BY <1>3, <1>4, <1>6, <1>7

(* One answer more, or more bytes for the last one, put these bytes at the *)
(* end of what the client was handed.                                      *)
LEMMA HandedAppend ==
  ASSUME NEW rs \in Seq(AnswerRecord), NEW a \in AnswerRecord
  PROVE  /\ Append(rs, a) \in Seq(AnswerRecord)
         /\ FlattenSeq(BytesOf(Append(rs, a))) = FlattenSeq(BytesOf(rs)) \o a.bytes
<1> DEFINE bs == Append(rs, a)
<1>1. /\ bs \in Seq(AnswerRecord) /\ Len(bs) = Len(rs) + 1 /\ bs[Len(rs) + 1] = a
      /\ \A j \in 1 .. Len(rs) : bs[j] = rs[j]
  BY AppendFacts
<1>2. a.bytes \in Seq(Label)
  BY DEF AnswerRecord
<1> HIDE DEF bs
<1>3. BytesOf(bs) = Append(BytesOf(rs), a.bytes)
  <2> DEFINE x == BytesOf(bs)
             y == Append(BytesOf(rs), a.bytes)
  <2>1. /\ x \in Seq(Seq(Label)) /\ Len(x) = Len(rs) + 1
        /\ \A j \in 1 .. Len(bs) : x[j] = bs[j].bytes
    BY <1>1, BytesOfOK
  <2>2. /\ BytesOf(rs) \in Seq(Seq(Label)) /\ Len(BytesOf(rs)) = Len(rs)
        /\ \A j \in 1 .. Len(rs) : BytesOf(rs)[j] = rs[j].bytes
    BY BytesOfOK
  <2>3. /\ y \in Seq(Seq(Label)) /\ Len(y) = Len(rs) + 1 /\ y[Len(rs) + 1] = a.bytes
        /\ \A j \in 1 .. Len(rs) : y[j] = rs[j].bytes
    BY <1>2, <2>2, AppendFacts
  <2> HIDE DEF x, y
  <2>4. \A j \in 1 .. Len(rs) + 1 : x[j] = y[j]
    <3>1. \A j \in 1 .. Len(rs) + 1 : j = Len(rs) + 1 \/ j \in 1 .. Len(rs)
      <4>1. Len(rs) \in Nat
        BY SeqFacts
      <4> QED
        BY <4>1
    <3> QED
      BY <1>1, <2>1, <2>3, <3>1
  <2> QED
    BY <2>1, <2>3, <2>4, SeqEqual DEF x, y
<1>4. BytesOf(rs) \in Seq(Seq(Label))
  BY BytesOfOK
<1>5. FlattenSeq(Append(BytesOf(rs), a.bytes)) = FlattenSeq(BytesOf(rs)) \o a.bytes
  BY <1>2, <1>4, FlattenAppend
<1> QED
  BY <1>1, <1>3, <1>5 DEF bs

(* More bytes for the last answer are more bytes at the end.               *)
LEMMA HandedLonger ==
  ASSUME NEW rs \in Seq(AnswerRecord), rs # <<>>, NEW s \in Seq(Label)
  PROVE  LET bs == [rs EXCEPT ![Len(rs)].bytes = @ \o s]
         IN  /\ bs \in Seq(AnswerRecord)
             /\ FlattenSeq(BytesOf(bs)) = FlattenSeq(BytesOf(rs)) \o s
<1> DEFINE n == Len(rs)
           bs == [rs EXCEPT ![n].bytes = @ \o s]
           e == [rs[n] EXCEPT !.bytes = @ \o s]
<1>1. n \in 1 .. n /\ DOMAIN rs = 1 .. n
  BY SeqFacts
<1>2. rs[n] \in AnswerRecord /\ rs[n].bytes \in Seq(Label)
  <2>1. rs[n] \in AnswerRecord
    BY <1>1, SeqFacts
  <2> QED
    BY <2>1 DEF AnswerRecord
<1>3. e \in AnswerRecord /\ e.bytes = rs[n].bytes \o s
  <2>1. rs[n].bytes \o s \in Seq(Label)
    BY <1>2, ConcatProperties
  <2> QED
    BY <1>2, <2>1 DEF AnswerRecord
<1>4. bs = [rs EXCEPT ![n] = e]
  BY <1>1
<1>5. bs \in Seq(AnswerRecord) /\ Len(bs) = n
      /\ \A j \in 1 .. n : bs[j] = IF j = n THEN e ELSE rs[j]
  <2> HIDE DEF e, bs
  <2> QED
    BY <1>1, <1>3, <1>4, ExceptFacts
<1> HIDE DEF bs, e
<1>6. BytesOf(bs) = [BytesOf(rs) EXCEPT ![n] = @ \o s]
  <2>1. BytesOf(bs) = [j \in 1 .. n |-> bs[j].bytes] /\ BytesOf(rs) = [j \in 1 .. n |-> rs[j].bytes]
    BY <1>1, <1>5, LenProperties DEF BytesOf
  <2> DEFINE longer == rs[n].bytes \o s
             x == BytesOf(rs)
  <2>2. \A j \in 1 .. n : bs[j].bytes = IF j = n THEN longer ELSE rs[j].bytes
    BY <1>3, <1>5
  <2>3. x[n] = rs[n].bytes /\ x[n] \o s = longer
    BY <1>1, <2>1
  <2> HIDE DEF longer, x
  <2>4. [x EXCEPT ![n] = @ \o s] = [j \in 1 .. n |-> IF j = n THEN longer ELSE rs[j].bytes]
    BY <1>1, <2>1, <2>3 DEF x
  <2>5. BytesOf(bs) = [j \in 1 .. n |-> IF j = n THEN longer ELSE rs[j].bytes]
    BY <2>1, <2>2
  <2> QED
    BY <2>4, <2>5 DEF x
<1>7. BytesOf(rs) \in Seq(Seq(Label)) /\ Len(BytesOf(rs)) = n /\ BytesOf(rs) # <<>>
  BY <1>1, BytesOfOK, EmptySeq
<1>8. FlattenSeq([BytesOf(rs) EXCEPT ![n] = @ \o s]) = FlattenSeq(BytesOf(rs)) \o s
  <2> DEFINE w == BytesOf(rs)
  <2> HIDE DEF w, n
  <2>1. FlattenSeq([w EXCEPT ![Len(w)] = @ \o s]) = FlattenSeq(w) \o s
    BY <1>7, FlattenLonger DEF w
  <2> QED
    BY <1>7, <2>1 DEF w
<1> QED
  BY <1>5, <1>6, <1>8 DEF bs

-----------------------------------------------------------------------------
(* No byte twice                                                           *)

(* A byte sequence that egd_try_cmd is called with.                        *)
LEMMA TriedBytes ==
  ASSUME IInv, NEW c \in Clients, egd_ctlread(c) \/ egd_spin(c) \/ egd_retry(c)
  PROVE  \E buf \in Seq(Byte) : egd_try_cmd(c, buf)
<1>1. readbuffers[c] \in Seq(Byte)
  BY DEF IInv, ClientsOK
<1>2. CASE egd_ctlread(c)
  <2>1. script[c] \in Seq(Byte) /\ pos[c] + 1 \in 1 .. Len(script[c])
    BY <1>2, EgdAssumption DEF IInv, LoopOK, egd_ctlread, Byte
  <2>2. Append(readbuffers[c], script[c][pos[c] + 1]) \in Seq(Byte)
    BY <1>1, <2>1
  <2> QED
    BY <1>2, <2>2 DEF egd_ctlread
<1>3. CASE egd_spin(c) \/ egd_retry(c)
  BY <1>1, <1>3 DEF egd_spin, egd_retry
<1> QED
  BY <1>2, <1>3

(* While the keys deliver each byte once: no byte that is in the pool or   *)
(* that a client has been handed is still to come.                         *)
NoneToCome ==
  /\ \A i \in DOMAIN pool : pool[i] < fed
  /\ \A c \in Clients : \A i \in DOMAIN Handed(c) : Handed(c)[i] < fed

UsedOnce == AnswersOK /\ NoneToCome /\ NoByteTwice

(* What a step does to the pool and to the clients' answers: client c is   *)
(* given the first bytes, or they are lost.                                *)
Gives(c) ==
  \E m \in 0 .. Len(pool) :
    /\ pool' = Rest(pool, m)
    /\ \A d \in Clients \ {c} : answers'[d] = answers[d]
    /\ Handed(c)' \in {Handed(c), Handed(c) \o First(pool, m)}

(* Handed in terms of BytesOf.                                             *)
LEMMA HandedIs == \A c \in Clients : Handed(c) = FlattenSeq(BytesOf(answers[c]))
BY DEF Handed, BytesOf

(* A client is handed entropy bytes.                                       *)
LEMMA HandedOK ==
  ASSUME AnswersOK, NEW c \in Clients
  PROVE  Handed(c) \in Seq(Label)
<1>1. answers[c] \in Seq(AnswerRecord)
  BY DEF AnswersOK
<1> QED
  BY <1>1, BytesOfOK, HandedIs

(* A step that moves bytes from the pool to one client keeps them all      *)
(* distinct.                                                               *)
LEMMA GivesOnce ==
  ASSUME PoolOK, UsedOnce, AnswersOK', NEW c \in Clients, Gives(c), fed' = fed
  PROVE  UsedOnce'
<1>1. PICK m \in 0 .. Len(pool) :
        /\ pool' = Rest(pool, m)
        /\ \A d \in Clients \ {c} : answers'[d] = answers[d]
        /\ Handed(c)' \in {Handed(c), Handed(c) \o First(pool, m)}
  BY DEF Gives
<1> DEFINE H(d) == Handed(d)
           h == Handed(c)
           g == Handed(c) \o First(pool, m)
<1>2. \A d \in Clients : H(d) \in Seq(Label)
  BY HandedOK DEF UsedOnce
<1>3. pool \in Seq(Label) /\ h \in Seq(Label)
  BY <1>2 DEF PoolOK
<1>4. /\ IsInjective(pool)
      /\ \A d \in Clients : /\ IsInjective(H(d)) /\ Range(H(d)) \cap Range(pool) = {}
                            /\ \A e \in Clients \ {d} : Range(H(d)) \cap Range(H(e)) = {}
  BY DEF UsedOnce, NoByteTwice
<1>5. /\ IsInjective(pool') /\ Range(pool') \subseteq Range(pool)
      /\ IsInjective(g) /\ Range(g) \subseteq Range(h) \cup Range(pool)
      /\ Range(g) \cap Range(pool') = {}
  BY <1>1, <1>3, <1>4, MoveDistinct
<1>6. \A d \in Clients \ {c} : H(d)' = H(d)
  BY <1>1 DEF Handed
<1>7. /\ IsInjective(h') /\ Range(h') \subseteq Range(h) \cup Range(pool)
      /\ Range(h') \cap Range(pool') = {}
  BY <1>1, <1>4, <1>5
<1>8. /\ \A x \in Range(pool) : x < fed
      /\ \A d \in Clients : \A x \in Range(H(d)) : x < fed
  BY DEF UsedOnce, NoneToCome, Range
<1>9. h' = H(c)'
  OBVIOUS
<1> HIDE DEF H, g, h
<1>10. \A d \in Clients : /\ IsInjective(H(d)') /\ Range(H(d)') \cap Range(pool') = {}
                          /\ Range(H(d)') \subseteq Range(H(d)) \cup Range(pool)
  BY <1>4, <1>5, <1>6, <1>7, <1>9 DEF H, h
<1>11. \A d \in Clients : \A e \in Clients \ {d} : Range(H(d)') \cap Range(H(e)') = {}
  BY <1>4, <1>6, <1>7, <1>9 DEF H, h
<1>12. NoByteTwice'
  BY <1>5, <1>10, <1>11 DEF NoByteTwice, H
<1>13. NoneToCome'
  <2>1. /\ \A x \in Range(pool') : x < fed
        /\ \A d \in Clients : \A x \in Range(H(d)') : x < fed
    BY <1>5, <1>8, <1>10
  <2> QED
    BY <2>1 DEF NoneToCome, Range, H
<1> QED
  BY <1>12, <1>13 DEF UsedOnce

-----------------------------------------------------------------------------
(* What is written to client c, and to nobody else.                        *)
Writes(c, s) ==
  /\ AnswersOK'
  /\ \A d \in Clients \ {c} : answers'[d] = answers[d]
  /\ Handed(c)' \in {Handed(c), Handed(c) \o s}

(* ctlwrite puts one answer at the end of what its client has.             *)
LEMMA CtlWrites ==
  ASSUME AnswersOK, NEW c \in Clients, NEW a \in AnswerRecord, ctlwrite(c, a)
  PROVE  /\ Writes(c, a.bytes)
         /\ ~gone(c) => /\ answers'[c] = Append(answers[c], a)
                        /\ Handed(c)' = Handed(c) \o a.bytes
<1>1. CASE gone(c)
  BY <1>1 DEF ctlwrite, Writes, AnswersOK, Handed
<1>2. CASE ~gone(c)
  <2>1. answers' = [answers EXCEPT ![c] = Append(answers[c], a)]
    BY <1>2 DEF ctlwrite
  <2>2. answers[c] \in Seq(AnswerRecord)
    BY DEF AnswersOK
  <2>3. /\ Append(answers[c], a) \in Seq(AnswerRecord)
        /\ FlattenSeq(BytesOf(Append(answers[c], a)))
             = FlattenSeq(BytesOf(answers[c])) \o a.bytes
    BY <2>2, HandedAppend
  <2>4. answers'[c] = Append(answers[c], a)
    BY <2>1 DEF AnswersOK
  <2>5. Handed(c)' = Handed(c) \o a.bytes
    BY <2>3, <2>4 DEF Handed, BytesOf
  <2>6. AnswersOK'
    BY <2>1, <2>3 DEF AnswersOK
  <2> QED
    BY <2>1, <2>4, <2>5, <2>6 DEF Writes
<1> QED
  BY <1>1, <1>2

(* complete puts bytes at the end of what its client has.                  *)
LEMMA CompleteWrites ==
  ASSUME AnswersOK, NEW c \in Clients, NEW s \in Seq(Label), complete(c, s)
  PROVE  /\ Writes(c, s)
         /\ ~gone(c) /\ answers[c] # <<>> => Handed(c)' = Handed(c) \o s
<1> DEFINE n == Len(answers[c])
           w == [answers[c] EXCEPT ![n].bytes = @ \o s]
<1>1. answers[c] \in Seq(AnswerRecord)
  BY DEF AnswersOK
<1>2. CASE gone(c)
  BY <1>2 DEF complete, Writes, AnswersOK, Handed
<1>3. CASE ~gone(c)
  <2>1. answers' = [answers EXCEPT ![c] = w]
    BY <1>3 DEF complete
  <2>2. /\ w \in Seq(AnswerRecord)
        /\ FlattenSeq(BytesOf(w))
             \in {FlattenSeq(BytesOf(answers[c])), FlattenSeq(BytesOf(answers[c])) \o s}
        /\ answers[c] # <<>> =>
             FlattenSeq(BytesOf(w)) = FlattenSeq(BytesOf(answers[c])) \o s
    <3>1. CASE answers[c] = <<>>
      <4>1. w = answers[c]
        BY <3>1
      <4> QED
        BY <1>1, <3>1, <4>1
    <3>2. CASE answers[c] # <<>>
      BY <1>1, <3>2, HandedLonger
    <3> QED
      BY <3>1, <3>2
  <2> HIDE DEF w
  <2>3. answers'[c] = w
    BY <2>1 DEF AnswersOK
  <2>4. /\ Handed(c)' \in {Handed(c), Handed(c) \o s}
        /\ answers[c] # <<>> => Handed(c)' = Handed(c) \o s
    BY <2>2, <2>3 DEF Handed, BytesOf
  <2>5. AnswersOK'
    BY <2>1, <2>2 DEF AnswersOK
  <2> QED
    BY <2>1, <2>4, <2>5 DEF Writes
<1> QED
  BY <1>2, <1>3

(* What a client is written is what is taken from the pool.                *)
LEMMA TakenGives ==
  ASSUME PoolOK, NEW n \in Nat, dequeue_entropy(n), NEW c \in Clients,
         Writes(c, dequeued(n))
  PROVE  Gives(c)
<1> DEFINE m == Least(n, total_entropy)
<1>1. m \in 0 .. Len(pool)
  BY DEF Least, PoolOK
<1>2. pool' = Rest(pool, m) /\ dequeued(n) = First(pool, m)
  BY DEF dequeue_entropy, dequeued
<1> HIDE DEF m
<1> QED
  BY <1>1, <1>2 DEF Gives, Writes

(* Nothing written, nothing taken.                                         *)
LEMMA NothingTaken ==
  ASSUME PoolOK, NEW c \in Clients, Writes(c, <<>>), pool' = pool
  PROVE  Gives(c)
<1>1. 0 \in 0 .. Len(pool) /\ 0 \in Nat
  BY SeqFacts DEF PoolOK
<1>2. /\ Rest(pool, 0) \in Seq(Label) /\ Len(Rest(pool, 0)) = Len(pool) - 0
      /\ \A i \in 1 .. Len(pool) - 0 : Rest(pool, 0)[i] = pool[0 + i]
      /\ First(pool, 0) \in Seq(Label) /\ Len(First(pool, 0)) = 0
  BY <1>1, FirstRestAt DEF PoolOK
<1>3. Rest(pool, 0) = pool
  <2>1. Len(pool) \in Nat /\ pool \in Seq(Label)
    BY SeqFacts DEF PoolOK
  <2>2. \A i \in 1 .. Len(pool) : Rest(pool, 0)[i] = pool[i]
    BY <1>2, <2>1
  <2> QED
    BY <1>2, <2>1, <2>2, SeqEqual
<1>4. First(pool, 0) = <<>>
  BY <1>2, EmptySeq
<1> QED
  BY <1>1, <1>3, <1>4 DEF Gives, Writes

(* A client that is written nothing.                                       *)
LEMMA NothingWritten ==
  ASSUME AnswersOK, NEW c \in Clients, answers' = answers, NEW s
  PROVE  Writes(c, s)
BY DEF Writes, AnswersOK, Handed

(* A call of egd_try_cmd writes to its client alone, and what it writes    *)
(* comes from the front of the pool.                                       *)
LEMMA DispatchGives ==
  ASSUME PoolOK, AnswersOK, NEW c \in Clients, NEW buf \in Seq(Byte), Dispatch(c, buf)
  PROVE  AnswersOK' /\ Gives(c)
<1> USE DEF Answer
<1>1. total_entropy * 8 \in Nat /\ 2 \in Nat /\ <<>> \in Seq(Label)
  BY SeqFacts DEF PoolOK
<1>2. CASE answers' = answers /\ pool' = pool
  BY <1>2, NothingWritten, NothingTaken DEF Writes
<1>3. CASE buf # <<>> /\ QueryPool(c, buf)
  <2>1. Answer("pool", total_entropy * 8, <<>>) \in AnswerRecord
    BY <1>1 DEF AnswerRecord
  <2>2. Writes(c, <<>>) /\ pool' = pool
    BY <1>3, <2>1, CtlWrites DEF QueryPool
  <2> QED
    BY <2>2, NothingTaken DEF Writes
<1>4. CASE buf # <<>> /\ GetPid(c, buf)
  <2>1. Answer("pid", 2, <<>>) \in AnswerRecord
    BY <1>1 DEF AnswerRecord
  <2>2. Writes(c, <<>>) /\ pool' = pool
    BY <1>4, <2>1, CtlWrites DEF GetPid
  <2> QED
    BY <2>2, NothingTaken DEF Writes
<1>5. CASE buf # <<>> /\ (ReadBytes(c, buf) \/ BlockRead(c, buf))
  <2>1. buf[2] \in Nat /\ dequeue_entropy(buf[2])
    BY <1>5, ByteOK DEF ReadBytes, BlockRead
  <2>2. dequeued(buf[2]) \in Seq(Label) /\ Len(dequeued(buf[2])) \in Nat
    BY <2>1, DequeueOK
  <2>3. /\ Answer("read", Len(dequeued(buf[2])), dequeued(buf[2])) \in AnswerRecord
        /\ Answer("block", buf[2], dequeued(buf[2])) \in AnswerRecord
    BY <2>1, <2>2 DEF AnswerRecord
  <2>4. Writes(c, dequeued(buf[2]))
    <3>1. PICK a \in AnswerRecord : ctlwrite(c, a) /\ a.bytes = dequeued(buf[2])
      BY <1>5, <2>3 DEF ReadBytes, BlockRead
    <3> QED
      BY <3>1, CtlWrites
  <2> QED
    BY <2>1, <2>4, TakenGives DEF Writes
<1> QED
  BY <1>2, <1>3, <1>4, <1>5 DEF Dispatch, PushBack, UnknownCmd

(* The same for any call of egd_try_cmd.                                   *)
LEMMA TryGives ==
  ASSUME PoolOK, ClientsOK, AnswersOK, NEW c \in Clients, NEW buf \in Seq(Byte),
         egd_try_cmd(c, buf)
  PROVE  AnswersOK' /\ Gives(c)
<1>1. CASE answers' = answers /\ pool' = pool
  BY <1>1, NothingWritten, NothingTaken DEF Writes
<1>2. ASSUME NEW b \in Seq(Byte), command(c, b)
      PROVE  AnswersOK' /\ Gives(c)
  BY <1>1, <1>2, DispatchGives DEF command, AddEntropy
<1>3. ASSUME egdreadblocked[c] # nil
      PROVE  Rest(buf, egdreadblocked[c]) \in Seq(Byte)
  BY <1>3, FirstRest DEF ClientsOK
<1> QED
  BY <1>1, <1>2, <1>3 DEF egd_try_cmd

-----------------------------------------------------------------------------
(* The steps *)

(* A block that comes in is new.                                           *)
LEMMA EntropyOnce ==
  ASSUME IInv, UsedOnce, ~Wrap, ENTROPY
  PROVE  UsedOnce'
<1> DEFINE b == [i \in 1 .. BlockLen |-> (fed + i - 1) % Labels]
<1>1. fed \in Nat /\ BlockLen \in Nat /\ Labels \in Nat \ {0} /\ fed + BlockLen <= Labels
  BY EgdAssumption DEF IInv, LoopOK, ENTROPY
<1>2. \A i \in 1 .. BlockLen : (fed + i - 1) % Labels = fed + i - 1 /\ fed + i - 1 \in Label
  <2>1. \A x \in Nat : x < Labels => x % Labels = x
    BY <1>1
  <2> QED
    BY <1>1, <2>1 DEF Label
<1>3. b \in Seq(Label) /\ Len(b) = BlockLen /\ \A i \in 1 .. BlockLen : b[i] = fed + i - 1
  <2>1. b \in Seq(Label)
    <3>1. \A i \in 1 .. BlockLen : (fed + i - 1) % Labels \in Label
      BY <1>2
    <3> QED
      BY <1>1, <3>1
  <2>2. DOMAIN b = 1 .. BlockLen /\ \A i \in 1 .. BlockLen : b[i] = fed + i - 1
    BY <1>2
  <2> HIDE DEF b
  <2> QED
    BY <1>1, <2>1, <2>2, SeqFacts
<1>4. UNCHANGED answers /\ fed' = fed + BlockLen /\ enqueue_entropy(b)
  BY DEF ENTROPY
<1> HIDE DEF b
<1>5. pool \in Seq(Label) /\ Len(pool) \in Nat /\ DOMAIN pool = 1 .. Len(pool)
  BY SeqFacts DEF IInv, PoolOK
<1>8. \A s \in Seq(Label) : \A i \in DOMAIN s : s[i] \in Nat
  <2>1. Label \subseteq Nat
    BY <1>1 DEF Label
  <2> QED
    BY <2>1, SeqFacts
<1>9. \A i \in DOMAIN pool : pool[i] < fed /\ pool[i] \in Nat
  BY <1>5, <1>8 DEF UsedOnce, NoneToCome
<1>10. \A c \in Clients : \A i \in DOMAIN Handed(c) : Handed(c)[i] < fed /\ Handed(c)[i] \in Nat
  <2>1. \A c \in Clients : Handed(c) \in Seq(Label)
    BY HandedOK DEF UsedOnce
  <2> QED
    BY <1>8, <2>1 DEF UsedOnce, NoneToCome
<1>11. \A c \in Clients : Handed(c)' = Handed(c)
  BY <1>4 DEF Handed
<1>12. \A x \in Nat : x < fed => x < fed'
  BY <1>1, <1>4
<1>6. CASE pool' = pool
  <2>1. NoneToCome'
    BY <1>6, <1>9, <1>10, <1>11, <1>12 DEF NoneToCome
  <2> QED
    BY <1>4, <1>6, <1>11, <2>1 DEF UsedOnce, AnswersOK, NoByteTwice
<1>7. CASE pool' = b \o pool
  <2>1. /\ DOMAIN pool' = 1 .. BlockLen + Len(pool)
        /\ \A i \in 1 .. BlockLen + Len(pool) :
             pool'[i] = IF i <= BlockLen THEN fed + i - 1 ELSE pool[i - BlockLen]
    <3>1. /\ b \o pool \in Seq(Label) /\ Len(b \o pool) = Len(b) + Len(pool)
          /\ \A i \in 1 .. Len(b) + Len(pool) :
               (b \o pool)[i] = IF i <= Len(b) THEN b[i] ELSE pool[i - Len(b)]
      BY <1>3, <1>5, ConcatProperties
    <3>2. DOMAIN (b \o pool) = 1 .. Len(b) + Len(pool)
      BY <3>1, SeqFacts
    <3> QED
      BY <1>1, <1>3, <1>5, <1>7, <3>1, <3>2
  <2>2. /\ \A i \in DOMAIN pool : pool[i] < fed /\ pool[i] \in Nat
        /\ \A i \in DOMAIN pool, j \in DOMAIN pool : pool[i] = pool[j] => i = j
    BY <1>9 DEF UsedOnce, NoByteTwice, IsInjective
  <2>3. \A i \in DOMAIN pool' :
          \/ i <= BlockLen /\ pool'[i] = fed + i - 1
          \/ i - BlockLen \in DOMAIN pool /\ pool'[i] = pool[i - BlockLen]
    BY <1>1, <1>5, <2>1
  <2>4. IsInjective(pool')
    <3> SUFFICES ASSUME NEW i \in DOMAIN pool', NEW j \in DOMAIN pool', pool'[i] = pool'[j]
                 PROVE  i = j
      BY DEF IsInjective
    <3>1. i \in Nat /\ j \in Nat /\ i >= 1 /\ j >= 1
      BY <1>1, <1>5, <2>1
    <3>2. CASE i <= BlockLen /\ pool'[i] = fed + i - 1
      <4>1. i <= BlockLen /\ pool'[i] >= fed /\ pool'[i] = fed + i - 1
        BY <1>1, <3>1, <3>2
      <4>2. ~(j - BlockLen \in DOMAIN pool /\ pool'[j] = pool[j - BlockLen])
        <5>1. \A k \in DOMAIN pool : pool[k] < fed /\ pool[k] \in Nat
          BY <2>2
        <5> QED
          BY <1>1, <4>1, <5>1
      <4>3. pool'[j] = fed + j - 1
        BY <2>3, <4>2
      <4>4. fed + i - 1 = fed + j - 1
        BY <4>1, <4>3
      <4> QED
        BY <1>1, <3>1, <4>4
    <3>3. CASE i - BlockLen \in DOMAIN pool /\ pool'[i] = pool[i - BlockLen]
      <4>1. j - BlockLen \in DOMAIN pool /\ pool'[j] = pool[j - BlockLen]
        <5>1. pool'[i] < fed /\ pool'[i] \in Nat
          BY <2>2, <3>3
        <5>2. pool'[j] # fed + j - 1
          BY <1>1, <3>1, <5>1
        <5> QED
          BY <2>3, <5>2
      <4>2. i - BlockLen = j - BlockLen
        BY <2>2, <3>3, <4>1
      <4> QED
        BY <1>1, <3>1, <4>2
    <3> QED
      BY <2>3, <3>2, <3>3
  <2>6. \A c \in Clients : Range(Handed(c)) \cap Range(pool') = {}
    <3> SUFFICES ASSUME NEW c \in Clients, NEW i \in DOMAIN Handed(c), NEW j \in DOMAIN pool'
                 PROVE  Handed(c)[i] # pool'[j]
      BY DEF Range
    <3>1. Handed(c)[i] < fed /\ Handed(c)[i] \in Nat /\ \A k \in DOMAIN pool : Handed(c)[i] # pool[k]
      BY <1>10 DEF UsedOnce, NoByteTwice, Range
    <3>2. j >= 1 /\ j \in Nat
      BY <1>1, <1>5, <2>1
    <3> QED
      BY <1>1, <2>3, <3>1, <3>2
  <2>7. NoByteTwice'
    BY <1>11, <2>4, <2>6 DEF UsedOnce, NoByteTwice
  <2>8. NoneToCome'
    <3>1. \A i \in DOMAIN pool' : pool'[i] < fed'
      <4> SUFFICES ASSUME NEW i \in DOMAIN pool'
                   PROVE  pool'[i] < fed'
        OBVIOUS
      <4>1. i \in Nat
        BY <1>1, <1>5, <2>1
      <4> QED
        BY <1>1, <1>4, <2>2, <2>3, <4>1
    <3>2. \A c \in Clients : \A i \in DOMAIN Handed(c) : Handed(c)[i] < fed'
      BY <1>10, <1>12
    <3> QED
      BY <1>11, <3>1, <3>2 DEF NoneToCome
  <2> QED
    BY <1>4, <2>7, <2>8 DEF UsedOnce, AnswersOK
<1> QED
  BY <1>4, <1>6, <1>7 DEF enqueue_entropy

(* What egd_spreadwrite hands a client comes from the front of the pool.   *)
LEMMA SpreadGives ==
  ASSUME IInv, AnswersOK, NEW c \in Clients, egd_spreadwrite(c)
  PROVE  AnswersOK' /\ Gives(c)
<1> DEFINE n == egdwriteblocked[c]
<1>1. n \in Nat
  BY DEF IInv, LoopOK, ClientsOK, Blocked, egd_spreadwrite
<1>2. dequeue_entropy(n) /\ dequeued(n) \in Seq(Label)
  BY <1>1, DequeueOK DEF IInv, egd_spreadwrite
<1>3. Writes(c, dequeued(n))
  <2>1. CASE dequeued(n) # <<>>
    BY <1>2, <2>1, CompleteWrites DEF egd_spreadwrite
  <2>2. CASE dequeued(n) = <<>>
    BY <2>2, NothingWritten DEF egd_spreadwrite
  <2> QED
    BY <2>1, <2>2
<1> HIDE DEF n
<1> QED
  BY <1>1, <1>2, <1>3, TakenGives DEF IInv, Writes

(* Answers stay answers.                                                   *)
LEMMA StepAnswersOK ==
  ASSUME IInv, AnswersOK, [Next]_vars
  PROVE  AnswersOK'
<1>1. ASSUME NEW c \in Clients, egd_ctlread(c) \/ egd_spin(c) \/ egd_retry(c)
      PROVE  AnswersOK'
  BY <1>1, TriedBytes, TryGives DEF IInv
<1>2. ASSUME NEW c \in Clients, egd_spreadwrite(c)
      PROVE  AnswersOK'
  BY <1>2, SpreadGives
<1>3. CASE answers' = answers
  BY <1>3 DEF AnswersOK
<1> QED
  BY <1>1, <1>2, <1>3
  DEF Next, ENTROPY, egd_eof, delctlsocket, Collect, Disconnect, vars, serverVars

(* UsedOnce holds at the start.                                            *)
LEMMA InitOnce == Init => UsedOnce
<1> SUFFICES ASSUME Init PROVE UsedOnce
  OBVIOUS
<1>1. AnswersOK
  BY EmptySeq DEF Init, AnswersOK
<1>2. \A c \in Clients : Handed(c) = <<>>
  BY DEF Init, Handed, FlattenSeq
<1>3. pool = <<>> /\ DOMAIN <<>> = {}
  BY DEF Init
<1> QED
  BY <1>1, <1>2, <1>3 DEF UsedOnce, NoneToCome, NoByteTwice, IsInjective, Range

(* Every step keeps UsedOnce.                                              *)
LEMMA StepOnce ==
  ASSUME IInv, UsedOnce, ~Wrap, [Next]_vars
  PROVE  UsedOnce'
<1>1. PoolOK /\ ClientsOK /\ AnswersOK
  BY DEF IInv, UsedOnce
<1>2. CASE ENTROPY
  BY <1>2, EntropyOnce
<1>3. ASSUME NEW c \in Clients, egd_ctlread(c) \/ egd_spin(c) \/ egd_retry(c)
      PROVE  UsedOnce'
  <2>1. PICK buf \in Seq(Byte) : egd_try_cmd(c, buf)
    BY <1>3, TriedBytes
  <2>2. fed' = fed
    BY <1>3 DEF egd_ctlread, egd_spin, egd_retry
  <2> QED
    BY <1>1, <2>1, <2>2, TryGives, GivesOnce
<1>4. ASSUME NEW c \in Clients, egd_spreadwrite(c)
      PROVE  UsedOnce'
  <2>1. fed' = fed
    BY <1>4 DEF egd_spreadwrite
  <2> QED
    BY <1>1, <1>4, <2>1, SpreadGives, GivesOnce
<1>5. CASE UNCHANGED <<pool, answers, fed>>
  BY <1>5 DEF UsedOnce, AnswersOK, NoneToCome, NoByteTwice, Handed
<1> QED
  BY <1>2, <1>3, <1>4, <1>5
  DEF Next, egd_eof, delctlsocket, Collect, Disconnect, vars, serverVars

(* While the keys deliver each byte once, so does the pool: no byte is in  *)
(* the pool and with a client, with two clients, or twice with one         *)
(* (dequeue_entropy, egd_spreadwrite).                                     *)
THEOREM EntropyUsedOnce ==
  ASSUME ~Wrap
  PROVE  Spec => []NoByteTwice
<1>1. UsedOnce => NoByteTwice
  BY DEF UsedOnce
<1>2. IInv /\ UsedOnce /\ [Next]_vars => UsedOnce'
  BY StepOnce
<1> QED
  BY <1>1, <1>2, Invariant, InitOnce, PTL DEF Spec

-----------------------------------------------------------------------------
(* Sums over the clients                                                   *)

(* The sum of w over S, and what MapThenSumSet computes along the subsets. *)
Total(w, S) == MapThenSumSet(LAMBDA c : w[c], S)

Adds(f, w, S) ==
  f = [s \in SUBSET S |-> IF s = {} THEN 0
                          ELSE w[CHOOSE x \in s : TRUE] + f[s \ {CHOOSE x \in s : TRUE}]]

(* MapThenSumSet is the value of such a function at the whole set.         *)
LEMMA TotalIs ==
  ASSUME NEW w, NEW S, \E f : Adds(f, w, S)
  PROVE  \E f : Adds(f, w, S) /\ Total(w, S) = f[S]
<1> DEFINE f == CHOOSE g : Adds(g, w, S)
<1>1. Adds(f, w, S)
  OBVIOUS
<1>2. Total(w, S) = f[S]
  BY DEF Total, MapThenSumSet, MapThenFoldSet, Adds
<1> QED
  BY <1>1, <1>2

(* totpending is a sum over the blocked clients.                           *)
LEMMA TotpendingIs == totpending = Total(egdwriteblocked, Blocked)
BY DEF totpending, Total

(* A finite set without one of its elements has one element less.          *)
LEMMA Smaller ==
  ASSUME NEW S, IsFiniteSet(S), NEW s \in SUBSET S
  PROVE  /\ IsFiniteSet(s) /\ Cardinality(s) \in Nat /\ Cardinality(s) <= Cardinality(S)
         /\ (Cardinality(s) = 0 <=> s = {})
         /\ \A x \in s : IsFiniteSet(s \ {x}) /\ Cardinality(s \ {x}) = Cardinality(s) - 1
<1>1. IsFiniteSet(s) /\ Cardinality(s) <= Cardinality(S)
  BY FS_Subset
<1>2. Cardinality(s) \in Nat /\ (Cardinality(s) = 0 <=> s = {})
  BY <1>1, FS_CardinalityType, FS_EmptySet
<1>3. \A x \in s : IsFiniteSet(s \ {x}) /\ Cardinality(s \ {x}) = Cardinality(s) - 1
  BY <1>1, FS_RemoveElement
<1> QED
  BY <1>1, <1>2, <1>3

(* Such a function exists for every finite set.                            *)
LEMMA AddsExists ==
  ASSUME NEW w, NEW S, IsFiniteSet(S)
  PROVE  \E f : Adds(f, w, S)
<1> DEFINE some(s) == CHOOSE x \in s : TRUE
           Small(n) == {s \in SUBSET S : Cardinality(s) <= n}
           Upto(f, n) == f = [s \in Small(n) |-> IF s = {} THEN 0
                                                 ELSE w[some(s)] + f[s \ {some(s)}]]
           Q == {n \in Nat : \E f : Upto(f, n)}
<1>1. 0 \in Q
  <2> DEFINE f == [s \in Small(0) |-> 0]
  <2>1. \A s \in Small(0) : s = {}
    BY Smaller
  <2>2. Upto(f, 0)
    BY <2>1
  <2> HIDE DEF f, Upto
  <2> QED
    BY <2>2
<1>2. ASSUME NEW n \in Nat, n \in Q
      PROVE  n + 1 \in Q
  <2>1. PICK f : Upto(f, n)
    BY <1>2
  <2> DEFINE g == [s \in Small(n + 1) |->
                     IF s \in Small(n) THEN f[s] ELSE w[some(s)] + f[s \ {some(s)}]]
  <2>2. ASSUME NEW s \in Small(n + 1)
        PROVE  g[s] = IF s = {} THEN 0 ELSE w[some(s)] + g[s \ {some(s)}]
    <3>1. {} \in Small(n) /\ Cardinality(s) \in Nat
      BY FS_EmptySet, Smaller
    <3>2. s # {} => some(s) \in s /\ s \ {some(s)} \in Small(n) /\ s \ {some(s)} \in Small(n + 1)
      <4> SUFFICES ASSUME s # {}
                   PROVE  some(s) \in s /\ s \ {some(s)} \in Small(n) /\ s \ {some(s)} \in Small(n + 1)
        OBVIOUS
      <4>1. some(s) \in s
        OBVIOUS
      <4>2. Cardinality(s \ {some(s)}) = Cardinality(s) - 1 /\ Cardinality(s) <= n + 1
        BY <4>1, Smaller
      <4> HIDE DEF some
      <4> QED
        BY <3>1, <4>1, <4>2
    <3>3. s # {} => g[s \ {some(s)}] = f[s \ {some(s)}]
      BY <3>2
    <3>4. g[s] = IF s \in Small(n) THEN f[s] ELSE w[some(s)] + f[s \ {some(s)}]
      OBVIOUS
    <3>5. s \in Small(n) => f[s] = IF s = {} THEN 0 ELSE w[some(s)] + f[s \ {some(s)}]
      BY <2>1
    <3> HIDE DEF g, Small, some
    <3> QED
      BY <3>1, <3>3, <3>4, <3>5
  <2>3. Upto(g, n + 1)
    <3>1. g = [s \in Small(n + 1) |-> g[s]]
      OBVIOUS
    <3> HIDE DEF g, Small, some
    <3> QED
      BY <2>2, <3>1
  <2> HIDE DEF g, Upto
  <2> QED
    BY <2>3
<1>3. Nat \subseteq Q
  <2> HIDE DEF Q
  <2> QED
    BY <1>1, <1>2, SetInduction
<1>4. PICK f : Upto(f, Cardinality(S))
  <2>1. Cardinality(S) \in Nat
    BY FS_CardinalityType
  <2> HIDE DEF Upto
  <2> QED
    BY <1>3, <2>1
<1>5. Small(Cardinality(S)) = SUBSET S
  BY Smaller
<1>6. Adds(f, w, S)
  BY <1>4, <1>5 DEF Adds
<1> QED
  BY <1>6

(* Its values, one by one.                                                 *)
LEMMA AddsAt ==
  ASSUME NEW w, NEW S, NEW f, Adds(f, w, S), NEW s \in SUBSET S, s # {}
  PROVE  f[s] = w[CHOOSE x \in s : TRUE] + f[s \ {CHOOSE x \in s : TRUE}]
BY DEF Adds

(* The same numbers have the same sum.                                     *)
LEMMA AddsAgree ==
  ASSUME NEW w, NEW v, NEW S, NEW T, IsFiniteSet(S), IsFiniteSet(T),
         NEW f, NEW g, Adds(f, w, S), Adds(g, v, T)
  PROVE  \A s : s \subseteq S /\ s \subseteq T /\ (\A x \in s : w[x] = v[x]) => f[s] = g[s]
<1> DEFINE Common(s) == s \subseteq S /\ s \subseteq T /\ \A x \in s : w[x] = v[x]
           Q == {n \in Nat : \A s \in SUBSET S : Common(s) /\ Cardinality(s) = n => f[s] = g[s]}
<1>1. 0 \in Q
  <2> SUFFICES ASSUME NEW s \in SUBSET S, Cardinality(s) = 0
               PROVE  f[s] = g[s]
    OBVIOUS
  <2>1. s = {}
    BY Smaller
  <2>2. f[{}] = 0 /\ g[{}] = 0
    BY DEF Adds
  <2> QED
    BY <2>1, <2>2
<1>2. ASSUME NEW n \in Nat, n \in Q
      PROVE  n + 1 \in Q
  <2> SUFFICES ASSUME NEW s \in SUBSET S, Common(s), Cardinality(s) = n + 1
               PROVE  f[s] = g[s]
    OBVIOUS
  <2> DEFINE x == CHOOSE y \in s : TRUE
             r == s \ {x}
  <2>1. s # {}
    BY Smaller
  <2>2. x \in s
    BY <2>1
  <2>3. Cardinality(r) = n /\ r \in SUBSET S /\ Common(r)
    <3> HIDE DEF x
    <3>1. Cardinality(r) = Cardinality(s) - 1
      BY <2>2, Smaller
    <3> QED
      BY <3>1
  <2>4. f[r] = g[r]
    BY <1>2, <2>3
  <2>5. f[s] = w[x] + f[r] /\ g[s] = v[x] + g[r]
    BY <2>1, AddsAt
  <2> HIDE DEF x, r
  <2> QED
    BY <2>2, <2>4, <2>5
<1>3. Nat \subseteq Q
  <2> HIDE DEF Q
  <2> QED
    BY <1>1, <1>2, SetInduction
<1> SUFFICES ASSUME NEW s, Common(s)
             PROVE  f[s] = g[s]
  OBVIOUS
<1>4. s \in SUBSET S /\ Cardinality(s) \in Nat
  BY Smaller
<1>5. Cardinality(s) \in Q
  <2> HIDE DEF Q
  <2> QED
    BY <1>3, <1>4
<1> QED
  BY <1>4, <1>5

(* The order of the summands does not matter.                              *)
LEMMA AddsAny ==
  ASSUME NEW w, NEW S, IsFiniteSet(S), \A x \in S : w[x] \in Int, NEW f, Adds(f, w, S)
  PROVE  \A s \in SUBSET S : f[s] \in Int /\ \A x \in s : f[s] = w[x] + f[s \ {x}]
<1> DEFINE P(s) == f[s] \in Int /\ \A x \in s : f[s] = w[x] + f[s \ {x}]
           Q == {n \in Nat : \A s \in SUBSET S : Cardinality(s) <= n => P(s)}
<1>1. 0 \in Q
  <2> SUFFICES ASSUME NEW s \in SUBSET S, Cardinality(s) <= 0
               PROVE  P(s)
    OBVIOUS
  <2>1. s = {}
    BY Smaller
  <2>2. f[{}] = 0
    BY DEF Adds
  <2> QED
    BY <2>1, <2>2
<1>2. ASSUME NEW n \in Nat, n \in Q
      PROVE  n + 1 \in Q
  <2> SUFFICES ASSUME NEW s \in SUBSET S, Cardinality(s) <= n + 1
               PROVE  P(s)
    OBVIOUS
  <2>1. \A r \in SUBSET S : Cardinality(r) <= n => P(r)
    BY <1>2
  <2> HIDE DEF P
  <2>2. CASE s = {}
    <3>1. Cardinality(s) = 0
      BY <2>2, FS_EmptySet
    <3> QED
      BY <2>1, <3>1
  <2>3. CASE s # {}
    <3>1. PICK y \in s : f[s] = w[y] + f[s \ {y}]
      <4>1. (CHOOSE x \in s : TRUE) \in s
        BY <2>3
      <4>2. f[s] = w[CHOOSE x \in s : TRUE] + f[s \ {CHOOSE x \in s : TRUE}]
        <5>1. s \in SUBSET S /\ s # {} /\ Adds(f, w, S)
          BY <2>3
        <5> QED
          BY <5>1, AddsAt
      <4> QED
        BY <4>1, <4>2
    <3>2. y \in s /\ f[s] = w[y] + f[s \ {y}]
      BY <3>1
    <3>3. \A x \in s : s \ {x} \in SUBSET S /\ P(s \ {x})
      <4> SUFFICES ASSUME NEW x \in s
                   PROVE  s \ {x} \in SUBSET S /\ P(s \ {x})
        OBVIOUS
      <4>1. Cardinality(s \ {x}) = Cardinality(s) - 1 /\ Cardinality(s) \in Nat
        BY Smaller
      <4>2. Cardinality(s \ {x}) <= n
        BY <4>1
      <4> QED
        BY <2>1, <4>2
    <3>4. f[s] \in Int
      <4>1. f[s \ {y}] \in Int
        BY <3>2, <3>3 DEF P
      <4> QED
        BY <3>2, <4>1
    <3>5. ASSUME NEW x \in s, x # y
          PROVE  f[s] = w[x] + f[s \ {x}]
      <4>1. f[s \ {y}] = w[x] + f[(s \ {y}) \ {x}]
        BY <3>2, <3>3, <3>5 DEF P
      <4>2. f[s \ {x}] = w[y] + f[(s \ {x}) \ {y}]
        BY <3>2, <3>3, <3>5 DEF P
      <4>3. (s \ {y}) \ {x} = (s \ {x}) \ {y}
        OBVIOUS
      <4>4. /\ w[x] \in Int /\ w[y] \in Int /\ (s \ {x}) \ {y} \in SUBSET S
            /\ f[(s \ {x}) \ {y}] \in Int
        <5>1. Cardinality((s \ {x}) \ {y}) <= n
          <6>1. Cardinality(s \ {x}) = Cardinality(s) - 1 /\ Cardinality(s) \in Nat
            BY Smaller
          <6>2. Cardinality((s \ {x}) \ {y}) = Cardinality(s \ {x}) - 1
            BY <3>2, <3>5, Smaller
          <6> QED
            BY <6>1, <6>2
        <5> QED
          BY <2>1, <3>2, <5>1 DEF P
      <4> DEFINE z == f[(s \ {x}) \ {y}]
      <4>5. f[s] = w[y] + (w[x] + z) /\ f[s \ {x}] = w[y] + z /\ z \in Int
        BY <3>2, <4>1, <4>2, <4>3, <4>4
      <4> HIDE DEF z
      <4> QED
        BY <4>4, <4>5
    <3> QED
      BY <3>2, <3>4, <3>5 DEF P
  <2> QED
    BY <2>2, <2>3
<1>3. Nat \subseteq Q
  <2> HIDE DEF Q
  <2> QED
    BY <1>1, <1>2, SetInduction
<1> SUFFICES ASSUME NEW s \in SUBSET S
             PROVE  P(s)
  OBVIOUS
<1>4. Cardinality(s) \in Nat /\ Cardinality(s) <= Cardinality(s)
  BY Smaller
<1>5. Cardinality(s) \in Q
  <2> HIDE DEF Q
  <2> QED
    BY <1>3, <1>4
<1> HIDE DEF P
<1> QED
  BY <1>4, <1>5

(* One summand more or less.                                               *)
LEMMA TotalStep ==
  ASSUME NEW w, NEW S, IsFiniteSet(S), \A x \in S : w[x] \in Int
  PROVE  /\ Total(w, S) \in Int
         /\ Total(w, {}) = 0
         /\ \A x \in S : Total(w, S) = w[x] + Total(w, S \ {x})
<1>1. PICK f : Adds(f, w, S) /\ Total(w, S) = f[S]
  BY AddsExists, TotalIs
<1>2. f[S] \in Int /\ \A x \in S : f[S] = w[x] + f[S \ {x}]
  BY <1>1, AddsAny
<1>3. ASSUME NEW T, T \subseteq S
      PROVE  Total(w, T) = f[T]
  <2>1. IsFiniteSet(T)
    BY <1>3, FS_Subset
  <2>2. PICK g : Adds(g, w, T) /\ Total(w, T) = g[T]
    BY <2>1, AddsExists, TotalIs
  <2>3. \A s : s \subseteq S /\ s \subseteq T /\ (\A x \in s : w[x] = w[x]) => f[s] = g[s]
    BY <1>1, <2>1, <2>2, AddsAgree
  <2> QED
    BY <1>3, <2>2, <2>3
<1>4. Total(w, {}) = 0
  BY <1>1, <1>3 DEF Adds
<1> QED
  BY <1>1, <1>2, <1>3, <1>4

(* The sum depends on the summands only.                                   *)
LEMMA TotalSame ==
  ASSUME NEW w, NEW v, NEW S, IsFiniteSet(S), \A x \in S : w[x] = v[x]
  PROVE  Total(w, S) = Total(v, S)
<1>1. PICK f : Adds(f, w, S) /\ Total(w, S) = f[S]
  BY AddsExists, TotalIs
<1>2. PICK g : Adds(g, v, S) /\ Total(v, S) = g[S]
  BY AddsExists, TotalIs
<1>3. \A s : s \subseteq S /\ s \subseteq S /\ (\A x \in s : w[x] = v[x]) => f[s] = g[s]
  BY <1>1, <1>2, AddsAgree
<1> QED
  BY <1>1, <1>2, <1>3

(* A sum of numbers up to M is at most M for each of them.                 *)
LEMMA TotalBound ==
  ASSUME NEW w, NEW S, IsFiniteSet(S), NEW M \in Nat, \A x \in S : w[x] \in 0 .. M
  PROVE  Total(w, S) \in Nat /\ Total(w, S) <= Cardinality(S) * M
<1> DEFINE P(s) == Total(w, s) \in Nat /\ Total(w, s) <= Cardinality(s) * M
           Q == {n \in Nat : \A s \in SUBSET S : Cardinality(s) = n => P(s)}
<1>1. 0 \in Q
  <2> SUFFICES ASSUME NEW s \in SUBSET S, Cardinality(s) = 0
               PROVE  P(s)
    OBVIOUS
  <2>1. s = {}
    BY Smaller
  <2>2. Total(w, {}) = 0 /\ Cardinality({}) * M = 0
    BY FS_EmptySet, TotalStep
  <2> QED
    BY <2>1, <2>2
<1>2. ASSUME NEW n \in Nat, n \in Q
      PROVE  n + 1 \in Q
  <2> SUFFICES ASSUME NEW s \in SUBSET S, Cardinality(s) = n + 1
               PROVE  P(s)
    OBVIOUS
  <2>1. PICK x \in s : TRUE
    BY Smaller
  <2>2. Cardinality(s \ {x}) = n /\ IsFiniteSet(s) /\ s \ {x} \in SUBSET S /\ x \in S
    BY <2>1, Smaller
  <2>3. P(s \ {x})
    BY <1>2, <2>2
  <2>4. Total(w, s) = w[x] + Total(w, s \ {x}) /\ w[x] \in 0 .. M
    BY <2>1, <2>2, TotalStep
  <2>5. (n + 1) * M = n * M + M /\ n * M \in Nat
    OBVIOUS
  <2> QED
    BY <2>2, <2>3, <2>4, <2>5
<1>3. Nat \subseteq Q
  <2> HIDE DEF Q
  <2> QED
    BY <1>1, <1>2, SetInduction
<1>4. Cardinality(S) \in Nat
  BY FS_CardinalityType
<1>5. Cardinality(S) \in Q
  <2> HIDE DEF Q
  <2> QED
    BY <1>3, <1>4
<1> QED
  BY <1>5

-----------------------------------------------------------------------------
(* Who waits, and for how much *)

(* All sets of clients are finite.                                         *)
LEMMA BlockedFinite ==
  /\ IsFiniteSet(Clients)
  /\ \A S \in SUBSET Clients : IsFiniteSet(S)
BY EgdAssumption, FS_Subset

(* All that is waited for is far less than the pool can hold.              *)
LEMMA PendingOf ==
  ASSUME NEW w \in [Clients -> {nil} \cup 1 .. MaxAsk]
  PROVE  LET waiting == {c \in Clients : w[c] # nil}
             sum == Total(w, waiting)
         IN
         /\ sum \in Nat /\ sum <= MAX_ENTROPY
         /\ waiting # {} => sum > 0
         /\ waiting = {} => sum = 0
         /\ \A c \in waiting : w[c] \in 1 .. MaxAsk
         /\ \A c \in waiting : /\ w[c] <= sum
                               /\ sum = w[c] + Total(w, waiting \ {c})
<1> DEFINE waiting == {c \in Clients : w[c] # nil}
           sum == Total(w, waiting)
<1>1. IsFiniteSet(waiting) /\ waiting \subseteq Clients
  BY BlockedFinite DEF waiting
<1>2. \A c \in waiting : w[c] \in 1 .. MaxAsk /\ w[c] \in Int
  BY EgdAssumption DEF waiting
<1>3. MaxAsk \in Nat /\ MAX_ENTROPY \in Nat /\ BlockLen \in Nat
  BY EgdAssumption
<1>4. sum \in Nat /\ sum <= Cardinality(waiting) * MaxAsk
  <2>1. \A c \in waiting : w[c] \in 0 .. MaxAsk
    BY <1>2
  <2> QED
    BY <1>1, <1>3, <2>1, TotalBound
<1>5. sum <= MAX_ENTROPY
  <2>1. Cardinality(waiting) \in Nat /\ Cardinality(Clients) \in Nat
          /\ Cardinality(waiting) <= Cardinality(Clients)
    BY <1>1, BlockedFinite, FS_CardinalityType, FS_Subset
  <2>2. \A m, n \in Nat : m <= n => m * MaxAsk <= n * MaxAsk /\ n * MaxAsk \in Nat
    BY <1>3
  <2>3. Cardinality(waiting) * MaxAsk <= Cardinality(Clients) * MaxAsk
    BY <2>1, <2>2
  <2>4. /\ Cardinality(Clients) * MaxAsk \in Nat /\ Cardinality(waiting) * MaxAsk \in Nat
        /\ Cardinality(Clients) * MaxAsk + BlockLen <= MAX_ENTROPY
    BY <2>1, <2>2, EgdAssumption
  <2> QED
    BY <1>3, <1>4, <2>3, <2>4
<1>6. ASSUME NEW c \in waiting
      PROVE  /\ sum = w[c] + Total(w, waiting \ {c})
             /\ Total(w, waiting \ {c}) \in Nat
  <2>1. IsFiniteSet(waiting \ {c})
    BY <1>1, FS_RemoveElement
  <2>2. \A d \in waiting \ {c} : w[d] \in 0 .. MaxAsk
    BY <1>2
  <2>3. Total(w, waiting \ {c}) \in Nat
    BY <1>3, <2>1, <2>2, TotalBound
  <2> QED
    BY <1>1, <1>2, <2>3, TotalStep
<1>7. waiting = {} => sum = 0
  BY <1>1, <1>2, TotalStep
<1>8. ASSUME NEW c \in waiting
      PROVE  sum > 0 /\ w[c] <= sum
  <2> DEFINE z == Total(w, waiting \ {c})
             e == w[c]
  <2>1. sum = e + z /\ z \in Nat /\ e \in 1 .. MaxAsk
    BY <1>2, <1>6
  <2> HIDE DEF z, e
  <2>2. sum > 0 /\ e <= sum
    BY <1>3, <2>1
  <2> QED
    BY <2>2 DEF e
<1> QED
  BY <1>2, <1>4, <1>5, <1>6, <1>7, <1>8

(* The same for what the clients wait for now.                             *)
LEMMA Pending ==
  ASSUME ClientsOK
  PROVE  /\ totpending \in Nat /\ totpending <= MAX_ENTROPY
         /\ Blocked # {} => totpending > 0
         /\ Blocked = {} => totpending = 0
         /\ \A c \in Blocked : egdwriteblocked[c] \in 1 .. MaxAsk
         /\ \A c \in Blocked : /\ egdwriteblocked[c] <= totpending
                               /\ totpending = egdwriteblocked[c]
                                                 + Total(egdwriteblocked, Blocked \ {c})
<1>1. egdwriteblocked \in [Clients -> {nil} \cup 1 .. MaxAsk]
  BY DEF ClientsOK
<1> QED
  BY <1>1, PendingOf, TotpendingIs DEF Blocked

(* A client that has been served waits for nothing more.                   *)
LEMMA LessOf ==
  ASSUME NEW w \in [Clients -> {nil} \cup 1 .. MaxAsk], NEW c \in Clients, w[c] # nil,
         NEW v, v = [w EXCEPT ![c] = nil]
  PROVE  /\ {d \in Clients : v[d] # nil} = {d \in Clients : w[d] # nil} \ {c}
         /\ Total(v, {d \in Clients : v[d] # nil})
              = Total(w, {d \in Clients : w[d] # nil}) - w[c]
<1> DEFINE waiting == {d \in Clients : w[d] # nil}
<1>1. \A d \in Clients : v[d] = IF d = c THEN nil ELSE w[d]
  OBVIOUS
<1>2. {d \in Clients : v[d] # nil} = waiting \ {c}
  BY <1>1
<1>3. IsFiniteSet(waiting \ {c}) /\ \A d \in waiting \ {c} : v[d] = w[d]
  BY <1>1, BlockedFinite
<1>4. Total(v, waiting \ {c}) = Total(w, waiting \ {c})
  BY <1>3, TotalSame
<1>5. /\ Total(w, waiting) \in Nat /\ w[c] \in 1 .. MaxAsk
      /\ Total(w, waiting) = w[c] + Total(w, waiting \ {c})
  BY PendingOf
<1>6. Total(w, waiting \ {c}) \in Int
  <2>1. \A d \in waiting \ {c} : w[d] \in Int
    BY EgdAssumption
  <2> QED
    BY <1>3, <2>1, TotalStep
<1>7. Total(w, waiting \ {c}) = Total(w, waiting) - w[c]
  <2> DEFINE x == Total(w, waiting)
             y == Total(w, waiting \ {c})
             z == w[c]
  <2>1. x \in Nat /\ y \in Int /\ z \in Int /\ x = z + y
    BY <1>5, <1>6
  <2> HIDE DEF x, y, z
  <2>2. y = x - z
    BY <2>1
  <2> QED
    BY <2>2 DEF x, y, z
<1> QED
  BY <1>2, <1>4, <1>7

(* totpending before and after a step, as a sum.                           *)
LEMMA PendingIs ==
  /\ totpending = Total(egdwriteblocked, {c \in Clients : egdwriteblocked[c] # nil})
  /\ totpending' = Total(egdwriteblocked', {c \in Clients : egdwriteblocked'[c] # nil})
BY DEF totpending, Total, Blocked, MapThenSumSet, MapThenFoldSet

(* A client that is served takes its share off the sum.                    *)
LEMMA PendingLess ==
  ASSUME ClientsOK, NEW c \in Blocked,
         egdwriteblocked' = [egdwriteblocked EXCEPT ![c] = nil]
  PROVE  Blocked' = Blocked \ {c} /\ totpending' = totpending - egdwriteblocked[c]
<1>1. /\ Blocked' = {d \in Clients : egdwriteblocked'[d] # nil}
      /\ totpending' = Total(egdwriteblocked', {d \in Clients : egdwriteblocked'[d] # nil})
  BY PendingIs DEF Blocked
<1>2. /\ Blocked = {d \in Clients : egdwriteblocked[d] # nil}
      /\ totpending = Total(egdwriteblocked, {d \in Clients : egdwriteblocked[d] # nil})
  BY PendingIs DEF Blocked
<1> DEFINE w == egdwriteblocked
           v == egdwriteblocked'
<1>3. w \in [Clients -> {nil} \cup 1 .. MaxAsk] /\ w[c] # nil /\ c \in Clients
        /\ v = [w EXCEPT ![c] = nil]
  BY DEF ClientsOK, Blocked
<1> HIDE DEF w, v
<1>4. /\ {d \in Clients : v[d] # nil} = {d \in Clients : w[d] # nil} \ {c}
      /\ Total(v, {d \in Clients : v[d] # nil})
              = Total(w, {d \in Clients : w[d] # nil}) - w[c]
  BY <1>3, LessOf
<1> QED
  BY <1>1, <1>2, <1>4 DEF w, v

(* After a step, too, somebody that waits waits for something.             *)
LEMMA PendingAfter ==
  ASSUME ClientsOK'
  PROVE  /\ totpending' \in Nat
         /\ Blocked' # {} => totpending' > 0
<1>1. /\ Blocked' = {d \in Clients : egdwriteblocked'[d] # nil}
      /\ totpending' = Total(egdwriteblocked', {d \in Clients : egdwriteblocked'[d] # nil})
  BY PendingIs DEF Blocked
<1> DEFINE v == egdwriteblocked'
<1>2. v \in [Clients -> {nil} \cup 1 .. MaxAsk]
  BY DEF ClientsOK
<1> HIDE DEF v
<1>3. LET waiting == {d \in Clients : v[d] # nil}
      IN  Total(v, waiting) \in Nat /\ (waiting # {} => Total(v, waiting) > 0)
  BY <1>2, PendingOf
<1> QED
  BY <1>1, <1>3 DEF v

-----------------------------------------------------------------------------
(* Waiting                                                                 *)

AllPresent == \A c \in Clients : Present(c)

(* Once egd_spreadwrite has started it serves everyone that waits.         *)
Spreading == pc = "spread" => Blocked = todo /\ todo # {} /\ totpending <= total_entropy

(* While nobody has vanished, clients wait only outside of it if more is   *)
(* waited for than there is.                                               *)
Waiting ==
  AllPresent => (pc # "spread" /\ Blocked # {} => totpending > total_entropy)

(* A call of egd_try_cmd outside the first loop takes from the pool, and   *)
(* lets its client wait only if nothing is left.                           *)
LEMMA DispatchWaits ==
  ASSUME IInv, NEW c \in Clients, NEW buf \in Seq(Byte), Dispatch(c, buf)
  PROVE  /\ total_entropy' \in Nat /\ total_entropy' <= total_entropy
         /\ \/ egdwriteblocked' = egdwriteblocked
            \/ total_entropy' = 0
<1>1. total_entropy \in Nat /\ total_entropy = Len(pool) /\ pool \in Seq(Label)
  BY SeqFacts DEF IInv, PoolOK
<1>2. CASE total_entropy' = total_entropy /\ egdwriteblocked' = egdwriteblocked
  BY <1>1, <1>2
<1>3. CASE buf # <<>> /\ (ReadBytes(c, buf) \/ BlockRead(c, buf))
  <2>1. buf[2] \in Nat /\ dequeue_entropy(buf[2])
    BY <1>3, ByteOK DEF ReadBytes, BlockRead
  <2>2. total_entropy' = total_entropy - Least(buf[2], total_entropy)
    BY <2>1 DEF dequeue_entropy
  <2>3. total_entropy' \in Nat /\ total_entropy' <= total_entropy
    BY <1>1, <2>1, <2>2 DEF Least
  <2>4. CASE buf[2] <= total_entropy
    <3>1. Least(buf[2], total_entropy) = buf[2]
      BY <1>1, <2>1, <2>4 DEF Least
    <3>2. Len(dequeued(buf[2])) = buf[2]
      <4>1. dequeued(buf[2]) = First(pool, buf[2])
        BY <3>1 DEF dequeued
      <4>2. buf[2] \in 0 .. Len(pool)
        BY <1>1, <2>1, <2>4
      <4> QED
        BY <1>1, <4>1, <4>2, FirstRestAt
    <3>3. egdwriteblocked' = egdwriteblocked
      <4>1. CASE ReadBytes(c, buf)
        BY <4>1 DEF ReadBytes
      <4>2. CASE BlockRead(c, buf)
        <5>1. ~(Len(dequeued(buf[2])) < buf[2])
          BY <2>1, <3>2
        <5> QED
          BY <4>2, <5>1 DEF BlockRead, IInv, ClientsOK
      <4> QED
        BY <1>3, <4>1, <4>2
    <3> QED
      BY <2>3, <3>3
  <2>5. CASE ~(buf[2] <= total_entropy)
    <3>1. Least(buf[2], total_entropy) = total_entropy
      BY <1>1, <2>1, <2>5 DEF Least
    <3> QED
      BY <1>1, <2>2, <2>3, <3>1
  <2> QED
    BY <2>4, <2>5
<1> QED
  BY <1>2, <1>3 DEF Dispatch, QueryPool, GetPid, PushBack, UnknownCmd

(* The same for any call of egd_try_cmd.                                   *)
LEMMA TryWaits ==
  ASSUME IInv, NEW c \in Clients, NEW buf \in Seq(Byte), egd_try_cmd(c, buf)
  PROVE  /\ total_entropy' \in Nat /\ total_entropy' <= total_entropy
         /\ \/ egdwriteblocked' = egdwriteblocked
            \/ total_entropy' = 0
<1>1. total_entropy \in Nat
  BY SeqFacts DEF IInv, PoolOK
<1>2. CASE total_entropy' = total_entropy /\ egdwriteblocked' = egdwriteblocked
  BY <1>1, <1>2
<1>3. ASSUME NEW b \in Seq(Byte), command(c, b)
      PROVE  /\ total_entropy' \in Nat /\ total_entropy' <= total_entropy
             /\ \/ egdwriteblocked' = egdwriteblocked
                \/ total_entropy' = 0
  BY <1>2, <1>3, DispatchWaits DEF command, AddEntropy
<1>4. ASSUME egdreadblocked[c] # nil
      PROVE  Rest(buf, egdreadblocked[c]) \in Seq(Byte)
  BY <1>4, FirstRest DEF IInv, ClientsOK
<1> QED
  BY <1>2, <1>3, <1>4 DEF egd_try_cmd

(* Whoever is present after a step was present before it.                  *)
LEMMA WerePresent ==
  ASSUME IInv, IInv', [Next]_vars, NEW c \in Clients, Present(c)'
  PROVE  Present(c)
<1>1. closed \subseteq closed'
  BY DEF Next, vars, serverVars, ENTROPY, egd_ctlread, egd_spin, egd_eof, delctlsocket, Collect,
         egd_spreadwrite, egd_retry, Disconnect
<1>2. status'[c] = "open" => status[c] = "open"
  <2>1. CASE status' = status
    BY <2>1
  <2>2. ASSUME NEW d \in Clients, NEW v \in {"tokill", "dead"},
               status' = [status EXCEPT ![d] = v]
        PROVE  status'[c] = "open" => status[c] = "open"
    BY <2>2 DEF IInv, ClientsOK
  <2>3. ASSUME NEW d \in Clients, NEW buf, Dispatch(d, buf)
        PROVE  status'[c] = "open" => status[c] = "open"
    BY <2>3 DEF Dispatch, QueryPool, ReadBytes, BlockRead, GetPid, PushBack, UnknownCmd,
                IInv, ClientsOK
  <2>4. ASSUME NEW d \in Clients, NEW buf, egd_try_cmd(d, buf)
        PROVE  status'[c] = "open" => status[c] = "open"
    <3>1. ASSUME NEW b, command(d, b)
          PROVE  status'[c] = "open" => status[c] = "open"
      BY <2>1, <2>3, <3>1 DEF command, AddEntropy
    <3> QED
      BY <2>1, <2>4, <3>1 DEF egd_try_cmd
  <2> QED
    BY <2>1, <2>2, <2>4
    DEF Next, vars, serverVars, ENTROPY, egd_ctlread, egd_spin, egd_eof, delctlsocket, Collect,
        egd_spreadwrite, egd_retry, Disconnect
<1> QED
  BY <1>1, <1>2 DEF Present

(* egd_spreadwrite starts only if there is enough for everyone.            *)
LEMMA EntropyWaits ==
  ASSUME IInv, ENTROPY
  PROVE  /\ pc' = "spread" => Blocked' = todo' /\ todo' # {} /\ totpending' <= total_entropy'
         /\ pc' # "spread" /\ Blocked' # {} => totpending' > total_entropy'
<1>1. egdwriteblocked' = egdwriteblocked
  BY DEF ENTROPY
<1>2. Blocked' = Blocked /\ totpending' = totpending
  BY <1>1, PendingIs DEF Blocked
<1>3. totpending \in Nat /\ totpending <= MAX_ENTROPY /\ MAX_ENTROPY \in Nat
  BY Pending, EgdAssumption DEF IInv
<1>4. total_entropy' \in Nat
  <2>1. IInv'
    BY EntropyStep
  <2> QED
    BY <2>1, SeqFacts DEF IInv, PoolOK
<1>5. worthwhile <=> totpending <= total_entropy'
  BY <1>3 DEF worthwhile
<1> QED
  BY <1>2, <1>3, <1>4, <1>5 DEF ENTROPY

(* The client it visits gets all it waits for.                             *)
LEMMA SpreadTakes ==
  ASSUME IInv, Spreading, NEW c \in Clients, egd_spreadwrite(c)
  PROVE  LET n == egdwriteblocked[c]
         IN  /\ c \in Blocked /\ n \in Nat /\ n >= 1 /\ n <= total_entropy
             /\ Least(n, total_entropy) = n
             /\ dequeued(n) \in Seq(Label) /\ Len(dequeued(n)) = n /\ dequeued(n) # <<>>
<1> DEFINE n == egdwriteblocked[c]
<1>1. c \in Blocked /\ totpending <= total_entropy
  BY DEF Spreading, egd_spreadwrite
<1>2. /\ n \in Nat /\ n >= 1 /\ n <= totpending /\ totpending \in Nat /\ total_entropy \in Nat
      /\ pool \in Seq(Label) /\ total_entropy = Len(pool)
  <2>1. n \in 1 .. MaxAsk /\ n <= totpending /\ totpending \in Nat
    BY <1>1, Pending DEF IInv
  <2> QED
    BY <2>1, EgdAssumption, SeqFacts DEF IInv, PoolOK
<1> HIDE DEF n
<1>3. n <= total_entropy /\ n \in 0 .. Len(pool) /\ Least(n, total_entropy) = n
  BY <1>1, <1>2 DEF Least
<1>4. First(pool, n) \in Seq(Label) /\ Len(First(pool, n)) = n
  BY <1>2, <1>3, FirstRestAt
<1>5. dequeued(n) = First(pool, n)
  BY <1>3 DEF dequeued
<1>6. dequeued(n) # <<>>
  BY <1>2, <1>4, <1>5, EmptySeq
<1> QED
  BY <1>1, <1>2, <1>3, <1>4, <1>5, <1>6 DEF n

(* It serves one client after the other, and there is enough for the rest. *)
LEMMA SpreadWaits ==
  ASSUME IInv, Spreading, NEW c \in Clients, egd_spreadwrite(c)
  PROVE  /\ pc' = "spread" => Blocked' = todo' /\ todo' # {} /\ totpending' <= total_entropy'
         /\ pc' # "spread" /\ Blocked' # {} => totpending' > total_entropy'
<1> DEFINE n == egdwriteblocked[c]
<1>1. pc = "spread" /\ c \in Blocked /\ Blocked = todo /\ totpending <= total_entropy
  BY DEF Spreading, egd_spreadwrite
<1>2. /\ n \in Nat /\ n >= 1 /\ n <= totpending /\ totpending \in Nat /\ total_entropy \in Nat
      /\ pool \in Seq(Label) /\ total_entropy = Len(pool)
  <2>1. n \in 1 .. MaxAsk /\ n <= totpending /\ totpending \in Nat
    BY <1>1, Pending DEF IInv
  <2> QED
    BY <2>1, EgdAssumption, SeqFacts DEF IInv, PoolOK
<1> HIDE DEF n
<1>3. n <= total_entropy /\ Least(n, total_entropy) = n
  BY <1>1, <1>2 DEF Least
<1>4. dequeued(n) # <<>>
  BY SpreadTakes DEF n
<1>5. /\ egdwriteblocked' = [egdwriteblocked EXCEPT ![c] = nil]
      /\ total_entropy' = total_entropy - n
  BY <1>3, <1>4 DEF n, egd_spreadwrite, dequeue_entropy
<1>6. Blocked' = Blocked \ {c} /\ totpending' = totpending - n
  BY <1>1, <1>5, PendingLess DEF n, IInv
<1>7. totpending' <= total_entropy'
  BY <1>1, <1>2, <1>5, <1>6
<1>8. CASE todo # {c}
  BY <1>1, <1>6, <1>7, <1>8 DEF egd_spreadwrite
<1>9. CASE todo = {c}
  <2>1. Blocked' = {}
    BY <1>1, <1>6, <1>9
  <2>2. pc' # "spread"
    BY <1>9 DEF egd_spreadwrite
  <2> QED
    BY <2>1, <2>2
<1> QED
  BY <1>8, <1>9

(* Every step keeps Spreading.                                             *)
LEMMA StepSpreads ==
  ASSUME IInv, Spreading, [Next]_vars
  PROVE  Spreading'
<1>1. CASE ENTROPY
  BY <1>1, EntropyWaits DEF Spreading
<1>2. ASSUME NEW c \in Clients, egd_spreadwrite(c)
      PROVE  Spreading'
  BY <1>2, SpreadWaits DEF Spreading
<1>3. ASSUME NEW c \in Clients,
             \/ egd_ctlread(c) \/ egd_spin(c) \/ egd_retry(c)
             \/ egd_eof(c) \/ delctlsocket(c) \/ Collect(c)
      PROVE  Spreading'
  BY <1>3
  DEF Spreading, egd_ctlread, egd_spin, egd_retry, egd_eof, delctlsocket, Collect
<1>4. CASE UNCHANGED <<egdwriteblocked, pc, todo, total_entropy>>
  <2>1. Blocked' = Blocked /\ totpending' = totpending
    BY <1>4, PendingIs DEF Blocked
  <2> QED
    BY <1>4, <2>1 DEF Spreading
<1> QED
  BY <1>1, <1>2, <1>3, <1>4 DEF Next, Disconnect, vars, serverVars

(* Every step keeps Waiting.                                               *)
LEMMA StepWaits ==
  ASSUME IInv, IInv', Spreading, Waiting, [Next]_vars
  PROVE  Waiting'
<1> SUFFICES ASSUME AllPresent'
             PROVE  pc' # "spread" /\ Blocked' # {} => totpending' > total_entropy'
  BY DEF Waiting
<1>1. AllPresent
  BY WerePresent DEF AllPresent
<1>2. CASE ENTROPY
  BY <1>2, EntropyWaits
<1>3. ASSUME NEW c \in Clients, egd_spreadwrite(c)
      PROVE  pc' # "spread" /\ Blocked' # {} => totpending' > total_entropy'
  BY <1>3, SpreadWaits
<1>4. ASSUME NEW c \in Clients, egd_ctlread(c) \/ egd_spin(c) \/ egd_retry(c)
      PROVE  Blocked' # {} => totpending' > total_entropy'
  <2>1. PICK buf \in Seq(Byte) : egd_try_cmd(c, buf)
    BY <1>4, TriedBytes
  <2>2. pc # "spread"
    BY <1>4 DEF egd_ctlread, egd_spin, egd_retry
  <2>3. /\ total_entropy' \in Nat /\ total_entropy' <= total_entropy
        /\ \/ egdwriteblocked' = egdwriteblocked
           \/ total_entropy' = 0
    BY <2>1, TryWaits
  <2>4. CASE total_entropy' = 0
    <3>1. totpending' \in Nat /\ (Blocked' # {} => totpending' > 0)
      BY PendingAfter DEF IInv
    <3> QED
      BY <2>4, <3>1
  <2>5. CASE egdwriteblocked' = egdwriteblocked
    <3>1. Blocked' = Blocked /\ totpending' = totpending
      BY <2>5, PendingIs DEF Blocked
    <3>2. totpending \in Nat /\ total_entropy \in Nat
      BY Pending, SeqFacts DEF IInv, PoolOK
    <3>3. Blocked # {} => totpending > total_entropy
      BY <1>1, <2>2 DEF Waiting
    <3> QED
      BY <2>3, <3>1, <3>2, <3>3
  <2> QED
    BY <2>3, <2>4, <2>5
<1>5. ASSUME NEW c \in Clients, egd_eof(c) \/ delctlsocket(c) \/ Collect(c) \/ Disconnect(c)
      PROVE  FALSE
  <2>1. CASE egd_eof(c) \/ delctlsocket(c)
    <3>1. status'[c] # "open"
      BY <2>1 DEF egd_eof, delctlsocket, IInv, ClientsOK
    <3> QED
      BY <3>1 DEF AllPresent, Present
  <2>2. CASE Collect(c)
    BY <2>2, <1>1 DEF AllPresent, Present, Collect
  <2>3. CASE Disconnect(c)
    BY <2>3 DEF AllPresent, Present, Disconnect
  <2> QED
    BY <1>5, <2>1, <2>2, <2>3
<1>6. CASE UNCHANGED vars
  <2>1. egdwriteblocked' = egdwriteblocked /\ pc' = pc /\ total_entropy' = total_entropy
    BY <1>6 DEF vars, serverVars
  <2>2. Blocked' = Blocked /\ totpending' = totpending
    BY <2>1, PendingIs DEF Blocked
  <2> QED
    BY <1>1, <2>1, <2>2 DEF Waiting
<1> QED
  BY <1>2, <1>3, <1>4, <1>5, <1>6 DEF Next

(* Spreading and Waiting hold at the start.                                *)
LEMMA InitWaits == Init => Spreading /\ Waiting
<1> SUFFICES ASSUME Init PROVE Spreading /\ Waiting
  OBVIOUS
<1>1. Blocked = {} /\ pc = "idle"
  BY DEF Init, Blocked
<1> QED
  BY <1>1 DEF Spreading, Waiting

(* egd_spreadwrite, once started, always finds what it hands out.          *)
THEOREM SpreadsAll == Spec => []Spreading
<1>1. IInv /\ Spreading /\ [Next]_vars => Spreading'
  BY StepSpreads
<1>2. Init => Spreading
  BY InitWaits
<1> QED
  BY <1>1, <1>2, Invariant, PTL DEF Spec

(* While no client has vanished or been thrown out: clients wait only as   *)
(* long as the pool holds less than all of them wait for                   *)
(* (egd_spreadwrite).                                                      *)
THEOREM WaitsAreJustified == Spec => []WaitingIsJustified
<1>1. Waiting => WaitingIsJustified
  BY DEF Waiting, WaitingIsJustified, AllPresent
<1>2. IInv /\ IInv' /\ Spreading /\ Waiting /\ [Next]_vars => Waiting'
  BY StepWaits
<1>3. Init => Waiting
  BY InitWaits
<1> QED
  BY <1>1, <1>2, <1>3, Invariant, SpreadsAll, PTL DEF Spec

-----------------------------------------------------------------------------
(* What the clients ask for                                                *)

(* One step of the reading of a byte sequence s, given how it goes on.     *)
Reads(f, s, n, i) ==
  IF i > n THEN <<>>
  ELSE IF s[i] = EGD_CMD_QUERYPOOL
    THEN <<Answer("pool", 0, <<>>)>> \o f[i + 1]
  ELSE IF s[i] = EGD_CMD_GETPID
    THEN <<Answer("pid", 2, <<>>)>> \o f[i + 1]
  ELSE IF s[i] = EGD_CMD_READBYTES /\ i + 1 <= n
    THEN <<Answer("read", s[i + 1], <<>>)>> \o f[i + 2]
  ELSE IF s[i] = EGD_CMD_BLOCKREAD /\ i + 1 <= n
    THEN <<Answer("block", s[i + 1], <<>>)>> \o f[i + 2]
  ELSE IF s[i] = EGD_CMD_ADDENTROPY /\ i + 3 <= n
    THEN f[i + 4 + s[i + 3]]
  ELSE <<>>

Places(s) == 1 .. MaxAsk + 5 + Len(s)

(* It only looks at what comes after.                                      *)
LEMMA ReadsAfter ==
  ASSUME NEW s \in Seq(Byte), NEW n \in 0 .. Len(s), NEW i \in Places(s), NEW f, NEW g,
         \A j \in Places(s) : j > i => f[j] = g[j]
  PROVE  Reads(f, s, n, i) = Reads(g, s, n, i)
<1>1. Len(s) \in Nat /\ MaxAsk \in Nat /\ i \in Nat /\ i >= 1 /\ n \in Nat /\ n <= Len(s)
  BY SeqFacts, EgdAssumption DEF Places
<1>2. CASE i > n
  BY <1>2 DEF Reads
<1>3. CASE ~(i > n)
  <2>1. /\ i + 1 \in Places(s) /\ i + 1 > i
        /\ i + 2 \in Places(s) /\ i + 2 > i
    BY <1>1, <1>3 DEF Places
  <2>2. i + 3 <= n => i + 4 + s[i + 3] \in Places(s) /\ i + 4 + s[i + 3] > i
    <3> SUFFICES ASSUME i + 3 <= n
                 PROVE  i + 4 + s[i + 3] \in Places(s) /\ i + 4 + s[i + 3] > i
      OBVIOUS
    <3>1. i + 3 \in 1 .. Len(s)
      BY <1>1
    <3>2. s[i + 3] \in 0 .. MaxAsk
      BY <3>1, SeqFacts DEF Byte
    <3> QED
      BY <1>1, <3>2 DEF Places
  <2>3. f[i + 1] = g[i + 1] /\ f[i + 2] = g[i + 2]
          /\ (i + 3 <= n => f[i + 4 + s[i + 3]] = g[i + 4 + s[i + 3]])
    BY <2>1, <2>2
  <2> QED
    BY <2>3 DEF Reads
<1> QED
  BY <1>2, <1>3

(* A byte sequence can be read from each of its places on.                 *)
LEMMA AskedExists ==
  ASSUME NEW s \in Seq(Byte), NEW n \in 0 .. Len(s)
  PROVE  \E f : f = [i \in Places(s) |-> Reads(f, s, n, i)]
<1> DEFINE last == MaxAsk + 5 + Len(s)
           Late(k) == {i \in Places(s) : i + k > last}
           Upto(f, k) == f = [i \in Late(k) |-> Reads(f, s, n, i)]
           Q == {k \in Nat : \E f : Upto(f, k)}
<1>1. last \in Nat
  BY SeqFacts, EgdAssumption
<1>2. 0 \in Q
  <2>1. Late(0) = {}
    BY <1>1 DEF Places
  <2>2. Upto([i \in {} |-> 0], 0)
    BY <2>1
  <2> HIDE DEF Upto
  <2> QED
    BY <2>2
<1>3. ASSUME NEW k \in Nat, k \in Q
      PROVE  k + 1 \in Q
  <2>1. PICK f : Upto(f, k)
    BY <1>3
  <2> DEFINE g == [i \in Late(k + 1) |-> IF i \in Late(k) THEN f[i] ELSE Reads(f, s, n, i)]
  <2>2. ASSUME NEW i \in Late(k + 1)
        PROVE  g[i] = Reads(g, s, n, i)
    <3>1. \A j \in Places(s) : j > i => j \in Late(k) /\ j \in Late(k + 1)
      BY <1>1 DEF Places
    <3>2. \A j \in Places(s) : j > i => g[j] = f[j]
      BY <3>1
    <3>3. g[i] = IF i \in Late(k) THEN f[i] ELSE Reads(f, s, n, i)
      OBVIOUS
    <3>4. i \in Late(k) => f[i] = Reads(f, s, n, i)
      BY <2>1
    <3>5. i \in Places(s)
      OBVIOUS
    <3> HIDE DEF g, Late
    <3>6. Reads(g, s, n, i) = Reads(f, s, n, i)
      BY <3>2, <3>5, ReadsAfter
    <3> QED
      BY <3>3, <3>4, <3>6
  <2>3. Upto(g, k + 1)
    <3>1. g = [i \in Late(k + 1) |-> g[i]]
      OBVIOUS
    <3> HIDE DEF g, Late
    <3> QED
      BY <2>2, <3>1
  <2> HIDE DEF g, Upto
  <2> QED
    BY <2>3
<1>4. Nat \subseteq Q
  <2> HIDE DEF Q
  <2> QED
    BY <1>2, <1>3, SetInduction
<1>5. PICK f : Upto(f, last)
  <2> HIDE DEF Upto, last
  <2> QED
    BY <1>1, <1>4
<1>6. Late(last) = Places(s)
  BY <1>1 DEF Places
<1> QED
  BY <1>5, <1>6

(* What is asked for from a byte on.                                       *)
LEMMA AskedStep ==
  ASSUME NEW s \in Seq(Byte), NEW n \in 0 .. Len(s)
  PROVE  \A i \in Places(s) : AskedFrom(s, n)[i] = Reads(AskedFrom(s, n), s, n, i)
<1> DEFINE F == AskedFrom(s, n)
<1>1. F = CHOOSE f : f = [i \in Places(s) |-> Reads(f, s, n, i)]
  BY DEF AskedFrom, Reads, Places
<1>2. F = [i \in Places(s) |-> Reads(F, s, n, i)]
  <2> HIDE DEF F
  <2> QED
    BY <1>1, AskedExists
<1> HIDE DEF F
<1>3. \A i \in Places(s) : F[i] = Reads(F, s, n, i)
  BY <1>2
<1> QED
  BY <1>3 DEF F

(* What is asked for is a sequence of answers.                             *)
LEMMA AskedType ==
  ASSUME NEW s \in Seq(Byte), NEW n \in 0 .. Len(s)
  PROVE  \A i \in Places(s) : AskedFrom(s, n)[i] \in Seq(AnswerRecord)
<1> DEFINE last == MaxAsk + 5 + Len(s)
           F == AskedFrom(s, n)
           Q == {k \in Nat : \A i \in Places(s) : i + k > last => F[i] \in Seq(AnswerRecord)}
<1>1. last \in Nat /\ Len(s) \in Nat /\ MaxAsk \in Nat
  BY SeqFacts, EgdAssumption
<1>2. 0 \in Q
  BY <1>1 DEF Places
<1>3. ASSUME NEW k \in Nat, k \in Q
      PROVE  k + 1 \in Q
  <2> SUFFICES ASSUME NEW i \in Places(s), i + (k + 1) > last
               PROVE  F[i] \in Seq(AnswerRecord)
    OBVIOUS
  <2>1. \A j \in Places(s) : j > i => F[j] \in Seq(AnswerRecord)
    <3>1. \A j \in Places(s) : j > i => j + k > last
      BY <1>1 DEF Places
    <3> QED
      BY <1>3, <3>1
  <2>2. F[i] = Reads(F, s, n, i)
    BY AskedStep
  <2> HIDE DEF F
  <2>3. CASE i > n
    BY <2>2, <2>3, EmptySeq DEF Reads
  <2>4. CASE ~(i > n)
    <3>1. i \in 1 .. Len(s) /\ s[i] \in 0 .. MaxAsk
      BY <1>1, <2>4, SeqFacts DEF Byte, Places
    <3>2. /\ F[i + 1] \in Seq(AnswerRecord)
          /\ F[i + 2] \in Seq(AnswerRecord)
      <4>1. i + 1 \in Places(s) /\ i + 2 \in Places(s) /\ i + 1 > i /\ i + 2 > i
        BY <1>1, <3>1 DEF Places
      <4> QED
        BY <2>1, <4>1
    <3>3. i + 3 <= n => F[i + 4 + s[i + 3]] \in Seq(AnswerRecord)
      <4> SUFFICES ASSUME i + 3 <= n
                   PROVE  F[i + 4 + s[i + 3]] \in Seq(AnswerRecord)
        OBVIOUS
      <4>1. i + 3 \in 1 .. Len(s)
        BY <1>1, <3>1
      <4>2. s[i + 3] \in 0 .. MaxAsk
        BY <4>1, SeqFacts DEF Byte
      <4>3. i + 4 + s[i + 3] \in Places(s) /\ i + 4 + s[i + 3] > i
        BY <1>1, <3>1, <4>1, <4>2 DEF Places
      <4> QED
        BY <2>1, <4>3
    <3>4. /\ Answer("pool", 0, <<>>) \in AnswerRecord
          /\ Answer("pid", 2, <<>>) \in AnswerRecord
      BY EmptySeq DEF Answer, AnswerRecord
    <3>5. i + 1 <= n => /\ Answer("read", s[i + 1], <<>>) \in AnswerRecord
                        /\ Answer("block", s[i + 1], <<>>) \in AnswerRecord
      <4> SUFFICES ASSUME i + 1 <= n
                   PROVE  /\ Answer("read", s[i + 1], <<>>) \in AnswerRecord
                          /\ Answer("block", s[i + 1], <<>>) \in AnswerRecord
        OBVIOUS
      <4>1. i + 1 \in 1 .. Len(s)
        BY <1>1, <3>1
      <4>2. s[i + 1] \in Nat
        BY <1>1, <4>1, SeqFacts DEF Byte
      <4> QED
        BY <4>2, EmptySeq DEF Answer, AnswerRecord
    <3>6. \A a \in AnswerRecord, t \in Seq(AnswerRecord) : <<a>> \o t \in Seq(AnswerRecord)
      OBVIOUS
    <3> QED
      BY <2>2, <3>2, <3>3, <3>4, <3>5, <3>6, EmptySeq DEF Reads
  <2> QED
    BY <2>3, <2>4
<1>4. Nat \subseteq Q
  <2> HIDE DEF Q
  <2> QED
    BY <1>2, <1>3, SetInduction
<1>5. last \in Q
  <2> HIDE DEF Q, last
  <2> QED
    BY <1>1, <1>4
<1>6. \A i \in Places(s) : i + last > last
  BY <1>1 DEF Places
<1> QED
  BY <1>5, <1>6

(* What is left to come of a number of bytes awaited, or of none.          *)
Missing(w) == IF w = nil THEN 0 ELSE w

(* The unparsed bytes are the last of the n received.                      *)
Unread(s, n, buf) == Len(buf) <= n /\ \A i \in 1 .. Len(buf) : buf[i] = s[n - Len(buf) + i]

(* Where the next command begins, if r bytes are still to be skipped.      *)
NextAt(n, buf, r) == n - Len(buf) + 1 + Missing(r)

FitsWant(a, want, w) ==
  /\ a.kind = want.kind
  /\ a.kind = "read" => Len(a.bytes) = a.size /\ a.size <= want.size
  /\ a.kind = "block" => Len(a.bytes) + Missing(w) = want.size

(* The answers written fit those asked for; the last still lacks w bytes.  *)
AllFit(rs, front, w) ==
  /\ Len(front) = Len(rs)
  /\ \A j \in 1 .. Len(rs) : FitsWant(rs[j], front[j], IF j = Len(rs) THEN w ELSE nil)
  /\ w # nil => rs # <<>> /\ rs[Len(rs)].kind = "block"

(* However many bytes are received in the end, they ask for front and then *)
(* for what is asked for from place p on.                                  *)
GoesOn(s, n, p, front) ==
  \A m \in n .. Len(s) : AskedFrom(s, m)[1] = front \o AskedFrom(s, m)[p]

Parsed(s, n, buf, r, w, rs) ==
  /\ Unread(s, n, buf)
  /\ \E front \in Seq(AnswerRecord) : AllFit(rs, front, w) /\ GoesOn(s, n, NextAt(n, buf, r), front)

-----------------------------------------------------------------------------
(* Parsing k bytes moves the place of the next command by k.               *)
LEMMA UnreadRest ==
  ASSUME NEW s \in Seq(Byte), NEW n \in 0 .. Len(s), NEW buf \in Seq(Byte), Unread(s, n, buf),
         NEW k \in 0 .. Len(buf)
  PROVE  /\ Unread(s, n, Rest(buf, k)) /\ Rest(buf, k) \in Seq(Byte)
         /\ NextAt(n, Rest(buf, k), nil) = NextAt(n, buf, nil) + k
         /\ NextAt(n, Rest(buf, k), nil) \in Places(s)
<1> DEFINE b == Rest(buf, k)
<1>1. /\ Len(s) \in Nat /\ Len(buf) \in Nat /\ n \in Nat /\ k \in Nat /\ k <= Len(buf)
      /\ n <= Len(s) /\ MaxAsk \in Nat
  BY SeqFacts, EgdAssumption
<1>2. /\ b \in Seq(Byte) /\ Len(b) = Len(buf) - k
      /\ \A i \in 1 .. Len(buf) - k : b[i] = buf[k + i]
  BY FirstRestAt
<1> HIDE DEF b
<1>3. Unread(s, n, b)
  <2>1. Len(b) <= n
    BY <1>1, <1>2 DEF Unread
  <2>2. ASSUME NEW i \in 1 .. Len(b)
        PROVE  b[i] = s[n - Len(b) + i]
    <3>1. k + i \in 1 .. Len(buf) /\ i \in Int
      BY <1>1, <1>2
    <3>2. b[i] = buf[k + i] /\ buf[k + i] = s[n - Len(buf) + (k + i)]
      BY <1>2, <3>1 DEF Unread
    <3>3. n - Len(buf) + (k + i) = n - Len(b) + i
      BY <1>1, <1>2, <3>1
    <3> QED
      BY <3>2, <3>3
  <2> QED
    BY <2>1, <2>2 DEF Unread
<1>4. NextAt(n, b, nil) = NextAt(n, buf, nil) + k
  BY <1>1, <1>2 DEF NextAt, Missing
<1>5. NextAt(n, b, nil) \in Places(s)
  BY <1>1, <1>2, <1>3 DEF NextAt, Missing, Places, Unread
<1> QED
  BY <1>2, <1>3, <1>4, <1>5 DEF b

(* Receiving a byte leaves it where it is.                                 *)
LEMMA UnreadMore ==
  ASSUME NEW s \in Seq(Byte), NEW n \in 0 .. Len(s), NEW buf \in Seq(Byte), Unread(s, n, buf),
         n < Len(s)
  PROVE  LET more == Append(buf, s[n + 1])
         IN  /\ Unread(s, n + 1, more) /\ more \in Seq(Byte)
             /\ \A r : NextAt(n + 1, more, r) = NextAt(n, buf, r)
<1> DEFINE e == s[n + 1]
           b == Append(buf, e)
<1>1. Len(s) \in Nat /\ Len(buf) \in Nat /\ n \in Nat /\ n + 1 \in 1 .. Len(s)
  BY SeqFacts
<1>2. e \in Byte
  BY <1>1, SeqFacts
<1>3. /\ b \in Seq(Byte) /\ Len(b) = Len(buf) + 1 /\ b[Len(buf) + 1] = s[n + 1]
      /\ \A i \in 1 .. Len(buf) : b[i] = buf[i]
  <2> HIDE DEF e
  <2>1. /\ b \in Seq(Byte) /\ Len(b) = Len(buf) + 1 /\ b[Len(buf) + 1] = e
        /\ \A i \in 1 .. Len(buf) : b[i] = buf[i]
    BY <1>2, AppendFacts
  <2> QED
    BY <2>1 DEF e
<1> HIDE DEF b, e
<1>4. Unread(s, n + 1, b)
  <2>1. Len(b) <= n + 1
    BY <1>1, <1>3 DEF Unread
  <2>2. ASSUME NEW i \in 1 .. Len(b)
        PROVE  b[i] = s[n + 1 - Len(b) + i]
    <3>1. i \in Int /\ n + 1 - Len(b) + i = n - Len(buf) + i
      BY <1>1, <1>3
    <3>2. CASE i \in 1 .. Len(buf)
      <4>1. b[i] = buf[i] /\ buf[i] = s[n - Len(buf) + i]
        BY <1>3, <3>2 DEF Unread
      <4> QED
        BY <3>1, <4>1
    <3>3. CASE i = Len(buf) + 1
      <4>1. n - Len(buf) + i = n + 1
        BY <1>1, <3>3
      <4> QED
        BY <1>3, <3>1, <3>3, <4>1
    <3> QED
      BY <1>1, <1>3, <3>2, <3>3
  <2> QED
    BY <2>1, <2>2 DEF Unread
<1>5. n + 1 - Len(b) = n - Len(buf)
  BY <1>1, <1>3
<1>6. \A r : NextAt(n + 1, b, r) = NextAt(n, buf, r)
  BY <1>5 DEF NextAt
<1> QED
  BY <1>3, <1>4, <1>6 DEF b, e

(* A command that asks for one answer more.                                *)
LEMMA GoesOneMore ==
  ASSUME NEW s \in Seq(Byte), NEW n \in 0 .. Len(s), NEW p \in Places(s), NEW q \in Places(s),
         NEW front \in Seq(AnswerRecord), GoesOn(s, n, p, front), NEW a \in AnswerRecord,
         \A m \in n .. Len(s) : AskedFrom(s, m)[p] = <<a>> \o AskedFrom(s, m)[q]
  PROVE  GoesOn(s, n, q, Append(front, a))
<1> SUFFICES ASSUME NEW m \in n .. Len(s)
             PROVE  AskedFrom(s, m)[1] = Append(front, a) \o AskedFrom(s, m)[q]
  BY DEF GoesOn
<1> DEFINE t == AskedFrom(s, m)[q]
<1>1. t \in Seq(AnswerRecord)
  <2>1. Len(s) \in Nat
    BY SeqFacts
  <2>2. m \in 0 .. Len(s)
    BY <2>1
  <2> QED
    BY <2>2, AskedType
<1>2. AskedFrom(s, m)[1] = front \o (<<a>> \o t)
  BY DEF GoesOn
<1> HIDE DEF t
<1>3. front \o (<<a>> \o t) = Append(front, a) \o t
  <2>1. <<a>> \in Seq(AnswerRecord)
    OBVIOUS
  <2>2. front \o (<<a>> \o t) = (front \o <<a>>) \o t
    BY <1>1, <2>1, Associative
  <2>3. front \o <<a>> = Append(front, a)
    BY AppendIsConcat
  <2> QED
    BY <2>2, <2>3
<1> QED
  BY <1>2, <1>3 DEF t

(* One answer more that fits what is asked for.                            *)
LEMMA FitsMore ==
  ASSUME NEW rs \in Seq(AnswerRecord), NEW front \in Seq(AnswerRecord), AllFit(rs, front, nil),
         NEW a \in AnswerRecord, NEW want \in AnswerRecord, NEW w, FitsWant(a, want, w),
         w # nil => a.kind = "block"
  PROVE  AllFit(Append(rs, a), Append(front, want), w)
<1> DEFINE x == Append(rs, a)
           y == Append(front, want)
<1>1. Len(rs) \in Nat /\ Len(front) = Len(rs)
  BY SeqFacts DEF AllFit
<1>2. /\ x \in Seq(AnswerRecord) /\ Len(x) = Len(rs) + 1 /\ x[Len(rs) + 1] = a
      /\ \A i \in 1 .. Len(rs) : x[i] = rs[i]
  BY AppendFacts
<1>3. /\ Len(y) = Len(rs) + 1 /\ y[Len(rs) + 1] = want
      /\ \A i \in 1 .. Len(rs) : y[i] = front[i]
  BY <1>1, AppendFacts
<1> HIDE DEF x, y
<1>4. ASSUME NEW j \in 1 .. Len(x)
      PROVE  FitsWant(x[j], y[j], IF j = Len(x) THEN w ELSE nil)
  <2>1. CASE j \in 1 .. Len(rs)
    <3>1. j # Len(x) /\ (IF j = Len(rs) THEN nil ELSE nil) = nil
      BY <1>1, <1>2, <2>1
    <3>2. FitsWant(rs[j], front[j], nil)
      BY <2>1, <3>1 DEF AllFit
    <3> QED
      BY <1>2, <1>3, <2>1, <3>1, <3>2
  <2>2. CASE j = Len(rs) + 1
    BY <1>2, <1>3, <2>2
  <2> QED
    BY <1>1, <1>2, <2>1, <2>2
<1>5. x # <<>> /\ x[Len(x)] = a
  BY <1>1, <1>2, EmptySeq
<1> QED
  BY <1>2, <1>3, <1>4, <1>5 DEF AllFit, x, y

(* The bytes that were missing complete the last answer.                   *)
LEMMA FitsDone ==
  ASSUME NEW rs \in Seq(AnswerRecord), NEW front \in Seq(AnswerRecord), NEW w \in Nat,
         AllFit(rs, front, w), NEW got \in Seq(Label), Len(got) = w
  PROVE  AllFit([rs EXCEPT ![Len(rs)].bytes = @ \o got], front, nil)
<1> DEFINE n == Len(rs)
           e == [rs[n] EXCEPT !.bytes = @ \o got]
           x == [rs EXCEPT ![n].bytes = @ \o got]
<1>1. w # nil /\ w \in Int
  BY DEF nil
<1>2. n \in 1 .. n /\ n \in Nat /\ rs # <<>> /\ rs[n].kind = "block" /\ Len(front) = n
  BY <1>1, SeqFacts DEF AllFit
<1>3. rs[n] \in AnswerRecord /\ rs[n].bytes \in Seq(Label)
  <2>1. rs[n] \in AnswerRecord
    BY <1>2, SeqFacts
  <2> QED
    BY <2>1 DEF AnswerRecord
<1>4. /\ e \in AnswerRecord /\ e.kind = rs[n].kind /\ e.bytes = rs[n].bytes \o got
      /\ Len(e.bytes) = Len(rs[n].bytes) + w
  <2>1. rs[n].bytes \o got \in Seq(Label) /\ Len(rs[n].bytes \o got) = Len(rs[n].bytes) + w
    BY <1>3, ConcatProperties
  <2> QED
    BY <1>3, <2>1 DEF AnswerRecord
<1>5. x = [rs EXCEPT ![n] = e]
  BY <1>2
<1>6. x \in Seq(AnswerRecord) /\ Len(x) = n
      /\ \A j \in 1 .. n : x[j] = IF j = n THEN e ELSE rs[j]
  <2> HIDE DEF e, x
  <2> QED
    BY <1>2, <1>4, <1>5, ExceptFacts
<1>7. FitsWant(rs[n], front[n], w)
  BY <1>2 DEF AllFit
<1> HIDE DEF x, e
<1>8. FitsWant(e, front[n], nil)
  <2>1. e.kind = front[n].kind /\ e.kind = "block"
    BY <1>2, <1>4, <1>7 DEF FitsWant
  <2>2. Len(rs[n].bytes) + w = front[n].size
    BY <1>1, <1>2, <1>7 DEF FitsWant, Missing
  <2>3. Len(e.bytes) + 0 = front[n].size
    <3>1. Len(rs[n].bytes) \in Nat
      BY <1>3, SeqFacts
    <3> QED
      BY <1>4, <2>2, <3>1
  <2> QED
    BY <2>1, <2>3 DEF FitsWant, Missing
<1>9. \A j \in 1 .. n : FitsWant(x[j], front[j], nil)
  <2>1. ASSUME NEW j \in 1 .. n, j # n
        PROVE  FitsWant(x[j], front[j], nil)
    BY <1>6, <2>1 DEF AllFit
  <2> QED
    BY <1>6, <1>8, <2>1
<1>10. \A j \in 1 .. Len(x) : (IF j = Len(x) THEN nil ELSE nil) = nil
  OBVIOUS
<1>11. AllFit(x, front, nil)
  BY <1>2, <1>6, <1>9, <1>10 DEF AllFit
<1> QED
  BY <1>11 DEF x

-----------------------------------------------------------------------------
(* The first unparsed command is the next one of those sent, and asks for  *)
(* what it is answered with.                                               *)
LEMMA CommandAt ==
  ASSUME NEW s \in Seq(Byte), NEW n \in 0 .. Len(s), NEW buf \in Seq(Byte), Unread(s, n, buf),
         buf # <<>>, NEW m \in n .. Len(s)
  PROVE  LET p == NextAt(n, buf, nil)
             A == AskedFrom(s, m)
         IN  /\ buf[1] = EGD_CMD_QUERYPOOL => A[p] = <<Answer("pool", 0, <<>>)>> \o A[p + 1]
             /\ buf[1] = EGD_CMD_GETPID => A[p] = <<Answer("pid", 2, <<>>)>> \o A[p + 1]
             /\ buf[1] = EGD_CMD_READBYTES /\ Len(buf) >= 2 =>
                  A[p] = <<Answer("read", buf[2], <<>>)>> \o A[p + 2]
             /\ buf[1] = EGD_CMD_BLOCKREAD /\ Len(buf) >= 2 =>
                  A[p] = <<Answer("block", buf[2], <<>>)>> \o A[p + 2]
             /\ buf[1] = EGD_CMD_ADDENTROPY /\ Len(buf) >= 4 => A[p] = A[p + 4 + buf[4]]
<1> DEFINE p == NextAt(n, buf, nil)
           A == AskedFrom(s, m)
<1>1. /\ Len(s) \in Nat /\ Len(buf) \in Nat /\ Len(buf) >= 1 /\ n \in Nat /\ n <= Len(s)
      /\ m \in Nat /\ n <= m /\ m <= Len(s) /\ Len(buf) <= n /\ MaxAsk \in Nat
  BY SeqFacts, EgdAssumption DEF Unread
<1>2. p = n - Len(buf) + 1 /\ p \in Nat /\ p \in Places(s) /\ p + Len(buf) <= m + 1
  BY <1>1 DEF NextAt, Missing, Places
<1>3. A[p] = Reads(A, s, m, p)
  <2>1. m \in 0 .. Len(s)
    BY <1>1
  <2> QED
    BY <1>2, <2>1, AskedStep
<1>4. \A k \in 1 .. Len(buf) : buf[k] = s[p + k - 1]
  <2> SUFFICES ASSUME NEW k \in 1 .. Len(buf)
               PROVE  buf[k] = s[p + k - 1]
    OBVIOUS
  <2>1. n - Len(buf) + k = p + k - 1
    BY <1>1, <1>2
  <2> QED
    BY <2>1 DEF Unread
<1> HIDE DEF A, p
<1>5. ~(p > m) /\ s[p] = buf[1]
  <2>1. buf[1] = s[p + 1 - 1] /\ p + 1 - 1 = p
    BY <1>1, <1>2, <1>4
  <2> QED
    BY <1>1, <1>2, <2>1
<1>6. Len(buf) >= 2 => s[p + 1] = buf[2] /\ p + 1 <= m
  <2> SUFFICES ASSUME Len(buf) >= 2 PROVE s[p + 1] = buf[2] /\ p + 1 <= m
    OBVIOUS
  <2>1. buf[2] = s[p + 2 - 1] /\ p + 2 - 1 = p + 1
    BY <1>1, <1>2, <1>4
  <2> QED
    BY <1>1, <1>2, <2>1
<1>7. Len(buf) >= 4 => s[p + 3] = buf[4] /\ p + 3 <= m
  <2> SUFFICES ASSUME Len(buf) >= 4 PROVE s[p + 3] = buf[4] /\ p + 3 <= m
    OBVIOUS
  <2>1. buf[4] = s[p + 4 - 1] /\ p + 4 - 1 = p + 3
    BY <1>1, <1>2, <1>4
  <2> QED
    BY <1>1, <1>2, <2>1
<1> QED
  BY <1>3, <1>5, <1>6, <1>7
  DEF Reads, A, p, EGD_CMD_QUERYPOOL, EGD_CMD_GETPID, EGD_CMD_READBYTES, EGD_CMD_BLOCKREAD,
      EGD_CMD_ADDENTROPY

(* An answer to the first command keeps what was asked for and what was    *)
(* answered together.                                                      *)
LEMMA OneMoreParsed ==
  ASSUME NEW s \in Seq(Byte), NEW n \in 0 .. Len(s), NEW buf \in Seq(Byte),
         NEW rs \in Seq(AnswerRecord), Parsed(s, n, buf, nil, nil, rs),
         NEW k \in 0 .. Len(buf), NEW a \in AnswerRecord, NEW want \in AnswerRecord,
         NEW w, FitsWant(a, want, w), w # nil => a.kind = "block",
         \A m \in n .. Len(s) :
           AskedFrom(s, m)[NextAt(n, buf, nil)]
             = <<want>> \o AskedFrom(s, m)[NextAt(n, buf, nil) + k]
  PROVE  Parsed(s, n, Rest(buf, k), nil, w, Append(rs, a))
<1> DEFINE p == NextAt(n, buf, nil)
           q == NextAt(n, Rest(buf, k), nil)
<1>1. PICK front \in Seq(AnswerRecord) : AllFit(rs, front, nil) /\ GoesOn(s, n, p, front)
  BY DEF Parsed
<1>2. Unread(s, n, Rest(buf, k)) /\ q = p + k /\ q \in Places(s)
  BY UnreadRest DEF Parsed
<1>3. p \in Places(s)
  <2>1. Len(buf) \in Nat
    BY SeqFacts
  <2>2. 0 \in 0 .. Len(buf)
    BY <2>1
  <2>3. NextAt(n, Rest(buf, 0), nil) = p + 0 /\ NextAt(n, Rest(buf, 0), nil) \in Places(s)
    BY <2>2, UnreadRest DEF Parsed
  <2>4. p \in Int
    <3>1. n \in Int
      BY SeqFacts
    <3> QED
      BY <2>1, <3>1 DEF NextAt, Missing
  <2> QED
    BY <2>3, <2>4
<1>4. \A m \in n .. Len(s) : AskedFrom(s, m)[p] = <<want>> \o AskedFrom(s, m)[q]
  BY <1>2
<1>5. Append(front, want) \in Seq(AnswerRecord)
  BY AppendFacts
<1> HIDE DEF p, q
<1>6. GoesOn(s, n, q, Append(front, want))
  BY <1>1, <1>2, <1>3, <1>4, GoesOneMore
<1>7. AllFit(Append(rs, a), Append(front, want), w)
  BY <1>1, FitsMore
<1> QED
  BY <1>2, <1>5, <1>6, <1>7 DEF Parsed, q

-----------------------------------------------------------------------------
(* egd_try_cmd *)

(* A command that is answered keeps what was asked for and what was        *)
(* answered together.                                                      *)
LEMMA DispatchParsed ==
  ASSUME IInv, AnswersOK, NEW c \in Clients, NEW s \in Seq(Byte), NEW n \in 0 .. Len(s),
         NEW buf \in Seq(Byte), Parsed(s, n, buf, nil, nil, answers[c]),
         egdwriteblocked[c] = nil, ~gone(c), status[c] = "open", status'[c] = "open",
         Dispatch(c, buf)
  PROVE  Parsed(s, n, readbuffers'[c], nil, egdwriteblocked'[c], answers'[c])
<1> DEFINE rs == answers[c]
           p == NextAt(n, buf, nil)
<1>1. rs \in Seq(AnswerRecord) /\ Len(buf) \in Nat /\ (buf # <<>> => Len(buf) >= 1)
  BY SeqFacts DEF AnswersOK
<1>2. readbuffers'[c] = IF buf # <<>> /\ (QueryPool(c, buf) \/ GetPid(c, buf)) THEN Rest(buf, 1)
                        ELSE IF buf # <<>> /\ (ReadBytes(c, buf) \/ BlockRead(c, buf))
                          THEN Rest(buf, 2) ELSE readbuffers'[c]
  BY DEF leave, QueryPool, GetPid, ReadBytes, BlockRead, IInv, ClientsOK, EGD_CMD_QUERYPOOL,
         EGD_CMD_GETPID, EGD_CMD_READBYTES, EGD_CMD_BLOCKREAD
<1>3. \A a : ctlwrite(c, a) => answers'[c] = Append(rs, a)
  BY DEF ctlwrite, AnswersOK
<1>4. total_entropy * 8 \in Nat /\ 2 \in Nat /\ <<>> \in Seq(Label) /\ Len(<<>>) = 0
  BY SeqFacts, EmptySeq DEF IInv, PoolOK
<1>5. Unread(s, n, buf)
  BY DEF Parsed
<1>6. CASE readbuffers'[c] = buf /\ egdwriteblocked'[c] = nil /\ answers'[c] = rs
  BY <1>6
<1>7. CASE buf # <<>> /\ QueryPool(c, buf)
  <2> DEFINE a == Answer("pool", total_entropy * 8, <<>>)
             want == Answer("pool", 0, <<>>)
  <2>1. a \in AnswerRecord /\ want \in AnswerRecord /\ FitsWant(a, want, nil)
    BY <1>4 DEF Answer, AnswerRecord, FitsWant
  <2>2. answers'[c] = Append(rs, a) /\ egdwriteblocked'[c] = nil
    BY <1>3, <1>7 DEF QueryPool
  <2>3. \A m \in n .. Len(s) : AskedFrom(s, m)[p] = <<want>> \o AskedFrom(s, m)[p + 1]
    BY <1>5, <1>7, CommandAt DEF QueryPool
  <2>4. 1 \in 0 .. Len(buf)
    BY <1>1, <1>7
  <2>5. readbuffers'[c] = Rest(buf, 1)
    BY <1>2, <1>7
  <2> HIDE DEF a, want, rs
  <2>6. Parsed(s, n, Rest(buf, 1), nil, nil, Append(rs, a))
    BY <1>1, <2>1, <2>3, <2>4, OneMoreParsed DEF rs
  <2> QED
    BY <2>2, <2>5, <2>6
<1>8. CASE buf # <<>> /\ GetPid(c, buf)
  <2> DEFINE a == Answer("pid", 2, <<>>)
  <2>1. a \in AnswerRecord /\ FitsWant(a, a, nil)
    BY <1>4 DEF Answer, AnswerRecord, FitsWant
  <2>2. answers'[c] = Append(rs, a) /\ egdwriteblocked'[c] = nil
    BY <1>3, <1>8 DEF GetPid
  <2>3. \A m \in n .. Len(s) : AskedFrom(s, m)[p] = <<a>> \o AskedFrom(s, m)[p + 1]
    BY <1>5, <1>8, CommandAt DEF GetPid
  <2>4. 1 \in 0 .. Len(buf)
    BY <1>1, <1>8
  <2>5. readbuffers'[c] = Rest(buf, 1)
    BY <1>2, <1>8
  <2> HIDE DEF a, rs
  <2>6. Parsed(s, n, Rest(buf, 1), nil, nil, Append(rs, a))
    BY <1>1, <2>1, <2>3, <2>4, OneMoreParsed DEF rs
  <2> QED
    BY <2>2, <2>5, <2>6
<1>9. CASE buf # <<>> /\ ReadBytes(c, buf)
  <2> DEFINE d == dequeued(buf[2])
             a == Answer("read", Len(d), d)
             want == Answer("read", buf[2], <<>>)
  <2>1. Len(buf) >= 2 /\ buf[2] \in Nat
    BY <1>9, ByteOK DEF ReadBytes
  <2>2. d \in Seq(Label) /\ Len(d) \in Nat /\ Len(d) <= buf[2]
    BY <2>1, DequeueOK DEF IInv
  <2>3. answers'[c] = Append(rs, a) /\ egdwriteblocked'[c] = nil
    BY <1>3, <1>9 DEF ReadBytes
  <2>4. \A m \in n .. Len(s) : AskedFrom(s, m)[p] = <<want>> \o AskedFrom(s, m)[p + 2]
    BY <1>5, <1>9, CommandAt DEF ReadBytes
  <2>5. 2 \in 0 .. Len(buf)
    BY <1>1, <2>1
  <2>6. readbuffers'[c] = Rest(buf, 2)
    BY <1>2, <1>9 DEF ReadBytes, QueryPool, GetPid, EGD_CMD_QUERYPOOL,
        EGD_CMD_GETPID, EGD_CMD_READBYTES
  <2> HIDE DEF d
  <2>7. a \in AnswerRecord /\ want \in AnswerRecord /\ FitsWant(a, want, nil)
    BY <1>4, <2>1, <2>2 DEF Answer, AnswerRecord, FitsWant
  <2> HIDE DEF a, want, rs
  <2>8. Parsed(s, n, Rest(buf, 2), nil, nil, Append(rs, a))
    BY <1>1, <2>4, <2>5, <2>7, OneMoreParsed DEF rs
  <2> QED
    BY <2>3, <2>6, <2>8
<1>10. CASE buf # <<>> /\ BlockRead(c, buf)
  <2> DEFINE d == dequeued(buf[2])
             a == Answer("block", buf[2], d)
             want == Answer("block", buf[2], <<>>)
             w == IF Len(d) < buf[2] THEN buf[2] - Len(d) ELSE nil
  <2>1. Len(buf) >= 2 /\ buf[2] \in Nat
    BY <1>10, ByteOK DEF BlockRead
  <2>2. d \in Seq(Label) /\ Len(d) \in Nat /\ Len(d) <= buf[2]
    BY <2>1, DequeueOK DEF IInv
  <2>3. answers'[c] = Append(rs, a) /\ egdwriteblocked'[c] = w
    BY <1>3, <1>10 DEF BlockRead, IInv, ClientsOK
  <2>4. \A m \in n .. Len(s) : AskedFrom(s, m)[p] = <<want>> \o AskedFrom(s, m)[p + 2]
    BY <1>5, <1>10, CommandAt DEF BlockRead
  <2>5. 2 \in 0 .. Len(buf)
    BY <1>1, <2>1
  <2>6. readbuffers'[c] = Rest(buf, 2)
    BY <1>2, <1>10 DEF BlockRead, QueryPool, GetPid, EGD_CMD_QUERYPOOL,
        EGD_CMD_GETPID, EGD_CMD_BLOCKREAD
  <2> HIDE DEF d
  <2>7. a \in AnswerRecord /\ want \in AnswerRecord /\ a.kind = "block"
    BY <1>4, <2>1, <2>2 DEF Answer, AnswerRecord
  <2>8. FitsWant(a, want, w)
    <3>1. Len(d) + Missing(w) = buf[2]
      BY <2>1, <2>2 DEF Missing, nil
    <3> QED
      BY <3>1 DEF Answer, FitsWant
  <2> HIDE DEF a, want, rs, w
  <2>9. Parsed(s, n, Rest(buf, 2), nil, w, Append(rs, a))
    BY <1>1, <2>4, <2>5, <2>7, <2>8, OneMoreParsed DEF rs
  <2> QED
    BY <2>3, <2>6, <2>9
<1>11. CASE buf = <<>> \/ PushBack(c, buf)
  <2>1. CASE buf = <<>>
    BY <1>6, <2>1 DEF Dispatch, leave, IInv, ClientsOK
  <2>2. CASE PushBack(c, buf)
    BY <1>6, <2>2 DEF PushBack, leave, IInv, ClientsOK
  <2> QED
    BY <1>11, <2>1, <2>2
<1>12. ~UnknownCmd(c, buf)
  BY DEF UnknownCmd, IInv, ClientsOK
<1> QED
  BY <1>7, <1>8, <1>9, <1>10, <1>11, <1>12 DEF Dispatch

-----------------------------------------------------------------------------
(* The same with ADDENTROPY, whose payload is skipped.                     *)
LEMMA CommandParsed ==
  ASSUME IInv, AnswersOK, NEW c \in Clients, NEW s \in Seq(Byte), NEW n \in 0 .. Len(s),
         NEW buf \in Seq(Byte), Parsed(s, n, buf, nil, nil, answers[c]),
         egdwriteblocked[c] = nil, ~gone(c), status[c] = "open", status'[c] = "open",
         command(c, buf)
  PROVE  Parsed(s, n, readbuffers'[c], egdreadblocked'[c], egdwriteblocked'[c], answers'[c])
<1>1. CASE egdreadblocked' = [egdreadblocked EXCEPT ![c] = nil] /\ Dispatch(c, buf)
  <2>1. egdreadblocked'[c] = nil
    BY <1>1 DEF IInv, ClientsOK
  <2> QED
    BY <1>1, <2>1, DispatchParsed
<1>2. CASE buf # <<>> /\ AddEntropy(c, buf)
  <2> DEFINE r == buf[4]
             p == NextAt(n, buf, nil)
  <2>1. Len(buf) \in Nat /\ Len(buf) >= 4 /\ r \in Nat /\ n \in Int
    BY <1>2, ByteOK, SeqFacts DEF AddEntropy
  <2>2. /\ egdwriteblocked'[c] = nil /\ answers'[c] = answers[c]
        /\ buf[1] = EGD_CMD_ADDENTROPY
    BY <1>2 DEF AddEntropy
  <2>3. PICK front \in Seq(AnswerRecord) :
          AllFit(answers[c], front, nil) /\ GoesOn(s, n, p, front)
    BY DEF Parsed
  <2>4. \A m \in n .. Len(s) : AskedFrom(s, m)[p] = AskedFrom(s, m)[p + 4 + r]
    BY <1>2, <2>1, <2>2, CommandAt DEF Parsed
  <2>5. GoesOn(s, n, p + 4 + r, front)
    BY <2>3, <2>4 DEF GoesOn
  <2>6. /\ 4 \in 0 .. Len(buf)
        /\ Unread(s, n, Rest(buf, 4)) /\ Rest(buf, 4) \in Seq(Byte)
        /\ NextAt(n, Rest(buf, 4), nil) = p + 4
        /\ Len(Rest(buf, 4)) = Len(buf) - 4
    <3>1. 4 \in 0 .. Len(buf)
      BY <2>1
    <3> QED
      BY <3>1, UnreadRest, FirstRestAt DEF Parsed
  <2>7. CASE /\ egd_getbytes_ok(Rest(buf, 4), r)
             /\ leave(c, Rest(buf, 4 + r))
             /\ egdreadblocked' = [egdreadblocked EXCEPT ![c] = nil]
    <3>1. 4 + r \in 0 .. Len(buf)
      BY <2>1, <2>6, <2>7 DEF egd_getbytes_ok
    <3>2. Unread(s, n, Rest(buf, 4 + r)) /\ NextAt(n, Rest(buf, 4 + r), nil) = p + (4 + r)
      BY <3>1, UnreadRest DEF Parsed
    <3>3. p + (4 + r) = p + 4 + r
      BY <2>1 DEF NextAt, Missing
    <3>4. readbuffers'[c] = Rest(buf, 4 + r) /\ egdreadblocked'[c] = nil
      BY <2>7 DEF leave, IInv, ClientsOK
    <3> HIDE DEF p, r
    <3> QED
      BY <2>2, <2>3, <2>5, <3>2, <3>3, <3>4 DEF Parsed
  <2>8. CASE /\ leave(c, Rest(buf, 4))
             /\ egdreadblocked' = [egdreadblocked EXCEPT ![c] = r]
    <3>1. readbuffers'[c] = Rest(buf, 4) /\ egdreadblocked'[c] = r
      BY <2>8 DEF leave, IInv, ClientsOK
    <3>2. NextAt(n, Rest(buf, 4), r) = p + 4 + r
      <4>1. NextAt(n, Rest(buf, 4), r) = n - Len(Rest(buf, 4)) + 1 + r
        BY <2>1 DEF NextAt, Missing, nil
      <4>2. p = n - Len(buf) + 1
        BY <2>1 DEF NextAt, Missing
      <4> HIDE DEF r, p
      <4> QED
        BY <2>1, <2>6, <4>1, <4>2
    <3> HIDE DEF p, r
    <3> QED
      BY <2>2, <2>3, <2>5, <2>6, <3>1, <3>2 DEF Parsed
  <2> QED
    BY <1>2, <2>7, <2>8 DEF AddEntropy
<1> QED
  BY <1>1, <1>2 DEF command

(* The same for any call of egd_try_cmd.                                   *)
LEMMA TryParsed ==
  ASSUME IInv, AnswersOK, NEW c \in Clients, NEW s \in Seq(Byte), NEW n \in 0 .. Len(s),
         NEW buf \in Seq(Byte),
         Parsed(s, n, buf, egdreadblocked[c], egdwriteblocked[c], answers[c]),
         ~gone(c), status[c] = "open", status'[c] = "open", egd_try_cmd(c, buf)
  PROVE  Parsed(s, n, readbuffers'[c], egdreadblocked'[c], egdwriteblocked'[c], answers'[c])
<1> DEFINE r == egdreadblocked[c]
<1>1. CASE leave(c, buf) /\ UNCHANGED <<egdreadblocked, egdwriteblocked, answers>>
  <2>1. readbuffers'[c] = buf
    BY <1>1 DEF leave, IInv, ClientsOK
  <2> QED
    BY <1>1, <2>1
<1>2. CASE /\ egdwriteblocked[c] = nil /\ r # nil
           /\ egd_getbytes_ok(buf, r) /\ command(c, Rest(buf, r))
  <2>1. r \in Nat /\ Len(buf) \in Nat /\ r \in 0 .. Len(buf) /\ n \in Int
    BY <1>2, EgdAssumption, SeqFacts DEF egd_getbytes_ok, IInv, ClientsOK
  <2>2. /\ Unread(s, n, Rest(buf, r)) /\ Rest(buf, r) \in Seq(Byte)
        /\ NextAt(n, Rest(buf, r), nil) = NextAt(n, buf, nil) + r
    BY <2>1, UnreadRest DEF Parsed
  <2>3. NextAt(n, buf, nil) + r = NextAt(n, buf, r)
    BY <1>2, <2>1 DEF NextAt, Missing
  <2>4. Parsed(s, n, Rest(buf, r), nil, nil, answers[c])
    BY <1>2, <2>2, <2>3 DEF Parsed
  <2> HIDE DEF r
  <2> QED
    BY <1>2, <2>2, <2>4, CommandParsed
<1>3. CASE egdwriteblocked[c] = nil /\ r = nil /\ command(c, buf)
  BY <1>3, CommandParsed
<1> QED
  BY <1>1, <1>2, <1>3 DEF egd_try_cmd

-----------------------------------------------------------------------------
(* Nothing is received that was not sent; what a client that is there sent *)
(* is answered as far as it is parsed; a client that is served gets all it *)
(* waits for.                                                              *)
Received == \A c \in Clients : pos[c] <= Len(script[c])

ParsedOf(c) ==
  Parsed(script[c], pos[c], readbuffers[c], egdreadblocked[c], egdwriteblocked[c], answers[c])

AllParsed == \A c \in Clients : Present(c) => ParsedOf(c)

Answered == AnswersOK /\ Received /\ AllParsed

(* What a client sends and how much of it was received.                    *)
LEMMA SentOK ==
  ASSUME IInv, Received, NEW c \in Clients
  PROVE  script[c] \in Seq(Byte) /\ pos[c] \in 0 .. Len(script[c]) /\ pos[c] \in Nat
<1>1. script[c] \in Seq(Byte) /\ pos[c] \in Nat
  BY EgdAssumption DEF IInv, LoopOK, Byte
<1> QED
  BY <1>1, SeqFacts DEF Received

(* Answered holds at the start.                                            *)
LEMMA InitAnswered == Init => Answered
<1> SUFFICES ASSUME Init PROVE Answered
  OBVIOUS
<1>1. AnswersOK
  BY EmptySeq DEF Init, AnswersOK
<1>2. \A c \in Clients : script[c] \in Seq(Byte) /\ Len(script[c]) \in Nat
  <2>1. \A c \in Clients : script[c] \in Seq(Byte)
    BY EgdAssumption DEF Init, Byte
  <2> QED
    BY <2>1, SeqFacts
<1>3. Received
  BY <1>2 DEF Init, Received
<1>4. ASSUME NEW c \in Clients
      PROVE  Parsed(script[c], 0, <<>>, nil, nil, <<>>)
  <2> DEFINE s == script[c]
  <2>1. Len(<<>>) = 0 /\ <<>> \in Seq(AnswerRecord) /\ s \in Seq(Byte) /\ Len(s) \in Nat
    BY <1>2, EmptySeq
  <2> HIDE DEF s
  <2>2. Unread(s, 0, <<>>) /\ NextAt(0, <<>>, nil) = 1
    BY <2>1 DEF Unread, NextAt, Missing
  <2>3. AllFit(<<>>, <<>>, nil)
    BY <2>1 DEF AllFit
  <2>4. GoesOn(s, 0, 1, <<>>)
    <3> SUFFICES ASSUME NEW m \in 0 .. Len(s)
                 PROVE  AskedFrom(s, m)[1] = <<>> \o AskedFrom(s, m)[1]
      BY DEF GoesOn
    <3>1. 1 \in Places(s)
      BY <2>1, EgdAssumption DEF Places
    <3>2. AskedFrom(s, m)[1] \in Seq(AnswerRecord)
      BY <2>1, <3>1, AskedType
    <3> QED
      BY <3>2, ConcatEmptySeq
  <2> QED
    BY <2>1, <2>2, <2>3, <2>4 DEF Parsed, s
<1>5. AllParsed
  <2> SUFFICES ASSUME NEW c \in Clients
               PROVE  ParsedOf(c)
    BY DEF AllParsed
  <2>1. /\ pos[c] = 0 /\ readbuffers[c] = <<>> /\ egdreadblocked[c] = nil
        /\ egdwriteblocked[c] = nil /\ answers[c] = <<>>
    BY DEF Init
  <2> QED
    BY <1>4, <2>1 DEF ParsedOf
<1> QED
  BY <1>1, <1>3, <1>5 DEF Answered

-----------------------------------------------------------------------------
(* egd_try_cmd leaves the other clients alone.                             *)
LEMMA TryOthers ==
  ASSUME IInv, AnswersOK, NEW d \in Clients, NEW buf, egd_try_cmd(d, buf),
         NEW c \in Clients, c # d
  PROVE  /\ readbuffers'[c] = readbuffers[c] /\ egdreadblocked'[c] = egdreadblocked[c]
         /\ egdwriteblocked'[c] = egdwriteblocked[c] /\ answers'[c] = answers[c]
<1> DEFINE Same == /\ readbuffers'[c] = readbuffers[c]
                   /\ egdwriteblocked'[c] = egdwriteblocked[c] /\ answers'[c] = answers[c]
<1>1. ASSUME NEW b, leave(d, b)
      PROVE  readbuffers'[c] = readbuffers[c]
  BY <1>1 DEF leave, IInv, ClientsOK
<1>2. ASSUME NEW a, ctlwrite(d, a)
      PROVE  answers'[c] = answers[c]
  BY <1>2 DEF ctlwrite, AnswersOK
<1>3. ASSUME NEW b, Dispatch(d, b)
      PROVE  Same
  BY <1>1, <1>2, <1>3
  DEF Dispatch, QueryPool, ReadBytes, BlockRead, GetPid, PushBack, UnknownCmd, IInv, ClientsOK
<1>4. ASSUME NEW b, command(d, b)
      PROVE  Same /\ egdreadblocked'[c] = egdreadblocked[c]
  <2>1. CASE egdreadblocked' = [egdreadblocked EXCEPT ![d] = nil] /\ Dispatch(d, b)
    <3>1. egdreadblocked'[c] = egdreadblocked[c]
      BY <2>1 DEF IInv, ClientsOK
    <3> QED
      BY <1>3, <2>1, <3>1
  <2>2. CASE AddEntropy(d, b)
    BY <1>1, <2>2 DEF AddEntropy, IInv, ClientsOK
  <2> QED
    BY <1>4, <2>1, <2>2 DEF command
<1>5. CASE leave(d, buf) /\ UNCHANGED <<egdwriteblocked, egdreadblocked, answers>>
  BY <1>1, <1>5
<1> QED
  BY <1>4, <1>5 DEF egd_try_cmd

(* A client that egd_spreadwrite serves gets the rest of its last answer.  *)
LEMMA SpreadParsed ==
  ASSUME IInv, Answered, Spreading, NEW c \in Clients, Present(c), egd_spreadwrite(c)
  PROVE  ParsedOf(c)'
<1> DEFINE n == egdwriteblocked[c]
           rs == answers[c]
           s == script[c]
<1>1. c \in Blocked /\ totpending <= total_entropy
  BY DEF Spreading, egd_spreadwrite
<1>2. /\ n \in Nat /\ n >= 1 /\ n <= totpending /\ totpending \in Nat /\ total_entropy \in Nat
      /\ pool \in Seq(Label) /\ total_entropy = Len(pool)
  <2>1. n \in 1 .. MaxAsk /\ n <= totpending /\ totpending \in Nat
    BY <1>1, Pending DEF IInv
  <2> QED
    BY <2>1, EgdAssumption, SeqFacts DEF IInv, PoolOK
<1>3. rs \in Seq(AnswerRecord) /\ s \in Seq(Byte) /\ pos[c] \in 0 .. Len(s)
  BY SentOK DEF Answered, AnswersOK
<1>4. PICK front \in Seq(AnswerRecord) :
        /\ AllFit(rs, front, n)
        /\ GoesOn(s, pos[c], NextAt(pos[c], readbuffers[c], egdreadblocked[c]), front)
  BY DEF Answered, AllParsed, ParsedOf, Parsed
<1> DEFINE got == dequeued(n)
           more == [rs EXCEPT ![Len(rs)].bytes = @ \o got]
<1>5. got \in Seq(Label) /\ Len(got) = n /\ got # <<>>
  BY SpreadTakes
<1>6. ~gone(c)
  BY DEF Present, gone, dropped
<1>7. answers'[c] = more /\ egdwriteblocked'[c] = nil
  <2>1. complete(c, got) /\ egdwriteblocked' = [egdwriteblocked EXCEPT ![c] = nil]
    BY <1>5 DEF egd_spreadwrite
  <2> HIDE DEF got, n
  <2>2. answers' = [answers EXCEPT ![c] = more]
    BY <1>6, <2>1 DEF complete
  <2> HIDE DEF more
  <2> QED
    BY <2>1, <2>2 DEF Answered, AnswersOK, IInv, ClientsOK
<1>8. /\ script' = script /\ pos' = pos /\ readbuffers' = readbuffers
      /\ egdreadblocked' = egdreadblocked
  BY DEF egd_spreadwrite
<1>9. Unread(s, pos[c], readbuffers[c])
  BY DEF Answered, AllParsed, ParsedOf, Parsed
<1> HIDE DEF got, n, rs
<1>10. AllFit(more, front, nil)
  BY <1>2, <1>3, <1>4, <1>5, FitsDone
<1> HIDE DEF more
<1>11. Parsed(s, pos[c], readbuffers[c], egdreadblocked[c], nil, more)
  BY <1>4, <1>9, <1>10 DEF Parsed
<1> QED
  BY <1>7, <1>8, <1>11 DEF ParsedOf

(* Every step keeps a client that stays and its answers together.          *)
LEMMA StepParsed ==
  ASSUME IInv, IInv', Answered, Spreading, [Next]_vars, NEW c \in Clients, Present(c)'
  PROVE  ParsedOf(c)'
<1>1. Present(c) /\ status[c] = "open" /\ status'[c] = "open" /\ ~gone(c)
  BY WerePresent DEF Present, gone, dropped
<1>2. ParsedOf(c) /\ AnswersOK /\ Received
  BY <1>1 DEF Answered, AllParsed
<1>3. script[c] \in Seq(Byte) /\ pos[c] \in 0 .. Len(script[c]) /\ pos[c] \in Nat
        /\ readbuffers[c] \in Seq(Byte)
  BY <1>2, SentOK DEF IInv, ClientsOK
<1>4. CASE /\ script' = script /\ pos'[c] = pos[c] /\ readbuffers'[c] = readbuffers[c]
           /\ egdreadblocked'[c] = egdreadblocked[c]
           /\ egdwriteblocked'[c] = egdwriteblocked[c] /\ answers'[c] = answers[c]
  BY <1>2, <1>4 DEF ParsedOf
<1>5. ASSUME NEW d \in Clients, egd_ctlread(d) \/ egd_spin(d) \/ egd_retry(d)
      PROVE  ParsedOf(c)'
  <2>1. CASE d # c
    <3>1. PICK buf \in Seq(Byte) : egd_try_cmd(d, buf)
      BY <1>5, TriedBytes
    <3>2. script' = script /\ pos'[c] = pos[c]
      BY <1>5, <2>1 DEF egd_ctlread, egd_spin, egd_retry, IInv, LoopOK
    <3> QED
      BY <1>2, <1>4, <2>1, <3>1, <3>2, TryOthers
  <2>2. CASE d = c /\ (egd_spin(d) \/ egd_retry(d))
    <3>1. egd_try_cmd(c, readbuffers[c]) /\ script' = script /\ pos' = pos
      BY <2>2 DEF egd_spin, egd_retry
    <3>2. Parsed(script[c], pos[c], readbuffers'[c], egdreadblocked'[c], egdwriteblocked'[c],
                 answers'[c])
      BY <1>1, <1>2, <1>3, <3>1, TryParsed DEF ParsedOf
    <3> QED
      BY <3>1, <3>2 DEF ParsedOf
  <2>3. CASE d = c /\ egd_ctlread(d)
    <3> DEFINE s == script[c]
               n == pos[c] + 1
               buf == Append(readbuffers[c], s[n])
    <3>1. /\ egd_try_cmd(c, buf) /\ script' = script /\ pos[c] < Len(s) /\ pos'[c] = n
      BY <2>3 DEF egd_ctlread, IInv, LoopOK
    <3>2. n \in 0 .. Len(s)
      <4>1. Len(s) \in Nat
        BY <1>3, SeqFacts
      <4> QED
        BY <1>3, <3>1, <4>1
    <3>3. PICK front \in Seq(AnswerRecord) :
            /\ AllFit(answers[c], front, egdwriteblocked[c])
            /\ GoesOn(s, pos[c], NextAt(pos[c], readbuffers[c], egdreadblocked[c]), front)
      BY <1>2 DEF ParsedOf, Parsed
    <3>4. /\ Unread(s, n, buf) /\ buf \in Seq(Byte)
          /\ \A r : NextAt(n, buf, r) = NextAt(pos[c], readbuffers[c], r)
      <4>1. Unread(s, pos[c], readbuffers[c])
        BY <1>2 DEF ParsedOf, Parsed
      <4> QED
        BY <1>3, <3>1, <4>1, UnreadMore
    <3>5. GoesOn(s, n, NextAt(n, buf, egdreadblocked[c]), front)
      <4>1. \A m \in n .. Len(s) : m \in pos[c] .. Len(s)
        BY <1>3
      <4>2. NextAt(n, buf, egdreadblocked[c]) = NextAt(pos[c], readbuffers[c], egdreadblocked[c])
        BY <3>4
      <4> HIDE DEF n, buf
      <4> QED
        BY <3>3, <4>1, <4>2 DEF GoesOn
    <3>6. Parsed(s, n, buf, egdreadblocked[c], egdwriteblocked[c], answers[c])
      BY <3>3, <3>4, <3>5 DEF Parsed
    <3> HIDE DEF buf, n
    <3>7. Parsed(s, n, readbuffers'[c], egdreadblocked'[c], egdwriteblocked'[c], answers'[c])
      BY <1>1, <1>2, <1>3, <3>1, <3>2, <3>4, <3>6, TryParsed
    <3> QED
      BY <3>1, <3>7 DEF ParsedOf
  <2> QED
    BY <1>5, <2>1, <2>2, <2>3
<1>6. ASSUME NEW d \in Clients, egd_spreadwrite(d)
      PROVE  ParsedOf(c)'
  <2>1. CASE d = c
    BY <1>1, <1>6, <2>1, SpreadParsed
  <2>2. CASE d # c
    <3>1. /\ answers'[c] = answers[c] /\ egdwriteblocked'[c] = egdwriteblocked[c]
      BY <1>2, <1>6, <2>2 DEF egd_spreadwrite, complete, AnswersOK, IInv, ClientsOK
    <3> QED
      BY <1>4, <1>6, <3>1 DEF egd_spreadwrite
  <2> QED
    BY <2>1, <2>2
<1>7. ASSUME NEW d \in Clients, Collect(d)
      PROVE  ParsedOf(c)'
  <2>1. d # c
    BY <1>1, <1>7 DEF Collect
  <2> QED
    BY <1>4, <1>7, <2>1 DEF Collect, IInv, ClientsOK
<1>8. CASE UNCHANGED <<script, pos, readbuffers, egdreadblocked, egdwriteblocked, answers>>
  BY <1>4, <1>8
<1> QED
  BY <1>5, <1>6, <1>7, <1>8
  DEF Next, ENTROPY, egd_eof, delctlsocket, Disconnect, vars, serverVars

(* Every step keeps Answered.                                              *)
LEMMA StepAnswered ==
  ASSUME IInv, IInv', Answered, Spreading, [Next]_vars
  PROVE  Answered'
<1>1. AnswersOK'
  BY StepAnswersOK DEF Answered
<1>2. Received'
  <2>1. CASE script' = script /\ pos' = pos
    BY <2>1 DEF Answered, Received
  <2>2. ASSUME NEW c \in Clients, egd_ctlread(c)
        PROVE  Received'
    <3>1. script' = script /\ pos' = [pos EXCEPT ![c] = @ + 1] /\ pos[c] < Len(script[c])
      BY <2>2 DEF egd_ctlread
    <3>2. Len(script[c]) \in Nat /\ pos[c] \in Nat
      BY SentOK, SeqFacts DEF Answered
    <3>3. pos[c] + 1 <= Len(script[c])
      BY <3>1, <3>2
    <3>4. pos \in [Clients -> Nat]
      BY DEF IInv, LoopOK
    <3> QED
      BY <3>1, <3>3, <3>4 DEF Answered, Received
  <2> QED
    BY <2>1, <2>2
    DEF Next, ENTROPY, egd_spin, egd_retry, egd_spreadwrite, egd_eof, delctlsocket, Collect,
        Disconnect, vars, serverVars
<1>3. AllParsed'
  BY StepParsed DEF AllParsed
<1> QED
  BY <1>1, <1>2, <1>3 DEF Answered

(* Answered says that the answers are those promised.                      *)
LEMMA ParsedMatches ==
  ASSUME IInv, Answered
  PROVE  AnswersMatch
<1> SUFFICES ASSUME NEW c \in Clients, Present(c)
             PROVE  LET asked == Asked(script[c], pos[c])
                    IN  /\ Len(answers[c]) <= Len(asked)
                        /\ \A j \in 1 .. Len(answers[c]) : Fits(c, j, asked[j])
  BY DEF AnswersMatch
<1> DEFINE s == script[c]
           n == pos[c]
           p == NextAt(n, readbuffers[c], egdreadblocked[c])
           rs == answers[c]
           t == AskedFrom(s, n)[p]
<1>1. s \in Seq(Byte) /\ n \in 0 .. Len(s) /\ n \in Nat /\ Len(s) \in Nat
        /\ rs \in Seq(AnswerRecord) /\ Len(rs) \in Nat
  BY SentOK, SeqFacts DEF Answered, AnswersOK
<1>2. PICK front \in Seq(AnswerRecord) :
        AllFit(rs, front, egdwriteblocked[c]) /\ GoesOn(s, n, p, front)
  BY DEF Answered, AllParsed, ParsedOf, Parsed
<1>3. Asked(s, n) = front \o t
  <2>1. n \in n .. Len(s)
    BY <1>1
  <2> QED
    BY <1>2, <2>1 DEF GoesOn, Asked
<1>4. t \in Seq(AnswerRecord)
  <2>1. Len(readbuffers[c]) \in Nat /\ Len(readbuffers[c]) <= n
    BY SeqFacts DEF IInv, ClientsOK, Answered, AllParsed, ParsedOf, Parsed, Unread
  <2>2. Missing(egdreadblocked[c]) \in 0 .. MaxAsk /\ MaxAsk \in Nat
    BY EgdAssumption DEF Missing, IInv, ClientsOK
  <2> HIDE DEF s, n
  <2>3. p \in Places(s)
    <3> DEFINE b == Len(readbuffers[c])
               r == Missing(egdreadblocked[c])
    <3>1. p = n - b + 1 + r
      BY DEF NextAt
    <3> HIDE DEF p, b, r
    <3>2. b \in Nat /\ b <= n /\ r \in 0 .. MaxAsk
      BY <2>1, <2>2 DEF b, r
    <3> QED
      BY <1>1, <2>2, <3>1, <3>2 DEF Places
  <2> HIDE DEF p
  <2> QED
    BY <1>1, <2>3, AskedType
<1> HIDE DEF s, n, t, p
<1>5. /\ Len(front) = Len(rs) /\ Len(Asked(s, n)) = Len(front) + Len(t) /\ Len(t) \in Nat
      /\ \A j \in 1 .. Len(rs) : Asked(s, n)[j] = front[j]
  <2>1. Len(front) = Len(rs) /\ Len(t) \in Nat
    BY <1>2, <1>4, SeqFacts DEF AllFit
  <2>2. /\ Len(front \o t) = Len(front) + Len(t)
        /\ \A i \in 1 .. Len(front) + Len(t) :
             (front \o t)[i] = IF i <= Len(front) THEN front[i] ELSE t[i - Len(front)]
    BY <1>2, <1>4, ConcatProperties
  <2> QED
    BY <1>1, <1>3, <2>1, <2>2
<1>6. ASSUME NEW j \in 1 .. Len(rs)
      PROVE  Fits(c, j, front[j])
  <2>1. FitsWant(rs[j], front[j], IF j = Len(rs) THEN egdwriteblocked[c] ELSE nil)
    BY <1>2 DEF AllFit
  <2>2. Len(rs[j].bytes) \in Nat
    <3>1. rs[j] \in AnswerRecord
      BY <1>1, SeqFacts
    <3>2. rs[j].bytes \in Seq(Label)
      BY <3>1 DEF AnswerRecord
    <3> QED
      BY <3>2, SeqFacts
  <2> QED
    BY <2>1, <2>2 DEF FitsWant, Fits, Missing, rs
<1> QED
  BY <1>1, <1>5, <1>6 DEF s, n, rs

(* Each client that is there gets the answers the protocol promises for    *)
(* the bytes it sent, in that order: a blocking read is answered with      *)
(* exactly the bytes asked for before anything else is written, and no     *)
(* payload is taken for a command (egd_try_cmd, egd_spreadwrite).          *)
THEOREM AnswersAsPromised == Spec => []AnswersMatch
<1>1. IInv /\ Answered => AnswersMatch
  BY ParsedMatches
<1>2. IInv /\ IInv' /\ Answered /\ Spreading /\ [Next]_vars => Answered'
  BY StepAnswered
<1> QED
  BY <1>1, <1>2, Invariant, SpreadsAll, InitAnswered, PTL DEF Spec
=============================================================================
