----------------------------- MODULE EgdServer ------------------------------
(***************************************************************************)
(* The EGD service of ekeyd (host/control.lua): the pool entropy blocks    *)
(* from the keys are collected in, and the clients that read it with the   *)
(* EGD byte protocol.  ekeyd is single threaded: CONTROL reads clients,    *)
(* ENTROPY is called by the key connection for every block (through        *)
(* foldback.c) and runs to its end before anything else.                   *)
(*                                                                         *)
(* entropy_blocks is kept in the order dequeue_entropy hands bytes out     *)
(* (last block first, each block front to back); modules Intake and        *)
(* FlatPool show that the block list behaves like this sequence.           *)
(***************************************************************************)
EXTENDS Integers, Sequences, SequencesExt, FiniteSets, FiniteSetsExt, Functions

CONSTANTS
  Clients,       \* EGD connections
  Scripts,       \* byte sequences a client may send
  BlockLen,      \* bytes of one entropy frame (32)
  MAX_ENTROPY,   \* pool limit (2^20)
  MaxAsk,        \* largest number a request byte can hold (255)
  Labels,        \* number of distinguishable entropy bytes
  Wrap,          \* FALSE: the keys stop once every label is used
  MayClose,      \* clients that may disconnect
  Pipelining     \* TRUE: a client may send before its last answer is complete

(* Far fewer than MAX_ENTROPY bytes can be waited for: 256 descriptors and *)
(* 255 bytes each in the code.                                             *)
ASSUME EgdAssumption ==
  /\ IsFiniteSet(Clients)
  /\ BlockLen \in Nat \ {0}
  /\ MaxAsk \in Nat
  /\ MAX_ENTROPY \in Nat
  /\ Cardinality(Clients) * MaxAsk + BlockLen <= MAX_ENTROPY
  /\ Labels \in Nat \ {0}
  /\ Wrap \in BOOLEAN
  /\ Scripts \subseteq Seq(0 .. MaxAsk)
  /\ MayClose \subseteq Clients
  /\ Pipelining \in BOOLEAN

VARIABLES
  pool,             \* entropy_blocks, in the order bytes are handed out
  total_entropy,    \* bytes in the pool, as the code counts them
  fed,              \* label of the next byte a key delivers
  readbuffers,      \* bytes received and not yet parsed, per client
  egdwriteblocked,  \* bytes a blocking read still waits for, or nil
  egdreadblocked,   \* bytes of an ADDENTROPY still to be skipped, or nil
  answers,          \* what was written to each client, one entry per answer
  status,           \* open; tokill: in ctltokill; dead: closed, maybe not
                    \* collected; stuck: dead, and once more in ctltokill
  closed,           \* clients that have disconnected
  script, pos,      \* the bytes each client sends, and how many were received
  pc,               \* idle, or the loop of egd_spreadwrite being run
  todo,             \* clients the loop has still to visit
  to_try            \* clients unblocked by the first loop

serverVars == <<pool, total_entropy, readbuffers, egdwriteblocked,
                egdreadblocked, answers, status>>
vars == <<serverVars, fed, closed, script, pos, pc, todo, to_try>>

nil == -1

EGD_CMD_QUERYPOOL == 0
EGD_CMD_READBYTES == 1
EGD_CMD_BLOCKREAD == 2
EGD_CMD_ADDENTROPY == 3
EGD_CMD_GETPID == 4

Answer(kind, size, bytes) == [kind |-> kind, size |-> size, bytes |-> bytes]

-----------------------------------------------------------------------------
(* The pool *)

Least(a, b) == IF a < b THEN a ELSE b

First(s, n) == SubSeq(s, 1, Least(n, Len(s)))
Rest(s, n) == SubSeq(s, n + 1, Len(s))

(* dequeue_entropy, its result and what it leaves.  The code's loop stops  *)
(* on total_entropy, not on the length of the block list.                  *)
dequeued(n) == First(pool, Least(n, total_entropy))

(* Mutants: the rest of a block partly used is lost, or is kept whole.     *)
rest_lost(n) ==
  /\ pool' = Rest(pool, ((Least(n, total_entropy) + BlockLen - 1) \div BlockLen)
                        * BlockLen)
  /\ total_entropy' = total_entropy - Least(n, total_entropy)
block_kept(n) ==
  /\ pool' = Rest(pool, (Least(n, total_entropy) \div BlockLen) * BlockLen)
  /\ total_entropy' = Len(pool')

dequeue_entropy(n) ==
  /\ pool' = Rest(pool, Least(n, total_entropy))
  /\ total_entropy' = total_entropy - Least(n, total_entropy)

-----------------------------------------------------------------------------
(* egd_try_cmd, on a client whose unparsed bytes are buf *)

(* egd_getbytes returns nothing, hence nil, for zero bytes too.            *)
egd_getbytes_ok(buf, n) == n > 0 /\ Len(buf) >= n

(* A socket that is closed at either end takes no answer.                  *)
dropped(c) == status[c] \in {"dead", "stuck"}
gone(c) == dropped(c) \/ c \in closed

ctlwrite(c, a) ==
  answers' = IF gone(c) THEN answers ELSE [answers EXCEPT ![c] = Append(@, a)]

leave(c, buf) == readbuffers' = [readbuffers EXCEPT ![c] = buf]

QueryPool(c, buf) ==
  /\ buf[1] = EGD_CMD_QUERYPOOL
  /\ ctlwrite(c, Answer("pool", total_entropy * 8, <<>>))
  /\ leave(c, Rest(buf, 1))
  /\ UNCHANGED <<pool, total_entropy, egdwriteblocked, status>>

ReadBytes(c, buf) ==
  /\ buf[1] = EGD_CMD_READBYTES
  /\ Len(buf) >= 2
  /\ dequeue_entropy(buf[2])
  /\ ctlwrite(c, Answer("read", Len(dequeued(buf[2])), dequeued(buf[2])))
  /\ leave(c, Rest(buf, 2))
  /\ UNCHANGED <<egdwriteblocked, status>>

(* Mutant: a read that is satisfied blocks as well.                        *)
always_blocks(c, buf) ==
  /\ buf[1] = EGD_CMD_BLOCKREAD
  /\ Len(buf) >= 2
  /\ dequeue_entropy(buf[2])
  /\ ctlwrite(c, Answer("block", buf[2], dequeued(buf[2])))
  /\ egdwriteblocked' =
       [egdwriteblocked EXCEPT ![c] = buf[2] - Len(dequeued(buf[2]))]
  /\ leave(c, Rest(buf, 2))
  /\ UNCHANGED status

BlockRead(c, buf) ==
  /\ buf[1] = EGD_CMD_BLOCKREAD
  /\ Len(buf) >= 2
  /\ dequeue_entropy(buf[2])
  /\ ctlwrite(c, Answer("block", buf[2], dequeued(buf[2])))
  /\ egdwriteblocked' =
       [egdwriteblocked EXCEPT ![c] =
          IF Len(dequeued(buf[2])) < buf[2]
            THEN buf[2] - Len(dequeued(buf[2])) ELSE @]
  /\ leave(c, Rest(buf, 2))
  /\ UNCHANGED status

GetPid(c, buf) ==
  /\ buf[1] = EGD_CMD_GETPID
  /\ ctlwrite(c, Answer("pid", 2, <<>>))
  /\ leave(c, Rest(buf, 1))
  /\ UNCHANGED <<pool, total_entropy, egdwriteblocked, status>>

(* The arguments of a command are not complete: it is pushed back.         *)
PushBack(c, buf) ==
  /\ \/ buf[1] \in {EGD_CMD_READBYTES, EGD_CMD_BLOCKREAD} /\ Len(buf) < 2
     \/ buf[1] = EGD_CMD_ADDENTROPY /\ Len(buf) < 4
  /\ leave(c, buf)
  /\ UNCHANGED <<pool, total_entropy, egdwriteblocked, answers, status>>

(* The client is marked, also one that is closed and was served all the    *)
(* same: it has no name any more, delctlsocket fails for it, and so does   *)
(* every later pass over the marks when it comes to it.                    *)
UnknownCmd(c, buf) ==
  /\ buf[1] \notin EGD_CMD_QUERYPOOL .. EGD_CMD_GETPID
  /\ status' = [status EXCEPT ![c] = IF dropped(c) THEN "stuck" ELSE "tokill"]
  /\ leave(c, Rest(buf, 1))
  /\ UNCHANGED <<pool, total_entropy, egdwriteblocked, answers>>

(* The payload is skipped if it is all there, or else awaited.             *)
AddEntropy(c, buf) ==
  /\ buf[1] = EGD_CMD_ADDENTROPY
  /\ Len(buf) >= 4
  /\ \/ /\ egd_getbytes_ok(Rest(buf, 4), buf[4])
        /\ leave(c, Rest(buf, 4 + buf[4]))
        /\ egdreadblocked' = [egdreadblocked EXCEPT ![c] = nil]
     \/ /\ ~egd_getbytes_ok(Rest(buf, 4), buf[4])
        /\ leave(c, Rest(buf, 4))
        /\ egdreadblocked' = [egdreadblocked EXCEPT ![c] = buf[4]]
  /\ UNCHANGED <<pool, total_entropy, egdwriteblocked, answers, status>>

Dispatch(c, buf) ==
  IF buf = <<>>
    THEN /\ leave(c, buf)
         /\ UNCHANGED <<pool, total_entropy, egdwriteblocked, answers, status>>
    ELSE \/ QueryPool(c, buf)
         \/ ReadBytes(c, buf)
         \/ BlockRead(c, buf)
         \/ GetPid(c, buf)
         \/ PushBack(c, buf)
         \/ UnknownCmd(c, buf)

(* Mutant: the skipped payload is still awaited afterwards.                *)
skip_forever(c, buf) ==
  \/ UNCHANGED egdreadblocked /\ Dispatch(c, buf)
  \/ buf # <<>> /\ AddEntropy(c, buf)

(* One command, once nothing is left to skip.                              *)
command(c, buf) ==
  \/ egdreadblocked' = [egdreadblocked EXCEPT ![c] = nil] /\ Dispatch(c, buf)
  \/ buf # <<>> /\ AddEntropy(c, buf)

(* Mutant: commands are taken while a blocking read is unanswered.         *)
write_not_blocked(c, buf) ==
  \/ /\ egdreadblocked[c] # nil
     /\ \/ /\ egd_getbytes_ok(buf, egdreadblocked[c])
           /\ command(c, Rest(buf, egdreadblocked[c]))
        \/ /\ ~egd_getbytes_ok(buf, egdreadblocked[c])
           /\ leave(c, buf)
           /\ UNCHANGED <<pool, total_entropy, egdwriteblocked,
                          egdreadblocked, answers, status>>
  \/ /\ egdreadblocked[c] = nil
     /\ command(c, buf)

egd_try_cmd(c, buf) ==
  \/ /\ egdwriteblocked[c] # nil
     /\ leave(c, buf)
     /\ UNCHANGED <<pool, total_entropy, egdwriteblocked, egdreadblocked,
                    answers, status>>
  \/ /\ egdwriteblocked[c] = nil
     /\ egdreadblocked[c] # nil
     /\ \/ /\ egd_getbytes_ok(buf, egdreadblocked[c])
           /\ command(c, Rest(buf, egdreadblocked[c]))
        \/ /\ ~egd_getbytes_ok(buf, egdreadblocked[c])
           /\ leave(c, buf)
           /\ UNCHANGED <<pool, total_entropy, egdwriteblocked,
                          egdreadblocked, answers, status>>
  \/ /\ egdwriteblocked[c] = nil
     /\ egdreadblocked[c] = nil
     /\ command(c, buf)

-----------------------------------------------------------------------------
(* What a client asks for: the answers the EGD protocol promises for the   *)
(* first n bytes of a byte sequence s (commands with all their arguments), *)
(* from each of its bytes on, a command beginning there.                   *)
AskedFrom(s, n) ==
  LET from[i \in 1 .. MaxAsk + 5 + Len(s)] ==
        IF i > n THEN <<>>
        ELSE IF s[i] = EGD_CMD_QUERYPOOL
          THEN <<Answer("pool", 0, <<>>)>> \o from[i + 1]
        ELSE IF s[i] = EGD_CMD_GETPID
          THEN <<Answer("pid", 2, <<>>)>> \o from[i + 1]
        ELSE IF s[i] = EGD_CMD_READBYTES /\ i + 1 <= n
          THEN <<Answer("read", s[i + 1], <<>>)>> \o from[i + 2]
        ELSE IF s[i] = EGD_CMD_BLOCKREAD /\ i + 1 <= n
          THEN <<Answer("block", s[i + 1], <<>>)>> \o from[i + 2]
        ELSE IF s[i] = EGD_CMD_ADDENTROPY /\ i + 3 <= n
          THEN from[i + 4 + s[i + 3]]
        ELSE <<>>
  IN  from

Asked(s, n) == AskedFrom(s, n)[1]

(* Everything client c has asked for so far is answered in full.           *)
Satisfied(c) ==
  /\ Len(answers[c]) = Len(Asked(script[c], pos[c]))
  /\ egdwriteblocked[c] = nil

-----------------------------------------------------------------------------
(* CONTROL: egd_ctlread receives the bytes of a client one at a time and   *)
(* tries a command after each.                                             *)
egd_ctlread(c) ==
  /\ pc = "idle"
  /\ ~dropped(c)
  /\ pos[c] < Len(script[c])
  /\ Pipelining \/ Satisfied(c)
  /\ pos' = [pos EXCEPT ![c] = @ + 1]
  /\ egd_try_cmd(c, Append(readbuffers[c], script[c][pos[c] + 1]))
  /\ UNCHANGED <<fed, closed, script, pc, todo, to_try>>

(* The peer went away inside the receive loop: nothing but a timeout ends  *)
(* it, so commands are tried until the DOS hook stops it.                  *)
egd_spin(c) ==
  /\ pc = "idle"
  /\ status[c] = "open"
  /\ c \in closed
  /\ egd_try_cmd(c, readbuffers[c])
  /\ UNCHANGED <<fed, closed, script, pos, pc, todo, to_try>>

(* The first receive of a pass finds the connection closed.                *)
egd_eof(c) ==
  /\ pc = "idle"
  /\ status[c] = "open"
  /\ c \in closed
  /\ status' = [status EXCEPT ![c] = "tokill"]
  /\ UNCHANGED <<pool, total_entropy, readbuffers, egdwriteblocked,
                 egdreadblocked, answers, fed, closed, script, pos, pc, todo,
                 to_try>>

(* delctlsocket at the end of a CONTROL pass, if a stuck client does not   *)
(* end the pass before.  The three EGD tables are not cleared: they are    *)
(* weak, the collector does it.                                            *)
delctlsocket(c) ==
  /\ pc = "idle"
  /\ status[c] = "tokill"
  /\ status' = [status EXCEPT ![c] = "dead"]
  /\ UNCHANGED <<pool, total_entropy, readbuffers, egdwriteblocked,
                 egdreadblocked, answers, fed, closed, script, pos, pc, todo,
                 to_try>>

Collect(c) ==
  /\ pc = "idle"
  /\ status[c] = "dead"
  /\ readbuffers' = [readbuffers EXCEPT ![c] = <<>>]
  /\ egdwriteblocked' = [egdwriteblocked EXCEPT ![c] = nil]
  /\ egdreadblocked' = [egdreadblocked EXCEPT ![c] = nil]
  /\ UNCHANGED <<pool, total_entropy, answers, status, fed, closed, script,
                 pos, pc, todo, to_try>>

-----------------------------------------------------------------------------
(* ENTROPY: one block from a key *)

Blocked == {c \in Clients : egdwriteblocked[c] # nil}
totpending == MapThenSumSet(LAMBDA c : egdwriteblocked[c], Blocked)

enqueue_entropy(bytes) ==
  IF total_entropy + Len(bytes) <= MAX_ENTROPY
    THEN /\ pool' = bytes \o pool
         /\ total_entropy' = total_entropy + Len(bytes)
    ELSE UNCHANGED <<pool, total_entropy>>

(* Mutant: off by one.                                                     *)
more_than_pending == totpending > MAX_ENTROPY \/ totpending < total_entropy'

(* egd_spreadwrite serves every blocked client or none.                    *)
worthwhile == totpending > MAX_ENTROPY \/ totpending <= total_entropy'

ENTROPY ==
  /\ pc = "idle"
  /\ Wrap \/ fed + BlockLen <= Labels
  /\ fed' = IF Wrap THEN (fed + BlockLen) % Labels ELSE fed + BlockLen
  /\ enqueue_entropy([i \in 1 .. BlockLen |-> (fed + i - 1) % Labels])
  /\ \/ /\ Blocked # {} /\ worthwhile
        /\ pc' = "spread"
        /\ todo' = Blocked
     \/ /\ ~(Blocked # {} /\ worthwhile)
        /\ UNCHANGED <<pc, todo>>
  /\ UNCHANGED <<readbuffers, egdwriteblocked, egdreadblocked, answers,
                 status, closed, script, pos, to_try>>

(* The bytes complete the answer the client is waiting for.                *)
complete(c, bytes) ==
  answers' = IF gone(c) THEN answers
             ELSE [answers EXCEPT ![c][Len(answers[c])].bytes = @ \o bytes]

(* First loop of egd_spreadwrite, one client.  A client that gets anything *)
(* is taken for served.                                                    *)
egd_spreadwrite(c) ==
  /\ pc = "spread"
  /\ c \in todo
  /\ dequeue_entropy(egdwriteblocked[c])
  /\ LET got == dequeued(egdwriteblocked[c])
     IN  IF got # <<>>
           THEN /\ complete(c, got)
                /\ egdwriteblocked' = [egdwriteblocked EXCEPT ![c] = nil]
                /\ to_try' = to_try \cup {c}
           ELSE UNCHANGED <<answers, egdwriteblocked, to_try>>
  /\ IF todo # {c}
       THEN pc' = pc /\ todo' = todo \ {c}
       ELSE pc' = (IF to_try' = {} THEN "idle" ELSE "try") /\ todo' = to_try'
  /\ UNCHANGED <<readbuffers, egdreadblocked, status, fed, closed, script, pos>>

(* Second loop: one command for each client unblocked.                     *)
egd_retry(c) ==
  /\ pc = "try"
  /\ c \in todo
  /\ egd_try_cmd(c, readbuffers[c])
  /\ IF todo = {c} THEN pc' = "idle" /\ todo' = {} /\ to_try' = {}
                   ELSE pc' = pc /\ todo' = todo \ {c} /\ to_try' = to_try
  /\ UNCHANGED <<fed, closed, script, pos>>

-----------------------------------------------------------------------------
Disconnect(c) ==
  /\ c \in MayClose \ closed
  /\ closed' = closed \cup {c}
  /\ UNCHANGED <<serverVars, fed, script, pos, pc, todo, to_try>>

Init ==
  /\ pool = <<>>
  /\ total_entropy = 0
  /\ fed = 0
  /\ readbuffers = [c \in Clients |-> <<>>]
  /\ egdwriteblocked = [c \in Clients |-> nil]
  /\ egdreadblocked = [c \in Clients |-> nil]
  /\ answers = [c \in Clients |-> <<>>]
  /\ status = [c \in Clients |-> "open"]
  /\ closed = {}
  /\ script \in [Clients -> Scripts]
  /\ pos = [c \in Clients |-> 0]
  /\ pc = "idle"
  /\ todo = {}
  /\ to_try = {}

Next ==
  \/ ENTROPY
  \/ \E c \in Clients :
       \/ egd_ctlread(c)
       \/ egd_spin(c)
       \/ egd_eof(c)
       \/ delctlsocket(c)
       \/ Collect(c)
       \/ egd_spreadwrite(c)
       \/ egd_retry(c)
       \/ Disconnect(c)

Spec == Init /\ [][Next]_vars

-----------------------------------------------------------------------------
TypeOK ==
  /\ pool \in Seq(0 .. Labels - 1)
  /\ total_entropy \in 0 .. MAX_ENTROPY
  /\ fed \in 0 .. Labels
  /\ readbuffers \in [Clients -> Seq(0 .. MaxAsk)]
  /\ egdwriteblocked \in [Clients -> {nil} \cup 1 .. MaxAsk]
  /\ egdreadblocked \in [Clients -> {nil} \cup 0 .. MaxAsk]
  /\ status \in [Clients -> {"open", "tokill", "dead", "stuck"}]
  /\ closed \subseteq MayClose
  /\ script \in [Clients -> Scripts]
  /\ pos \in [Clients -> Nat]
  /\ pc \in {"idle", "spread", "try"}
  /\ todo \subseteq Clients
  /\ to_try \subseteq Clients

(* The byte count dequeue_entropy loops on is the length of what is there, *)
(* and the pool stays within its limit, through partial blocks, several    *)
(* blocked clients and clients that vanish: the loop never indexes an      *)
(* empty list.                                                             *)
PoolCounted == total_entropy = Len(pool) /\ total_entropy <= MAX_ENTROPY

(* Entropy is used once: no byte is in the pool and with a client, or with *)
(* two clients, or twice with one.                                         *)
Handed(c) == FlattenSeq([j \in DOMAIN answers[c] |-> answers[c][j].bytes])

NoByteTwice ==
  /\ IsInjective(pool)
  /\ \A c \in Clients :
       /\ IsInjective(Handed(c))
       /\ Range(Handed(c)) \cap Range(pool) = {}
       /\ \A d \in Clients \ {c} : Range(Handed(c)) \cap Range(Handed(d)) = {}

(* Each client gets the answers the protocol promises for the bytes it     *)
(* sent, in that order: a blocking read is answered with exactly the bytes *)
(* asked for before anything else is written, payloads to be ignored are   *)
(* never taken for commands.                                               *)
Present(c) == status[c] = "open" /\ c \notin closed

Fits(c, j, want) ==
  LET a == answers[c][j]
  IN  /\ a.kind = want.kind
      /\ a.kind = "read" => Len(a.bytes) = a.size /\ a.size <= want.size
      /\ a.kind = "block" =>
           IF j = Len(answers[c]) /\ egdwriteblocked[c] # nil
             THEN Len(a.bytes) + egdwriteblocked[c] = want.size
             ELSE Len(a.bytes) = want.size

AnswersMatch ==
  \A c \in Clients :
    Present(c) =>
      LET asked == Asked(script[c], pos[c])
      IN  /\ Len(answers[c]) <= Len(asked)
          /\ \A j \in 1 .. Len(answers[c]) : Fits(c, j, asked[j])

(* While no client has vanished or been thrown out: clients wait only as   *)
(* long as the pool really holds less than all of them wait for.           *)
WaitingIsJustified ==
  pc = "idle" /\ Blocked # {} /\ (\A c \in Clients : Present(c)) =>
    totpending > total_entropy

(* The keys deliver, ENTROPY runs to its end, CONTROL serves every readable *)
(* socket of a pass, closes those marked unless a stuck one is among them, *)
(* and the collector comes round.  ENTROPY calls come between the CONTROL  *)
(* passes again and again, hence strong fairness.                          *)
unhindered == \A c \in Clients : status[c] # "stuck"

Fairness ==
  /\ WF_vars(ENTROPY)
  /\ WF_vars(\E c \in Clients : egd_spreadwrite(c) \/ egd_retry(c))
  /\ \A c \in Clients : SF_vars(egd_ctlread(c))
  /\ \A c \in MayClose :
       SF_vars(egd_eof(c) \/ (unhindered /\ delctlsocket(c)) \/ Collect(c))

FairSpec == Spec /\ Fairness

(* Every request of a client that stays is answered, also when other       *)
(* clients compete for the same entropy or vanish while they wait.         *)
AllAnswered ==
  \A c \in Clients \ MayClose :
    <>[](pos[c] = Len(script[c]) /\ Satisfied(c))
=============================================================================
