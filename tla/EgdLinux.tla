------------------------------ MODULE EgdLinux ------------------------------
(***************************************************************************)
(* ekey-egd-linux (host/egd-linux.c) as a client of the EGD server: it     *)
(* waits until the kernel wants entropy, asks for a batch of blocks at     *)
(* once (it pipelines), hands every answer to the kernel, and starts a new *)
(* connection when the server is gone or silent.  Clients of EgdServer     *)
(* which are in Slots are the connections it has had; the others are       *)
(* competitors of it for the pool.                                         *)
(***************************************************************************)
EXTENDS EgdServer

CONSTANTS
  Slots,        \* clients that are connections of this program
  Blocks,       \* option -b, blocks per batch
  READ,         \* bytes per block, one EGD command each (128)
  Retry,        \* option -r is not 0
  MaxFaults,    \* bound: stops of the server, failing address lookups,
                \* failures of poll and of the kernel, and read timeouts
                \* that expire though an answer is on its way
  NoConn

ASSUME EgdLinuxAssumption ==
  /\ Slots \subseteq Clients
  /\ MayClose \cap Slots = {}      \* this program closes its own connections
  /\ Blocks \in 1 .. 4
  /\ READ \in 1 .. MaxAsk
  /\ EGD_CMD_BLOCKREAD <= MaxAsk    \* a command is a byte
  /\ Retry \in BOOLEAN
  /\ NoConn \notin Clients

VARIABLES
  lpc,            \* where the program is
  caller,         \* who called egd_connect
  egd_fd,         \* the current connection, or NoConn
  egd_poll,       \* poll_fds[EGD_POLLFD].fd still is that connection, or
                  \* is a closed descriptor, or the initial 0
  link,           \* what the peer made of the current connection
  bytes_waiting,
  rnd_events,     \* poll_fds[RND_POLLFD].events has POLLOUT
  egd_revents,    \* POLLIN is still to be handled after POLLOUT
  thirsty,        \* the kernel takes entropy: /dev/random is writable
  listening,      \* ekeyd runs
  faults

linuxVars == <<lpc, caller, egd_fd, egd_poll, link, bytes_waiting, rnd_events,
               egd_revents, thirsty>>
allVars == <<vars, linuxVars, listening, faults>>

-----------------------------------------------------------------------------
(* The bytes the server has written and the program has not yet read, and  *)
(* those it still owes for commands under way or waiting.                  *)
Commands(c) == readbuffers[c] \o Rest(script[c], pos[c])

Outstanding(c) ==
  /\ Len(Commands(c)) % 2 = 0
  /\ bytes_waiting = (Len(Commands(c)) \div 2) * READ
                     + (IF egdwriteblocked[c] = nil THEN 0 ELSE egdwriteblocked[c])
                     + Len(Handed(c))

(* The server sees no reason to write anything more.                       *)
Stalled ==
  egd_fd \in Clients =>
       /\ egd_fd \notin todo
       /\ pos[egd_fd] = Len(script[egd_fd])
       /\ egdwriteblocked[egd_fd] = nil

goto(l) == lpc' = l

-----------------------------------------------------------------------------
(* egd_connect *)

call(who) == caller' = who /\ goto("resolve")

persistent == Retry /\ caller # "start"

(* It returns false: main tries once more or gives up, punt_entropy exits, *)
(* main_poll does not look.                                                *)
failed ==
  CASE caller = "start" /\ Retry -> call("again")
    [] caller = "start" /\ ~Retry -> goto("ended") /\ UNCHANGED caller
    [] caller = "punt" -> goto("ended") /\ UNCHANGED caller
    [] OTHER -> goto("poll") /\ caller' = "loop"

Resolve ==
  /\ lpc = "resolve"
  /\ goto("connect")
  /\ UNCHANGED <<vars, caller, egd_fd, egd_poll, link, bytes_waiting, rnd_events,
                 egd_revents, thirsty, listening, faults>>

(* getaddrinfo fails: the old connection is not touched.                   *)
ResolveFails ==
  /\ lpc = "resolve"
  /\ faults < MaxFaults
  /\ faults' = faults + 1
  /\ failed
  /\ UNCHANGED <<vars, egd_fd, egd_poll, link, bytes_waiting, rnd_events,
                 egd_revents, thirsty, listening>>

hangup ==
  /\ closed' = closed \cup ({egd_fd} \ {NoConn})
  /\ answers' = [c \in Clients |-> IF c = egd_fd THEN <<>> ELSE answers[c]]

(* A socket ekeyd has not seen before: its tables hold nothing for it.     *)
Fresh(c) ==
  /\ status[c] = "dead"
  /\ readbuffers[c] = <<>>
  /\ egdwriteblocked[c] = nil
  /\ egdreadblocked[c] = nil
  /\ c # egd_fd

(* Mutant: the answers awaited on the old connection stay counted.         *)
Connect_keeps_count ==
  /\ lpc = "connect"
  /\ listening
  /\ \E c \in Slots :
       /\ Fresh(c)
       /\ egd_fd' = c
       /\ status' = [status EXCEPT ![c] = "open"]
       /\ answers' = [k \in Clients |->
                        IF k \in {c, egd_fd} THEN <<>> ELSE answers[k]]
       /\ script' = [script EXCEPT ![c] = <<>>]
       /\ pos' = [pos EXCEPT ![c] = 0]
       /\ closed' = (closed \cup ({egd_fd} \ {NoConn})) \ {c}
  /\ egd_poll' = "connection"
  /\ link' = "open"
  /\ rnd_events' = TRUE
  /\ caller' = "loop"
  /\ goto("poll")
  /\ UNCHANGED <<bytes_waiting, pool, total_entropy, fed, readbuffers,
                 egdwriteblocked, egdreadblocked, pc, todo, to_try,
                 egd_revents, thirsty, listening, faults>>

Connect ==
  /\ lpc = "connect"
  /\ listening
  /\ \E c \in Slots :
       /\ Fresh(c)
       /\ egd_fd' = c
       /\ status' = [status EXCEPT ![c] = "open"]
       /\ answers' = [k \in Clients |->
                        IF k \in {c, egd_fd} THEN <<>> ELSE answers[k]]
       /\ script' = [script EXCEPT ![c] = <<>>]
       /\ pos' = [pos EXCEPT ![c] = 0]
       /\ closed' = (closed \cup ({egd_fd} \ {NoConn})) \ {c}
  /\ egd_poll' = "connection"
  /\ link' = "open"
  /\ bytes_waiting' = 0
  /\ rnd_events' = TRUE
  /\ caller' = "loop"
  /\ goto("poll")
  /\ UNCHANGED <<pool, total_entropy, fed, readbuffers, egdwriteblocked,
                 egdreadblocked, pc, todo, to_try, egd_revents, thirsty, listening,
                 faults>>

(* Nobody listens: try again after retry_time, or leave the entry of the   *)
(* poll set with a descriptor that is closed.                              *)
ConnectFails ==
  /\ lpc = "connect"
  /\ ~listening
  /\ hangup
  /\ egd_fd' = NoConn
  /\ link' = "open"
  /\ egd_poll' = IF egd_poll = "connection" THEN "stale" ELSE egd_poll
  /\ IF persistent THEN UNCHANGED <<lpc, caller>> ELSE failed
  /\ UNCHANGED <<pool, total_entropy, readbuffers, egdwriteblocked,
                 egdreadblocked, status, fed, script, pos, pc, todo, to_try,
                 bytes_waiting, rnd_events, egd_revents, thirsty, listening,
                 faults>>

-----------------------------------------------------------------------------
(* main_poll *)

pollOut == thirsty /\ (rnd_events \/ bytes_waiting = 0)

pollErr ==
  \/ egd_poll = "stale"
  \/ egd_poll = "connection" /\ link \in {"reset", "hup"}

(* Standard input is /dev/null (option -D), which is always readable.      *)
pollIn ==
  \/ egd_poll = "stdin"
  \/ egd_poll = "connection" /\ (link # "open" \/ Handed(egd_fd) # <<>>)

(* The top of the loop, and a poll that finds something.                   *)
Poll ==
  /\ lpc = "poll"
  /\ pollOut \/ pollErr \/ pollIn
  /\ rnd_events' = (rnd_events \/ bytes_waiting = 0)
  /\ egd_revents' = (pollOut /\ pollIn /\ ~pollErr)
  /\ IF pollErr
       THEN IF Retry THEN call("loop") ELSE goto("ended") /\ UNCHANGED caller
       ELSE goto(IF pollOut THEN "issue" ELSE "punt") /\ UNCHANGED caller
  /\ UNCHANGED <<vars, egd_fd, egd_poll, link, bytes_waiting, thirsty, listening,
                 faults>>

(* The read timeout, which takes 1 to 600 seconds.                         *)
PollTimeout ==
  /\ lpc = "poll"
  /\ bytes_waiting # 0
  /\ ~(pollOut \/ pollErr \/ pollIn)
  /\ \/ Stalled /\ UNCHANGED faults
     \/ ~Stalled /\ faults < MaxFaults /\ faults' = faults + 1
  /\ call("loop")
  /\ UNCHANGED <<vars, egd_fd, egd_poll, link, bytes_waiting, rnd_events,
                 egd_revents, thirsty, listening>>

(* The loop ends: poll fails, a signal interrupts it (there are no events  *)
(* then, and the result of poll is -1 at the top of the loop), or it finds *)
(* an error of the random device.                                          *)
PollFails ==
  /\ lpc = "poll"
  /\ faults < MaxFaults
  /\ faults' = faults + 1
  /\ goto("ended")
  /\ UNCHANGED <<vars, caller, egd_fd, egd_poll, link, bytes_waiting, rnd_events,
                 egd_revents, thirsty, listening>>

(* issue_read_for_random: every block is a command of its own.             *)
batch == FlattenSeq([i \in 1 .. Blocks |-> <<EGD_CMD_BLOCKREAD, READ>>])

rndOff ==
  /\ rnd_events' = FALSE
  /\ goto(IF egd_revents THEN "punt" ELSE "poll")
  /\ egd_revents' = FALSE

Issue ==
  /\ lpc = "issue"
  /\ egd_fd # NoConn
  /\ link = "open"
  /\ rndOff
  /\ bytes_waiting' = bytes_waiting + Blocks * READ
  /\ script' = [script EXCEPT ![egd_fd] = Rest(@, pos[egd_fd]) \o batch]
  /\ pos' = [pos EXCEPT ![egd_fd] = 0]
  /\ UNCHANGED <<serverVars, fed, closed, pc, todo, to_try, caller, egd_fd,
                 egd_poll, link, thirsty, listening, faults>>

(* The peer is gone: a write fails, or all are taken as the reset that     *)
(* answers them is not back yet.                                           *)
IssueFails ==
  /\ lpc = "issue"
  /\ egd_fd = NoConn \/ link # "open"
  /\ rndOff
  /\ \/ bytes_waiting' = 0
     \/ /\ egd_fd # NoConn /\ link = "eof"
        /\ bytes_waiting' = bytes_waiting + Blocks * READ
  /\ link' \in IF link = "eof" THEN {"eof", "hup"} ELSE {link}
  /\ UNCHANGED <<vars, caller, egd_fd, egd_poll, thirsty, listening, faults>>

(* punt_entropy *)
inHand == First(Handed(egd_fd), READ)

PuntEntropy ==
  /\ lpc = "punt"
  /\ egd_fd # NoConn
  /\ link # "reset"
  /\ Handed(egd_fd) # <<>>
  /\ thirsty' = FALSE
  /\ bytes_waiting' = bytes_waiting - Len(inHand)
  /\ answers' = [answers EXCEPT ![egd_fd] =
                   <<Answer("block", READ, Rest(Handed(egd_fd), Len(inHand)))>>]
  /\ goto("poll")
  /\ UNCHANGED <<pool, total_entropy, readbuffers, egdwriteblocked, egdreadblocked,
                 status, fed, closed, script, pos, pc, todo, to_try, caller,
                 egd_fd, egd_poll, link, rnd_events, egd_revents, listening,
                 faults>>

(* Mutant: it takes the end of the connection for no data.                 *)
PuntEof_ignored ==
  /\ lpc = "punt"
  /\ egd_fd # NoConn
  /\ link \in {"eof", "hup"}
  /\ Handed(egd_fd) = <<>>
  /\ goto("poll")
  /\ UNCHANGED <<vars, caller, egd_fd, egd_poll, link, bytes_waiting, rnd_events,
                 egd_revents, thirsty, listening, faults>>

PuntEof ==
  /\ lpc = "punt"
  /\ egd_fd # NoConn
  /\ link \in {"eof", "hup"}
  /\ Handed(egd_fd) = <<>>
  /\ call("punt")
  /\ UNCHANGED <<vars, egd_fd, egd_poll, link, bytes_waiting, rnd_events,
                 egd_revents, thirsty, listening, faults>>

(* The connection was reset between poll and read, or there was none, or   *)
(* the kernel refuses what was read: exit(1).                              *)
PuntFails ==
  /\ lpc = "punt"
  /\ IF egd_fd = NoConn \/ link = "reset" THEN UNCHANGED faults
     ELSE Handed(egd_fd) # <<>> /\ faults < MaxFaults /\ faults' = faults + 1
  /\ goto("ended")
  /\ UNCHANGED <<vars, caller, egd_fd, egd_poll, link, bytes_waiting, rnd_events,
                 egd_revents, thirsty, listening>>

-----------------------------------------------------------------------------
(* Around it: the kernel uses entropy, ekeyd works, stops and is started.  *)

KernelDrains ==
  /\ ~thirsty
  /\ thirsty' = TRUE
  /\ UNCHANGED <<vars, lpc, caller, egd_fd, egd_poll, link, bytes_waiting,
                 rnd_events, egd_revents, listening, faults>>

Server(step) ==
  /\ listening
  /\ step
  /\ UNCHANGED <<linuxVars, listening, faults>>

(* ekeyd ends.  A connection with unread bytes is reset; bytes for which   *)
(* no command was tried yet may be in ekeyd's own buffer, and are read.    *)
ServerStops ==
  /\ listening
  /\ faults < MaxFaults
  /\ faults' = faults + 1
  /\ listening' = FALSE
  /\ pool' = <<>>
  /\ total_entropy' = 0
  /\ readbuffers' = [c \in Clients |-> <<>>]
  /\ egdwriteblocked' = [c \in Clients |-> nil]
  /\ egdreadblocked' = [c \in Clients |-> nil]
  /\ status' = [c \in Clients |-> "dead"]
  /\ script' = [c \in Clients |-> <<>>]
  /\ pos' = [c \in Clients |-> 0]
  /\ pc' = "idle"
  /\ todo' = {}
  /\ to_try' = {}
  /\ link' \in IF egd_fd = NoConn \/ link # "open" THEN {link}
               ELSE IF pos[egd_fd] = Len(script[egd_fd]) THEN {"eof"}
               ELSE {"eof", "reset"}
  /\ UNCHANGED <<fed, closed, answers, lpc, caller, egd_fd, egd_poll,
                 bytes_waiting, rnd_events, egd_revents, thirsty>>

ServerStarts ==
  /\ ~listening
  /\ listening' = TRUE
  /\ UNCHANGED <<vars, linuxVars, faults>>

LinuxInit ==
  /\ pool = <<>> /\ total_entropy = 0 /\ fed = 0
  /\ readbuffers = [c \in Clients |-> <<>>]
  /\ egdwriteblocked = [c \in Clients |-> nil]
  /\ egdreadblocked = [c \in Clients |-> nil]
  /\ answers = [c \in Clients |-> <<>>]
  /\ status = [c \in Clients |-> IF c \in Slots THEN "dead" ELSE "open"]
  /\ closed = {}
  /\ script \in {s \in [Clients -> Scripts \cup {<<>>}] :
                  \A c \in Clients : c \in Slots <=> s[c] = <<>>}
  /\ pos = [c \in Clients |-> 0]
  /\ pc = "idle" /\ todo = {} /\ to_try = {}
  /\ lpc = "resolve" /\ caller = "start"
  /\ egd_fd = NoConn /\ egd_poll = "stdin" /\ link = "open"
  /\ bytes_waiting = 0
  /\ rnd_events = TRUE /\ egd_revents = FALSE
  /\ thirsty = TRUE
  /\ listening \in BOOLEAN
  /\ faults = 0

Linux ==
  \/ Resolve
  \/ ResolveFails
  \/ Connect
  \/ ConnectFails
  \/ Poll
  \/ PollTimeout
  \/ PollFails
  \/ Issue
  \/ IssueFails
  \/ PuntEntropy
  \/ PuntEof
  \/ PuntFails

LinuxNext ==
  \/ Linux
  \/ KernelDrains
  \/ Server(Next)
  \/ ServerStops
  \/ ServerStarts

LinuxSpec == LinuxInit /\ [][LinuxNext]_allVars

(* The program runs, ekeyd is started again, and serves (EgdServer).       *)
LinuxFairness ==
  /\ WF_allVars(Linux)
  /\ WF_allVars(ServerStarts)
  /\ WF_allVars(Server(ENTROPY))
  /\ WF_allVars(Server(\E c \in Clients : egd_spreadwrite(c) \/ egd_retry(c)))
  /\ \A c \in Clients :
       /\ SF_allVars(Server(egd_ctlread(c)))
       /\ SF_allVars(Server(egd_eof(c) \/ (unhindered /\ delctlsocket(c)) \/ Collect(c)))

FairLinuxSpec == LinuxSpec /\ LinuxFairness

-----------------------------------------------------------------------------
LinuxTypeOK ==
  /\ lpc \in {"resolve", "connect", "poll", "issue", "punt", "ended"}
  /\ caller \in {"start", "again", "loop", "punt"}
  /\ egd_fd \in Slots \cup {NoConn}
  /\ egd_poll \in {"stdin", "connection", "stale"}
  /\ egd_poll = "connection" <=> egd_fd # NoConn
  /\ link \in {"open", "eof", "hup", "reset"}
  /\ bytes_waiting \in 0 .. Blocks * READ
  /\ rnd_events \in BOOLEAN
  /\ egd_revents \in BOOLEAN
  /\ thirsty \in BOOLEAN

(* bytes_waiting is exactly what the server still owes on the connection   *)
(* that is open now (issue_read_for_random, punt_entropy, egd_connect):    *)
(* answers of an abandoned connection are not counted, whatever timeouts,  *)
(* reconnects and restarts of ekeyd came before.                           *)
Accounted ==
  egd_fd # NoConn /\ link = "open" => Outstanding(egd_fd)

(* A kernel that wants entropy gets some as long as the program runs: the  *)
(* batch it pipelines, a restart of ekeyd and answers lost with their      *)
(* connection hold it up, but not for ever.                                *)
KernelFed == []<>(~thirsty \/ lpc = "ended")
=============================================================================
