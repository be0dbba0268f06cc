------------------------------- MODULE Daemon -------------------------------
(***************************************************************************)
(* The main loop of ekeyd: the table of descriptors (host/fds.c), the walk *)
(* over it after poll, and the control server in Lua (host/control.lua,    *)
(* CONTROL) which accepts clients, reads one command per client and pass,  *)
(* runs them and writes the answers.  ekeyd is single threaded; clients    *)
(* and keys change between any two steps of it.                            *)
(*                                                                         *)
(* What goes on inside a connection to a key is EkeySession, what an EGD   *)
(* client does is EgdServer: here a key is read or found to be gone, and   *)
(* all sockets are control sockets.                                        *)
(***************************************************************************)
EXTENDS Integers, Sequences, SequencesExt, FiniteSets, FiniteSetsExt

CONSTANTS
  Conns,      \* control connections
  Rude,       \* of these, those that pipeline, hang up, leave lines half sent
              \* and do not read what is sent to them
  Listener,   \* the control socket
  Keys,       \* descriptors of keys
  Says,       \* what each client may send
  Lines,      \* how many commands each sends before it is quiet
  none

Cmds == {"List", "Add", "Remove", "Bye", "Shutdown"}

ASSUME DaemonAssumption ==
  /\ Rude \subseteq Conns
  /\ Conns \cap Keys = {}
  /\ IsFiniteSet(Keys)
  /\ Says \in [Conns -> SUBSET (Cmds \cup {"half"})]
  /\ none \notin Cmds
  /\ Listener \notin Conns \cup Keys
  /\ Lines \in [Conns -> Nat]

Patient == Conns \ Rude

VARIABLES
  ekeyfd_pollfd,   \* the table: descriptor and whether POLLOUT is asked for
  revents,         \* per place in the table, is revents not 0?
  lua_fd_ready,
  pc,              \* poll, walk, select and control (CONTROL), or exit
  fdloop, fdcnt, rdy,
  readt, writet,   \* sockets CONTROL has still to read, to write
  controlsockets,
  ctlwritebuffers, \* clients with something to be written to them
  ctlpendingcmd,
  ctltokill, ctldielater,
  ekey_list,       \* keys ekeyd knows
  streams,         \* keys whose stream is open
  peer,            \* each client: away, dialling, connected, closed
  kernel,          \* lines it sent that ekeyd has not received
  buffered,        \* lines in the buffer of its LuaSocket object
  waiting,         \* clients that wait for an answer before they go on
  left,            \* lines each may still send
  choked,          \* clients that have not read: their socket takes no more
  plugged,         \* keys that are there
  gone,            \* open streams of keys that were pulled
  data             \* open streams with bytes to read

tableVars == <<ekeyfd_pollfd, revents>>
walkVars == <<fdloop, fdcnt, rdy, lua_fd_ready>>
todoVars == <<readt, writet>>
ctlVars == <<controlsockets, ctlwritebuffers, ctlpendingcmd, ctltokill,
             ctldielater>>
ekeyVars == <<ekey_list, streams>>
peerVars == <<peer, kernel, buffered, waiting, left, choked>>
keyVars == <<plugged, gone, data>>
vars == <<tableVars, walkVars, pc, todoVars, ctlVars, ekeyVars, peerVars, keyVars>>

Fds == Conns \cup Keys \cup {Listener}

-----------------------------------------------------------------------------
(* fds.c *)

Entry(fd) == [fd |-> fd, out |-> FALSE]

ekeyfd_add(table, fd) == Append(table, Entry(fd))


ekeyfd_rm_fd_only(table, fd) ==
  IF \E i \in DOMAIN table : table[i].fd = fd
    THEN LET i == CHOOSE i \in DOMAIN table : table[i].fd = fd
         IN  Front([table EXCEPT ![i].fd = Last(table).fd])
    ELSE table

(* The last entry takes the place of the one removed, but for its revents. *)
ekeyfd_rm(table, fd) ==
  IF \E i \in DOMAIN table : table[i].fd = fd
    THEN LET i == CHOOSE i \in DOMAIN table : table[i].fd = fd
         IN  Front([table EXCEPT ![i] = Last(table)])
    ELSE table

(* One after the other, all that belong to fds; the rest changes places.    *)
without(table, fds) == SetToSeq({e \in Range(table) : e.fd \notin fds})

pollOut(table, fd, b) ==
  [i \in DOMAIN table |-> IF table[i].fd = fd THEN [table[i] EXCEPT !.out = b]
                                              ELSE table[i]]

(* Mutant: POLLOUT is not asked for.                                       *)
set_no_events(table, fd) == table

ekeyfd_set_events(table, fd) == pollOut(table, fd, TRUE)
ekeyfd_clear_events(table, fd) == pollOut(table, fd, FALSE)

(* What poll reports for an entry of the table.                            *)
readable(fd) ==
  \/ fd = Listener /\ \E c \in Conns : peer[c] = "dialling"
  \/ fd \in Conns /\ (kernel[fd] # <<>> \/ peer[fd] = "closed")
  \/ fd \in data \cup gone

ready(e) == (e.out /\ e.fd \notin choked) \/ readable(e.fd)

(* ekeyfd_poll: no descriptors are left; poll returns.                     *)
NoDescriptors ==
  /\ pc = "poll"
  /\ ekeyfd_pollfd = <<>>
  /\ pc' = "exit"
  /\ UNCHANGED <<tableVars, walkVars, todoVars, ctlVars, ekeyVars, peerVars, keyVars>>

ekeyfd_poll ==
  /\ pc = "poll"
  /\ \E i \in DOMAIN ekeyfd_pollfd : ready(ekeyfd_pollfd[i])
  /\ revents' = [i \in DOMAIN ekeyfd_pollfd |-> ready(ekeyfd_pollfd[i])]
  /\ rdy' = Cardinality({i \in DOMAIN ekeyfd_pollfd : ready(ekeyfd_pollfd[i])})
  /\ fdcnt' = 0
  /\ fdloop' = 1
  /\ pc' = "walk"
  /\ UNCHANGED <<ekeyfd_pollfd, lua_fd_ready, todoVars, ctlVars, ekeyVars,
                 peerVars, keyVars>>

-----------------------------------------------------------------------------
(* The walk, and the callbacks of ekeyd.c.  fdloop counts from 1 here.     *)

ahead == {i \in DOMAIN ekeyfd_pollfd : i >= fdloop /\ revents[i]}
walking == pc = "walk" /\ fdcnt < rdy /\ ahead # {}
place == Min(ahead)
fd_at == ekeyfd_pollfd[place].fd

visited ==
  /\ walking
  /\ fdcnt' = fdcnt + 1
  /\ fdloop' = place + 1

lua_fd_activity ==
  /\ visited
  /\ fd_at \notin Keys
  /\ lua_fd_ready' = TRUE
  /\ UNCHANGED <<tableVars, rdy, pc, todoVars, ctlVars, ekeyVars, peerVars, keyVars>>

(* econ_run reads what is there, or sees the end of the stream.            *)
ekey_fd_activity ==
  /\ visited
  /\ fd_at \in Keys
  /\ IF fd_at \in data
       THEN data' = data \ {fd_at} /\ UNCHANGED <<ekeyfd_pollfd, streams, gone>>
       ELSE /\ ekeyfd_pollfd' = ekeyfd_rm(ekeyfd_pollfd, fd_at)
            /\ streams' = streams \ {fd_at}
            /\ gone' = gone \ {fd_at}
            /\ UNCHANGED data
  /\ UNCHANGED <<revents, rdy, lua_fd_ready, pc, todoVars, ctlVars, ekey_list,
                 peerVars, plugged>>

(* The walk is over: main calls CONTROL if a Lua descriptor was ready.     *)
WalkEnds ==
  /\ pc = "walk"
  /\ ~walking
  /\ pc' = IF lua_fd_ready THEN "select" ELSE "poll"
  /\ revents' = <<>>
  /\ fdloop' = 0 /\ fdcnt' = 0 /\ rdy' = 0
  /\ UNCHANGED <<ekeyfd_pollfd, lua_fd_ready, todoVars, ctlVars, ekeyVars,
                 peerVars, keyVars>>

-----------------------------------------------------------------------------
(* CONTROL *)

(* Mutant: commands not yet run are forgotten first.                       *)
Select_forgets ==
  /\ pc = "select"
  /\ readt' = {s \in controlsockets :
                 readable(s) \/ (s \in Conns /\ buffered[s] # <<>>)}
  /\ writet' = (ctlwritebuffers \cap controlsockets) \ choked
  /\ ctlpendingcmd' = [c \in Conns |-> none]
  /\ pc' = "control"
  /\ UNCHANGED <<tableVars, walkVars, controlsockets, ctlwritebuffers, ctltokill,
                 ctldielater, ekeyVars, peerVars, keyVars>>

(* socket.select reports buffered lines as well; a closed object is never  *)
(* reported.                                                               *)
Select ==
  /\ pc = "select"
  /\ readt' = {s \in controlsockets :
                 readable(s) \/ (s \in Conns /\ buffered[s] # <<>>)}
  /\ writet' = (ctlwritebuffers \cap controlsockets) \ choked
  /\ pc' = "control"
  /\ UNCHANGED <<tableVars, walkVars, ctlVars, ekeyVars, peerVars, keyVars>>

ctlwrite(c) == ctlwritebuffers' = ctlwritebuffers \cup {c}

(* _ctldoread on the listening socket: addctlsocket, and the greeting.     *)
Accept(c) ==
  /\ pc = "control"
  /\ Listener \in readt
  /\ peer[c] = "dialling"
  /\ peer' = [peer EXCEPT ![c] = "connected"]
  /\ readt' = readt \ {Listener}
  /\ controlsockets' = controlsockets \cup {c}
  /\ ctlwrite(c)
  /\ ekeyfd_pollfd' = ekeyfd_set_events(ekeyfd_add(ekeyfd_pollfd, c), c)
  /\ UNCHANGED <<revents, walkVars, pc, writet, ctlpendingcmd, ctltokill,
                 ctldielater, ekeyVars, kernel, buffered, waiting, left, choked,
                 keyVars>>

(* The first line of what came so far; what else came stays in the buffer. *)
received(c) == buffered[c] \o kernel[c]

ReadLine(c) ==
  /\ pc = "control"
  /\ c \in readt
  /\ received(c) # <<>>
  /\ Head(received(c)) # "half"
  /\ ctlpendingcmd' = [ctlpendingcmd EXCEPT ![c] = Head(received(c))]
  /\ buffered' = [buffered EXCEPT ![c] = Tail(received(c))]
  /\ kernel' = [kernel EXCEPT ![c] = <<>>]
  /\ readt' = readt \ {c}
  /\ UNCHANGED <<tableVars, walkVars, pc, writet, controlsockets,
                 ctlwritebuffers, ctltokill, ctldielater, ekeyVars, peer,
                 waiting, left, choked, keyVars>>

(* The end of the connection, or no full line within 10 ms.                *)
ReadNothing(c) ==
  /\ pc = "control"
  /\ c \in readt
  /\ received(c) # <<>> => Head(received(c)) = "half"
  /\ ctltokill' = ctltokill \cup {c}
  /\ buffered' = [buffered EXCEPT ![c] = <<>>]
  /\ kernel' = [kernel EXCEPT ![c] = <<>>]
  /\ readt' = readt \ {c}
  /\ UNCHANGED <<tableVars, walkVars, pc, writet, controlsockets,
                 ctlwritebuffers, ctlpendingcmd, ctldielater, ekeyVars, peer,
                 waiting, left, choked, keyVars>>

(* Writers come after all readers.                                         *)
WriteSkipped(c) ==
  /\ pc = "control" /\ readt = {}
  /\ c \in writet \cap ctltokill
  /\ writet' = writet \ {c}
  /\ UNCHANGED <<tableVars, walkVars, pc, readt, ctlVars, ekeyVars,
                 peerVars, keyVars>>

mayChoke(c) == {c} \cap {d \in Rude : peer[d] = "connected"}

(* Everything is sent, or taken by a TCP socket whose peer is gone.  The   *)
(* answer may be what fills the socket of a client that does not read.     *)
Write(c) ==
  /\ pc = "control" /\ readt = {}
  /\ c \in writet \ ctltokill
  /\ waiting' = waiting \ {c}
  /\ ctlwritebuffers' = ctlwritebuffers \ {c}
  /\ ekeyfd_pollfd' = ekeyfd_clear_events(ekeyfd_pollfd, c)
  /\ ctltokill' = IF c \in ctldielater THEN ctltokill \cup {c} ELSE ctltokill
  /\ writet' = writet \ {c}
  /\ choked' \in {choked, choked \cup mayChoke(c)}
  /\ UNCHANGED <<revents, walkVars, pc, readt, controlsockets, ctlpendingcmd,
                 ctldielater, ekeyVars, peer, kernel, buffered, left, keyVars>>

(* send returns nil, because the peer has closed or because it reads       *)
(* nothing and its socket is full when 10 ms are over, part of the answer  *)
(* sent: the client is marked, and nil + 1 is an error that ends this call *)
(* of CONTROL before any command is run.  main does not notice.            *)
WriteFails(c) ==
  /\ pc = "control" /\ readt = {}
  /\ c \in writet \ ctltokill
  /\ peer[c] = "closed" \/ mayChoke(c) # {}
  /\ choked' = choked \cup mayChoke(c)
  /\ ctltokill' = ctltokill \cup {c}
  /\ writet' = {}
  /\ pc' = "poll"
  /\ lua_fd_ready' = FALSE
  /\ UNCHANGED <<tableVars, fdloop, fdcnt, rdy, readt, controlsockets,
                 ctlwritebuffers, ctlpendingcmd, ctldielater, ekeyVars, peer,
                 kernel, buffered, waiting, left, keyVars>>

-----------------------------------------------------------------------------
(* Commands, run by runprotectedcommand: all but Shutdown are answered.    *)
(* The table of pending commands is emptied one by one here, by the code   *)
(* when all have run.                                                      *)

commanded(c, cmd) ==
  /\ pc = "control" /\ readt = {} /\ writet = {}
  /\ c \notin ctltokill
  /\ ctlpendingcmd[c] = cmd

answered(c) ==
  /\ ctlwrite(c)
  /\ ctlpendingcmd' = [ctlpendingcmd EXCEPT ![c] = none]
  /\ UNCHANGED <<revents, walkVars, pc, todoVars, controlsockets, ctltokill,
                 peerVars, plugged>>

List(c) ==
  /\ commanded(c, "List")
  /\ answered(c)
  /\ ekeyfd_pollfd' = ekeyfd_set_events(ekeyfd_pollfd, c)
  /\ UNCHANGED <<ctldielater, ekeyVars, gone, data>>

(* add_ekey returns a key it has already got, closed or not, and fails     *)
(* when there is no device.                                                *)
AddEntropyKey(c) ==
  /\ commanded(c, "Add")
  /\ answered(c)
  /\ \E k \in Keys :
       IF k \in plugged \ ekey_list
         THEN /\ ekeyfd_pollfd' =
                   ekeyfd_set_events(ekeyfd_add(ekeyfd_pollfd, k), c)
              /\ ekey_list' = ekey_list \cup {k}
              /\ streams' = streams \cup {k}
         ELSE /\ ekeyfd_pollfd' = ekeyfd_set_events(ekeyfd_pollfd, c)
              /\ UNCHANGED ekeyVars
  /\ UNCHANGED <<ctldielater, gone, data>>

(* kill_ekey: a key whose stream is closed has no descriptor any more.     *)
kill_ekeys(keys) ==
  /\ ekey_list' = ekey_list \ keys
  /\ streams' = streams \ keys
  /\ gone' = gone \ keys
  /\ data' = data \ keys

RemoveEntropyKey(c) ==
  /\ commanded(c, "Remove")
  /\ answered(c)
  /\ \E k \in Keys :
       /\ ekeyfd_pollfd' =
            ekeyfd_set_events(IF k \in streams THEN ekeyfd_rm(ekeyfd_pollfd, k)
                                               ELSE ekeyfd_pollfd, c)
       /\ kill_ekeys({k})
  /\ UNCHANGED ctldielater

Bye(c) ==
  /\ commanded(c, "Bye")
  /\ answered(c)
  /\ ekeyfd_pollfd' = ekeyfd_set_events(ekeyfd_pollfd, c)
  /\ ctldielater' = ctldielater \cup {c}
  /\ UNCHANGED <<ekeyVars, gone, data>>

(* Mutant: the marks of a closed socket stay.                              *)
marks_kept(socks) ==
  /\ controlsockets' = controlsockets \ socks
  /\ ctlpendingcmd' = [c \in Conns |-> IF c \in socks THEN none
                                                       ELSE ctlpendingcmd[c]]
  /\ peer' = [c \in Conns |-> IF c \in socks THEN "dropped" ELSE peer[c]]
  /\ kernel' = [c \in Conns |-> IF c \in socks THEN <<>> ELSE kernel[c]]
  /\ buffered' = [c \in Conns |-> IF c \in socks THEN <<>> ELSE buffered[c]]
  /\ left' = [c \in Conns |-> IF c \in socks THEN 0 ELSE left[c]]
  /\ choked' = choked \ socks
  /\ UNCHANGED <<ctltokill, ctldielater, waiting>>

delctlsockets(socks) ==
  /\ controlsockets' = controlsockets \ socks
  /\ ctlpendingcmd' = [c \in Conns |-> IF c \in socks THEN none
                                                       ELSE ctlpendingcmd[c]]
  /\ ctltokill' = ctltokill \ socks
  /\ ctldielater' = ctldielater \ socks
  /\ peer' = [c \in Conns |-> IF c \in socks THEN "dropped" ELSE peer[c]]
  /\ kernel' = [c \in Conns |-> IF c \in socks THEN <<>> ELSE kernel[c]]
  /\ buffered' = [c \in Conns |-> IF c \in socks THEN <<>> ELSE buffered[c]]
  /\ left' = [c \in Conns |-> IF c \in socks THEN 0 ELSE left[c]]
  /\ choked' = choked \ socks
  /\ UNCHANGED waiting

(* Keys and sockets are closed, the client's among them: its answer stays  *)
(* in the write buffer of a closed socket.                                 *)
Shutdown(c) ==
  /\ commanded(c, "Shutdown")
  /\ ekeyfd_pollfd' = without(ekeyfd_pollfd, streams \cup controlsockets)
  /\ kill_ekeys(ekey_list)
  /\ delctlsockets(controlsockets)
  /\ ctlwritebuffers' = (ctlwritebuffers \ controlsockets) \cup {c}
  /\ UNCHANGED <<revents, walkVars, pc, todoVars, plugged>>

allRun ==
  /\ pc = "control" /\ readt = {} /\ writet = {}
  /\ \A c \in Conns : c \in ctltokill \/ ctlpendingcmd[c] = none

(* delctlsocket for every socket marked.                                   *)
Kill(c) ==
  /\ allRun
  /\ c \in ctltokill
  /\ ekeyfd_pollfd' = ekeyfd_rm(ekeyfd_pollfd, c)
  /\ delctlsockets({c})
  /\ ctlwritebuffers' = ctlwritebuffers \ {c}
  /\ UNCHANGED <<revents, walkVars, pc, todoVars, ekeyVars, keyVars>>

ControlEnds ==
  /\ allRun
  /\ ctltokill = {}
  /\ pc' = "poll"
  /\ lua_fd_ready' = FALSE
  /\ UNCHANGED <<tableVars, fdloop, fdcnt, rdy, todoVars, ctlVars, ekeyVars,
                 peerVars, keyVars>>

-----------------------------------------------------------------------------
(* Clients and keys.  A key that was pulled stays away.                    *)

unchangedInside == UNCHANGED <<tableVars, walkVars, pc, todoVars, ctlVars, ekeyVars>>

(* The greeting is the first thing a client waits for.                     *)
Dial(c) ==
  /\ peer[c] = "away"
  /\ Listener \in controlsockets
  /\ peer' = [peer EXCEPT ![c] = "dialling"]
  /\ waiting' = waiting \cup ({c} \cap Patient)
  /\ UNCHANGED <<kernel, buffered, left, choked, keyVars>>
  /\ unchangedInside

Say(c, line) ==
  /\ peer[c] = "connected"
  /\ left[c] > 0
  /\ line \in Says[c]
  /\ c \notin waiting
  /\ kernel' = [kernel EXCEPT ![c] = Append(@, line)]
  /\ waiting' = waiting \cup ({c} \cap Patient)
  /\ left' = [left EXCEPT ![c] = @ - 1]
  /\ UNCHANGED <<peer, buffered, choked, keyVars>>
  /\ unchangedInside

HangUp(c) ==
  /\ c \in Rude
  /\ peer[c] = "connected"
  /\ peer' = [peer EXCEPT ![c] = "closed"]
  /\ left' = [left EXCEPT ![c] = 0]
  /\ choked' = choked \ {c}
  /\ UNCHANGED <<kernel, buffered, waiting, keyVars>>
  /\ unchangedInside

(* It reads at last, and its socket has room again.                        *)
Drains(c) ==
  /\ c \in choked
  /\ choked' = choked \ {c}
  /\ UNCHANGED <<peer, kernel, buffered, waiting, left, keyVars>>
  /\ unchangedInside

KeySends(k) ==
  /\ k \in (plugged \cap streams) \ (gone \cup data)
  /\ data' = data \cup {k}
  /\ UNCHANGED <<plugged, gone, peerVars>>
  /\ unchangedInside

Unplug(k) ==
  /\ k \in plugged
  /\ plugged' = plugged \ {k}
  /\ gone' = gone \cup ({k} \cap streams)
  /\ UNCHANGED <<data, peerVars>>
  /\ unchangedInside

(* The configuration file has added some keys and then the control socket, *)
(* or the other way round.                                                 *)
Init ==
  /\ ekey_list \in SUBSET Keys /\ streams = ekey_list
  /\ \E keys \in SetToSeqs(ekey_list) :
       LET entries == [i \in DOMAIN keys |-> Entry(keys[i])]
       IN  ekeyfd_pollfd \in {Append(entries, Entry(Listener)),
                              <<Entry(Listener)>> \o entries}
  /\ revents = <<>>
  /\ lua_fd_ready = FALSE
  /\ pc = "poll"
  /\ fdloop = 0 /\ fdcnt = 0 /\ rdy = 0
  /\ readt = {} /\ writet = {}
  /\ controlsockets = {Listener}
  /\ ctlwritebuffers = {}
  /\ ctlpendingcmd = [c \in Conns |-> none]
  /\ ctltokill = {} /\ ctldielater = {}
  /\ peer = [c \in Conns |-> "away"]
  /\ kernel = [c \in Conns |-> <<>>]
  /\ buffered = [c \in Conns |-> <<>>]
  /\ waiting = {}
  /\ left = Lines
  /\ choked = {}
  /\ plugged = Keys /\ gone = {} /\ data = {}

Walk == lua_fd_activity \/ ekey_fd_activity \/ WalkEnds

CONTROL ==
  \/ Select
  \/ \E c \in Conns :
       \/ Accept(c) \/ ReadLine(c) \/ ReadNothing(c)
       \/ WriteSkipped(c) \/ Write(c) \/ WriteFails(c)
       \/ List(c) \/ AddEntropyKey(c) \/ RemoveEntropyKey(c) \/ Bye(c) \/ Shutdown(c)
       \/ Kill(c)
  \/ ControlEnds

Main == NoDescriptors \/ ekeyfd_poll \/ Walk \/ CONTROL

Around ==
  \/ \E c \in Conns :
       \/ Dial(c)
       \/ \E line \in Cmds \cup {"half"} : Say(c, line)
       \/ HangUp(c) \/ Drains(c)
  \/ \E k \in Keys : KeySends(k) \/ Unplug(k)

Next == Main \/ Around

Spec == Init /\ [][Next]_vars

(* The daemon runs; nothing is assumed of clients and keys.                *)
FairSpec == Spec /\ WF_vars(Main)

-----------------------------------------------------------------------------
TypeOK ==
  /\ ekeyfd_pollfd \in Seq([fd : Fds, out : BOOLEAN])
  /\ revents \in Seq(BOOLEAN)
  /\ Len(revents) >= (IF pc = "walk" THEN Len(ekeyfd_pollfd) ELSE 0)
  /\ lua_fd_ready \in BOOLEAN
  /\ pc \in {"poll", "walk", "select", "control", "exit"}
  /\ readt \cup writet \subseteq controlsockets
  /\ controlsockets \subseteq Conns \cup {Listener}
  /\ ctlwritebuffers \subseteq Conns
  /\ ctlpendingcmd \in [Conns -> Cmds \cup {none}]
  /\ ctltokill \subseteq controlsockets
  /\ streams \subseteq ekey_list /\ ekey_list \subseteq Keys
  /\ data \cup gone \subseteq streams
  /\ waiting \subseteq Patient
  /\ choked \subseteq controlsockets \cap Rude

(* The table holds the descriptors of the control sockets and of the keys  *)
(* whose stream is open, each once, and asks for POLLOUT exactly where     *)
(* something waits to be written: through accepts, failed sends, keys that *)
(* vanish during the walk, removals and a shutdown nobody is left out and  *)
(* no entry outlives its owner.                                            *)
TableMatches ==
  /\ \A i, j \in DOMAIN ekeyfd_pollfd :
       ekeyfd_pollfd[i].fd = ekeyfd_pollfd[j].fd => i = j
  /\ {ekeyfd_pollfd[i].fd : i \in DOMAIN ekeyfd_pollfd} = controlsockets \cup streams
  /\ \A i \in DOMAIN ekeyfd_pollfd :
       ekeyfd_pollfd[i].out <=> ekeyfd_pollfd[i].fd \in ctlwritebuffers

(* A client ekeyd has given up because it does not read stays until poll   *)
(* returns for another descriptor of Lua's.                                *)
clogged == ctltokill \cap choked # {}

(* Work CONTROL has left over (a command read in a pass that ended with an *)
(* error, lines in the buffer of a LuaSocket object, sockets marked to be  *)
(* killed) waits in a poll that nothing of Lua's ends only when its client *)
(* does not read itself, or when the pass ended with the timeout of a send *)
(* to a client that does not.                                              *)
WorkWakes ==
  /\ pc = "poll"
  /\ ~clogged
  /\ \E c \in (controlsockets \cap Conns) \ choked :
       ctlpendingcmd[c] # none \/ buffered[c] # <<>> \/ c \in ctltokill
  => \E i \in DOMAIN ekeyfd_pollfd :
       ekeyfd_pollfd[i].fd \notin Keys /\ ready(ekeyfd_pollfd[i])

(* A client that waits for each answer gets it, whatever other clients     *)
(* send and whenever they hang up, unless the daemon is shut down; and     *)
(* then it really ends: no descriptor keeps its main loop alive.  What is  *)
(* needed is that no client that was given up goes on neither reading nor  *)
(* hanging up.                                                             *)
Answered ==
  []<>~clogged =>
    \A c \in Patient : c \in waiting ~> (c \notin waiting \/ pc = "exit")

=============================================================================
