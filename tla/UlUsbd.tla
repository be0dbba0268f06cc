------------------------------- MODULE UlUsbd -------------------------------
(***************************************************************************)
(* ekey-ulusbd: one thread reads the device over USB and writes what it    *)
(* gets to the client, the main thread accepts clients and passes their    *)
(* commands on.  Both use uds_client_fd, without a lock.  One client is    *)
(* served at a time.  The C variable holds a descriptor number, which the  *)
(* kernel gives to the next client once it is closed: what a write reaches *)
(* is the socket open under that number when it is made.                   *)
(***************************************************************************)
EXTENDS Naturals, Sequences

CONSTANTS
  Clients,       \* programs that use the device through the socket
  StreamMod,     \* bytes of the device are numbered modulo this
  Chunk,         \* most bytes of one USB read
  SockCap,       \* bytes a client's socket buffers
  CmdCap,        \* commands a socket and the endpoint of the device buffer
  Modes,         \* values the flag -D may have
  NULL           \* none

ASSUME UlUsbdAssumption ==
  /\ Chunk \in Nat \ {0}
  /\ SockCap \in Nat \ {0}
  /\ CmdCap \in Nat \ {0}
  /\ StreamMod \in Nat /\ StreamMod > Chunk
  /\ Modes \subseteq BOOLEAN
  /\ NULL \notin Clients

VARIABLES
  daemonise,     \* -D was given
  main,          \* main thread: where it is
  events,        \* its pfd[].revents: accept, pipe, client
  uds_client_fd, \* the variable is not -1
  sock,          \* client whose socket is open under that number
  backlog,       \* clients that have connected and are not accepted
  reader,        \* reader thread: where it is, and the rest of its buffer
  usb,           \* the device is plugged in
  pos,           \* number of the next byte of the device
  commands,      \* commands in the device's endpoint
  peer,          \* each client: away (not connected, or hung up on), open,
                 \* or left: its own end is closed, the daemon's is not
  toPeer,        \* bytes in each client's socket
  fromPeer,      \* commands in each client's socket
  last           \* last byte each client has read from this connection

mainVars == <<main, events, uds_client_fd, sock, backlog>>
usbVars == <<usb, pos, commands>>
peerVars == <<peer, toPeer, fromPeer, last>>
vars == <<daemonise, mainVars, reader, usbVars, peerVars>>

Bytes == 0 .. StreamMod - 1
next(b) == (b + 1) % StreamMod

Run(from, n) == [i \in 1 .. n |-> (from + i - 1) % StreamMod]

NoEvents == [accept |-> FALSE, pipe |-> FALSE, client |-> FALSE]

at(place) == main = place
goto(place) == main' = place

-----------------------------------------------------------------------------
(* Reader thread *)

readerOnly == UNCHANGED <<daemonise, mainVars, usb, commands, peer, fromPeer, last>>

(* What the device has to say at first is thrown away, until it says       *)
(* nothing for half a second.                                              *)
Drain ==
  /\ reader.at = "drain"
  /\ \/ /\ usb
        /\ \E n \in 1 .. Chunk : pos' = (pos + n) % StreamMod
        /\ UNCHANGED reader
     \/ reader' = [at |-> "read", rest |-> <<>>] /\ UNCHANGED pos
  /\ UNCHANGED toPeer
  /\ readerOnly

(* usb_bulk_read; EAGAIN is no event at all.                               *)
UsbRead ==
  /\ reader.at = "read" /\ usb
  /\ \E n \in 1 .. Chunk :
       /\ reader' = [at |-> "check", rest |-> Run(pos, n)]
       /\ pos' = (pos + n) % StreamMod
  /\ UNCHANGED toPeer
  /\ readerOnly

(* Mutant: the thread ends and leaves the pipe open.                       *)
UsbVanished_silent ==
  /\ reader.at = "read"
  /\ reader' = [at |-> "silent", rest |-> <<>>]
  /\ UNCHANGED <<pos, toPeer>>
  /\ readerOnly

(* Any other error, or nothing read when errno happens to hold another:    *)
(* the device is taken to have vanished.  Closing the pipe is what the     *)
(* main thread notices, and then the thread ends.                          *)
UsbVanished ==
  /\ reader.at = "read"
  /\ reader' = [at |-> "closed", rest |-> <<>>]
  /\ UNCHANGED <<pos, toPeer>>
  /\ readerOnly

ThreadEnds ==
  /\ reader.at = "closed"
  /\ reader' = [reader EXCEPT !.at = "ended"]
  /\ UNCHANGED <<pos, toPeer>>
  /\ readerOnly

(* Mutant: the thread keeps the value it has read at its start.            *)
Check_cached ==
  /\ reader.at = "check"
  /\ reader' = [at |-> "read", rest |-> <<>>]
  /\ UNCHANGED <<pos, toPeer>>
  /\ readerOnly

(* The condition of the write loop.  Without a client the rest is dropped. *)
Check ==
  /\ reader.at = "check"
  /\ reader' = IF uds_client_fd /\ reader.rest # <<>>
                 THEN [reader EXCEPT !.at = "write"]
                 ELSE [at |-> "read", rest |-> <<>>]
  /\ UNCHANGED <<pos, toPeer>>
  /\ readerOnly

gone(c) == c = NULL \/ peer[c] # "open"

(* Mutant: a short write is taken for a complete one.                      *)
Write_short ==
  /\ reader.at = "write"
  /\ IF gone(sock)
       THEN /\ reader' = IF daemonise THEN [reader EXCEPT !.at = "check"]
                         ELSE [at |-> "read", rest |-> <<>>]
            /\ UNCHANGED toPeer
       ELSE \E n \in 1 .. Len(reader.rest) :
         /\ Len(toPeer[sock]) + n <= SockCap
         /\ toPeer' = [toPeer EXCEPT ![sock] = @ \o SubSeq(reader.rest, 1, n)]
         /\ reader' = [at |-> "read", rest |-> <<>>]
  /\ UNCHANGED pos
  /\ readerOnly

(* A write takes any number of bytes there is room for and waits while     *)
(* there is none.  An error ends the loop, or with -D is tried again.      *)
Write ==
  /\ reader.at = "write"
  /\ IF gone(sock)
       THEN /\ reader' = IF daemonise THEN [reader EXCEPT !.at = "check"]
                         ELSE [at |-> "read", rest |-> <<>>]
            /\ UNCHANGED toPeer
       ELSE \E n \in 1 .. Len(reader.rest) :
         /\ Len(toPeer[sock]) + n <= SockCap
         /\ toPeer' = [toPeer EXCEPT ![sock] = @ \o SubSeq(reader.rest, 1, n)]
         /\ reader' = [at |-> "check",
                       rest |-> SubSeq(reader.rest, n + 1, Len(reader.rest))]
  /\ UNCHANGED pos
  /\ readerOnly

Reader == Drain \/ UsbRead \/ UsbVanished \/ ThreadEnds \/ Check \/ Write

-----------------------------------------------------------------------------
(* Main thread *)

mainOnly == UNCHANGED <<daemonise, usb, pos>>

(* close of a client's socket: what it has not read it may still read, but *)
(* that is no more of a stream than what it has read before.               *)
shut(c) ==
  /\ peer' = [peer EXCEPT ![c] = "away"]
  /\ toPeer' = [toPeer EXCEPT ![c] = <<>>]
  /\ fromPeer' = [fromPeer EXCEPT ![c] = 0]
  /\ last' = [last EXCEPT ![c] = NULL]

(* All clients lose their connection when the process ends.                *)
hangUp ==
  /\ goto("dead")
  /\ reader' = [at |-> "ended", rest |-> <<>>]
  /\ events' = NoEvents /\ uds_client_fd' = FALSE /\ sock' = NULL /\ backlog' = <<>>
  /\ peer' = [c \in Clients |-> "away"]
  /\ toPeer' = [c \in Clients |-> <<>>]
  /\ fromPeer' = [c \in Clients |-> 0]
  /\ last' = [c \in Clients |-> NULL]

readable(c) == c # NULL /\ (fromPeer[c] > 0 \/ peer[c] = "left")

(* poll returns with the events there are; the client's socket is only     *)
(* asked about while there is a client, and its old revents stay.          *)
Poll ==
  /\ at("poll")
  /\ \/ backlog # <<>>
     \/ reader.at \in {"closed", "ended"}
     \/ uds_client_fd /\ readable(sock)
  /\ events' = [accept |-> backlog # <<>>,
                pipe |-> reader.at \in {"closed", "ended"},
                client |-> IF uds_client_fd THEN readable(sock) ELSE events.client]
  /\ goto("events")
  /\ UNCHANGED <<uds_client_fd, sock, backlog, reader, commands, peerVars>>
  /\ mainOnly

(* Events on the pipe end the loop, and main returns, unless pthread_kill  *)
(* with signal 9 ends the process first, if the thread is still there.     *)
CloseDown ==
  /\ at("events") /\ events.pipe
  /\ hangUp
  /\ UNCHANGED commands
  /\ mainOnly

(* Mutant: the old revents are kept for the new client.                    *)
Accept_stale ==
  /\ at("events") /\ ~events.pipe
  /\ IF ~events.accept THEN UNCHANGED <<uds_client_fd, sock, backlog, events, peerVars>>
     ELSE
       /\ backlog' = Tail(backlog)
       /\ IF uds_client_fd
            THEN shut(Head(backlog)) /\ UNCHANGED <<uds_client_fd, sock, events>>
            ELSE /\ uds_client_fd' = TRUE
                 /\ sock' = Head(backlog)
                 /\ UNCHANGED <<peerVars, events>>
  /\ goto("read")
  /\ UNCHANGED <<reader, commands>>
  /\ mainOnly

(* A client that comes while there is another is turned away.              *)
Accept ==
  /\ at("events") /\ ~events.pipe
  /\ IF ~events.accept THEN UNCHANGED <<uds_client_fd, sock, backlog, events, peerVars>>
     ELSE
       /\ backlog' = Tail(backlog)
       /\ IF uds_client_fd
            THEN shut(Head(backlog)) /\ UNCHANGED <<uds_client_fd, sock, events>>
            ELSE /\ uds_client_fd' = TRUE
                 /\ sock' = Head(backlog)
                 /\ events' = [events EXCEPT !.client = FALSE]
                 /\ UNCHANGED <<peerVars>>
  /\ goto("read")
  /\ UNCHANGED <<reader, commands>>
  /\ mainOnly

(* read from the client, which waits if there is nothing to read.  One that *)
(* left before it had read everything resets the connection: POLLERR, or   *)
(* an error of read, and what it had written is lost.                      *)
Read ==
  /\ at("read")
  /\ events' = [events EXCEPT !.accept = FALSE]
  /\ IF ~(uds_client_fd /\ events.client) THEN goto("poll") /\ UNCHANGED fromPeer
     ELSE \/ /\ fromPeer[sock] > 0
             /\ goto("usbwrite") /\ fromPeer' = [fromPeer EXCEPT ![sock] = 0]
          \/ /\ peer[sock] = "left"
             /\ goto("close") /\ UNCHANGED fromPeer
  /\ UNCHANGED <<uds_client_fd, sock, backlog, reader, commands, peer, toPeer, last>>
  /\ mainOnly

(* usb_bulk_write has no timeout either.                                   *)
UsbWrite ==
  /\ at("usbwrite") /\ usb /\ commands < CmdCap
  /\ commands' = commands + 1
  /\ goto("poll")
  /\ UNCHANGED <<events, uds_client_fd, sock, backlog, reader, peerVars>>
  /\ mainOnly

UsbWriteFails == at("usbwrite") /\ ~usb /\ hangUp /\ UNCHANGED commands /\ mainOnly

(* close(uds_client_fd), and after it the assignment of -1.                *)
Close ==
  /\ at("close")
  /\ sock' = NULL
  /\ shut(sock)
  /\ goto("forget")
  /\ UNCHANGED <<events, uds_client_fd, backlog, reader, commands>>
  /\ mainOnly

(* Mutant: the variable keeps the closed descriptor.                       *)
Forget_kept ==
  /\ at("forget")
  /\ goto("poll")
  /\ UNCHANGED <<events, uds_client_fd, sock, backlog, reader, commands, peerVars>>
  /\ mainOnly

Forget ==
  /\ at("forget")
  /\ uds_client_fd' = FALSE
  /\ goto("poll")
  /\ UNCHANGED <<events, sock, backlog, reader, commands, peerVars>>
  /\ mainOnly

MainLoop ==
  Poll \/ CloseDown \/ Accept \/ Read \/ UsbWrite \/ UsbWriteFails \/ Close \/ Forget

-----------------------------------------------------------------------------
(* Start *)

bootOnly ==
  UNCHANGED <<daemonise, events, uds_client_fd, sock, backlog, usb, pos, peerVars>>

(* udev starts the program, which goes to the background with -D.          *)
Launch ==
  /\ at("dead") /\ usb
  /\ goto("scan")
  /\ UNCHANGED <<reader, commands>>
  /\ bootOnly

(* find_usb_device, prepare_uds and start_reader.  Without a device main   *)
(* returns, and so it does with one that cannot be opened, detached from   *)
(* the kernel or claimed, without a socket, or without a pipe.             *)
Scan ==
  /\ at("scan")
  /\ \/ usb /\ goto("poll") /\ reader' = [at |-> "drain", rest |-> <<>>]
     \/ goto("dead") /\ UNCHANGED reader
  /\ commands' = 0
  /\ bootOnly

-----------------------------------------------------------------------------
(* Device and clients *)

world == UNCHANGED <<daemonise, mainVars, reader, pos>>

DeviceReads ==
  /\ usb /\ commands > 0
  /\ commands' = commands - 1
  /\ UNCHANGED <<usb, peerVars>> /\ world

Plug == usb' = ~usb /\ UNCHANGED <<commands, peerVars>> /\ world

Connect(c) ==
  /\ peer[c] = "away" /\ main \in {"poll", "events", "read", "usbwrite", "close", "forget"}
  /\ peer' = [peer EXCEPT ![c] = "open"]
  /\ backlog' = Append(backlog, c)
  /\ UNCHANGED <<toPeer, fromPeer, last>>
  /\ UNCHANGED <<daemonise, main, events, uds_client_fd, sock, reader, usbVars>>

PeerReads(c) ==
  /\ peer[c] = "open" /\ toPeer[c] # <<>>
  /\ last' = [last EXCEPT ![c] = Head(toPeer[c])]
  /\ toPeer' = [toPeer EXCEPT ![c] = Tail(@)]
  /\ UNCHANGED <<usb, commands, peer, fromPeer>>
  /\ world

PeerWrites(c) ==
  /\ peer[c] = "open" /\ fromPeer[c] < CmdCap
  /\ fromPeer' = [fromPeer EXCEPT ![c] = @ + 1]
  /\ UNCHANGED <<usb, commands, peer, toPeer, last>>
  /\ world

Leave(c) ==
  /\ peer[c] = "open"
  /\ peer' = [peer EXCEPT ![c] = "left"]
  /\ toPeer' = [toPeer EXCEPT ![c] = <<>>]
  /\ last' = [last EXCEPT ![c] = NULL]
  /\ UNCHANGED <<usb, commands, fromPeer>>
  /\ world

-----------------------------------------------------------------------------
Init ==
  /\ daemonise \in Modes
  /\ main = "dead"
  /\ events = NoEvents
  /\ uds_client_fd = FALSE
  /\ sock = NULL
  /\ backlog = <<>>
  /\ reader = [at |-> "ended", rest |-> <<>>]
  /\ usb = TRUE
  /\ pos = 0
  /\ commands = 0
  /\ peer = [c \in Clients |-> "away"]
  /\ toPeer = [c \in Clients |-> <<>>]
  /\ fromPeer = [c \in Clients |-> 0]
  /\ last = [c \in Clients |-> NULL]

Next ==
  \/ Reader
  \/ MainLoop
  \/ Launch \/ Scan
  \/ DeviceReads \/ Plug
  \/ \E c \in Clients : Connect(c) \/ PeerReads(c) \/ PeerWrites(c) \/ Leave(c)

Spec == Init /\ [][Next]_vars

-----------------------------------------------------------------------------
(* Every variable has its type; a socket is open under the descriptor      *)
(* number whenever the main thread is to use it.                           *)
TypeOK ==
  /\ daemonise \in BOOLEAN /\ usb \in BOOLEAN
  /\ main \in {"dead", "scan", "poll", "events", "read", "usbwrite", "close", "forget"}
  /\ events \in [accept : BOOLEAN, pipe : BOOLEAN, client : BOOLEAN]
  /\ uds_client_fd \in BOOLEAN
  /\ sock \in Clients \cup {NULL}
  /\ ~at("forget") => (uds_client_fd <=> sock # NULL)
  /\ backlog \in Seq(Clients)
  /\ reader \in [at : {"ended", "drain", "read", "check", "write", "closed"},
                 rest : Seq(Bytes)]
  /\ pos \in Bytes
  /\ commands \in 0 .. CmdCap
  /\ peer \in [Clients -> {"away", "open", "left"}]
  /\ toPeer \in [Clients -> Seq(Bytes)]
  /\ \A c \in Clients : Len(toPeer[c]) <= SockCap
  /\ fromPeer \in [Clients -> 0 .. CmdCap]
  /\ last \in [Clients -> Bytes \cup {NULL}]

(* What a client receives over one connection is a piece of the device's   *)
(* stream without a gap or a repetition, although the thread that writes   *)
(* it may be halfway through a buffer when the client before it leaves,    *)
(* and its write may go to whoever has the descriptor number then.         *)
Contiguous ==
  \A c \in Clients : \A i \in DOMAIN toPeer[c] :
    IF i > 1 THEN toPeer[c][i] = next(toPeer[c][i - 1])
    ELSE last[c] # NULL => toPeer[c][1] = next(last[c])

(* The main thread asks a client for commands only if it has some or has   *)
(* gone, though revents may be left over from the client before: otherwise *)
(* it would wait in read, deaf to other clients and to the reader thread.  *)
NeverDeaf == at("read") /\ uds_client_fd /\ events.client => readable(sock)

-----------------------------------------------------------------------------
(* Both threads go on, start-up goes on, the device reads its commands and *)
(* a client reads what it is sent.                                         *)
Fairness ==
  /\ WF_vars(Reader)
  /\ WF_vars(MainLoop)
  /\ WF_vars(Scan)
  /\ WF_vars(DeviceReads)
  /\ \A c \in Clients : WF_vars(PeerReads(c))

FairSpec == Spec /\ Fairness

(* A client that keeps its connection gets entropy for as long as the      *)
(* device is there, whoever else connects meanwhile, unless the device     *)
(* never pauses and is drained for ever.                                   *)
Delivered ==
  \A c \in Clients :
    <>[](peer[c] = "open" /\ usb) /\ <>[](reader.at # "drain")
      => []<><<PeerReads(c)>>_vars

(* A client is turned away for one that has left, if both are seen in the  *)
(* same pass or its leaving is not seen yet; but one that keeps coming     *)
(* back is let in, and stays, once the others keep away.                   *)
LetIn ==
  \A c \in Clients :
    /\ <>[](usb /\ main # "dead" /\ peer[c] # "left")
    /\ \A d \in Clients \ {c} : <>[](peer[d] # "open")
    /\ []<>(peer[c] = "open")
    => <>[](peer[c] = "open" /\ sock = c)

(* A device that is pulled out ends the daemon, from wherever the two      *)
(* threads are: the reader gets past its write loop, also when its client  *)
(* has left, unless clients come and go for ever just then.                *)
VanishEnds ==
  /\ <>[]~usb
  /\ \A c \in Clients : <>[](peer[c] = "open") \/ <>[](peer[c] # "open")
  => <>[](main = "dead")
=============================================================================
