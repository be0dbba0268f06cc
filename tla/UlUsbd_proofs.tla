---------------------------- MODULE UlUsbd_proofs ----------------------------
(***************************************************************************)
(* Proofs about UlUsbd, for any number of clients, any size of the USB     *)
(* reads and of the buffers, in both modes: a client receives a piece of   *)
(* the device's stream without gap or repetition, and the main thread      *)
(* never waits for a client that has nothing to say.                       *)
(*                                                                         *)
(* The stream is one chain of bytes, in three places: what a client has    *)
(* read last and what is in its socket, the rest of the reader thread's    *)
(* buffer, and the next byte of the device (Buffer, Flow).  The chain may  *)
(* be cut, that is a buffer be dropped, only where no client holds on to   *)
(* it; this is why it is needed which clients are untouched, and that the  *)
(* descriptor is forgotten between two clients (Untouched, Places).        *)
(***************************************************************************)
EXTENDS UlUsbd, SequenceTheorems, TLAPS

ReaderStates ==
  [at : {"ended", "drain", "read", "check", "write", "closed"}, rest : Seq(Bytes)]

(* What the place of each thread says of the variables both use.           *)
Places ==
  /\ at("close") => uds_client_fd /\ sock # NULL /\ peer[sock] = "left"
  /\ at("forget") => uds_client_fd /\ sock = NULL
  /\ main \in {"dead", "scan"} =>
       /\ reader.at = "ended" /\ ~uds_client_fd /\ backlog = <<>>
       /\ \A c \in Clients : peer[c] = "away"
  /\ reader.at \in {"ended", "drain", "read", "closed"} => reader.rest = <<>>
  /\ reader.at = "write" => reader.rest # <<>>
  /\ at("events") /\ events.accept => backlog # <<>>

(* Who waits in the backlog is neither served nor there twice.             *)
Queue ==
  /\ sock # NULL => peer[sock] # "away"
  /\ \A i \in DOMAIN backlog : backlog[i] # sock /\ peer[backlog[i]] # "away"
  /\ \A i, j \in DOMAIN backlog : backlog[i] = backlog[j] => i = j

(* A client that is not served, or has left, has nothing of the stream,    *)
(* and while the device is drained nobody has.                             *)
Untouched ==
  \A c \in Clients :
    c # sock \/ peer[c] # "open" \/ reader.at = "drain"
      => toPeer[c] = <<>> /\ last[c] = NULL

chained(s) == \A i \in 1 .. Len(s) : i > 1 => s[i] = next(s[i - 1])

(* The rest of the buffer follows without a gap up to the device.          *)
Buffer ==
  /\ chained(reader.rest)
  /\ reader.rest # <<>> => next(reader.rest[Len(reader.rest)]) = pos

(* The byte the client is to get next.                                     *)
ahead == IF reader.rest = <<>> THEN pos ELSE reader.rest[1]

(* What the client has got, last in its socket or read from it, is         *)
(* followed by that byte.                                                  *)
Flow ==
  sock # NULL =>
    /\ toPeer[sock] # <<>> => next(toPeer[sock][Len(toPeer[sock])]) = ahead
    /\ toPeer[sock] = <<>> /\ last[sock] # NULL => next(last[sock]) = ahead

(* The result of poll still holds when it is used.                         *)
Asked ==
  main \in {"events", "read"} /\ uds_client_fd /\ events.client => readable(sock)

IInv ==
  /\ TypeOK
  /\ Places
  /\ Queue
  /\ Untouched
  /\ Buffer
  /\ Flow
  /\ Contiguous
  /\ Asked

-----------------------------------------------------------------------------
(* Counting modulo StreamMod, as far as one read can carry past the end.   *)
LEMMA NextOfSum ==
  ASSUME NEW x \in 0 .. 2 * StreamMod - 2
  PROVE  x % StreamMod \in Bytes /\ next(x % StreamMod) = (x + 1) % StreamMod
<1>0. StreamMod \in Nat /\ StreamMod > 0
  BY UlUsbdAssumption
<1>1. CASE x < StreamMod
  <2>1. x % StreamMod = x
    BY <1>0, <1>1
  <2> QED
    BY <1>0, <1>1, <2>1 DEF Bytes, next
<1>2. CASE x >= StreamMod
  <2>1. x % StreamMod = x - StreamMod
    BY <1>0, <1>2
  <2>2. (x + 1) % StreamMod = x + 1 - StreamMod
    BY <1>0, <1>2
  <2>3. (x - StreamMod + 1) % StreamMod = x - StreamMod + 1
    BY <1>0, <1>2
  <2> QED
    BY <1>0, <1>2, <2>1, <2>2, <2>3 DEF Bytes, next
<1> QED
  BY <1>0, <1>1, <1>2

(* So a USB read returns bytes that follow each other.                     *)
LEMMA RunOfBytes ==
  ASSUME NEW from \in Bytes, NEW n \in 1 .. Chunk
  PROVE  /\ Run(from, n) \in Seq(Bytes)
         /\ Len(Run(from, n)) = n
         /\ Run(from, n)[1] = from
         /\ chained(Run(from, n))
         /\ next(Run(from, n)[n]) = (from + n) % StreamMod
         /\ (from + n) % StreamMod \in Bytes
<1>0. StreamMod \in Nat /\ Chunk \in Nat /\ StreamMod > Chunk
  BY UlUsbdAssumption
<1>1. \A i \in 1 .. n : from + i - 1 \in 0 .. 2 * StreamMod - 2
  BY <1>0 DEF Bytes
<1>2. \A i \in 1 .. n : /\ (from + i - 1) % StreamMod \in Bytes
                        /\ next((from + i - 1) % StreamMod) = (from + i) % StreamMod
  <2> TAKE i \in 1 .. n
  <2>1. from + i - 1 + 1 = from + i
    BY <1>0 DEF Bytes
  <2> QED
    BY <1>1, <2>1, NextOfSum
<1>3. Run(from, n) \in Seq(Bytes) /\ Len(Run(from, n)) = n
  BY <1>0, <1>2 DEF Run
<1>4. Run(from, n)[1] = from
  <2>1. from % StreamMod = from
    BY <1>0 DEF Bytes
  <2>2. from + 1 - 1 = from
    BY <1>0 DEF Bytes
  <2> QED
    BY <1>0, <2>1, <2>2 DEF Run
<1>5. chained(Run(from, n))
  <2> SUFFICES ASSUME NEW i \in 1 .. n, i > 1
               PROVE  Run(from, n)[i] = next(Run(from, n)[i - 1])
    BY <1>3 DEF chained
  <2>1. i - 1 \in 1 .. n /\ from + (i - 1) = from + i - 1
    BY <1>0 DEF Bytes
  <2>2. Run(from, n)[i] = (from + i - 1) % StreamMod
    BY DEF Run
  <2>3. Run(from, n)[i - 1] = (from + (i - 1) - 1) % StreamMod
    BY <2>1 DEF Run
  <2> QED
    BY <1>2, <2>1, <2>2, <2>3
<1>6. next(Run(from, n)[n]) = (from + n) % StreamMod
  BY <1>0, <1>2 DEF Run
<1>7. (from + n) % StreamMod \in Bytes
  BY <1>0 DEF Bytes
<1> QED
  BY <1>3, <1>4, <1>5, <1>6, <1>7

written(s, t, n) == s \o SubSeq(t, 1, n)
unwritten(t, n) == SubSeq(t, n + 1, Len(t))

(* What a write of n bytes of the buffer t to a socket holding s leaves.   *)
LEMMA WriteOfBytes ==
  ASSUME NEW s \in Seq(Bytes), NEW t \in Seq(Bytes), NEW n \in 1 .. Len(t),
         chained(t), chained(s), s # <<>> => next(s[Len(s)]) = t[1]
  PROVE  LET a == written(s, t, n)
             b == unwritten(t, n)
         IN
         /\ a \in Seq(Bytes) /\ b \in Seq(Bytes)
         /\ Len(a) = Len(s) + n
         /\ chained(a) /\ chained(b)
         /\ a[Len(a)] = t[n]
         /\ a[1] = IF s = <<>> THEN t[1] ELSE s[1]
         /\ b = <<>> <=> n = Len(t)
         /\ b # <<>> => b[1] = next(t[n]) /\ b[Len(b)] = t[Len(t)]
<1> DEFINE a == written(s, t, n)
           b == unwritten(t, n)
<1>1. /\ a \in Seq(Bytes) /\ Len(a) = Len(s) + n
      /\ \A i \in 1 .. Len(a) : a[i] = IF i <= Len(s) THEN s[i] ELSE t[i - Len(s)]
  BY DEF written
<1>2. /\ b \in Seq(Bytes) /\ Len(b) = Len(t) - n
      /\ \A i \in 1 .. Len(b) : b[i] = t[i + n]
  BY DEF unwritten
<1> HIDE DEF a, b
<1>3. chained(a)
  <2> SUFFICES ASSUME NEW i \in 1 .. Len(a), i > 1 PROVE a[i] = next(a[i - 1])
    BY <1>1 DEF chained
  <2>1. CASE i <= Len(s)
    <3>1. i \in 1 .. Len(s) /\ i - 1 \in 1 .. Len(a) /\ i - 1 <= Len(s)
      BY <1>1, <2>1
    <3> QED
      BY <1>1, <2>1, <3>1 DEF chained
  <2>2. CASE i = Len(s) + 1
    BY <1>1, <2>2
  <2>3. CASE i > Len(s) + 1
    <3>1. i - Len(s) \in 1 .. Len(t) /\ i - Len(s) > 1 /\ (i - Len(s)) - 1 = i - 1 - Len(s)
      BY <1>1, <2>3
    <3>2. t[i - Len(s)] = next(t[(i - Len(s)) - 1])
      BY <3>1 DEF chained
    <3>3. a[i] = t[i - Len(s)]
      BY <1>1, <2>3
    <3>4. i - 1 \in 1 .. Len(a) /\ ~(i - 1 <= Len(s))
      <4>1. Len(s) \in Nat /\ Len(a) \in Nat
        BY <1>1, LenProperties, Zenon
      <4>2. i \in Int /\ i <= Len(a)
        BY <4>1
      <4> QED
        BY <2>3, <4>1, <4>2
    <3>5. a[i - 1] = t[i - 1 - Len(s)]
      BY <1>1, <3>4
    <3> QED
      BY <3>1, <3>2, <3>3, <3>5
  <2> QED
    BY <1>1, <2>1, <2>2, <2>3
<1>4. chained(b)
  <2> SUFFICES ASSUME NEW i \in 1 .. Len(b), i > 1 PROVE b[i] = next(b[i - 1])
    BY <1>2 DEF chained
  <2>1. i + n \in 1 .. Len(t) /\ i + n > 1 /\ (i + n) - 1 = i - 1 + n
    BY <1>2
  <2>2. t[i + n] = next(t[(i + n) - 1])
    BY <2>1 DEF chained
  <2>3. b[i] = t[i + n] /\ b[i - 1] = t[i - 1 + n]
    <3>1. i \in 1 .. Len(b) /\ i - 1 \in 1 .. Len(b)
      BY <1>2
    <3> QED
      BY <1>2, <3>1
  <2> QED
    BY <2>1, <2>2, <2>3
<1>5. a[Len(a)] = t[n] /\ a[1] = IF s = <<>> THEN t[1] ELSE s[1]
  BY <1>1
<1>6. b = <<>> <=> n = Len(t)
  <2>1. b = <<>> <=> Len(b) = 0
    BY <1>2, EmptySeq, Zenon
  <2> QED
    BY <1>2, <2>1
<1>7. b # <<>> => b[1] = next(t[n]) /\ b[Len(b)] = t[Len(t)]
  <2> HAVE b # <<>>
  <2>1. Len(b) >= 1 /\ n + 1 \in 1 .. Len(t)
    BY <1>2
  <2>2. t[n + 1] = next(t[(n + 1) - 1])
    BY <2>1 DEF chained
  <2>3. b[1] = t[1 + n] /\ b[Len(b)] = t[Len(b) + n]
    <3>1. 1 \in 1 .. Len(b) /\ Len(b) \in 1 .. Len(b)
      BY <1>2, <2>1
    <3> QED
      BY <1>2, <3>1
  <2>4. 1 + n = n + 1 /\ (n + 1) - 1 = n /\ Len(b) + n = Len(t)
    BY <1>2
  <2> QED
    BY <2>2, <2>3, <2>4
<1> QED
  BY <1>1, <1>2, <1>3, <1>4, <1>5, <1>6, <1>7 DEF a, b

-----------------------------------------------------------------------------
(* What an action keeps because it leaves the variables alone.             *)
LEMMA StreamKept ==
  ASSUME IInv, UNCHANGED <<reader, pos, sock, toPeer, last>>,
         sock \in Clients => peer'[sock] = peer[sock]
  PROVE  Untouched' /\ Buffer' /\ Flow' /\ Contiguous'
BY DEF IInv, Untouched, Buffer, Flow, Contiguous, ahead

LEMMA QueueKept ==
  ASSUME IInv, UNCHANGED <<sock, backlog, peer>>
  PROVE  Queue'
BY DEF IInv, Queue

LEMMA AskedKept ==
  ASSUME IInv, UNCHANGED <<main, uds_client_fd, events, sock, peer, fromPeer>>
  PROVE  Asked'
BY DEF IInv, Asked, readable

(* Taking the stream from a client breaks nobody's.                        *)
LEMMA ContiguousKept ==
  ASSUME IInv,
         \A c \in Clients : \/ toPeer'[c] = toPeer[c] /\ last'[c] = last[c]
                            \/ toPeer'[c] = <<>>
  PROVE  Contiguous'
<1> SUFFICES ASSUME NEW c \in Clients, NEW i \in DOMAIN toPeer'[c]
             PROVE  IF i > 1 THEN toPeer'[c][i] = next(toPeer'[c][i - 1])
                    ELSE last'[c] # NULL => toPeer'[c][1] = next(last'[c])
  BY DEF Contiguous
<1>1. CASE toPeer'[c] = <<>>
  BY <1>1
<1>2. CASE toPeer'[c] = toPeer[c] /\ last'[c] = last[c]
  BY <1>2 DEF IInv, Contiguous
<1> QED
  BY <1>1, <1>2

(* The reader thread leaves the main thread's variables alone.             *)
LEMMA ReaderKeeps ==
  ASSUME IInv, readerOnly, reader' \in ReaderStates,
         pos' \in Bytes, toPeer' \in [Clients -> Seq(Bytes)],
         \A c \in Clients : Len(toPeer'[c]) <= SockCap
  PROVE  TypeOK' /\ Queue' /\ Asked'
<1>1. UNCHANGED <<daemonise, main, events, uds_client_fd, sock, backlog, usb,
                 commands, peer, fromPeer, last>>
  BY DEF readerOnly, mainVars
<1>2. TypeOK'
  BY <1>1 DEF IInv, TypeOK, at, ReaderStates
<1> QED
  BY <1>1, <1>2, QueueKept, AskedKept

(* A read goes into an empty buffer.                                       *)
LEMMA UsbReadInv ==
  ASSUME IInv, UsbRead
  PROVE  IInv'
<1>1. PICK n \in 1 .. Chunk : /\ reader' = [at |-> "check", rest |-> Run(pos, n)]
                             /\ pos' = (pos + n) % StreamMod
  BY DEF UsbRead
<1>2. reader.at = "read" /\ reader.rest = <<>> /\ toPeer' = toPeer /\ readerOnly /\ pos \in Bytes
  BY DEF UsbRead, IInv, Places, TypeOK
<1>3. UNCHANGED <<main, uds_client_fd, sock, peer, last, backlog, events>>
  BY <1>2 DEF readerOnly, mainVars
<1>4. /\ Run(pos, n) \in Seq(Bytes)
      /\ Run(pos, n) # <<>>
      /\ Run(pos, n)[1] = pos
      /\ chained(Run(pos, n))
      /\ next(Run(pos, n)[Len(Run(pos, n))]) = pos'
      /\ pos' \in Bytes
  BY <1>1, <1>2, RunOfBytes
<1>5. TypeOK' /\ Queue' /\ Asked'
  BY <1>1, <1>2, <1>4, ReaderKeeps DEF IInv, TypeOK, ReaderStates
<1>6. Places'
  BY <1>1, <1>2, <1>3, <1>4 DEF IInv, Places, at
<1>7. Untouched' /\ Contiguous'
  BY <1>1, <1>2, <1>3 DEF IInv, Untouched, Contiguous
<1>8. Buffer'
  BY <1>1, <1>4 DEF Buffer, chained
<1>9. Flow'
  BY <1>1, <1>2, <1>3, <1>4 DEF IInv, Flow, ahead
<1> QED
  BY <1>5, <1>6, <1>7, <1>8, <1>9 DEF IInv

(* What is drained reaches nobody: the stream a client gets begins later.  *)
LEMMA DrainInv ==
  ASSUME IInv, Drain
  PROVE  IInv'
<1>1. /\ reader.at = "drain" /\ reader.rest = <<>> /\ UNCHANGED toPeer /\ readerOnly
      /\ \/ reader' = reader /\ \E n \in 1 .. Chunk : pos' = (pos + n) % StreamMod
         \/ reader' = [at |-> "read", rest |-> <<>>] /\ pos' = pos
  BY DEF Drain, IInv, Places
<1>2. UNCHANGED <<main, uds_client_fd, sock, peer, last, backlog, events>>
  BY <1>1 DEF readerOnly, mainVars
<1>3. pos' \in Bytes
  BY <1>1, RunOfBytes DEF IInv, TypeOK
<1>4. reader' \in ReaderStates
  BY <1>1, EmptySeq DEF IInv, TypeOK, ReaderStates
<1>5. TypeOK' /\ Queue' /\ Asked'
  BY <1>1, <1>3, <1>4, ReaderKeeps DEF IInv, TypeOK
<1>6. Places'
  BY <1>1, <1>2 DEF IInv, Places, at
<1>7. \A c \in Clients : toPeer[c] = <<>> /\ last[c] = NULL
  BY <1>1 DEF IInv, Untouched
<1>8. Untouched' /\ Buffer' /\ Contiguous'
  BY <1>1, <1>2, <1>7 DEF IInv, Untouched, Buffer, Contiguous, chained
<1>9. Flow'
  BY <1>1, <1>2, <1>7 DEF IInv, TypeOK, Flow
<1> QED
  BY <1>5, <1>6, <1>8, <1>9 DEF IInv

(* When the device is gone there is nothing left to write.                 *)
LEMMA UsbVanishedInv ==
  ASSUME IInv, UsbVanished \/ ThreadEnds
  PROVE  IInv'
<1>1. /\ reader.at \in {"read", "closed"} /\ reader.rest = <<>>
      /\ reader' \in [at : {"closed", "ended"}, rest : {<<>>}]
      /\ UNCHANGED <<pos, toPeer>> /\ readerOnly
  BY DEF UsbVanished, ThreadEnds, IInv, Places, TypeOK
<1>2. UNCHANGED <<main, uds_client_fd, sock, peer, last, backlog, events>>
  BY <1>1 DEF readerOnly, mainVars
<1>3. TypeOK' /\ Queue' /\ Asked'
  BY <1>1, ReaderKeeps DEF IInv, TypeOK, ReaderStates
<1>4. Places'
  BY <1>1, <1>2 DEF IInv, Places, at
<1>5. Untouched' /\ Buffer' /\ Flow' /\ Contiguous'
  BY <1>1, <1>2 DEF IInv, Untouched, Buffer, Flow, Contiguous, ahead, chained
<1> QED
  BY <1>3, <1>4, <1>5 DEF IInv

(* The rest of a buffer is dropped only when nobody is served, or there is *)
(* nothing left.                                                           *)
LEMMA CheckInv ==
  ASSUME IInv, Check
  PROVE  IInv'
<1>1. /\ reader.at = "check" /\ UNCHANGED <<pos, toPeer>> /\ readerOnly
      /\ reader' = IF uds_client_fd /\ reader.rest # <<>>
                 THEN [reader EXCEPT !.at = "write"]
                 ELSE [at |-> "read", rest |-> <<>>]
  BY DEF Check
<1>2. UNCHANGED <<main, uds_client_fd, sock, peer, last, backlog, events>>
  BY <1>1 DEF readerOnly, mainVars
<1>3. TypeOK' /\ Queue' /\ Asked'
  <2>1. reader' \in ReaderStates
    <3>1. CASE uds_client_fd /\ reader.rest # <<>>
      BY <1>1, <3>1 DEF IInv, TypeOK, ReaderStates
    <3>2. CASE ~(uds_client_fd /\ reader.rest # <<>>)
      BY <1>1, <3>2, EmptySeq DEF ReaderStates
    <3> QED
      BY <3>1, <3>2
  <2> QED
    BY <1>1, <2>1, ReaderKeeps DEF IInv, TypeOK
<1>4. Places'
  BY <1>1, <1>2 DEF IInv, Places, at, TypeOK
<1>5. reader'.rest = reader.rest \/ (reader'.rest = <<>> /\ sock = NULL)
  BY <1>1 DEF IInv, TypeOK, Places, at
<1>6. Untouched' /\ Buffer' /\ Flow' /\ Contiguous'
  BY <1>1, <1>2, <1>5 DEF IInv, Untouched, Buffer, Flow, Contiguous, ahead, chained
<1> QED
  BY <1>3, <1>4, <1>6 DEF IInv

(* The bytes written move from the head of the buffer to the socket.  A    *)
(* write that fails reached a client that has left, or none.               *)
LEMMA WriteInv ==
  ASSUME IInv, Write
  PROVE  IInv'
<1>0. reader.at = "write" /\ reader.rest # <<>> /\ UNCHANGED pos /\ readerOnly
  BY DEF Write, IInv, Places
<1>1. UNCHANGED <<main, uds_client_fd, sock, peer, last, backlog, events>>
  BY <1>0 DEF readerOnly, mainVars
<1>2. CASE gone(sock)
  <2>1. toPeer' = toPeer /\ reader' = IF daemonise THEN [reader EXCEPT !.at = "check"]
                         ELSE [at |-> "read", rest |-> <<>>]
    BY <1>2 DEF Write
  <2>2. TypeOK' /\ Queue' /\ Asked'
    <3>1. reader' \in ReaderStates
      <4>1. CASE daemonise
        BY <2>1, <4>1 DEF IInv, TypeOK, ReaderStates
      <4>2. CASE ~daemonise
        BY <2>1, <4>2, EmptySeq DEF ReaderStates
      <4> QED
        BY <4>1, <4>2
    <3> QED
      BY <1>0, <2>1, <3>1, ReaderKeeps DEF IInv, TypeOK
  <2>3. Places'
    BY <1>0, <1>1, <2>1 DEF IInv, Places, at, TypeOK
  <2>4. sock # NULL => sock \in Clients /\ toPeer[sock] = <<>> /\ last[sock] = NULL
    BY <1>2 DEF gone, IInv, TypeOK, Untouched
  <2>5. Untouched' /\ Contiguous'
    BY <1>1, <2>1 DEF IInv, Untouched, Contiguous
  <2>6. Buffer'
    BY <1>0, <2>1 DEF IInv, TypeOK, Buffer, chained
  <2>7. Flow'
    BY <1>1, <2>1, <2>4 DEF Flow
  <2> QED
    BY <2>2, <2>3, <2>5, <2>6, <2>7 DEF IInv
<1>3. CASE ~gone(sock)
  <2> DEFINE s == toPeer[sock]
             t == reader.rest
  <2>1. PICK n \in 1 .. Len(reader.rest) :
         /\ Len(toPeer[sock]) + n <= SockCap
         /\ toPeer' = [toPeer EXCEPT ![sock] = @ \o SubSeq(reader.rest, 1, n)]
         /\ reader' = [at |-> "check",
                       rest |-> SubSeq(reader.rest, n + 1, Len(reader.rest))]
    BY <1>3 DEF Write
  <2>2. sock \in Clients
    BY <1>3 DEF gone, IInv, TypeOK
  <2> DEFINE a == written(s, t, n)
             b == unwritten(t, n)
  <2>3. /\ s \in Seq(Bytes) /\ t \in Seq(Bytes) /\ chained(s) /\ chained(t)
        /\ s # <<>> => next(s[Len(s)]) = t[1]
        /\ s = <<>> /\ last[sock] # NULL => next(last[sock]) = t[1]
        /\ s # <<>> /\ last[sock] # NULL => s[1] = next(last[sock])
        /\ next(t[Len(t)]) = pos
    <3>1. s \in Seq(Bytes) /\ t \in Seq(Bytes)
      BY <2>2 DEF IInv, TypeOK
    <3>2. chained(t) /\ next(t[Len(t)]) = pos
      BY <1>0 DEF IInv, Buffer
    <3>3. sock # NULL
      BY <1>3 DEF gone
    <3>4. /\ s # <<>> => next(s[Len(s)]) = t[1]
          /\ s = <<>> /\ last[sock] # NULL => next(last[sock]) = t[1]
      BY <1>0, <3>3 DEF IInv, Flow, ahead
    <3>5. chained(s)
      <4>1. DOMAIN s = 1 .. Len(s)
        BY <3>1
      <4> QED
        BY <2>2, <4>1 DEF IInv, Contiguous, chained
    <3>6. s # <<>> /\ last[sock] # NULL => s[1] = next(last[sock])
      <4> HAVE s # <<>> /\ last[sock] # NULL
      <4>1. 1 \in DOMAIN s
        BY <3>1
      <4> QED
        BY <2>2, <4>1 DEF IInv, Contiguous
    <3> QED
      BY <3>1, <3>2, <3>4, <3>5, <3>6
  <2>4. /\ a \in Seq(Bytes) /\ b \in Seq(Bytes)
        /\ Len(a) = Len(s) + n
        /\ chained(a) /\ chained(b)
        /\ a[Len(a)] = t[n]
        /\ a[1] = IF s = <<>> THEN t[1] ELSE s[1]
        /\ b = <<>> <=> n = Len(t)
        /\ b # <<>> => b[1] = next(t[n]) /\ b[Len(b)] = t[Len(t)]
    <3>1. n \in 1 .. Len(t)
      OBVIOUS
    <3> HIDE DEF s, t
    <3> QED
      BY <2>3, <3>1, WriteOfBytes
  <2>5. a # <<>>
    BY <2>3, <2>4
  <2>6. /\ toPeer' = [toPeer EXCEPT ![sock] = a]
        /\ toPeer'[sock] = a /\ \A c \in Clients \ {sock} : toPeer'[c] = toPeer[c]
        /\ reader' = [at |-> "check", rest |-> b] /\ Len(a) <= SockCap
    BY <2>1, <2>2, <2>4 DEF IInv, TypeOK, written, unwritten
  <2> HIDE DEF a, b
  <2>7. TypeOK' /\ Queue' /\ Asked'
    <3>1. toPeer' \in [Clients -> Seq(Bytes)] /\ \A c \in Clients : Len(toPeer'[c]) <= SockCap
      BY <2>4, <2>6 DEF IInv, TypeOK
    <3>2. reader' \in ReaderStates /\ pos' \in Bytes
      BY <1>0, <2>4, <2>6 DEF IInv, TypeOK, ReaderStates
    <3> QED
      BY <1>0, <3>1, <3>2, ReaderKeeps
  <2>8. Places'
    BY <1>0, <1>1, <2>6 DEF IInv, Places, at
  <2>9. Untouched'
    BY <1>1, <1>3, <2>6 DEF gone, IInv, Untouched
  <2>10. Buffer'
    BY <1>0, <2>3, <2>4, <2>6 DEF Buffer
  <2>11. Flow'
    BY <1>0, <1>1, <2>3, <2>4, <2>5, <2>6 DEF Flow, ahead
  <2>12. Contiguous'
    <3> SUFFICES ASSUME NEW c \in Clients, NEW i \in DOMAIN toPeer'[c]
                 PROVE  IF i > 1 THEN toPeer'[c][i] = next(toPeer'[c][i - 1])
                        ELSE last'[c] # NULL => toPeer'[c][1] = next(last'[c])
      BY DEF Contiguous
    <3>1. CASE c # sock
      BY <1>1, <2>6, <3>1 DEF IInv, Contiguous
    <3>2. CASE c = sock
      <4>1. i \in 1 .. Len(a) /\ (i > 1 \/ i = 1)
        BY <2>4, <2>6, <3>2
      <4>2. i > 1 => a[i] = next(a[i - 1])
        BY <2>4, <4>1 DEF chained
      <4>3. last[sock] # NULL => a[1] = next(last[sock])
        BY <2>3, <2>4
      <4> QED
        BY <1>1, <2>6, <3>2, <4>2, <4>3
    <3> QED
      BY <3>1, <3>2
  <2> QED
    BY <2>7, <2>8, <2>9, <2>10, <2>11, <2>12 DEF IInv
<1> QED
  BY <1>2, <1>3

-----------------------------------------------------------------------------
(* Actions that neither move a byte nor change who is connected.           *)
LEMMA QuietInv ==
  ASSUME IInv, Poll \/ UsbWrite \/ Launch \/ DeviceReads \/ Plug
  PROVE  IInv'
<1>1. UNCHANGED <<daemonise, uds_client_fd, sock, backlog, reader, pos, peer,
                 toPeer, fromPeer, last>>
  BY DEF Poll, UsbWrite, Launch, DeviceReads, Plug, mainOnly, bootOnly, world, mainVars, peerVars
<1>2. usb' \in BOOLEAN /\ commands' \in 0 .. CmdCap
  <2>1. CASE UsbWrite
    BY <2>1, UlUsbdAssumption DEF IInv, TypeOK, UsbWrite, mainOnly
  <2>2. CASE DeviceReads
    BY <2>2, UlUsbdAssumption DEF IInv, TypeOK, DeviceReads
  <2>3. CASE Poll \/ Launch \/ Plug
    BY <2>3 DEF IInv, TypeOK, Poll, Launch, Plug, mainOnly, bootOnly
  <2> QED
    BY <2>1, <2>2, <2>3
<1>3. \/ UNCHANGED <<main, events>>
      \/ /\ at("poll") /\ main' = "events"
         /\ events' = [accept |-> backlog # <<>>,
                       pipe |-> reader.at \in {"closed", "ended"},
                       client |-> IF uds_client_fd THEN readable(sock) ELSE events.client]
      \/ at("usbwrite") /\ main' = "poll" /\ events' = events
      \/ at("dead") /\ main' = "scan" /\ events' = events
  BY DEF Poll, UsbWrite, Launch, DeviceReads, Plug, goto, bootOnly, world, mainVars
<1>4. TypeOK'
  <2>1. events' \in [accept : BOOLEAN, pipe : BOOLEAN, client : BOOLEAN]
    <3>1. events \in [accept : BOOLEAN, pipe : BOOLEAN, client : BOOLEAN]
      BY DEF IInv, TypeOK
    <3>2. CASE main' = "events" /\ main # "events"
      <4>1. readable(sock) \in BOOLEAN
        BY DEF readable
      <4>2. (IF uds_client_fd THEN readable(sock) ELSE events.client) \in BOOLEAN
        BY <3>1, <4>1
      <4>3. events' = [accept |-> backlog # <<>>,
                       pipe |-> reader.at \in {"closed", "ended"},
                       client |-> IF uds_client_fd THEN readable(sock) ELSE events.client]
        BY <1>3, <3>2
      <4> DEFINE a == backlog # <<>>
                 b == reader.at \in {"closed", "ended"}
                 d == IF uds_client_fd THEN readable(sock) ELSE events.client
      <4>4. a \in BOOLEAN /\ b \in BOOLEAN /\ d \in BOOLEAN
        BY <4>2
      <4>5. events' = [accept |-> a, pipe |-> b, client |-> d]
        BY <4>3
      <4> HIDE DEF a, b, d
      <4> QED
        BY <4>4, <4>5
    <3>3. CASE ~(main' = "events" /\ main # "events")
      BY <1>3, <3>1, <3>3 DEF at
    <3> QED
      BY <3>2, <3>3
  <2>2. /\ main' \in {"dead", "scan", "poll", "events", "read", "usbwrite", "close", "forget"}
        /\ main' = "forget" => at("forget")
        /\ at("forget") => main' = "forget"
    BY <1>3 DEF IInv, TypeOK, at
  <2> QED
    BY <1>1, <1>2, <2>1, <2>2 DEF IInv, TypeOK, at
<1>5. Places'
  <2>1. main' = "events" /\ events'.accept => backlog # <<>>
    <3>1. CASE /\ main' = "events"
               /\ events' = [accept |-> backlog # <<>>,
                             pipe |-> reader.at \in {"closed", "ended"},
                             client |-> IF uds_client_fd THEN readable(sock) ELSE events.client]
      <4>1. events'.accept = (backlog # <<>>)
        BY <3>1, Zenon
      <4> QED
        BY <4>1
    <3> QED
      BY <1>3, <3>1 DEF IInv, Places, at
  <2> QED
    BY <1>1, <1>3, <2>1 DEF IInv, Places, at
<1>6. Queue' /\ Untouched' /\ Buffer' /\ Flow' /\ Contiguous'
  BY <1>1, StreamKept, QueueKept
<1>7. Asked'
  <2>1. CASE UNCHANGED <<main, events>>
    BY <1>1, <2>1, AskedKept
  <2>2. CASE /\ main' = "events"
             /\ events' = [accept |-> backlog # <<>>,
                           pipe |-> reader.at \in {"closed", "ended"},
                           client |-> IF uds_client_fd THEN readable(sock) ELSE events.client]
    <3>1. uds_client_fd => events'.client = readable(sock)
      BY <2>2, Zenon
    <3>2. readable(sock)' = readable(sock)
      BY <1>1 DEF readable
    <3> QED
      BY <1>1, <3>1, <3>2 DEF Asked
  <2> QED
    BY <1>3, <2>1, <2>2 DEF Asked
<1> QED
  BY <1>4, <1>5, <1>6, <1>7 DEF IInv

(* read finds a command or the end of the client.                          *)
LEMMA ReadInv ==
  ASSUME IInv, Read
  PROVE  IInv'
<1>1. /\ UNCHANGED <<daemonise, uds_client_fd, sock, backlog, reader, usb, pos,
                     commands, peer, toPeer, last>>
      /\ at("read") /\ events' = [events EXCEPT !.accept = FALSE]
      /\ main' \in {"poll", "usbwrite", "close"}
      /\ main' = "close" => uds_client_fd /\ events.client /\ peer[sock] = "left"
      /\ \/ UNCHANGED fromPeer
         \/ fromPeer' = [fromPeer EXCEPT ![sock] = 0]
  BY DEF Read, mainOnly, goto
<1>2. TypeOK'
  <2>1. events' \in [accept : BOOLEAN, pipe : BOOLEAN, client : BOOLEAN]
    BY <1>1 DEF IInv, TypeOK
  <2>2. fromPeer' \in [Clients -> 0 .. CmdCap]
    <3>1. fromPeer \in [Clients -> 0 .. CmdCap] /\ 0 \in 0 .. CmdCap
      BY UlUsbdAssumption DEF IInv, TypeOK
    <3> QED
      BY <1>1, <3>1, Zenon
  <2> QED
    BY <1>1, <2>1, <2>2 DEF IInv, TypeOK, at
<1>3. Places'
  BY <1>1 DEF IInv, TypeOK, Places, at
<1>4. Queue' /\ Untouched' /\ Buffer' /\ Flow' /\ Contiguous'
  BY <1>1, StreamKept, QueueKept
<1>5. Asked'
  BY <1>1 DEF Asked
<1> QED
  BY <1>2, <1>3, <1>4, <1>5 DEF IInv

(* The end of the process ends every connection.                           *)
LEMMA HangUpInv ==
  ASSUME IInv, CloseDown \/ UsbWriteFails
  PROVE  IInv'
<1>1. hangUp /\ UNCHANGED <<daemonise, usb, pos, commands>>
  BY DEF CloseDown, UsbWriteFails, mainOnly
<1>2. TypeOK'
  <2>1. /\ <<>> \in Seq(Bytes) /\ <<>> \in Seq(Clients) /\ Len(<<>>) <= SockCap /\ 0 \in 0 .. CmdCap
        /\ reader' \in ReaderStates
        /\ events' \in [accept : BOOLEAN, pipe : BOOLEAN, client : BOOLEAN]
    BY <1>1, UlUsbdAssumption, EmptySeq DEF hangUp, NoEvents, ReaderStates
  <2>2. /\ peer' \in [Clients -> {"away", "open", "left"}] /\ toPeer' \in [Clients -> Seq(Bytes)]
        /\ fromPeer' \in [Clients -> 0 .. CmdCap] /\ last' \in [Clients -> Bytes \cup {NULL}]
        /\ \A c \in Clients : Len(toPeer'[c]) <= SockCap
    BY <1>1, <2>1 DEF hangUp
  <2> QED
    BY <1>1, <2>1, <2>2 DEF IInv, TypeOK, at, goto, hangUp
<1>3. Places' /\ Queue'
  BY <1>1 DEF Places, Queue, at, goto, hangUp, NoEvents
<1>4. Untouched' /\ Buffer' /\ Flow' /\ Contiguous'
  BY <1>1, <1>2 DEF TypeOK, Untouched, Buffer, Flow, Contiguous, chained, hangUp
<1>5. Asked'
  BY <1>1 DEF Asked, goto, hangUp
<1> QED
  BY <1>2, <1>3, <1>4, <1>5 DEF IInv

(* What comes of the client at the head of the backlog.                    *)
LEMMA HeadOfBacklog ==
  ASSUME IInv, backlog # <<>>
  PROVE  /\ Head(backlog) \in Clients
         /\ Head(backlog) # sock
         /\ peer[Head(backlog)] # "away"
         /\ Tail(backlog) \in Seq(Clients)
         /\ \A i \in DOMAIN Tail(backlog) :
              /\ i + 1 \in DOMAIN backlog
              /\ Tail(backlog)[i] = backlog[i + 1]
              /\ Tail(backlog)[i] # Head(backlog)
<1>1. backlog \in Seq(Clients) /\ 1 \in DOMAIN backlog /\ Head(backlog) = backlog[1]
  BY DEF IInv, TypeOK
<1>2. Head(backlog) \in Clients /\ Head(backlog) # sock /\ peer[Head(backlog)] # "away"
  BY <1>1 DEF IInv, Queue
<1>3. /\ Tail(backlog) \in Seq(Clients) /\ Len(Tail(backlog)) = Len(backlog) - 1
      /\ \A i \in 1 .. Len(Tail(backlog)) : Tail(backlog)[i] = backlog[i + 1]
  BY <1>1, HeadTailProperties
<1>4. \A i \in DOMAIN Tail(backlog) :
        i + 1 \in DOMAIN backlog /\ i + 1 # 1 /\ Tail(backlog)[i] = backlog[i + 1]
  BY <1>1, <1>3
<1>5. \A i \in DOMAIN Tail(backlog) : Tail(backlog)[i] # Head(backlog)
  BY <1>1, <1>4 DEF IInv, Queue
<1> QED
  BY <1>2, <1>3, <1>4, <1>5

(* close leaves a client without a connection and the others alone.        *)
LEMMA Shut ==
  ASSUME IInv, NEW c \in Clients, shut(c)
  PROVE  /\ peer' \in [Clients -> {"away", "open", "left"}]
         /\ toPeer' \in [Clients -> Seq(Bytes)]
         /\ \A d \in Clients : Len(toPeer'[d]) <= SockCap
         /\ fromPeer' \in [Clients -> 0 .. CmdCap]
         /\ last' \in [Clients -> Bytes \cup {NULL}]
         /\ peer'[c] = "away" /\ toPeer'[c] = <<>> /\ last'[c] = NULL
         /\ \A d \in Clients \ {c} :
              /\ peer'[d] = peer[d] /\ toPeer'[d] = toPeer[d]
              /\ fromPeer'[d] = fromPeer[d] /\ last'[d] = last[d]
<1>1. peer' \in [Clients -> {"away", "open", "left"}] /\ fromPeer' \in [Clients -> 0 .. CmdCap]
  BY UlUsbdAssumption DEF IInv, TypeOK, shut
<1>2. toPeer' \in [Clients -> Seq(Bytes)] /\ last' \in [Clients -> Bytes \cup {NULL}]
  BY EmptySeq DEF IInv, TypeOK, shut
<1>3. /\ peer'[c] = "away" /\ toPeer'[c] = <<>> /\ last'[c] = NULL
      /\ \A d \in Clients \ {c} :
              /\ peer'[d] = peer[d] /\ toPeer'[d] = toPeer[d]
              /\ fromPeer'[d] = fromPeer[d] /\ last'[d] = last[d]
  BY DEF IInv, TypeOK, shut
<1>4. \A d \in Clients : Len(toPeer'[d]) <= SockCap
  <2>1. Len(toPeer'[c]) <= SockCap
    BY <1>3, UlUsbdAssumption
  <2> QED
    BY <1>3, <2>1 DEF IInv, TypeOK
<1> QED
  BY <1>1, <1>2, <1>3, <1>4

(* A client is accepted only while no other socket is open.                *)
LEMMA AcceptInv ==
  ASSUME IInv, Accept
  PROVE  IInv'
<1>1. /\ at("events") /\ main' = "read"
      /\ UNCHANGED <<daemonise, reader, usb, pos, commands>>
  BY DEF Accept, mainOnly, goto
<1>2. uds_client_fd <=> sock # NULL
  BY <1>1 DEF IInv, TypeOK, at
<1>3. CASE ~events.accept
  <2>1. UNCHANGED <<uds_client_fd, sock, backlog, events, peer, toPeer, fromPeer, last>>
    BY <1>3 DEF Accept, peerVars
  <2>2. TypeOK'
    BY <1>1, <1>2, <2>1 DEF IInv, TypeOK, at
  <2>3. Places'
    BY <1>1, <2>1 DEF IInv, Places, at
  <2>4. Queue' /\ Untouched' /\ Buffer' /\ Flow' /\ Contiguous'
    BY <1>1, <2>1, StreamKept, QueueKept
  <2>5. Asked'
    BY <1>1, <2>1 DEF IInv, Asked, at, readable
  <2> QED
    BY <2>2, <2>3, <2>4, <2>5 DEF IInv
<1>4. CASE events.accept
  <2> DEFINE h == Head(backlog)
             q == Tail(backlog)
  <2>1. backlog # <<>>
    BY <1>1, <1>4 DEF IInv, Places
  <2>2. /\ h \in Clients /\ h # sock /\ peer[h] # "away" /\ q \in Seq(Clients)
        /\ \A i \in DOMAIN q : i + 1 \in DOMAIN backlog /\ q[i] = backlog[i + 1] /\ q[i] # h
    BY <2>1, HeadOfBacklog
  <2>3. backlog' = q
    BY <1>4 DEF Accept
  <2> HIDE DEF h, q
  <2>4. \A i, j \in DOMAIN q : q[i] = q[j] => i = j
    <3> SUFFICES ASSUME NEW i \in DOMAIN q, NEW j \in DOMAIN q, q[i] = q[j] PROVE i = j
      OBVIOUS
    <3>1. i + 1 = j + 1
      BY <2>2 DEF IInv, Queue
    <3>2. i \in Nat /\ j \in Nat
      BY <2>2
    <3> QED
      BY <3>1, <3>2
  <2>5. CASE uds_client_fd
    <3>1. shut(h) /\ UNCHANGED <<uds_client_fd, sock, events>>
      BY <1>4, <2>5 DEF Accept, h
    <3>2. TypeOK'
      BY <1>1, <1>2, <2>2, <2>3, <3>1, Shut DEF IInv, TypeOK, at
    <3>3. Places'
      BY <1>1, <2>3, <3>1 DEF IInv, Places, at
    <3>4. Queue'
      BY <2>2, <2>3, <2>4, <3>1, Shut DEF IInv, TypeOK, Queue
    <3>5. Untouched' /\ Flow' /\ Contiguous'
      <4>1. /\ toPeer'[h] = <<>> /\ last'[h] = NULL /\ peer'[h] = "away"
            /\ \A d \in Clients \ {h} :
                 toPeer'[d] = toPeer[d] /\ last'[d] = last[d] /\ peer'[d] = peer[d]
        BY <2>2, <3>1, Shut
      <4>2. Untouched'
        BY <1>1, <3>1, <4>1 DEF IInv, Untouched
      <4>3. Flow'
        BY <1>1, <2>2, <3>1, <4>1 DEF IInv, TypeOK, Flow, ahead
      <4>4. Contiguous'
        BY <4>1, ContiguousKept
      <4> QED
        BY <4>2, <4>3, <4>4
    <3>6. Buffer'
      BY <1>1 DEF IInv, Buffer
    <3>7. Asked'
      BY <1>1, <1>2, <2>2, <2>5, <3>1, Shut DEF IInv, TypeOK, Asked, at, readable
    <3> QED
      BY <3>2, <3>3, <3>4, <3>5, <3>6, <3>7 DEF IInv
  <2>6. CASE ~uds_client_fd
    <3>1. /\ uds_client_fd' = TRUE /\ sock' = h
          /\ events' = [events EXCEPT !.client = FALSE]
          /\ UNCHANGED <<peer, toPeer, fromPeer, last>>
      BY <1>4, <2>6 DEF Accept, h, peerVars
    <3>2. sock = NULL /\ toPeer[h] = <<>> /\ last[h] = NULL /\ h # NULL
      BY <1>2, <2>2, <2>6, UlUsbdAssumption DEF IInv, Untouched
    <3>3. TypeOK'
      BY <1>1, <2>2, <2>3, <3>1, <3>2 DEF IInv, TypeOK, at
    <3>4. Places'
      BY <1>1, <2>3, <3>1 DEF IInv, Places, at
    <3>5. Queue'
      BY <2>2, <2>3, <2>4, <3>1 DEF IInv, Queue
    <3>6. Untouched' /\ Flow' /\ Contiguous'
      <4>1. Untouched'
        BY <3>1, <3>2, UlUsbdAssumption DEF IInv, Untouched
      <4>2. Flow'
        BY <3>1, <3>2 DEF Flow
      <4>3. Contiguous'
        BY <3>1, ContiguousKept
      <4> QED
        BY <4>1, <4>2, <4>3
    <3>7. Buffer'
      BY <1>1 DEF IInv, Buffer
    <3>8. Asked'
      BY <3>1 DEF IInv, TypeOK, Asked
    <3> QED
      BY <3>3, <3>4, <3>5, <3>6, <3>7, <3>8 DEF IInv
  <2> QED
    BY <2>5, <2>6
<1> QED
  BY <1>3, <1>4

(* Closing the socket leaves nobody served, for a while with uds_client_fd *)
(* still set.                                                              *)
LEMMA CloseInv ==
  ASSUME IInv, Close
  PROVE  IInv'
<1>1. /\ at("close") /\ main' = "forget" /\ sock' = NULL /\ shut(sock)
      /\ UNCHANGED <<daemonise, events, uds_client_fd, backlog, reader, usb, pos, commands>>
  BY DEF Close, mainOnly, goto
<1>2. sock \in Clients /\ uds_client_fd
  BY <1>1 DEF IInv, TypeOK, Places
<1>3. TypeOK'
  BY <1>1, <1>2, Shut DEF IInv, TypeOK, at
<1>4. Places'
  BY <1>1, <1>2 DEF IInv, Places, at
<1>5. Queue'
  BY <1>1, <1>2, Shut, UlUsbdAssumption DEF IInv, TypeOK, Queue
<1>6. Untouched'
  BY <1>1, <1>2, Shut DEF IInv, Untouched
<1>7. Buffer' /\ Flow' /\ Asked'
  BY <1>1 DEF IInv, Buffer, Flow, Asked
<1>8. Contiguous'
  BY <1>1, <1>2, Shut, ContiguousKept
<1> QED
  BY <1>3, <1>4, <1>5, <1>6, <1>7, <1>8 DEF IInv

(* The descriptor is forgotten before another client can get it.           *)
LEMMA ForgetInv ==
  ASSUME IInv, Forget
  PROVE  IInv'
<1>1. /\ at("forget") /\ main' = "poll" /\ uds_client_fd' = FALSE
      /\ UNCHANGED <<daemonise, events, sock, backlog, reader, usb, pos, commands,
                     peer, toPeer, fromPeer, last>>
  BY DEF Forget, mainOnly, goto, peerVars
<1>2. TypeOK' /\ Places'
  BY <1>1 DEF IInv, TypeOK, Places, at
<1>3. Queue' /\ Untouched' /\ Buffer' /\ Flow' /\ Contiguous'
  BY <1>1, StreamKept, QueueKept
<1>4. Asked'
  BY <1>1 DEF Asked
<1> QED
  BY <1>2, <1>3, <1>4 DEF IInv

(* A process starts with nobody connected.                                 *)
LEMMA ScanInv ==
  ASSUME IInv, Scan
  PROVE  IInv'
<1>1. /\ at("scan") /\ main' \in {"poll", "dead"}
      /\ reader' = reader \/ reader' = [at |-> "drain", rest |-> <<>>]
      /\ main' = "dead" => reader' = reader
      /\ commands' = 0
      /\ UNCHANGED <<daemonise, events, uds_client_fd, sock, backlog, usb, pos,
                     peer, toPeer, fromPeer, last>>
  BY DEF Scan, bootOnly, goto, peerVars
<1>2. reader.rest = <<>> /\ reader'.rest = <<>> /\ sock = NULL
  BY <1>1 DEF IInv, TypeOK, Places, at
<1>3. TypeOK'
  <2>1. reader' \in ReaderStates
    <3>1. CASE reader' = reader
      BY <3>1 DEF IInv, TypeOK, ReaderStates
    <3>2. CASE reader' = [at |-> "drain", rest |-> <<>>]
      BY <3>2, EmptySeq DEF ReaderStates
    <3> QED
      BY <1>1, <3>1, <3>2
  <2>2. commands' \in 0 .. CmdCap
    BY <1>1, UlUsbdAssumption
  <2> QED
    BY <1>1, <2>1, <2>2 DEF IInv, TypeOK, at, ReaderStates
<1>4. Places'
  BY <1>1 DEF IInv, Places, at
<1>5. Queue'
  BY <1>1, QueueKept
<1>6. Buffer' /\ Flow' /\ Contiguous' /\ Asked'
  BY <1>1, <1>2 DEF IInv, Buffer, Flow, Contiguous, Asked, chained
<1>7. Untouched'
  <2>1. \A c \in Clients : peer[c] # "open"
    BY <1>1 DEF IInv, Places, at
  <2> QED
    BY <1>1, <2>1 DEF IInv, Untouched
<1> QED
  BY <1>3, <1>4, <1>5, <1>6, <1>7 DEF IInv

-----------------------------------------------------------------------------
(* What the clients do                                                     *)

(* A client that connects was not connected.                               *)
LEMMA ConnectInv ==
  ASSUME IInv, NEW c \in Clients, Connect(c)
  PROVE  IInv'
<1>1. /\ peer[c] = "away" /\ main \notin {"dead", "scan"}
      /\ peer' = [peer EXCEPT ![c] = "open"] /\ backlog' = Append(backlog, c)
      /\ UNCHANGED <<toPeer, fromPeer, last, daemonise, main, events, uds_client_fd,
                     sock, reader, usb, pos, commands>>
  BY DEF Connect, usbVars
<1>2. c # sock
  BY <1>1, UlUsbdAssumption DEF IInv, Queue
<1>3. /\ backlog \in Seq(Clients) /\ backlog' \in Seq(Clients) /\ backlog' # <<>>
      /\ Len(backlog') = Len(backlog) + 1
      /\ \A i \in 1 .. Len(backlog) : backlog'[i] = backlog[i] /\ backlog[i] # c
      /\ backlog'[Len(backlog) + 1] = c
  <2>1. backlog \in Seq(Clients)
    BY DEF IInv, TypeOK
  <2>2. \A i \in 1 .. Len(backlog) : backlog[i] # c
    BY <1>1, <2>1 DEF IInv, Queue
  <2> QED
    BY <1>1, <2>1, <2>2, AppendProperties
<1>4. TypeOK'
  BY <1>1, <1>3 DEF IInv, TypeOK, at
<1>5. Places'
  <2>1. sock # NULL => peer'[sock] = peer[sock]
    BY <1>1, <1>2 DEF IInv, TypeOK
  <2> QED
    BY <1>1, <1>3, <2>1 DEF IInv, Places, at
<1>6. Queue'
  <2>1. /\ \A d \in Clients : peer[d] # "away" => peer'[d] # "away"
        /\ peer'[c] # "away"
    BY <1>1 DEF IInv, TypeOK
  <2>2. sock' # NULL => peer'[sock'] # "away"
    BY <1>1, <2>1 DEF IInv, TypeOK, Queue
  <2>3. \A i \in 1 .. Len(backlog) + 1 : backlog'[i] # sock /\ peer'[backlog'[i]] # "away"
    <3> TAKE i \in 1 .. Len(backlog) + 1
    <3>1. CASE i = Len(backlog) + 1
      BY <1>2, <1>3, <2>1, <3>1
    <3>2. CASE i # Len(backlog) + 1
      <4>1. i \in 1 .. Len(backlog)
        BY <1>3, <3>2
      <4>2. backlog'[i] = backlog[i] /\ backlog[i] \in Clients
        BY <1>3, <4>1
      <4>3. backlog[i] # sock /\ peer[backlog[i]] # "away"
        BY <1>3, <4>1 DEF IInv, Queue
      <4> QED
        BY <2>1, <4>2, <4>3
    <3> QED
      BY <3>1, <3>2
  <2>4. \A i, j \in 1 .. Len(backlog) + 1 : backlog'[i] = backlog'[j] => i = j
    <3> SUFFICES ASSUME NEW i \in 1 .. Len(backlog) + 1, NEW j \in 1 .. Len(backlog) + 1,
                        backlog'[i] = backlog'[j]
                 PROVE  i = j
      OBVIOUS
    <3>1. \A k \in 1 .. Len(backlog) + 1 : k = Len(backlog) + 1 \/ k \in 1 .. Len(backlog)
      BY <1>3
    <3>2. CASE i \in 1 .. Len(backlog) /\ j \in 1 .. Len(backlog)
      BY <1>3, <3>2 DEF IInv, Queue
    <3> QED
      BY <1>3, <3>1, <3>2
  <2>5. DOMAIN backlog' = 1 .. Len(backlog) + 1
    BY <1>3
  <2> QED
    BY <1>1, <2>2, <2>3, <2>4, <2>5 DEF Queue
<1>7. Untouched' /\ Buffer' /\ Flow' /\ Contiguous'
  BY <1>1, <1>2, StreamKept DEF IInv, TypeOK
<1>8. Asked'
  BY <1>1, <1>2 DEF IInv, TypeOK, Asked, readable
<1> QED
  BY <1>4, <1>5, <1>6, <1>7, <1>8 DEF IInv

(* Only the client served has bytes to read; the head of its socket is the *)
(* new last byte.                                                          *)
LEMMA PeerReadsInv ==
  ASSUME IInv, NEW c \in Clients, PeerReads(c)
  PROVE  IInv'
<1> DEFINE s == toPeer[c]
<1>1. /\ peer[c] = "open" /\ s # <<>>
      /\ last' = [last EXCEPT ![c] = Head(s)] /\ toPeer' = [toPeer EXCEPT ![c] = Tail(s)]
      /\ UNCHANGED <<usb, commands, peer, fromPeer, daemonise, main, events, uds_client_fd,
                     sock, backlog, reader, pos>>
  BY DEF PeerReads, world, mainVars
<1>2. c = sock /\ sock # NULL /\ s \in Seq(Bytes) /\ Len(s) <= SockCap
  BY <1>1, UlUsbdAssumption DEF IInv, TypeOK, Untouched
<1>3. /\ Head(s) \in Bytes /\ Head(s) = s[1] /\ Tail(s) \in Seq(Bytes)
      /\ Len(Tail(s)) = Len(s) - 1
      /\ \A i \in 1 .. Len(Tail(s)) : Tail(s)[i] = s[i + 1]
      /\ Tail(s) = <<>> <=> Len(s) = 1
  <2> HIDE DEF s
  <2>1. /\ Head(s) \in Bytes /\ Tail(s) \in Seq(Bytes)
        /\ Len(Tail(s)) = Len(s) - 1
        /\ \A i \in 1 .. Len(Tail(s)) : Tail(s)[i] = s[i + 1]
    BY <1>1, <1>2, HeadTailProperties
  <2>2. Tail(s) = <<>> <=> Len(Tail(s)) = 0
    BY <2>1, EmptySeq, Zenon
  <2>3. Head(s) = s[1] /\ Len(s) \in Nat
    BY <1>2
  <2> QED
    BY <2>1, <2>2, <2>3
<1>4. /\ toPeer'[c] = Tail(s) /\ last'[c] = Head(s)
      /\ \A d \in Clients \ {c} : toPeer'[d] = toPeer[d] /\ last'[d] = last[d]
  BY <1>1 DEF IInv, TypeOK
<1>5. TypeOK'
  <2>1. toPeer' \in [Clients -> Seq(Bytes)] /\ last' \in [Clients -> Bytes \cup {NULL}]
    BY <1>1, <1>3 DEF IInv, TypeOK
  <2>2. Len(Tail(s)) <= SockCap
    BY <1>2, <1>3, UlUsbdAssumption
  <2>3. \A d \in Clients : Len(toPeer'[d]) <= SockCap
    BY <1>4, <2>2 DEF IInv, TypeOK
  <2> HIDE DEF s
  <2> QED
    BY <1>1, <2>1, <2>3 DEF IInv, TypeOK, at
<1>6. Places' /\ Queue'
  BY <1>1 DEF IInv, Places, Queue, at
<1>7. Untouched' /\ Buffer'
  BY <1>1, <1>2, <1>4 DEF IInv, Untouched, Buffer
<1>8. \A i \in 1 .. Len(s) : i > 1 => s[i] = next(s[i - 1])
  BY <1>2 DEF IInv, Contiguous
<1>9. Flow'
  <2>1. next(s[Len(s)]) = ahead
    BY <1>1, <1>2 DEF IInv, Flow
  <2>2. Tail(s) # <<>> => Tail(s)[Len(Tail(s))] = s[Len(s)]
    <3> HIDE DEF s
    <3> HAVE Tail(s) # <<>>
    <3>1. Len(s) \in Nat /\ Len(s) > 1
      BY <1>1, <1>2, <1>3, EmptySeq
    <3> QED
      BY <1>3, <3>1
  <2>3. Tail(s) = <<>> => Head(s) = s[Len(s)]
    BY <1>3
  <2>4. ahead' = ahead
    BY <1>1 DEF ahead
  <2> HIDE DEF s
  <2> QED
    BY <1>1, <1>2, <1>4, <2>1, <2>2, <2>3, <2>4 DEF Flow
<1>10. Contiguous'
  <2> SUFFICES ASSUME NEW d \in Clients, NEW i \in DOMAIN toPeer'[d]
               PROVE  IF i > 1 THEN toPeer'[d][i] = next(toPeer'[d][i - 1])
                      ELSE last'[d] # NULL => toPeer'[d][1] = next(last'[d])
    BY DEF Contiguous
  <2> HIDE DEF s
  <2>1. CASE d # c
    BY <1>4, <2>1 DEF IInv, Contiguous
  <2>2. CASE d = c
    <3>1. i \in 1 .. Len(Tail(s)) /\ Len(s) \in Nat /\ i + 1 \in 1 .. Len(s) /\ i + 1 > 1
      BY <1>2, <1>3, <1>4, <2>2
    <3>2. Tail(s)[i] = next(s[i])
      BY <1>3, <1>8, <3>1
    <3>3. i > 1 => i - 1 \in 1 .. Len(Tail(s)) /\ Tail(s)[i - 1] = s[i]
      BY <1>3, <3>1
    <3> QED
      BY <1>3, <1>4, <2>2, <3>1, <3>2, <3>3
  <2> QED
    BY <2>1, <2>2
<1>11. Asked'
  BY <1>1, AskedKept
<1> QED
  BY <1>5, <1>6, <1>7, <1>9, <1>10, <1>11 DEF IInv

(* A client that has something to say keeps having it.                     *)
LEMMA PeerWritesInv ==
  ASSUME IInv, NEW c \in Clients, PeerWrites(c)
  PROVE  IInv'
<1>1. /\ fromPeer[c] < CmdCap /\ fromPeer' = [fromPeer EXCEPT ![c] = @ + 1]
      /\ UNCHANGED <<usb, commands, peer, toPeer, last, daemonise, main, events, uds_client_fd,
                     sock, backlog, reader, pos>>
  BY DEF PeerWrites, world, mainVars
<1>2. fromPeer' \in [Clients -> 0 .. CmdCap] /\ \A d \in Clients : fromPeer'[d] >= fromPeer[d]
  BY <1>1, UlUsbdAssumption DEF IInv, TypeOK
<1>3. TypeOK'
  BY <1>1, <1>2 DEF IInv, TypeOK, at
<1>4. Places'
  BY <1>1 DEF IInv, Places, at
<1>5. Queue' /\ Untouched' /\ Buffer' /\ Flow' /\ Contiguous'
  BY <1>1, StreamKept, QueueKept
<1>6. Asked'
  BY <1>1, <1>2, UlUsbdAssumption DEF IInv, TypeOK, Asked, readable
<1> QED
  BY <1>3, <1>4, <1>5, <1>6 DEF IInv

(* A client that leaves takes what it has got with it.                     *)
LEMMA LeaveInv ==
  ASSUME IInv, NEW c \in Clients, Leave(c)
  PROVE  IInv'
<1>1. /\ peer[c] = "open" /\ peer' = [peer EXCEPT ![c] = "left"]
      /\ toPeer' = [toPeer EXCEPT ![c] = <<>>] /\ last' = [last EXCEPT ![c] = NULL]
      /\ UNCHANGED <<usb, commands, fromPeer, daemonise, main, events, uds_client_fd,
                     sock, backlog, reader, pos>>
  BY DEF Leave, world, mainVars
<1>2. /\ peer'[c] = "left" /\ toPeer'[c] = <<>> /\ last'[c] = NULL
      /\ \A d \in Clients \ {c} :
           peer'[d] = peer[d] /\ toPeer'[d] = toPeer[d] /\ last'[d] = last[d]
  BY <1>1 DEF IInv, TypeOK
<1>3. TypeOK'
  <2>1. /\ peer' \in [Clients -> {"away", "open", "left"}]
        /\ last' \in [Clients -> Bytes \cup {NULL}]
        /\ toPeer' \in [Clients -> Seq(Bytes)]
    BY <1>1, EmptySeq DEF IInv, TypeOK
  <2>2. Len(toPeer'[c]) <= SockCap
    BY <1>2, UlUsbdAssumption
  <2>3. \A d \in Clients : Len(toPeer'[d]) <= SockCap
    BY <1>2, <2>2 DEF IInv, TypeOK
  <2> QED
    BY <1>1, <2>1, <2>3 DEF IInv, TypeOK, at
<1>4. Places'
  BY <1>1, <1>2 DEF IInv, TypeOK, Places, at
<1>5. Queue'
  BY <1>1, <1>2 DEF IInv, TypeOK, Queue
<1>6. Untouched'
  BY <1>1, <1>2 DEF IInv, Untouched
<1>7. Buffer'
  BY <1>1 DEF IInv, Buffer
<1>8. Flow'
  BY <1>1, <1>2 DEF IInv, TypeOK, Flow, ahead
<1>9. Contiguous'
  BY <1>2, ContiguousKept
<1>10. Asked'
  BY <1>1, <1>2 DEF IInv, TypeOK, Asked, readable
<1> QED
  BY <1>3, <1>4, <1>5, <1>6, <1>7, <1>8, <1>9, <1>10 DEF IInv

-----------------------------------------------------------------------------
(* The invariant holds at first, and every step keeps it.                  *)
LEMMA InitInv == Init => IInv
<1> SUFFICES ASSUME Init PROVE IInv
  OBVIOUS
<1>1. /\ <<>> \in Seq(Bytes) /\ <<>> \in Seq(Clients) /\ Len(<<>>) <= SockCap
      /\ 0 \in 0 .. CmdCap /\ 0 \in Bytes
      /\ reader \in ReaderStates
  BY UlUsbdAssumption, EmptySeq DEF Init, Bytes, ReaderStates
<1>2. TypeOK
  BY <1>1, UlUsbdAssumption DEF Init, TypeOK, NoEvents, at
<1>3. Places /\ Queue /\ Untouched /\ Flow /\ Asked
  BY DEF Init, Places, Queue, Untouched, Flow, Asked, at
<1>4. Buffer /\ Contiguous
  BY DEF Init, Buffer, Contiguous, chained
<1> QED
  BY <1>2, <1>3, <1>4 DEF IInv

LEMMA StepInv == IInv /\ [Next]_vars => IInv'
<1> SUFFICES ASSUME IInv, [Next]_vars PROVE IInv'
  OBVIOUS
<1>1. CASE Reader
  BY <1>1, DrainInv, UsbReadInv, UsbVanishedInv, CheckInv, WriteInv DEF Reader
<1>2. CASE MainLoop
  BY <1>2, QuietInv, HangUpInv, AcceptInv, ReadInv, CloseInv, ForgetInv DEF MainLoop
<1>3. CASE Launch \/ Scan \/ DeviceReads \/ Plug
  BY <1>3, QuietInv, ScanInv
<1>4. CASE \E c \in Clients : Connect(c) \/ PeerReads(c) \/ PeerWrites(c) \/ Leave(c)
  BY <1>4, ConnectInv, PeerReadsInv, PeerWritesInv, LeaveInv
<1>5. CASE UNCHANGED vars
  BY <1>5 DEF vars, mainVars, usbVars, peerVars, IInv, TypeOK, Places, Queue, Untouched,
              Buffer, Flow, Contiguous, Asked, ahead, readable, at
<1> QED
  BY <1>1, <1>2, <1>3, <1>4, <1>5 DEF Next

(* The inductive invariant is an invariant.                                *)
THEOREM Invariant == Spec => []IInv
BY InitInv, StepInv, PTL DEF Spec

(* Every variable keeps its type.                                          *)
THEOREM TypeCorrect == Spec => []TypeOK
<1>1. IInv => TypeOK
  BY DEF IInv
<1> QED
  BY <1>1, Invariant, PTL

(* What a client receives is a piece of the device's stream: the     *)
(* reader thread may be halfway through a buffer when uds_client_fd        *)
(* changes under it.                                                       *)
THEOREM StreamIsContiguous == Spec => []Contiguous
<1>1. IInv => Contiguous
  BY DEF IInv
<1> QED
  BY <1>1, Invariant, PTL

(* The main thread reads from a client only what is there, though revents  *)
(* may be left from another client.                                        *)
THEOREM MainThreadHears == Spec => []NeverDeaf
<1>1. IInv => NeverDeaf
  BY DEF IInv, Asked, NeverDeaf, at
<1> QED
  BY <1>1, Invariant, PTL
=============================================================================
