---------------------------- MODULE Daemon_proofs ----------------------------
(***************************************************************************)
(* Proofs about Daemon, for any number of clients and keys: the table of   *)
(* descriptors stays that of the open sockets and streams, whatever        *)
(* callbacks and commands change it, and no work CONTROL has left over     *)
(* waits in a poll that does not end.                                      *)
(*                                                                         *)
(* Adding to the table, removing from it and asking for POLLOUT each keep  *)
(* a table that fits the sockets, the streams and the clients with         *)
(* something to be written (Fits).  Work is left over only when a call of  *)
(* CONTROL ends with an error, and then the client it failed on is marked  *)
(* with its answer still to be written, or when a client sent several      *)
(* lines, and then the answer to the last one read has still to be written *)
(* (Sleep); during a pass this holds of every client whose turn is over    *)
(* (Pass).                                                                 *)
(***************************************************************************)
EXTENDS Daemon, SequenceTheorems, FiniteSetTheorems, TLAPS

Entries == [fd : Fds, out : BOOLEAN]
Owners(table) == {table[i].fd : i \in DOMAIN table}
Once(table) == \A i, j \in DOMAIN table : table[i].fd = table[j].fd => i = j
Marked(table, fds) == \A i \in DOMAIN table : table[i].out <=> table[i].fd \in fds

(* A table with one entry for each of fds, POLLOUT for those in writers.   *)
Fits(table, fds, writers) ==
  /\ table \in Seq(Entries)
  /\ Owners(table) = fds
  /\ Once(table)
  /\ Marked(table, writers)

Table == Fits(ekeyfd_pollfd, controlsockets \cup streams, ctlwritebuffers)

Revents ==
  /\ revents \in Seq(BOOLEAN)
  /\ pc = "walk" => Len(revents) >= Len(ekeyfd_pollfd)

Sets ==
  /\ lua_fd_ready \in BOOLEAN
  /\ pc \in {"poll", "walk", "select", "control", "exit"}
  /\ readt \cup writet \subseteq controlsockets
  /\ controlsockets \subseteq Conns \cup {Listener}
  /\ writet \subseteq ctlwritebuffers /\ ctlwritebuffers \subseteq Conns
  /\ choked \subseteq controlsockets \cap Rude
  /\ ctltokill \subseteq controlsockets
  /\ streams \subseteq ekey_list /\ ekey_list \subseteq Keys
  /\ data \cup gone \subseteq streams
  /\ waiting \subseteq Patient

Said == Seq(Cmds \cup {"half"})

Clients ==
  /\ ctlpendingcmd \in [Conns -> Cmds \cup {none}]
  /\ peer \in [Conns -> {"away", "dialling", "connected", "closed", "dropped"}]
  /\ kernel \in [Conns -> Said]
  /\ buffered \in [Conns -> Said]

(* ekeyd has a socket for those that are connected, or were and hung up.   *)
Sockets ==
  \A c \in Conns :
    /\ c \in controlsockets <=> peer[c] \in {"connected", "closed"}
    /\ c \notin controlsockets => buffered[c] = <<>>

work(c) == ctlpendingcmd[c] # none \/ buffered[c] # <<>> \/ c \in ctltokill

(* Between two calls of CONTROL who has work left has an answer to come,   *)
(* or the last call ended with an error.                                   *)
Sleep ==
  pc \in {"poll", "walk", "select"} =>
    \A c \in controlsockets \cap Conns :
      work(c) => \/ c \in ctlwritebuffers
                 \/ ctltokill \cap ctlwritebuffers # {}

(* During a call lines are left to those not yet read, with a command not  *)
(* yet run, to be killed, or with an answer to come.                       *)
Pass ==
  pc = "control" =>
    \A c \in Conns :
      buffered[c] # <<>> => \/ c \in readt
                            \/ ctlpendingcmd[c] # none
                            \/ c \in ctltokill
                            \/ readt = {} /\ writet = {} /\ c \in ctlwritebuffers

IInv == Table /\ Revents /\ Sets /\ Clients /\ Sockets /\ Sleep /\ Pass

-----------------------------------------------------------------------------
(* The table *)

LEMMA SameWriters ==
  ASSUME NEW t, NEW S, NEW W, NEW V, Fits(t, S, W), W \cap S = V \cap S
  PROVE  Fits(t, S, V)
<1>1. \A i \in DOMAIN t : t[i].fd \in S
  BY DEF Fits, Owners
<1> QED
  BY <1>1 DEF Fits, Marked

LEMMA EmptyFits ==
  ASSUME NEW W
  PROVE  Fits(<<>>, {}, W)
BY DEF Fits, Owners, Once, Marked

(* ekeyfd_add *)
LEMMA AddFits ==
  ASSUME NEW t, NEW S, NEW W, Fits(t, S, W), NEW fd \in Fds, fd \notin S
  PROVE  Fits(ekeyfd_add(t, fd), S \cup {fd}, W \ {fd})
<1> DEFINE r == ekeyfd_add(t, fd)
<1>1. t \in Seq(Entries) /\ Entry(fd) \in Entries
  BY DEF Fits, Entry, Entries
<1>2. /\ r \in Seq(Entries)
      /\ Len(r) = Len(t) + 1
      /\ \A i \in 1 .. Len(t) : r[i] = t[i]
      /\ r[Len(t) + 1] = Entry(fd)
      /\ DOMAIN r = 1 .. Len(t) + 1 /\ DOMAIN t = 1 .. Len(t)
      /\ Len(t) \in Nat
  BY <1>1, AppendProperties, LenProperties DEF ekeyfd_add
<1>3. \A i \in DOMAIN r : i = Len(t) + 1 \/ i \in DOMAIN t
  BY <1>2
<1>4. Len(t) + 1 \in DOMAIN r /\ DOMAIN t \subseteq DOMAIN r /\ Len(t) + 1 \notin DOMAIN t
  BY <1>2
<1>5. Entry(fd).fd = fd /\ Entry(fd).out = FALSE
  BY DEF Entry
<1>6. \A i \in DOMAIN t : t[i].fd \in S /\ r[i] = t[i]
  BY <1>2 DEF Fits, Owners
<1> HIDE DEF r
<1>7. Owners(r) = S \cup {fd}
  BY <1>2, <1>3, <1>4, <1>5, <1>6 DEF Fits, Owners
<1>8. Once(r)
  BY <1>2, <1>3, <1>4, <1>5, <1>6 DEF Fits, Once
<1>9. Marked(r, W \ {fd})
  BY <1>2, <1>3, <1>4, <1>5, <1>6 DEF Fits, Marked
<1> QED
  BY <1>2, <1>7, <1>8, <1>9 DEF Fits, r

(* ekeyfd_set_events and ekeyfd_clear_events *)
LEMMA PollOutFits ==
  ASSUME NEW t, NEW S, NEW W, Fits(t, S, W), NEW fd, NEW b \in BOOLEAN
  PROVE  Fits(pollOut(t, fd, b), S, IF b THEN W \cup {fd} ELSE W \ {fd})
<1> DEFINE r == pollOut(t, fd, b)
<1>1. t \in Seq(Entries)
  BY DEF Fits
<1>2. DOMAIN r = DOMAIN t
  BY DEF pollOut
<1>3. \A i \in DOMAIN t : /\ r[i] \in Entries
                          /\ r[i].fd = t[i].fd
                          /\ r[i].out = IF t[i].fd = fd THEN b ELSE t[i].out
  <2> TAKE i \in DOMAIN t
  <2>1. t[i] \in Entries
    BY <1>1, LenProperties, ElementOfSeq
  <2>2. r[i] = IF t[i].fd = fd THEN [t[i] EXCEPT !.out = b] ELSE t[i]
    BY DEF pollOut
  <2> QED
    BY <2>1, <2>2 DEF Entries
<1>4. r \in Seq(Entries)
  <2>1. DOMAIN t = 1 .. Len(t) /\ Len(t) \in Nat
    BY <1>1, LenProperties
  <2>2. r = [i \in 1 .. Len(t) |-> r[i]]
    BY <2>1 DEF pollOut
  <2> QED
    BY <1>3, <2>1, <2>2, IsASeq
<1> HIDE DEF r
<1>5. Owners(r) = S
  BY <1>2, <1>3 DEF Fits, Owners
<1>6. Once(r)
  BY <1>2, <1>3 DEF Fits, Once
<1>7. Marked(r, IF b THEN W \cup {fd} ELSE W \ {fd})
  BY <1>2, <1>3 DEF Fits, Marked
<1> QED
  BY <1>4, <1>5, <1>6, <1>7 DEF Fits, r

LEMMA SetFits ==
  ASSUME NEW t, NEW S, NEW W, Fits(t, S, W), NEW fd
  PROVE  Fits(ekeyfd_set_events(t, fd), S, W \cup {fd})
BY PollOutFits DEF ekeyfd_set_events

LEMMA ClearFits ==
  ASSUME NEW t, NEW S, NEW W, Fits(t, S, W), NEW fd
  PROVE  Fits(ekeyfd_clear_events(t, fd), S, W \ {fd})
BY PollOutFits DEF ekeyfd_clear_events

(* ekeyfd_rm: of the entries only the one removed is lost.                 *)
LEMMA RmFits ==
  ASSUME NEW t, NEW S, NEW W, Fits(t, S, W), NEW fd
  PROVE  /\ Fits(ekeyfd_rm(t, fd), S \ {fd}, W)
         /\ Len(ekeyfd_rm(t, fd)) <= Len(t)
<1>1. t \in Seq(Entries) /\ Len(t) \in Nat /\ DOMAIN t = 1 .. Len(t)
  BY LenProperties DEF Fits
<1>2. CASE ~ \E i \in DOMAIN t : t[i].fd = fd
  <2>1. fd \notin S /\ ekeyfd_rm(t, fd) = t
    BY <1>2 DEF Fits, Owners, ekeyfd_rm
  <2>2. S \ {fd} = S
    BY <2>1
  <2>3. Fits(t, S \ {fd}, W)
    BY <2>2, Zenon
  <2>4. Len(t) <= Len(t)
    BY <1>1
  <2> QED
    BY <2>1, <2>3, <2>4, Zenon
<1>3. CASE \E i \in DOMAIN t : t[i].fd = fd
  <2> DEFINE k == CHOOSE i \in DOMAIN t : t[i].fd = fd
             n == Len(t)
             swapped == [t EXCEPT ![k] = t[n]]
             r == [i \in 1 .. n - 1 |-> IF i = k THEN t[n] ELSE t[i]]
  <2>1. k \in 1 .. n /\ t[k].fd = fd
    BY <1>1, <1>3
  <2> HIDE DEF k
  <2>2. n \in Nat /\ n >= 1 /\ n - 1 \in Nat
    BY <1>1, <2>1
  <2>3. \A i \in 1 .. n : t[i] \in Entries
    BY <1>1, ElementOfSeq
  <2>4. swapped \in Seq(Entries) /\ Len(swapped) = n
    BY <1>1, <2>1, <2>2, <2>3, ExceptSeq
  <2>5. ekeyfd_rm(t, fd) = r
    <3>1. ekeyfd_rm(t, fd) = Front(swapped)
      BY <1>3 DEF ekeyfd_rm, k, Last
    <3>2. Front(swapped) = [i \in 1 .. n - 1 |-> swapped[i]]
      <4>1. Front(swapped) = SubSeq(swapped, 1, n - 1)
        BY <2>4 DEF Front
      <4> HIDE DEF swapped
      <4>2. /\ SubSeq(swapped, 1, n - 1) \in Seq(Entries)
            /\ Len(SubSeq(swapped, 1, n - 1)) = n - 1
            /\ \A i \in 1 .. n - 1 : SubSeq(swapped, 1, n - 1)[i] = swapped[i]
        BY <2>2, <2>4, SubSeqProperties
      <4> QED
        BY <2>2, <4>1, <4>2, LenProperties
    <3>3. \A i \in 1 .. n - 1 : swapped[i] = IF i = k THEN t[n] ELSE t[i]
      BY <1>1, <2>2
    <3> QED
      BY <3>1, <3>2, <3>3
  <2>6. \A i \in 1 .. n - 1 : r[i] = IF i = k THEN t[n] ELSE t[i]
    OBVIOUS
  <2>7. r \in Seq(Entries) /\ Len(r) = n - 1 /\ DOMAIN r = 1 .. n - 1
    <3>1. \A i \in 1 .. n - 1 : (IF i = k THEN t[n] ELSE t[i]) \in Entries
      BY <2>2, <2>3
    <3> QED
      BY <2>2, <3>1, IsASeq
  <2> HIDE DEF r
  <2>8. \A i \in 1 .. n - 1 : \E j \in 1 .. n :
          /\ r[i] = t[j] /\ j # k
          /\ i # k => j = i
          /\ i = k => j = n
    BY <2>1, <2>2, <2>6
  <2>9. \A j \in 1 .. n : j # k => \E i \in 1 .. n - 1 : r[i] = t[j]
    <3> SUFFICES ASSUME NEW j \in 1 .. n, j # k
                 PROVE  \E i \in 1 .. n - 1 : r[i] = t[j]
      OBVIOUS
    <3>1. CASE j = n
      <4>1. k \in 1 .. n - 1
        BY <2>1, <2>2, <3>1
      <4> QED
        BY <2>6, <3>1, <4>1
    <3>2. CASE j # n
      <4>1. j \in 1 .. n - 1
        BY <2>2, <3>2
      <4> QED
        BY <2>6, <4>1
    <3> QED
      BY <3>1, <3>2
  <2>10. \A i, j \in 1 .. n : t[i].fd = t[j].fd => i = j
    BY <1>1 DEF Fits, Once
  <2>11. S = {t[i].fd : i \in 1 .. n}
    BY <1>1 DEF Fits, Owners
  <2>12. Owners(r) = S \ {fd}
    <3>1. \A i \in 1 .. n - 1 : r[i].fd \in S \ {fd}
      BY <2>1, <2>8, <2>10, <2>11
    <3>2. \A x \in S \ {fd} : \E i \in 1 .. n - 1 : r[i].fd = x
      BY <2>1, <2>9, <2>11
    <3> QED
      BY <2>7, <3>1, <3>2 DEF Owners
  <2>13. Once(r)
    <3> SUFFICES ASSUME NEW i \in 1 .. n - 1, NEW j \in 1 .. n - 1, r[i].fd = r[j].fd
                 PROVE  i = j
      BY <2>7 DEF Once
    <3>1. PICK p \in 1 .. n : /\ r[i] = t[p]
                              /\ i # k => p = i
                              /\ i = k => p = n
      BY <2>8
    <3>2. PICK q \in 1 .. n : /\ r[j] = t[q]
                              /\ j # k => q = j
                              /\ j = k => q = n
      BY <2>8
    <3>3. p = q
      BY <2>10, <3>1, <3>2
    <3> QED
      BY <2>2, <3>1, <3>2, <3>3
  <2>14. Marked(r, W)
    BY <1>1, <2>7, <2>8 DEF Fits, Marked
  <2> QED
    BY <2>2, <2>5, <2>7, <2>12, <2>13, <2>14 DEF Fits
<1> QED
  BY <1>2, <1>3

(* shutdown: nobody is left.                                               *)
LEMMA WithoutAll ==
  ASSUME NEW t, NEW S, NEW W, Fits(t, S, W)
  PROVE  without(t, S) = <<>>
<1>1. {e \in Range(t) : e.fd \notin S} = {}
  BY DEF Fits, Owners, Range
<1>2. Cardinality({}) = 0
  BY FS_EmptySet
<1>3. \A f \in [1 .. 0 -> {}] : f = <<>>
  OBVIOUS
<1>4. <<>> \in [1 .. 0 -> {}] /\ IsInjective(<<>>)
  BY DEF IsInjective
<1> QED
  BY <1>1, <1>2, <1>3, <1>4 DEF without, SetToSeq

-----------------------------------------------------------------------------
(* ekey_list as a sequence, as the configuration file may have added it.   *)
LEMMA ListedFits ==
  ASSUME NEW L \in SUBSET Keys, NEW keys \in SetToSeqs(L), NEW t,
         LET entries == [i \in DOMAIN keys |-> Entry(keys[i])]
         IN  t \in {Append(entries, Entry(Listener)), <<Entry(Listener)>> \o entries}
  PROVE  Fits(t, {Listener} \cup L, {})
<1> DEFINE n == Cardinality(L)
           entries == [i \in 1 .. n |-> Entry(keys[i])]
<1>1. IsFiniteSet(L) /\ n \in Nat
  BY DaemonAssumption, FS_Subset, FS_CardinalityType
<1>2. /\ keys \in [1 .. n -> L]
      /\ \A i, j \in 1 .. n : i # j => keys[i] # keys[j]
  BY DEF SetToSeqs
<1>3. \A x \in L : \E i \in 1 .. n : keys[i] = x
  <2>1. keys \in Injection(1 .. n, L)
    BY <1>2 DEF Injection, IsInjective
  <2>2. Cardinality(1 .. n) = n
    BY <1>1, FS_Interval
  <2>3. keys \in Surjection(1 .. n, L)
    BY <1>1, <2>1, <2>2, FS_Injection
  <2> QED
    BY <2>3 DEF Surjection
<1>4. Listener \in Fds /\ L \subseteq Fds /\ Listener \notin L
  BY DaemonAssumption DEF Fds
<1>5. \A fd : Entry(fd).fd = fd /\ Entry(fd).out = FALSE
  BY DEF Entry
<1>6. \A fd \in Fds : Entry(fd) \in Entries
  BY DEF Entry, Entries
<1>7. /\ entries \in Seq(Entries) /\ Len(entries) = n
      /\ \A i \in 1 .. n : entries[i] = Entry(keys[i])
  <2>1. \A i \in 1 .. n : Entry(keys[i]) \in Entries
    BY <1>2, <1>4, <1>6
  <2> QED
    BY <1>1, <2>1, IsASeq
<1>8. t \in {Append(entries, Entry(Listener)), <<Entry(Listener)>> \o entries}
  BY <1>2
<1> HIDE DEF entries, n
<1>9. \A i \in 1 .. n : keys[i] \in L
  BY <1>2
<1>10. CASE t = Append(entries, Entry(Listener))
  <2>1. /\ t \in Seq(Entries) /\ DOMAIN t = 1 .. n + 1
        /\ \A i \in 1 .. n : t[i] = Entry(keys[i])
        /\ t[n + 1] = Entry(Listener)
    BY <1>1, <1>4, <1>6, <1>7, <1>10, AppendProperties, LenProperties
  <2>2. \A i \in 1 .. n + 1 : i = n + 1 \/ i \in 1 .. n
    BY <1>1
  <2>3. n + 1 \in 1 .. n + 1 /\ 1 .. n \subseteq 1 .. n + 1
    BY <1>1
  <2>4. Owners(t) = {Listener} \cup L
    <3>1. \A i \in DOMAIN t : t[i].fd \in {Listener} \cup L
      BY <1>5, <1>9, <2>1, <2>2
    <3>2. \A x \in {Listener} \cup L : \E i \in DOMAIN t : t[i].fd = x
      BY <1>3, <1>5, <2>1, <2>3
    <3> QED
      BY <3>1, <3>2 DEF Owners
  <2>5. Once(t)
    BY <1>2, <1>4, <1>5, <1>9, <2>1, <2>2 DEF Once
  <2>6. Marked(t, {})
    BY <1>5, <2>1, <2>2 DEF Marked
  <2> QED
    BY <2>1, <2>4, <2>5, <2>6 DEF Fits
<1>11. CASE t = <<Entry(Listener)>> \o entries
  <2>1. /\ t \in Seq(Entries) /\ DOMAIN t = 1 .. n + 1
        /\ \A i \in 1 .. n + 1 : i # 1 => t[i] = Entry(keys[i - 1])
        /\ t[1] = Entry(Listener)
    <3>1. <<Entry(Listener)>> \in Seq(Entries) /\ Len(<<Entry(Listener)>>) = 1
      BY <1>4, <1>6
    <3>2. t \in Seq(Entries) /\ Len(t) = n + 1
      BY <1>1, <1>7, <1>11, <3>1, ConcatProperties
    <3>3. DOMAIN t = 1 .. n + 1
      BY <3>2, LenProperties
    <3>4. \A i \in 1 .. n + 1 : t[i] = IF i <= 1 THEN <<Entry(Listener)>>[i]
                                                ELSE entries[i - 1]
      BY <1>1, <1>7, <1>11, <3>1, ConcatProperties
    <3>5. \A i \in 1 .. n + 1 : i # 1 => ~(i <= 1) /\ i - 1 \in 1 .. n
      BY <1>1
    <3>6. 1 \in 1 .. n + 1
      BY <1>1
    <3>7. t[1] = Entry(Listener)
      BY <3>4, <3>6
    <3>8. \A i \in 1 .. n + 1 : i # 1 => t[i] = Entry(keys[i - 1])
      BY <1>7, <3>4, <3>5
    <3> QED
      BY <3>2, <3>3, <3>7, <3>8
  <2>2. \A i \in 1 .. n + 1 : i = 1 \/ i - 1 \in 1 .. n
    BY <1>1
  <2>3. 1 \in 1 .. n + 1 /\ \A i \in 1 .. n : /\ i + 1 \in 1 .. n + 1
                                              /\ i + 1 # 1 /\ i + 1 - 1 = i
    BY <1>1
  <2>4. Owners(t) = {Listener} \cup L
    <3>1. \A i \in DOMAIN t : t[i].fd \in {Listener} \cup L
      BY <1>5, <1>9, <2>1, <2>2
    <3>2. \A x \in L : \E i \in DOMAIN t : t[i].fd = x
      <4> SUFFICES ASSUME NEW x \in L
                   PROVE  \E i \in DOMAIN t : t[i].fd = x
        OBVIOUS
      <4>1. PICK i \in 1 .. n : keys[i] = x
        BY <1>3
      <4>2. t[i + 1] = Entry(x)
        BY <2>1, <2>3, <4>1
      <4> QED
        BY <1>5, <2>1, <2>3, <4>2
    <3>3. \E i \in DOMAIN t : t[i].fd = Listener
      BY <1>5, <2>1, <2>3
    <3> QED
      BY <3>1, <3>2, <3>3 DEF Owners
  <2>5. Once(t)
    <3> SUFFICES ASSUME NEW i \in 1 .. n + 1, NEW j \in 1 .. n + 1, t[i].fd = t[j].fd
                 PROVE  i = j
      BY <2>1 DEF Once
    <3>1. \A x \in 1 .. n + 1 : x # 1 => t[x].fd = keys[x - 1] /\ x - 1 \in 1 .. n
      BY <1>5, <2>1, <2>2
    <3>2. t[1].fd = Listener
      BY <1>5, <2>1
    <3>3. CASE i = 1 \/ j = 1
      BY <1>4, <1>9, <3>1, <3>2, <3>3
    <3>4. CASE i # 1 /\ j # 1
      <4>1. i - 1 = j - 1
        BY <1>2, <3>1, <3>4
      <4> QED
        BY <1>1, <4>1
    <3> QED
      BY <3>3, <3>4
  <2>6. Marked(t, {})
    BY <1>5, <2>1, <2>2 DEF Marked
  <2> QED
    BY <2>1, <2>4, <2>5, <2>6 DEF Fits
<1> QED
  BY <1>8, <1>10, <1>11

LEMMA InitInv == Init => IInv
<1> SUFFICES ASSUME Init
             PROVE  IInv
  OBVIOUS
<1>1. Table
  <2>1. PICK keys \in SetToSeqs(ekey_list) :
          LET entries == [i \in DOMAIN keys |-> Entry(keys[i])]
          IN  ekeyfd_pollfd \in {Append(entries, Entry(Listener)),
                                 <<Entry(Listener)>> \o entries}
    BY DEF Init
  <2>2. Fits(ekeyfd_pollfd, {Listener} \cup ekey_list, {})
    BY <2>1, ListedFits DEF Init
  <2> QED
    BY <2>2 DEF Init, Table
<1>2. Revents
  BY DEF Init, Revents
<1>3. Sets
  BY DEF Init, Sets
<1>4. Clients
  BY DEF Init, Clients, Said
<1>5. Sockets
  BY DaemonAssumption DEF Init, Sockets
<1>6. Sleep
  BY DEF Init, Sleep, work
<1>7. Pass
  BY DEF Init, Pass
<1> QED
  BY <1>1, <1>2, <1>3, <1>4, <1>5, <1>6, <1>7 DEF IInv

LEMMA InvMeans == IInv => TypeOK /\ TableMatches /\ WorkWakes
<1> SUFFICES ASSUME IInv
             PROVE  TypeOK /\ TableMatches /\ WorkWakes
  OBVIOUS
<1>1. /\ ekeyfd_pollfd \in Seq([fd : Fds, out : BOOLEAN])
      /\ DOMAIN ekeyfd_pollfd = 1 .. Len(ekeyfd_pollfd)
      /\ Len(ekeyfd_pollfd) \in Nat
  BY LenProperties DEF IInv, Table, Fits, Entries
<1>2. Len(revents) \in Nat
  BY LenProperties DEF IInv, Revents
<1>3. TypeOK
  BY <1>1, <1>2 DEF IInv, Revents, Sets, Clients, TypeOK
<1>4. TableMatches
  BY DEF IInv, Table, Fits, Owners, Once, Marked, TableMatches
<1>5. WorkWakes
  <2> SUFFICES ASSUME pc = "poll", ~clogged,
                      NEW c \in (controlsockets \cap Conns) \ choked, work(c)
               PROVE  \E i \in DOMAIN ekeyfd_pollfd :
                        ekeyfd_pollfd[i].fd \notin Keys /\ ready(ekeyfd_pollfd[i])
    BY DEF WorkWakes, work
  <2>1. \A fd \in controlsockets :
          \E i \in DOMAIN ekeyfd_pollfd : ekeyfd_pollfd[i].fd = fd
    BY <1>4 DEF TableMatches
  <2>2. PICK d \in controlsockets \cap Conns : d \in ctlwritebuffers \ choked
    BY DaemonAssumption DEF IInv, Sets, Sleep, clogged
  <2>3. PICK i \in DOMAIN ekeyfd_pollfd : ekeyfd_pollfd[i].fd = d
    BY <2>1, <2>2
  <2>4. ekeyfd_pollfd[i].out
    BY <1>4, <2>2, <2>3 DEF TableMatches
  <2> QED
    BY <2>2, <2>3, <2>4, DaemonAssumption DEF ready
<1> QED
  BY <1>3, <1>4, <1>5

-----------------------------------------------------------------------------
(* One lemma for each action.                                              *)
USE DEF tableVars, walkVars, todoVars, ctlVars, ekeyVars, peerVars, keyVars

LEMMA NoDescriptorsInv ==
  ASSUME IInv, NoDescriptors
  PROVE  IInv'
BY DEF IInv, Table, Revents, Sets, Clients, Sockets, Sleep, Pass, work,
       NoDescriptors

LEMMA ekeyfd_pollInv ==
  ASSUME IInv, ekeyfd_poll
  PROVE  IInv'
<1>1. Revents'
  <2>1. Len(ekeyfd_pollfd) \in Nat /\ DOMAIN ekeyfd_pollfd = 1 .. Len(ekeyfd_pollfd)
    BY LenProperties DEF IInv, Table, Fits
  <2>2. \A i \in DOMAIN ekeyfd_pollfd : ready(ekeyfd_pollfd[i]) \in BOOLEAN
    BY <2>1, ElementOfSeq DEF IInv, Table, Fits, Entries, ready, readable
  <2>3. revents' = [i \in 1 .. Len(ekeyfd_pollfd) |-> ready(ekeyfd_pollfd[i])]
    BY <2>1 DEF ekeyfd_poll
  <2>4. revents' \in Seq(BOOLEAN) /\ Len(revents') = Len(ekeyfd_pollfd)
    BY <2>1, <2>2, <2>3, IsASeq
  <2> QED
    BY <2>1, <2>4 DEF ekeyfd_poll, Revents
<1>2. Table' /\ Sets' /\ Clients' /\ Sockets' /\ Sleep' /\ Pass'
  BY DEF IInv, Table, Sets, Clients, Sockets, Sleep, Pass, work, ekeyfd_poll
<1> QED
  BY <1>1, <1>2 DEF IInv

LEMMA lua_fd_activityInv ==
  ASSUME IInv, lua_fd_activity
  PROVE  IInv'
BY DEF IInv, Table, Revents, Sets, Clients, Sockets, Sleep, Pass, work,
       lua_fd_activity, visited

LEMMA ekey_fd_activityInv ==
  ASSUME IInv, ekey_fd_activity
  PROVE  IInv'
<1>1. Table'
  <2>1. CASE fd_at \in data
    BY <2>1 DEF IInv, Table, ekey_fd_activity
  <2>2. CASE fd_at \notin data
    <3>1. Fits(ekeyfd_pollfd', (controlsockets \cup streams) \ {fd_at}, ctlwritebuffers)
      BY <2>2, RmFits DEF IInv, Table, ekey_fd_activity
    <3>2. (controlsockets \cup streams) \ {fd_at} = controlsockets \cup streams'
      BY <2>2, DaemonAssumption DEF IInv, Sets, ekey_fd_activity
    <3> QED
      BY <3>1, <3>2 DEF ekey_fd_activity, Table
  <2> QED
    BY <2>1, <2>2
<1>2. Revents'
  <2>1. Len(ekeyfd_pollfd') <= Len(ekeyfd_pollfd)
    <3>1. Len(ekeyfd_pollfd) \in Nat
      BY LenProperties DEF IInv, Table, Fits
    <3>2. CASE fd_at \in data
      BY <3>1, <3>2 DEF ekey_fd_activity
    <3>3. CASE fd_at \notin data
      BY <3>3, RmFits DEF IInv, Table, ekey_fd_activity
    <3> QED
      BY <3>2, <3>3
  <2>2. Len(revents) \in Nat /\ Len(ekeyfd_pollfd) \in Nat /\ Len(ekeyfd_pollfd') \in Nat
    BY <1>1, LenProperties DEF IInv, Revents, Table, Fits
  <2> QED
    BY <2>1, <2>2 DEF IInv, Revents, ekey_fd_activity
<1>3. Sets' /\ Clients' /\ Sockets' /\ Sleep' /\ Pass'
  BY DEF IInv, Sets, Clients, Sockets, Sleep, Pass, work, ekey_fd_activity,
         visited, walking
<1> QED
  BY <1>1, <1>2, <1>3 DEF IInv

LEMMA WalkEndsInv ==
  ASSUME IInv, WalkEnds
  PROVE  IInv'
BY DEF IInv, Table, Revents, Sets, Clients, Sockets, Sleep, Pass, work,
       WalkEnds

LEMMA SelectInv ==
  ASSUME IInv, Select
  PROVE  IInv'
<1>1. Pass'
  BY DEF IInv, Pass, Sockets, Select
<1>2. Table' /\ Revents' /\ Sets' /\ Clients' /\ Sockets' /\ Sleep'
  BY DEF IInv, Table, Revents, Sets, Clients, Sockets, Sleep, work, Select
<1> QED
  BY <1>1, <1>2 DEF IInv

LEMMA AcceptInv ==
  ASSUME IInv, NEW c \in Conns, Accept(c)
  PROVE  IInv'
<1>1. Table'
  <2> DEFINE S == controlsockets \cup streams
             added == ekeyfd_add(ekeyfd_pollfd, c)
  <2>1. c \in Fds /\ c \notin S
    BY DaemonAssumption DEF IInv, Sets, Sockets, Accept, Fds
  <2>2. Fits(added, S \cup {c}, ctlwritebuffers \ {c})
    BY <2>1, AddFits DEF IInv, Table
  <2>3. Fits(ekeyfd_pollfd', S \cup {c}, (ctlwritebuffers \ {c}) \cup {c})
    BY <2>2, SetFits DEF Accept
  <2>4. /\ S \cup {c} = (controlsockets \cup streams)'
        /\ (ctlwritebuffers \ {c}) \cup {c} = ctlwritebuffers'
    BY DEF Accept, ctlwrite
  <2> QED
    BY <2>3, <2>4, Zenon DEF Table
<1>2. Sets'
  BY DaemonAssumption DEF IInv, Sets, Accept, ctlwrite
<1>3. Sockets'
  BY DEF IInv, Sockets, Clients, Accept, ctlwrite
<1>4. Pass'
  BY DaemonAssumption DEF IInv, Pass, Accept, ctlwrite
<1>5. Revents' /\ Clients' /\ Sleep'
  BY DEF IInv, Revents, Clients, Sleep, work, Accept, ctlwrite
<1> QED
  BY <1>1, <1>2, <1>3, <1>4, <1>5 DEF IInv

LEMMA ReadLineInv ==
  ASSUME IInv, NEW c \in Conns, ReadLine(c)
  PROVE  IInv'
<1>1. Clients'
  BY DEF IInv, Clients, Said, ReadLine, received
<1>2. Sockets'
  BY DEF IInv, Sockets, Sets, Clients, ReadLine, received
<1>3. Pass'
  <2>1. ctlpendingcmd'[c] # none
    BY <1>1, DaemonAssumption DEF IInv, Clients, Said, ReadLine, received
  <2> QED
    BY <2>1 DEF IInv, Pass, Clients, ReadLine
<1>4. Table' /\ Revents' /\ Sets' /\ Sleep'
  BY DEF IInv, Table, Revents, Sets, Sleep, work, ReadLine, received
<1> QED
  BY <1>1, <1>2, <1>3, <1>4 DEF IInv

LEMMA ReadNothingInv ==
  ASSUME IInv, NEW c \in Conns, ReadNothing(c)
  PROVE  IInv'
<1>1. Clients'
  BY DEF IInv, Clients, Said, ReadNothing
<1>2. Table' /\ Revents' /\ Sets' /\ Sockets' /\ Sleep' /\ Pass'
  BY DEF IInv, Table, Revents, Sets, Sockets, Sleep, Pass, work, ReadNothing
<1> QED
  BY <1>1, <1>2 DEF IInv

LEMMA WriteSkippedInv ==
  ASSUME IInv, NEW c \in Conns, WriteSkipped(c)
  PROVE  IInv'
BY DEF IInv, Table, Revents, Sets, Clients, Sockets, Sleep, Pass, work,
       WriteSkipped

LEMMA MayChoke ==
  ASSUME IInv, NEW c \in Conns
  PROVE  mayChoke(c) \subseteq controlsockets \cap Rude
BY DaemonAssumption DEF IInv, Sockets, mayChoke

LEMMA WriteInv ==
  ASSUME IInv, NEW c \in Conns, Write(c)
  PROVE  IInv'
<1>1. Table'
  <2>1. Fits(ekeyfd_pollfd', controlsockets \cup streams, ctlwritebuffers \ {c})
    BY ClearFits DEF IInv, Table, Write
  <2> QED
    BY <2>1 DEF Write, Table
<1>2. Sets'
  BY MayChoke DEF IInv, Sets, Write
<1>3. Revents' /\ Clients' /\ Sockets' /\ Sleep' /\ Pass'
  BY DEF IInv, Revents, Clients, Sockets, Sleep, Pass, work, Write
<1> QED
  BY <1>1, <1>2, <1>3 DEF IInv

LEMMA WriteFailsInv ==
  ASSUME IInv, NEW c \in Conns, WriteFails(c)
  PROVE  IInv'
<1>1. Sets'
  BY MayChoke DEF IInv, Sets, WriteFails
<1>2. Sleep'
  BY DEF IInv, Sleep, Sets, WriteFails
<1>3. Table' /\ Revents' /\ Clients' /\ Sockets' /\ Pass'
  BY DEF IInv, Table, Revents, Clients, Sockets, Pass, WriteFails
<1> QED
  BY <1>1, <1>2, <1>3 DEF IInv

LEMMA ListInv ==
  ASSUME IInv, NEW c \in Conns, List(c)
  PROVE  IInv'
<1>1. Table'
  <2>1. Fits(ekeyfd_pollfd', controlsockets \cup streams, ctlwritebuffers \cup {c})
    BY SetFits DEF IInv, Table, List
  <2> QED
    BY <2>1 DEF List, answered, ctlwrite, Table
<1>2. Revents' /\ Sets' /\ Clients' /\ Sockets' /\ Sleep' /\ Pass'
  BY DEF IInv, Revents, Sets, Clients, Sockets, Sleep, Pass, work, List,
         commanded, answered, ctlwrite
<1> QED
  BY <1>1, <1>2 DEF IInv

LEMMA AddEntropyKeyInv ==
  ASSUME IInv, NEW c \in Conns, AddEntropyKey(c)
  PROVE  IInv'
<1>1. Table'
  <2>1. PICK k \in Keys :
          IF k \in plugged \ ekey_list
            THEN /\ ekeyfd_pollfd' = ekeyfd_set_events(ekeyfd_add(ekeyfd_pollfd, k), c)
                 /\ streams' = streams \cup {k}
            ELSE /\ ekeyfd_pollfd' = ekeyfd_set_events(ekeyfd_pollfd, c)
                 /\ streams' = streams
    BY DEF AddEntropyKey
  <2>2. CASE k \in plugged \ ekey_list
    <3>1. k \in Fds \ (controlsockets \cup streams) /\ k \notin ctlwritebuffers
      BY <2>2, DaemonAssumption DEF IInv, Sets, Fds
    <3>2. Fits(ekeyfd_add(ekeyfd_pollfd, k), controlsockets \cup streams \cup {k},
               ctlwritebuffers \ {k})
      BY <3>1, AddFits DEF IInv, Table
    <3>3. Fits(ekeyfd_pollfd', controlsockets \cup streams \cup {k},
               (ctlwritebuffers \ {k}) \cup {c})
      BY <2>1, <2>2, <3>2, SetFits
    <3>4. /\ controlsockets \cup streams \cup {k} = (controlsockets \cup streams)'
          /\ (ctlwritebuffers \ {k}) \cup {c} = ctlwritebuffers'
      BY <2>1, <2>2, <3>1 DEF AddEntropyKey, answered, ctlwrite
    <3> QED
      BY <3>3, <3>4, Zenon DEF Table
  <2>3. CASE k \notin plugged \ ekey_list
    <3>1. Fits(ekeyfd_pollfd', controlsockets \cup streams, ctlwritebuffers \cup {c})
      BY <2>1, <2>3, SetFits DEF IInv, Table
    <3> QED
      BY <2>1, <2>3, <3>1 DEF AddEntropyKey, answered, ctlwrite, Table
  <2> QED
    BY <2>2, <2>3
<1>2. Revents' /\ Sets' /\ Clients' /\ Sockets' /\ Sleep' /\ Pass'
  BY DEF IInv, Revents, Sets, Clients, Sockets, Sleep, Pass, work,
         AddEntropyKey, commanded, answered, ctlwrite
<1> QED
  BY <1>1, <1>2 DEF IInv

LEMMA RemoveEntropyKeyInv ==
  ASSUME IInv, NEW c \in Conns, RemoveEntropyKey(c)
  PROVE  IInv'
<1>1. Table'
  <2> DEFINE S == controlsockets \cup streams
             removed(k) == IF k \in streams THEN ekeyfd_rm(ekeyfd_pollfd, k)
                                            ELSE ekeyfd_pollfd
  <2>1. PICK k \in Keys : /\ ekeyfd_pollfd' = ekeyfd_set_events(removed(k), c)
                          /\ streams' = streams \ {k}
    BY DEF RemoveEntropyKey, kill_ekeys
  <2>2. Fits(removed(k), S \ {k}, ctlwritebuffers)
    <3>1. CASE k \in streams
      BY <3>1, RmFits DEF IInv, Table
    <3>2. CASE k \notin streams
      <4>1. S \ {k} = S
        BY <3>2, DaemonAssumption DEF IInv, Sets
      <4>2. removed(k) = ekeyfd_pollfd
        BY <3>2
      <4>3. Fits(ekeyfd_pollfd, S, ctlwritebuffers)
        BY DEF IInv, Table
      <4> QED
        BY <4>1, <4>2, <4>3, Zenon
    <3> QED
      BY <3>1, <3>2
  <2>3. Fits(ekeyfd_pollfd', S \ {k}, ctlwritebuffers \cup {c})
    BY <2>1, <2>2, SetFits
  <2>4. S \ {k} = (controlsockets \cup streams)'
    BY <2>1, DaemonAssumption DEF IInv, Sets, RemoveEntropyKey, answered
  <2>5. ctlwritebuffers \cup {c} = ctlwritebuffers'
    BY DEF RemoveEntropyKey, answered, ctlwrite
  <2> QED
    BY <2>3, <2>4, <2>5, Zenon DEF Table
<1>2. Revents' /\ Sets' /\ Clients' /\ Sockets' /\ Sleep' /\ Pass'
  BY DEF IInv, Revents, Sets, Clients, Sockets, Sleep, Pass, work,
         RemoveEntropyKey, commanded, answered, ctlwrite, kill_ekeys
<1> QED
  BY <1>1, <1>2 DEF IInv

LEMMA ByeInv ==
  ASSUME IInv, NEW c \in Conns, Bye(c)
  PROVE  IInv'
<1>1. Table'
  <2>1. Fits(ekeyfd_pollfd', controlsockets \cup streams, ctlwritebuffers \cup {c})
    BY SetFits DEF IInv, Table, Bye
  <2> QED
    BY <2>1 DEF Bye, answered, ctlwrite, Table
<1>2. Revents' /\ Sets' /\ Clients' /\ Sockets' /\ Sleep' /\ Pass'
  BY DEF IInv, Revents, Sets, Clients, Sockets, Sleep, Pass, work, Bye,
         commanded, answered, ctlwrite
<1> QED
  BY <1>1, <1>2 DEF IInv

LEMMA ShutdownInv ==
  ASSUME IInv, NEW c \in Conns, Shutdown(c)
  PROVE  IInv'
<1>1. Table'
  <2>1. streams \cup controlsockets = controlsockets \cup streams
    OBVIOUS
  <2>2. ekeyfd_pollfd' = <<>>
    BY <2>1, WithoutAll DEF IInv, Table, Shutdown
  <2>3. (controlsockets \cup streams)' = {}
    BY DEF IInv, Sets, Shutdown, kill_ekeys, delctlsockets
  <2> QED
    BY <2>2, <2>3, EmptyFits DEF Table
<1>2. Clients'
  BY DEF IInv, Clients, Said, Shutdown, commanded, delctlsockets, kill_ekeys
<1>3. Revents' /\ Sets' /\ Sockets' /\ Sleep' /\ Pass'
  BY DEF IInv, Revents, Sets, Sockets, Sleep, Pass, work, Shutdown, commanded,
         delctlsockets, kill_ekeys
<1> QED
  BY <1>1, <1>2, <1>3 DEF IInv

LEMMA KillInv ==
  ASSUME IInv, NEW c \in Conns, Kill(c)
  PROVE  IInv'
<1>1. Table'
  <2> DEFINE S == controlsockets \cup streams
  <2>1. Fits(ekeyfd_pollfd', S \ {c}, ctlwritebuffers)
    BY RmFits DEF IInv, Table, Kill
  <2>2. Fits(ekeyfd_pollfd', S \ {c}, ctlwritebuffers \ {c})
    <3>1. ctlwritebuffers \cap (S \ {c}) = (ctlwritebuffers \ {c}) \cap (S \ {c})
      OBVIOUS
    <3> QED
      BY <2>1, <3>1, SameWriters
  <2>3. /\ S \ {c} = (controlsockets \cup streams)'
        /\ ctlwritebuffers \ {c} = ctlwritebuffers'
    BY DaemonAssumption DEF IInv, Sets, Kill, delctlsockets
  <2> QED
    BY <2>2, <2>3, Zenon DEF Table
<1>2. Clients'
  BY DEF IInv, Clients, Said, Kill, allRun, delctlsockets
<1>3. Revents' /\ Sets' /\ Sockets' /\ Sleep' /\ Pass'
  BY DEF IInv, Revents, Sets, Sockets, Sleep, Pass, work, Kill, allRun,
         delctlsockets
<1> QED
  BY <1>1, <1>2, <1>3 DEF IInv

LEMMA ControlEndsInv ==
  ASSUME IInv, ControlEnds
  PROVE  IInv'
<1>1. Sleep'
  BY DEF IInv, Sleep, work, Pass, ControlEnds, allRun
<1>2. Table' /\ Revents' /\ Sets' /\ Clients' /\ Sockets' /\ Pass'
  BY DEF IInv, Table, Revents, Sets, Clients, Sockets, Pass, ControlEnds,
         allRun
<1> QED
  BY <1>1, <1>2 DEF IInv

LEMMA DialInv ==
  ASSUME IInv, NEW c \in Conns, Dial(c)
  PROVE  IInv'
BY DEF IInv, Table, Revents, Sets, Clients, Sockets, Sleep, Pass, work, Dial,
       unchangedInside

LEMMA SayInv ==
  ASSUME IInv, NEW c \in Conns, NEW line \in Cmds \cup {"half"}, Say(c, line)
  PROVE  IInv'
<1>1. Clients'
  BY DEF IInv, Clients, Said, Say, unchangedInside
<1>2. Table' /\ Revents' /\ Sets' /\ Sockets' /\ Sleep' /\ Pass'
  BY DEF IInv, Table, Revents, Sets, Sockets, Sleep, Pass, work, Say,
         unchangedInside
<1> QED
  BY <1>1, <1>2 DEF IInv

LEMMA HangUpInv ==
  ASSUME IInv, NEW c \in Conns, HangUp(c)
  PROVE  IInv'
BY DEF IInv, Table, Revents, Sets, Clients, Sockets, Sleep, Pass, work,
       HangUp, unchangedInside

LEMMA DrainsInv ==
  ASSUME IInv, NEW c \in Conns, Drains(c)
  PROVE  IInv'
BY DEF IInv, Table, Revents, Sets, Clients, Sockets, Sleep, Pass, work,
       Drains, unchangedInside

LEMMA KeySendsInv ==
  ASSUME IInv, NEW k \in Keys, KeySends(k)
  PROVE  IInv'
BY DEF IInv, Table, Revents, Sets, Clients, Sockets, Sleep, Pass, work,
       KeySends, unchangedInside

LEMMA UnplugInv ==
  ASSUME IInv, NEW k \in Keys, Unplug(k)
  PROVE  IInv'
BY DEF IInv, Table, Revents, Sets, Clients, Sockets, Sleep, Pass, work,
       Unplug, unchangedInside

LEMMA StutterInv ==
  ASSUME IInv, UNCHANGED vars
  PROVE  IInv'
BY DEF IInv, Table, Revents, Sets, Clients, Sockets, Sleep, Pass, work, vars

LEMMA StepInv == IInv /\ [Next]_vars => IInv'
<1> SUFFICES ASSUME IInv, [Next]_vars
             PROVE  IInv'
  OBVIOUS
<1>1. CASE NoDescriptors
  BY <1>1, NoDescriptorsInv
<1>2. CASE ekeyfd_poll
  BY <1>2, ekeyfd_pollInv
<1>3. CASE Walk
  BY <1>3, lua_fd_activityInv, ekey_fd_activityInv, WalkEndsInv DEF Walk
<1>4. CASE CONTROL
  <2>1. CASE Select
    BY <2>1, SelectInv
  <2>2. CASE ControlEnds
    BY <2>2, ControlEndsInv
  <2>3. ASSUME NEW c \in Conns,
               \/ Accept(c) \/ ReadLine(c) \/ ReadNothing(c)
               \/ WriteSkipped(c) \/ Write(c) \/ WriteFails(c)
        PROVE  IInv'
    BY <2>3, AcceptInv, ReadLineInv, ReadNothingInv, WriteSkippedInv, WriteInv,
       WriteFailsInv
  <2>4. ASSUME NEW c \in Conns,
               \/ List(c) \/ AddEntropyKey(c) \/ RemoveEntropyKey(c)
               \/ Bye(c) \/ Shutdown(c) \/ Kill(c)
        PROVE  IInv'
    BY <2>4, ListInv, AddEntropyKeyInv, RemoveEntropyKeyInv, ByeInv, ShutdownInv,
       KillInv
  <2> QED
    BY <1>4, <2>1, <2>2, <2>3, <2>4 DEF CONTROL
<1>5. CASE Around
  <2>1. ASSUME NEW c \in Conns,
               \/ Dial(c)
               \/ \E line \in Cmds \cup {"half"} : Say(c, line)
               \/ HangUp(c) \/ Drains(c)
        PROVE  IInv'
    BY <2>1, DialInv, SayInv, HangUpInv, DrainsInv
  <2>2. ASSUME NEW k \in Keys, KeySends(k) \/ Unplug(k)
        PROVE  IInv'
    BY <2>2, KeySendsInv, UnplugInv
  <2> QED
    BY <1>5, <2>1, <2>2 DEF Around
<1>6. CASE UNCHANGED vars
  BY <1>6, StutterInv
<1> QED
  BY <1>1, <1>2, <1>3, <1>4, <1>5, <1>6 DEF Next, Main

LEMMA Invariant == Spec => []IInv
<1>1. Init => IInv
  BY InitInv
<1>2. IInv /\ [Next]_vars => IInv'
  BY StepInv
<1> QED
  BY <1>1, <1>2, PTL DEF Spec

-----------------------------------------------------------------------------
(* The variables of ekeyd keep their types through every pass: what is to  *)
(* be read, written or killed is always an open socket.                    *)
THEOREM TypeCorrect == Spec => []TypeOK
<1>1. IInv => TypeOK
  BY InvMeans
<1> QED
  BY <1>1, Invariant, PTL

(* ekeyfd_poll polls the open sockets and streams, each once, and asks for *)
(* POLLOUT where an answer waits, although callbacks and commands add and  *)
(* remove entries while it, or CONTROL, goes through them.                 *)
THEOREM TableIsTrue == Spec => []TableMatches
<1>1. IInv => TableMatches
  BY InvMeans
<1> QED
  BY <1>1, Invariant, PTL

(* Commands, lines and marks left over by CONTROL, also by a call that     *)
(* ended with an error, end the next poll, unless their client, or one     *)
(* that was given up, does not read.                                       *)
THEOREM WorkIsNotForgotten == Spec => []WorkWakes
<1>1. IInv => WorkWakes
  BY InvMeans
<1> QED
  BY <1>1, Invariant, PTL
=============================================================================
