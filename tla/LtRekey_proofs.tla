--------------------------- MODULE LtRekey_proofs ----------------------------
(***************************************************************************)
(* Proofs about LtRekey, for any number of processes and devices, any      *)
(* losses and kills: unless the disk is full, a device the keyring knew    *)
(* stays known, and while no two processes run at once success means that  *)
(* device and keyring agree, and what the keyring says of other devices is *)
(* left alone.                                                             *)
(*                                                                         *)
(* The first rests on where whole lists are (Whole): every list in memory, *)
(* the .new file and the .new.tmp file of the one process that has written *)
(* it (Written).  The second follows a key from the device to the file     *)
(* (Committed, Follows): before the acknowledgement is read the device has *)
(* the key only if the acknowledgement is under way, afterwards nothing    *)
(* that is under way makes it change the key again; a run that began with  *)
(* a rekeying of an earlier one under way (stale) is left out.             *)
(***************************************************************************)
EXTENDS LtRekey, SequenceTheorems, TLAPS

FileTypes ==
  /\ keyring \in Contents \cup {Absent} /\ new \in Contents \cup {Absent}
  /\ tmp \in Contents \cup {Absent}
  /\ \A f \in {keyring, new, tmp} \ {Absent} : Distinct(f)

ProcTypes ==
  /\ proc \in [Procs -> Processes]
  /\ \A p \in Procs : Distinct(proc[p].ents)
  /\ \A p \in Procs : proc[p].at \in {"snum", "mac"} => proc[p].retries > 0

LinkTypes ==
  /\ toTool \in [Devices -> Seq(Frames)]
  /\ toDev \in [Devices -> Seq(Commands)]

KeyTypes ==
  /\ ltkey \in [Devices -> LongTermKeys]
  /\ unlocked \in [Devices -> Commands \cup {NULL}]
  /\ fresh \in Values

RestTypes ==
  /\ faults \in 0 .. MaxFaults
  /\ overlap \in BOOLEAN
  /\ stale \subseteq Devices
  /\ installed \subseteq Devices

(* TypeOK, and that a loop that counts has retries left.                   *)
Types == FileTypes /\ ProcTypes /\ LinkTypes /\ KeyTypes /\ RestTypes

Knows(ents) == \A d \in installed : snum_to_ltkey(ents, d) # NULL

(* Every list that may become the keyring knows the devices known at first. *)
Whole ==
  /\ keyring = Absent => installed = {}
  /\ \A f \in {keyring, new} \ {Absent} : Knows(f)
  /\ \A p \in Alive : Knows(proc[p].ents)

(* The .new.tmp file is that of one process, and whole once it is flushed. *)
Written ==
  \A p \in Procs :
    proc[p].at \in {"lines", "rename_tmp"} =>
      /\ tmp # Absent
      /\ \A q \in Procs : proc[q].at \in {"lines", "rename_tmp"} => q = p
      /\ proc[p].at = "rename_tmp" => tmp = proc[p].ents

NoRekey(commands) == \A i \in DOMAIN commands : commands[i].cmd # "L"
NoAck(frames) == \A i \in DOMAIN frames : frames[i].type # "L"

(* The one command that may change a key while its process waits.          *)
OneRekey(commands, nonce) ==
  \A i \in DOMAIN commands :
    commands[i].cmd = "L" =>
      /\ commands[i].nonce = nonce
      /\ \A j \in DOMAIN commands : commands[j].cmd = "L" => j = i

Acks(frames, nonce, key) ==
  \A i \in DOMAIN frames : frames[i].type = "L" => key = <<nonce, frames[i].entropy>>

(* The key of device d that p was started for, on its way to the file.     *)
Follows(p, d) ==
  /\ proc[p].at \in {"snum", "mac"} => NoRekey(toDev[d]) /\ NoAck(toTool[d])
  /\ proc[p].at = "ack" =>
       \/ NoAck(toTool[d]) /\ OneRekey(toDev[d], proc[p].nonce)
       \/ NoRekey(toDev[d]) /\ Acks(toTool[d], proc[p].nonce, ltkey[d])
  /\ proc[p].at \in {"open", "lines", "rename_tmp", "rename_new"} =>
       NoRekey(toDev[d]) /\ snum_to_ltkey(proc[p].ents, d) = ltkey[d]
  /\ proc[p].status = 0 => NoRekey(toDev[d]) /\ Agree(d)

Committed(p) ==
  /\ proc[p].at = "rename_new" => new = proc[p].ents
  /\ proc[p].dev \notin stale => Follows(p, proc[p].dev)

(* Of the other devices p has what the keyring says.                       *)
Others(p) ==
  \A s \in Devices \ {proc[p].dev} : snum_to_ltkey(proc[p].ents, s) = Known(s)

(* While no two processes have overlapped.                                 *)
Alone ==
  ~overlap =>
    /\ \A p \in Procs : Committed(p)
    /\ \A p \in Alive : Others(p) /\ \A q \in Procs : q # p => proc[q].at = "exit"
    /\ \A p \in Procs : proc[p].status = 0 => Alive = {}

IInv == Types /\ Whole /\ Written /\ Alone

-----------------------------------------------------------------------------
(* Lists of keys *)

(* What a list without repetitions says of a device.                       *)
LEMMA Found ==
  ASSUME NEW c \in Contents, Distinct(c), NEW i \in DOMAIN c
  PROVE  snum_to_ltkey(c, c[i].snum) = c[i].ltkey
<1>1. c[i].snum \in Devices
  <2>1. i \in 1 .. Len(c)
    BY LenProperties DEF Contents
  <2>2. c[i] \in Entries
    BY <2>1, ElementOfSeq DEF Contents
  <2> QED
    BY <2>2 DEF Entries
<1>2. find_ltkey(c, c[i].snum) = {i}
  BY <1>1 DEF find_ltkey, Distinct
<1> QED
  BY <1>2 DEF snum_to_ltkey

LEMMA NotFound ==
  ASSUME NEW c, NEW s, \A i \in DOMAIN c : c[i].snum # s
  PROVE  snum_to_ltkey(c, s) = NULL
<1>1. find_ltkey(c, s) = {}
  BY DEF find_ltkey
<1> QED
  BY <1>1 DEF snum_to_ltkey

(* Two lists with the same entries for a device say the same of it.        *)
LEMMA SameEntry ==
  ASSUME NEW b \in Contents, Distinct(b), NEW c \in Contents, Distinct(c), NEW s,
         \A i \in DOMAIN b : b[i].snum = s => \E j \in DOMAIN c : c[j] = b[i],
         \A j \in DOMAIN c : c[j].snum = s => \E i \in DOMAIN b : b[i] = c[j]
  PROVE  snum_to_ltkey(b, s) = snum_to_ltkey(c, s)
<1>1. CASE \E i \in DOMAIN b : b[i].snum = s
  <2>1. PICK i \in DOMAIN b : b[i].snum = s
    BY <1>1
  <2>2. PICK j \in DOMAIN c : c[j] = b[i]
    BY <2>1
  <2> QED
    BY <2>1, <2>2, Found
<1>2. CASE \A i \in DOMAIN b : b[i].snum # s
  <2>1. \A j \in DOMAIN c : c[j].snum # s
    BY <1>2
  <2> QED
    BY <1>2, <2>1, NotFound
<1> QED
  BY <1>1, <1>2

LEMMA ReadList ==
  ASSUME NEW c \in Contents, Distinct(c)
  PROVE  /\ read_keyring(c) \in Contents
         /\ Distinct(read_keyring(c))
         /\ \A s : snum_to_ltkey(read_keyring(c), s) = snum_to_ltkey(c, s)
<1> DEFINE r == read_keyring(c)
           n == Len(c)
<1>1. n \in Nat /\ DOMAIN c = 1 .. n /\ \A i \in 1 .. n : c[i] \in Entries
  BY LenProperties, ElementOfSeq DEF Contents
<1>2. r = [i \in 1 .. n |-> c[n - i + 1]]
  BY DEF read_keyring, Reverse
<1>3. \A i \in 1 .. n : n - i + 1 \in 1 .. n /\ n - (n - i + 1) + 1 = i
  BY <1>1
<1>4. r \in Contents /\ DOMAIN r = 1 .. n
  BY <1>1, <1>2, <1>3, IsASeq DEF Contents
<1>5. \A i \in 1 .. n : r[i] = c[n - i + 1] /\ c[i] = r[n - i + 1]
  BY <1>2, <1>3
<1> HIDE DEF r, n
<1>6. Distinct(r)
  <2> SUFFICES ASSUME NEW s \in Devices, NEW i \in 1 .. n, NEW j \in 1 .. n,
                      r[i].snum = s, r[j].snum = s
               PROVE  i = j
    BY <1>4 DEF Distinct, find_ltkey
  <2>1. n - i + 1 = n - j + 1
    BY <1>1, <1>3, <1>5 DEF Distinct, find_ltkey
  <2> QED
    BY <1>1, <2>1
<1>7. \A s : snum_to_ltkey(r, s) = snum_to_ltkey(c, s)
  BY <1>1, <1>3, <1>4, <1>5, <1>6, SameEntry
<1> QED
  BY <1>4, <1>6, <1>7 DEF r

LEMMA AddList ==
  ASSUME NEW c \in Contents, Distinct(c), NEW e \in Entries
  PROVE  /\ add_ltkey(c, e) \in Contents
         /\ Distinct(add_ltkey(c, e))
         /\ snum_to_ltkey(add_ltkey(c, e), e.snum) = e.ltkey
         /\ \A s : s # e.snum => snum_to_ltkey(add_ltkey(c, e), s) = snum_to_ltkey(c, s)
<1> DEFINE r == add_ltkey(c, e)
           n == Len(c)
<1>1. n \in Nat /\ DOMAIN c = 1 .. n /\ \A i \in 1 .. n : c[i] \in Entries
  BY LenProperties, ElementOfSeq DEF Contents
<1>2. e.snum \in Devices
  BY DEF Entries
<1>3. \A s \in Devices : \A i, j \in 1 .. n : c[i].snum = s /\ c[j].snum = s => i = j
  BY <1>1 DEF Distinct, find_ltkey
<1>4. CASE \A i \in 1 .. n : c[i].snum # e.snum
  <2>1. r = <<e>> \o c
    BY <1>1, <1>4 DEF add_ltkey, find_ltkey
  <2>2. <<e>> \in Seq(Entries) /\ Len(<<e>>) = 1 /\ <<e>>[1] = e
    OBVIOUS
  <2>3. /\ r \in Seq(Entries)
        /\ Len(r) = 1 + n
        /\ \A i \in 1 .. 1 + n : r[i] = IF i <= 1 THEN <<e>>[i] ELSE c[i - 1]
    BY <2>1, <2>2, ConcatProperties DEF Contents
  <2>4. DOMAIN r = 1 .. n + 1
    BY <1>1, <2>3, LenProperties
  <2> HIDE DEF r, n
  <2>5. 1 \in 1 .. n + 1 /\ r[1] = e
    BY <1>1, <2>2, <2>3
  <2>6. \A i \in 1 .. n + 1 : i # 1 => i - 1 \in 1 .. n /\ r[i] = c[i - 1]
    BY <1>1, <2>3
  <2>7. \A i \in 1 .. n : i + 1 \in 1 .. n + 1 /\ r[i + 1] = c[i]
    BY <1>1, <2>3
  <2>8. Distinct(r)
    <3> SUFFICES ASSUME NEW s \in Devices, NEW i \in 1 .. n + 1, NEW j \in 1 .. n + 1,
                        r[i].snum = s, r[j].snum = s
                 PROVE  i = j
      BY <2>4 DEF Distinct, find_ltkey
    <3>1. CASE i = 1 \/ j = 1
      BY <1>4, <2>5, <2>6, <3>1
    <3>2. CASE i # 1 /\ j # 1
      <4>1. i - 1 = j - 1
        BY <1>3, <2>6, <3>2
      <4> QED
        BY <1>1, <4>1
    <3> QED
      BY <3>1, <3>2
  <2>9. snum_to_ltkey(r, e.snum) = e.ltkey
    BY <2>3, <2>4, <2>5, <2>8, Found DEF Contents
  <2>10. \A s : s # e.snum => snum_to_ltkey(r, s) = snum_to_ltkey(c, s)
    <3> SUFFICES ASSUME NEW s, s # e.snum
                 PROVE  snum_to_ltkey(r, s) = snum_to_ltkey(c, s)
      OBVIOUS
    <3>1. \A i \in DOMAIN r : r[i].snum = s => \E j \in DOMAIN c : c[j] = r[i]
      BY <1>1, <2>4, <2>5, <2>6
    <3>2. \A j \in DOMAIN c : c[j].snum = s => \E i \in DOMAIN r : r[i] = c[j]
      BY <1>1, <2>4, <2>7
    <3> QED
      BY <2>3, <2>8, <3>1, <3>2, SameEntry DEF Contents
  <2> QED
    BY <2>3, <2>8, <2>9, <2>10 DEF r, Contents
<1>5. CASE \E k \in 1 .. n : c[k].snum = e.snum
  <2>1. PICK k \in 1 .. n : c[k].snum = e.snum
    BY <1>5
  <2>2. find_ltkey(c, e.snum) = {k}
    BY <1>1, <1>2, <1>3, <2>1 DEF find_ltkey
  <2>3. r = [i \in 1 .. n |-> IF i = k THEN e ELSE c[i]]
    BY <1>1, <2>2 DEF add_ltkey
  <2>4. r \in Contents /\ DOMAIN r = 1 .. n
    BY <1>1, <2>3, IsASeq DEF Contents
  <2>5. \A i \in 1 .. n : r[i] = IF i = k THEN e ELSE c[i]
    BY <2>3
  <2> HIDE DEF r, n
  <2>6. Distinct(r)
    BY <1>3, <2>1, <2>4, <2>5 DEF Distinct, find_ltkey
  <2>7. snum_to_ltkey(r, e.snum) = e.ltkey
    BY <2>4, <2>5, <2>6, Found
  <2>8. \A s : s # e.snum => snum_to_ltkey(r, s) = snum_to_ltkey(c, s)
    <3> SUFFICES ASSUME NEW s, s # e.snum
                 PROVE  snum_to_ltkey(r, s) = snum_to_ltkey(c, s)
      OBVIOUS
    <3>1. \A i \in 1 .. n : r[i].snum = s \/ c[i].snum = s => r[i] = c[i]
      BY <2>1, <2>5
    <3> QED
      BY <1>1, <2>4, <2>6, <3>1, SameEntry
  <2> QED
    BY <2>4, <2>6, <2>7, <2>8 DEF r
<1> QED
  BY <1>4, <1>5

(* What reaches the file of a list (fflush), all of it unless the disk is full. *)
LEMMA SubList ==
  ASSUME NEW c \in Contents, Distinct(c), NEW n \in 0 .. Len(c)
  PROVE  /\ SubSeq(c, 1, n) \in Contents
         /\ Distinct(SubSeq(c, 1, n))
         /\ n = Len(c) => SubSeq(c, 1, n) = c
<1>1. Len(c) \in Nat /\ DOMAIN c = 1 .. Len(c) /\ c \in Seq(Entries)
  BY LenProperties DEF Contents
<1>2. /\ SubSeq(c, 1, n) \in Seq(Entries)
      /\ Len(SubSeq(c, 1, n)) = n
      /\ \A i \in 1 .. n : SubSeq(c, 1, n)[i] = c[i]
  BY <1>1, SubSeqProperties
<1>3. DOMAIN SubSeq(c, 1, n) = 1 .. n
  BY <1>2, LenProperties
<1>4. Distinct(SubSeq(c, 1, n))
  BY <1>1, <1>2, <1>3 DEF Distinct, find_ltkey
<1>5. n = Len(c) => SubSeq(c, 1, n) = c
  BY <1>1, SubSeqFull
<1> QED
  BY <1>2, <1>4, <1>5 DEF Contents

-----------------------------------------------------------------------------
(* What is under way *)

LEMMA TailOf ==
  ASSUME NEW S, NEW c \in Seq(S), c # <<>>
  PROVE  /\ Tail(c) \in Seq(S)
         /\ 1 \in DOMAIN c /\ Head(c) = c[1]
         /\ \A i \in DOMAIN Tail(c) : i + 1 \in DOMAIN c /\ i + 1 # 1 /\ Tail(c)[i] = c[i + 1]
         /\ \A i, j \in DOMAIN Tail(c) : i + 1 = j + 1 => i = j
<1>1. /\ Tail(c) \in Seq(S)
      /\ Len(Tail(c)) = Len(c) - 1
      /\ \A i \in 1 .. Len(Tail(c)) : Tail(c)[i] = c[i + 1]
  BY HeadTailProperties
<1>2. /\ DOMAIN c = 1 .. Len(c) /\ Len(c) \in Nat /\ Len(c) # 0
      /\ DOMAIN Tail(c) = 1 .. Len(Tail(c))
  BY <1>1, LenProperties, EmptySeq
<1> QED
  BY <1>1, <1>2

LEMMA AppendOf ==
  ASSUME NEW S, NEW c \in Seq(S), NEW e \in S
  PROVE  /\ Append(c, e) \in Seq(S)
         /\ Len(c) + 1 \in DOMAIN Append(c, e) /\ Append(c, e)[Len(c) + 1] = e
         /\ \A i \in DOMAIN Append(c, e) :
              i # Len(c) + 1 => i \in DOMAIN c /\ Append(c, e)[i] = c[i]
<1>1. /\ Append(c, e) \in Seq(S)
      /\ Len(Append(c, e)) = Len(c) + 1
      /\ \A i \in 1 .. Len(c) : Append(c, e)[i] = c[i]
      /\ Append(c, e)[Len(c) + 1] = e
  BY AppendProperties
<1>2. /\ DOMAIN c = 1 .. Len(c) /\ Len(c) \in Nat
      /\ DOMAIN Append(c, e) = 1 .. Len(c) + 1
  BY <1>1, LenProperties
<1> QED
  BY <1>1, <1>2

LEMMA CommandsTail ==
  ASSUME NEW c \in Seq(Commands), c # <<>>
  PROVE  /\ NoRekey(c) => NoRekey(Tail(c)) /\ Head(c).cmd # "L"
         /\ \A n : OneRekey(c, n) => OneRekey(Tail(c), n)
         /\ \A n : OneRekey(c, n) /\ Head(c).cmd = "L" =>
              Head(c).nonce = n /\ NoRekey(Tail(c))
<1> DEFINE t == Tail(c)
<1>1. /\ 1 \in DOMAIN c /\ Head(c) = c[1]
      /\ \A i \in DOMAIN t : i + 1 \in DOMAIN c /\ i + 1 # 1 /\ t[i] = c[i + 1]
      /\ \A i, j \in DOMAIN t : i + 1 = j + 1 => i = j
  BY TailOf
<1> HIDE DEF t
<1>2. NoRekey(c) => NoRekey(t) /\ Head(c).cmd # "L"
  BY <1>1 DEF NoRekey
<1>3. \A n : OneRekey(c, n) => OneRekey(t, n)
  BY <1>1 DEF OneRekey
<1>4. \A n : OneRekey(c, n) /\ Head(c).cmd = "L" => Head(c).nonce = n /\ NoRekey(t)
  BY <1>1 DEF OneRekey, NoRekey
<1> QED
  BY <1>2, <1>3, <1>4 DEF t

LEMMA CommandsAppend ==
  ASSUME NEW c \in Seq(Commands), NEW e \in Commands, NoRekey(c)
  PROVE  /\ e.cmd # "L" => NoRekey(Append(c, e))
         /\ \A n : e.nonce = n => OneRekey(Append(c, e), n)
         /\ \A n : OneRekey(c, n)
<1> DEFINE t == Append(c, e)
<1>1. /\ Len(c) + 1 \in DOMAIN t /\ t[Len(c) + 1] = e
      /\ \A i \in DOMAIN t : i # Len(c) + 1 => i \in DOMAIN c /\ t[i] = c[i]
  BY AppendOf
<1> HIDE DEF t
<1>2. e.cmd # "L" => NoRekey(t)
  BY <1>1 DEF NoRekey
<1>3. \A n : e.nonce = n => OneRekey(t, n)
  BY <1>1 DEF NoRekey, OneRekey
<1>4. \A n : OneRekey(c, n)
  BY DEF NoRekey, OneRekey
<1> QED
  BY <1>2, <1>3, <1>4 DEF t

LEMMA FramesTail ==
  ASSUME NEW f \in Seq(Frames), f # <<>>
  PROVE  /\ NoAck(f) => NoAck(Tail(f)) /\ Head(f).type # "L"
         /\ \A n, k : Acks(f, n, k) =>
              /\ Acks(Tail(f), n, k)
              /\ Head(f).type = "L" => k = <<n, Head(f).entropy>>
<1> DEFINE t == Tail(f)
<1>1. /\ 1 \in DOMAIN f /\ Head(f) = f[1]
      /\ \A i \in DOMAIN t : i + 1 \in DOMAIN f /\ t[i] = f[i + 1]
  BY TailOf
<1> HIDE DEF t
<1>2. NoAck(f) => NoAck(t) /\ Head(f).type # "L"
  BY <1>1 DEF NoAck
<1>3. \A n, k : Acks(f, n, k) =>
        Acks(t, n, k) /\ (Head(f).type = "L" => k = <<n, Head(f).entropy>>)
  BY <1>1 DEF Acks
<1> QED
  BY <1>2, <1>3 DEF t

LEMMA FramesAppend ==
  ASSUME NEW f \in Seq(Frames), NEW e \in Frames
  PROVE  /\ NoAck(f) /\ e.type # "L" => NoAck(Append(f, e))
         /\ \A n, k : Acks(f, n, k) /\ e.type # "L" => Acks(Append(f, e), n, k)
         /\ \A n : NoAck(f) => Acks(Append(f, e), n, <<n, e.entropy>>)
<1> DEFINE t == Append(f, e)
<1>1. /\ Len(f) + 1 \in DOMAIN t /\ t[Len(f) + 1] = e
      /\ \A i \in DOMAIN t : i # Len(f) + 1 => i \in DOMAIN f /\ t[i] = f[i]
  BY AppendOf
<1> HIDE DEF t
<1>2. NoAck(f) /\ e.type # "L" => NoAck(t)
  BY <1>1 DEF NoAck
<1>3. \A n, k : Acks(f, n, k) /\ e.type # "L" => Acks(t, n, k)
  BY <1>1 DEF Acks
<1>4. \A n : NoAck(f) => Acks(t, n, <<n, e.entropy>>)
  BY <1>1 DEF Acks, NoAck
<1> QED
  BY <1>2, <1>3, <1>4 DEF t

-----------------------------------------------------------------------------
(* Types *)

LEMMA NoEntries ==
  <<>> \in Contents /\ Distinct(<<>>)
<1>1. <<>> \in Seq(Entries) /\ DOMAIN <<>> = {}
  OBVIOUS
<1> QED
  BY <1>1 DEF Contents, Distinct, find_ltkey

LEMMA EndedTypes ==
  ASSUME NEW d \in Devices, NEW code \in {NULL, 0, 1, 2, 3, 4, 6}
  PROVE  /\ Ended(d, code) \in Processes
         /\ Distinct(Ended(d, code).ents)
         /\ Ended(d, code).at = "exit"
<1>1. 0 \in 0 .. Retries /\ 0 \in Values
  BY RekeyAssumption DEF Values
<1> QED
  BY <1>1, NoEntries DEF Ended, Processes

LEMMA SetTypes ==
  ASSUME ProcTypes, NEW p \in Procs, NEW r \in Processes, Distinct(r.ents),
         r.at \in {"snum", "mac"} => r.retries > 0, set(p, r)
  PROVE  ProcTypes'
BY DEF ProcTypes, set

LEMMA ExitTypes ==
  ASSUME ProcTypes, NEW p \in Procs, NEW code \in {NULL, 0, 1, 2, 3, 4, 6}, exit(p, code)
  PROVE  ProcTypes'
<1>1. proc[p].dev \in Devices
  BY DEF ProcTypes, Processes
<1> QED
  BY <1>1, EndedTypes, SetTypes DEF exit

LEMMA RetryTypes ==
  ASSUME ProcTypes, NEW p \in Procs, proc[p].at \in {"snum", "mac"}, retry(p)
  PROVE  ProcTypes'
<1>1. CASE proc[p].retries = 1
  BY <1>1, ExitTypes DEF retry
<1>2. CASE proc[p].retries # 1
  <2> DEFINE r == [proc[p] EXCEPT !.retries = @ - 1]
  <2>1. proc[p] \in Processes /\ proc[p].retries > 0
    BY DEF ProcTypes
  <2>2. proc[p].retries - 1 \in 0 .. Retries /\ proc[p].retries - 1 > 0
    BY <1>2, <2>1, RekeyAssumption DEF Processes
  <2>3. r \in Processes /\ r.retries > 0 /\ r.ents = proc[p].ents
    BY <2>1, <2>2 DEF Processes
  <2>4. Distinct(r.ents)
    BY <2>3 DEF ProcTypes
  <2> QED
    BY <1>2, <2>3, <2>4, SetTypes DEF retry
<1> QED
  BY <1>1, <1>2

LEMMA GotoTypes ==
  ASSUME ProcTypes, NEW p \in Procs,
         NEW at \in {"ack", "open", "lines", "rename_tmp", "rename_new"}, goto(p, at)
  PROVE  ProcTypes'
<1> DEFINE r == [proc[p] EXCEPT !.at = at]
<1>1. proc[p] \in Processes /\ Distinct(proc[p].ents)
  BY DEF ProcTypes
<1>2. r \in Processes /\ r.at \notin {"snum", "mac"} /\ r.ents = proc[p].ents
  BY <1>1 DEF Processes
<1> QED
  BY <1>1, <1>2, SetTypes DEF goto

(* What a process knows of its own record.                                 *)
LEMMA OwnRecord ==
  ASSUME ProcTypes, NEW p \in Procs
  PROVE  /\ proc[p].dev \in Devices /\ proc[p].ents \in Contents
         /\ Distinct(proc[p].ents) /\ proc[p].mkey \in BOOLEAN
         /\ proc[p].nonce \in Values
BY DEF ProcTypes, Processes

LEMMA WriteTypes ==
  ASSUME LinkTypes, NEW d \in Devices, NEW c \in Commands, write(d, c)
  PROVE  toDev' \in [Devices -> Seq(Commands)]
<1>1. toDev[d] \in Seq(Commands)
  BY DEF LinkTypes
<1>2. Append(toDev[d], c) \in Seq(Commands)
  BY <1>1, AppendProperties
<1> QED
  BY <1>2 DEF LinkTypes, write

(* A frame is read *)
LEMMA ReadTypes ==
  ASSUME Types, NEW p \in Procs, NEW at, NEW f, reading(p, at, f)
  PROVE  /\ toTool' \in [Devices -> Seq(Frames)]
         /\ f \in Frames
         /\ FileTypes' /\ RestTypes' /\ ltkey' \in [Devices -> LongTermKeys]
         /\ unlocked' \in [Devices -> Commands \cup {NULL}]
<1>1. FileTypes /\ ProcTypes /\ LinkTypes /\ KeyTypes /\ RestTypes
  BY DEF Types
<1> DEFINE d == proc[p].dev
<1>2. d \in Devices /\ toTool[d] \in Seq(Frames) /\ toTool[d] # <<>>
  BY <1>1, OwnRecord DEF LinkTypes, reading
<1>3. Tail(toTool[d]) \in Seq(Frames) /\ Head(toTool[d]) \in Frames
  BY <1>2, HeadTailProperties
<1>4. toTool' \in [Devices -> Seq(Frames)] /\ f \in Frames
  BY <1>1, <1>2, <1>3 DEF LinkTypes, reading
<1>5. /\ FileTypes' /\ RestTypes' /\ ltkey' \in [Devices -> LongTermKeys]
      /\ unlocked' \in [Devices -> Commands \cup {NULL}]
  BY <1>1 DEF FileTypes, RestTypes, KeyTypes, reading, files, history
<1> QED
  BY <1>4, <1>5

LEMMA AnswerTypes ==
  ASSUME Types, NEW d \in Devices, NEW c, NEW f \in Frames, answer(d, c, f)
  PROVE  /\ FileTypes' /\ ProcTypes' /\ LinkTypes' /\ RestTypes'
         /\ Head(toDev[d]) \in Commands /\ Head(toDev[d]).cmd = c
<1>1. FileTypes /\ ProcTypes /\ LinkTypes /\ KeyTypes /\ RestTypes
  BY DEF Types
<1>2. toDev[d] \in Seq(Commands) /\ toDev[d] # <<>> /\ toTool[d] \in Seq(Frames)
  BY <1>1 DEF LinkTypes, answer
<1>3. Tail(toDev[d]) \in Seq(Commands) /\ Head(toDev[d]) \in Commands
  BY <1>2, HeadTailProperties
<1>4. Append(toTool[d], f) \in Seq(Frames)
  BY <1>2, AppendProperties
<1>5. LinkTypes'
  BY <1>1, <1>3, <1>4 DEF LinkTypes, answer
<1>6. FileTypes' /\ ProcTypes' /\ RestTypes'
  BY <1>1 DEF FileTypes, ProcTypes, RestTypes, answer, files, history
<1> QED
  BY <1>3, <1>5, <1>6 DEF answer

LEMMA KilledTypes ==
  ASSUME Types, NEW p \in Procs, exit(p, NULL), UNCHANGED <<files, devVars, history>>,
         faults' \in 0 .. MaxFaults
  PROVE  Types'
<1>1. FileTypes /\ ProcTypes /\ LinkTypes /\ KeyTypes /\ RestTypes
  BY DEF Types
<1>2. ProcTypes'
  BY <1>1, ExitTypes
<1>3. FileTypes' /\ LinkTypes' /\ KeyTypes' /\ RestTypes'
  BY <1>1 DEF FileTypes, LinkTypes, KeyTypes, RestTypes, files, devVars, history
<1> QED
  BY <1>2, <1>3 DEF Types

LEMMA FreshTypes ==
  ASSUME fresh \in Values
  PROVE  (fresh + 1) % Fresh \in Values
BY RekeyAssumption DEF Values

LEMMA FaultTypes ==
  ASSUME faults \in 0 .. MaxFaults, fault
  PROVE  faults' \in 0 .. MaxFaults
BY RekeyAssumption DEF fault

LEMMA SomeProc ==
  ASSUME Alive # Procs
  PROVE  /\ (CHOOSE q \in Procs : q \notin Alive) \in Procs
         /\ (CHOOSE q \in Procs : q \notin Alive) \notin Alive
BY DEF Alive

(* The process that starts.                                                *)
LEMMA StartRecord ==
  ASSUME Types, NEW d \in Devices, NEW right \in BOOLEAN, keyring # Absent
  PROVE  LET r == [Ended(d, NULL) EXCEPT
                    !.at = "snum", !.ents = read_keyring(keyring),
                    !.retries = Retries, !.mkey = right]
         IN  /\ r \in Processes /\ r.at = "snum" /\ r.dev = d /\ r.retries > 0
             /\ r.ents = read_keyring(keyring) /\ r.status = NULL
             /\ Distinct(r.ents)
<1>1. keyring \in Contents /\ Distinct(keyring)
  BY DEF Types, FileTypes
<1>2. read_keyring(keyring) \in Contents /\ Distinct(read_keyring(keyring))
  BY <1>1, ReadList
<1>3. Retries \in 0 .. Retries /\ Retries > 0 /\ 0 \in Values
  BY RekeyAssumption DEF Values
<1> QED
  BY <1>2, <1>3 DEF Ended, Processes

(* What estream_open leaves under way.                                     *)
LEMMA LeftUnderWay ==
  ASSUME LinkTypes, NEW d \in Devices, estream_open(d)
  PROVE  /\ LinkTypes'
         /\ \A e \in Devices \ {d} : toTool'[e] = toTool[e] /\ toDev'[e] = toDev[e]
         /\ stale' \in {stale \cup {d}, stale \ {d}}
         /\ d \notin stale' => NoRekey(toDev'[d]) /\ NoAck(toTool'[d])
<1> DEFINE frames(n) == SubSeq(toTool[d], n + 1, Len(toTool[d]))
           commands(m) == SubSeq(toDev[d], 1, m)
<1>1. PICK n \in 0 .. Len(toTool[d]), m \in 0 .. Len(toDev[d]) :
        /\ toTool' = [toTool EXCEPT ![d] = frames(n)]
        /\ toDev' = [toDev EXCEPT ![d] =
             IF m < LinkCap[d] THEN Append(commands(m), Reset) ELSE commands(m)]
        /\ stale' = IF rekeying(frames(n), commands(m)) THEN stale \cup {d}
                                                       ELSE stale \ {d}
  BY DEF estream_open
<1>2. /\ toTool[d] \in Seq(Frames) /\ Len(toTool[d]) \in Nat
      /\ toDev[d] \in Seq(Commands) /\ Len(toDev[d]) \in Nat
  BY LenProperties DEF LinkTypes
<1>3. frames(n) \in Seq(Frames)
  <2>1. \A i \in n + 1 .. Len(toTool[d]) : toTool[d][i] \in Frames
    BY <1>2, ElementOfSeq
  <2> QED
    BY <1>2, <2>1, SubSeqProperties
<1>4. commands(m) \in Seq(Commands)
  <2>1. \A i \in 1 .. m : toDev[d][i] \in Commands
    BY <1>2, ElementOfSeq
  <2> QED
    BY <1>2, <2>1, SubSeqProperties
<1> DEFINE f == frames(n)
           c == commands(m)
<1>5. /\ toTool' = [toTool EXCEPT ![d] = f] /\ f \in Seq(Frames) /\ c \in Seq(Commands)
      /\ \/ toDev' = [toDev EXCEPT ![d] = Append(c, Reset)]
         \/ toDev' = [toDev EXCEPT ![d] = c]
      /\ stale' = IF rekeying(f, c) THEN stale \cup {d} ELSE stale \ {d}
  BY <1>1, <1>3, <1>4
<1> HIDE DEF frames, commands, f, c
<1>6. Reset \in Commands /\ Reset.cmd # "L"
  BY DEF Commands, Reset
<1>7. Append(c, Reset) \in Seq(Commands)
  BY <1>5, <1>6, AppendProperties
<1>8. LinkTypes'
  BY <1>5, <1>7 DEF LinkTypes
<1>9. \A e \in Devices \ {d} : toTool'[e] = toTool[e] /\ toDev'[e] = toDev[e]
  BY <1>5 DEF LinkTypes
<1>10. ASSUME d \notin stale'
       PROVE  NoRekey(toDev'[d]) /\ NoAck(toTool'[d])
  <2>1. ~rekeying(f, c)
    BY <1>5, <1>10
  <2>2. NoAck(f) /\ NoRekey(c)
    BY <2>1 DEF rekeying, Range, NoAck, NoRekey
  <2>3. NoRekey(Append(c, Reset))
    BY <1>5, <1>6, <2>2, CommandsAppend
  <2>4. toTool'[d] = f /\ toDev'[d] \in {c, Append(c, Reset)}
    BY <1>5 DEF LinkTypes
  <2> QED
    BY <2>2, <2>3, <2>4
<1> QED
  BY <1>5, <1>8, <1>9, <1>10

LEMMA StartTypes ==
  ASSUME Types, NEW d \in Devices, NEW right \in BOOLEAN, Start(d, right)
  PROVE  Types'
<1> DEFINE p == CHOOSE q \in Procs : q \notin Alive
           r == [Ended(d, NULL) EXCEPT
                  !.at = "snum", !.ents = read_keyring(keyring),
                  !.retries = Retries, !.mkey = right]
<1>1. FileTypes /\ ProcTypes /\ LinkTypes /\ KeyTypes /\ RestTypes
  BY DEF Types
<1>2. p \in Procs
  BY SomeProc DEF Start, starting
<1>3. ASSUME NEW x \in Processes, Distinct(x.ents),
             x.at \in {"snum", "mac"} => x.retries > 0, x.dev = d, start(p, x)
      PROVE  ProcTypes'
  <2>1. Ended(d, NULL) \in Processes /\ Distinct(Ended(d, NULL).ents)
          /\ Ended(d, NULL).at = "exit"
    BY EndedTypes
  <2>2. \A q \in Procs : proc'[q] \in {x, Ended(d, NULL), proc[q]}
    BY <1>3 DEF start
  <2>3. proc' = [q \in Procs |-> proc'[q]]
    BY <1>3 DEF start
  <2> QED
    BY <1>1, <1>3, <2>1, <2>2, <2>3 DEF ProcTypes
<1>4. ProcTypes' /\ LinkTypes' /\ stale' \subseteq Devices
  <2>1. CASE keyring = Absent
    <3>1. start(p, Ended(d, 2)) /\ UNCHANGED <<toTool, toDev, stale>>
      BY <2>1 DEF Start
    <3>2. Ended(d, 2).dev = d
      BY DEF Ended
    <3>3. ProcTypes'
      BY <1>3, <3>1, <3>2, EndedTypes
    <3>4. LinkTypes'
      BY <1>1, <3>1 DEF LinkTypes
    <3>5. stale' \subseteq Devices
      BY <1>1, <3>1 DEF RestTypes
    <3> QED
      BY <3>3, <3>4, <3>5
  <2>2. CASE keyring # Absent
    <3>1. start(p, r) /\ estream_open(d)
      BY <2>2 DEF Start
    <3>2. ProcTypes'
      <4>1. r \in Processes /\ r.retries > 0 /\ r.dev = d /\ Distinct(r.ents)
        BY <2>2, StartRecord
      <4> HIDE DEF r, p
      <4> QED
        BY <1>3, <3>1, <4>1
    <3>3. LinkTypes' /\ stale' \in {stale \cup {d}, stale \ {d}}
      BY <1>1, <3>1, LeftUnderWay
    <3> QED
      BY <1>1, <3>2, <3>3 DEF RestTypes
  <2> QED
    BY <2>1, <2>2
<1>5. FileTypes' /\ KeyTypes'
  BY <1>1 DEF FileTypes, KeyTypes, Start, starting, files
<1>6. RestTypes'
  BY <1>1, <1>4, FaultTypes DEF RestTypes, Start, starting
<1> QED
  BY <1>4, <1>5, <1>6 DEF Types

(* A run that ends before the device is touched leaves only its status.    *)
LEMMA StartFailsEnds ==
  ASSUME NEW d \in Devices, StartFails(d)
  PROVE  /\ \E code \in {1, 3, 4} : \A q \in Procs :
              \/ proc'[q] \in {Ended(d, code), Ended(d, NULL)}
              \/ q \in Alive /\ proc'[q] = proc[q]
         /\ proc' = [q \in Procs |-> proc'[q]]
         /\ overlap' = (overlap \/ Alive # {})
         /\ \A q \in Alive : ~overlap
         /\ fault
         /\ UNCHANGED <<keyring, new, tmp, devVars, stale, installed>>
<1> DEFINE p == CHOOSE q \in Procs : q \notin Alive
<1>1. PICK code \in {1, 3, 4} : start(p, Ended(d, code))
  BY DEF StartFails
<1>2. Ended(d, code).dev = d
  BY DEF Ended
<1> HIDE DEF p
<1>3. \A q \in Procs : \/ proc'[q] \in {Ended(d, code), Ended(d, NULL)}
                       \/ q \in Alive /\ proc'[q] = proc[q]
  BY <1>1, <1>2 DEF start
<1>4. proc' = [q \in Procs |-> proc'[q]]
  BY <1>1 DEF start
<1> QED
  BY <1>3, <1>4 DEF StartFails, starting, files, devVars

LEMMA StartFailsTypes ==
  ASSUME Types, NEW d \in Devices, StartFails(d)
  PROVE  Types'
<1>1. FileTypes /\ ProcTypes /\ LinkTypes /\ KeyTypes /\ RestTypes
  BY DEF Types
<1>2. ProcTypes'
  <2>1. PICK code \in {1, 3, 4} : \A q \in Procs :
          proc'[q] \in {Ended(d, code), Ended(d, NULL), proc[q]}
    BY StartFailsEnds
  <2>2. \A c \in {NULL, code} : /\ Ended(d, c) \in Processes /\ Distinct(Ended(d, c).ents)
                               /\ Ended(d, c).at = "exit"
    BY EndedTypes
  <2>3. proc' = [q \in Procs |-> proc'[q]]
    BY StartFailsEnds
  <2> QED
    BY <1>1, <2>1, <2>2, <2>3 DEF ProcTypes
<1>3. FileTypes' /\ LinkTypes' /\ KeyTypes'
  BY <1>1, StartFailsEnds DEF FileTypes, LinkTypes, KeyTypes, devVars
<1>4. RestTypes'
  BY <1>1, StartFailsEnds, FaultTypes DEF RestTypes
<1> QED
  BY <1>2, <1>3, <1>4 DEF Types

LEMMA ReadErrorTypes ==
  ASSUME Types, NEW p \in Procs, ReadError(p)
  PROVE  Types'
<1>1. FileTypes /\ ProcTypes /\ LinkTypes /\ KeyTypes /\ RestTypes
  BY DEF Types
<1>2. PICK at \in {"snum", "mac", "ack"} : reading(p, at, Frame("l"))
  BY DEF ReadError
<1>3. exit(p, 2) /\ UNCHANGED <<toDev, fresh>>
  BY DEF ReadError
<1>4. ProcTypes'
  BY <1>1, <1>3, ExitTypes
<1>5. LinkTypes' /\ KeyTypes' /\ FileTypes' /\ RestTypes'
  BY <1>1, <1>2, <1>3, ReadTypes DEF LinkTypes, KeyTypes
<1> QED
  BY <1>4, <1>5 DEF Types

LEMMA ReadSnumTypes ==
  ASSUME Types, NEW p \in Procs, ReadSnum(p)
  PROVE  Types'
<1>1. FileTypes /\ ProcTypes /\ LinkTypes /\ KeyTypes /\ RestTypes
  BY DEF Types
<1>2. proc[p].dev \in Devices /\ proc[p] \in Processes
  BY <1>1, OwnRecord DEF ProcTypes
<1>3. CASE \E f \in Frames : reading(p, "snum", f) /\ retry(p)
             /\ write(proc[p].dev, Reset) /\ UNCHANGED fresh
  <2>1. PICK f : /\ reading(p, "snum", f) /\ retry(p)
                 /\ write(proc[p].dev, Reset) /\ UNCHANGED fresh
    BY <1>3
  <2>2. ProcTypes'
    BY <1>1, <2>1, RetryTypes DEF reading
  <2>3. toDev' \in [Devices -> Seq(Commands)]
    BY <1>1, <1>2, <2>1, WriteTypes DEF Commands
  <2>4. LinkTypes' /\ KeyTypes' /\ FileTypes' /\ RestTypes'
    BY <1>1, <2>1, <2>3, ReadTypes DEF LinkTypes, KeyTypes
  <2> QED
    BY <2>2, <2>4 DEF Types
<1>4. CASE reading(p, "snum", Frame("S")) /\ fresh' = (fresh + 1) % Fresh
             /\ set(p, [proc[p] EXCEPT !.at = "mac", !.retries = Retries, !.nonce = fresh])
             /\ write(proc[p].dev, M(proc[p].mkey, fresh))
  <2> DEFINE r == [proc[p] EXCEPT !.at = "mac", !.retries = Retries, !.nonce = fresh]
  <2>1. r \in Processes /\ r.retries > 0 /\ Distinct(r.ents)
    <3>1. Retries \in 0 .. Retries /\ Retries > 0 /\ fresh \in Values
      BY <1>1, RekeyAssumption DEF KeyTypes
    <3>2. r \in Processes /\ r.retries > 0 /\ r.ents = proc[p].ents
      BY <1>2, <3>1 DEF Processes
    <3> HIDE DEF r
    <3> QED
      BY <1>1, <3>2, OwnRecord
  <2>2. ProcTypes'
    <3> HIDE DEF r
    <3> QED
      BY <1>1, <1>4, <2>1, SetTypes DEF r
  <2>3. M(proc[p].mkey, fresh) \in Commands
    BY <1>1, <1>2 DEF Processes, KeyTypes, Commands
  <2>4. toDev' \in [Devices -> Seq(Commands)]
    BY <1>1, <1>2, <1>4, <2>3, WriteTypes
  <2>5. LinkTypes' /\ KeyTypes' /\ FileTypes' /\ RestTypes'
    BY <1>1, <1>4, <2>4, ReadTypes, FreshTypes DEF LinkTypes, KeyTypes
  <2> QED
    BY <2>2, <2>5 DEF Types
<1> QED
  BY <1>3, <1>4 DEF ReadSnum, fill_nonce

LEMMA ReadMacTypes ==
  ASSUME Types, NEW p \in Procs, ReadMac(p)
  PROVE  Types'
<1>1. FileTypes /\ ProcTypes /\ LinkTypes /\ KeyTypes /\ RestTypes
  BY DEF Types
<1>2. proc[p].dev \in Devices /\ proc[p].nonce \in Values
  BY <1>1, OwnRecord
<1>3. CASE \E f \in Frames : reading(p, "mac", f) /\ retry(p) /\ UNCHANGED <<toDev, fresh>>
  <2>1. PICK f : reading(p, "mac", f) /\ retry(p) /\ UNCHANGED <<toDev, fresh>>
    BY <1>3
  <2>2. ProcTypes'
    BY <1>1, <2>1, RetryTypes DEF reading
  <2>3. LinkTypes' /\ KeyTypes' /\ FileTypes' /\ RestTypes'
    BY <1>1, <2>1, ReadTypes DEF LinkTypes, KeyTypes
  <2> QED
    BY <2>2, <2>3 DEF Types
<1>4. CASE reading(p, "mac", Frame("M")) /\ set(p, [proc[p] EXCEPT !.at = "ack"])
             /\ write(proc[p].dev, L(proc[p].nonce)) /\ UNCHANGED fresh
  <2>1. ProcTypes'
    BY <1>1, <1>4, GotoTypes DEF goto
  <2>2. L(proc[p].nonce) \in Commands
    BY <1>2 DEF Commands
  <2>3. toDev' \in [Devices -> Seq(Commands)]
    BY <1>1, <1>2, <1>4, <2>2, WriteTypes
  <2>4. LinkTypes' /\ KeyTypes' /\ FileTypes' /\ RestTypes'
    BY <1>1, <1>4, <2>3, ReadTypes DEF LinkTypes, KeyTypes
  <2> QED
    BY <2>1, <2>4 DEF Types
<1> QED
  BY <1>3, <1>4 DEF ReadMac

(* The entry made of the acknowledgement.                                  *)
LEMMA AckEntry ==
  ASSUME Types, NEW p \in Procs, NEW f \in Frames, f.type = "L"
  PROVE  [snum |-> proc[p].dev, ltkey |-> <<proc[p].nonce, f.entropy>>] \in Entries
<1>1. proc[p].dev \in Devices /\ proc[p].nonce \in Values
  BY OwnRecord DEF Types
<1>2. f.entropy \in Values
  BY DEF Frames, Frame, Ack
<1> QED
  BY <1>1, <1>2 DEF Entries, LongTermKeys

LEMMA ReadAckTypes ==
  ASSUME Types, NEW p \in Procs, ReadAck(p)
  PROVE  Types'
<1>1. FileTypes /\ ProcTypes /\ LinkTypes /\ KeyTypes /\ RestTypes
  BY DEF Types
<1>2. PICK f \in Frames :
        /\ reading(p, "ack", f)
        /\ IF f.type # "L" THEN UNCHANGED proc
           ELSE set(p, [proc[p] EXCEPT !.at = "open",
                  !.ents = add_ltkey(@, [snum |-> proc[p].dev,
                                         ltkey |-> <<proc[p].nonce, f.entropy>>])])
  BY DEF ReadAck
<1>3. ProcTypes'
  <2>1. CASE f.type # "L"
    BY <1>1, <1>2, <2>1 DEF ProcTypes
  <2>2. CASE f.type = "L"
    <3> DEFINE e == [snum |-> proc[p].dev, ltkey |-> <<proc[p].nonce, f.entropy>>]
               c == add_ltkey(proc[p].ents, e)
               r == [proc[p] EXCEPT !.at = "open", !.ents = c]
    <3>1. e \in Entries
      BY <2>2, AckEntry
    <3>2. set(p, r)
      BY <1>2, <2>2
    <3> HIDE DEF e
    <3>3. c \in Contents /\ Distinct(c)
      BY <1>1, <3>1, OwnRecord, AddList
    <3> HIDE DEF c
    <3>4. r \in Processes /\ r.at = "open" /\ r.ents = c
      BY <1>1, <3>3 DEF ProcTypes, Processes
    <3> HIDE DEF r
    <3> QED
      BY <1>1, <3>2, <3>3, <3>4, SetTypes
  <2> QED
    BY <2>1, <2>2
<1>4. LinkTypes' /\ KeyTypes' /\ FileTypes' /\ RestTypes'
  BY <1>1, <1>2, ReadTypes DEF LinkTypes, KeyTypes, ReadAck
<1> QED
  BY <1>3, <1>4 DEF Types

LEMMA SaveTypes ==
  ASSUME Types, NEW p \in Procs, Save(p)
  PROVE  Types'
<1>1. FileTypes /\ ProcTypes /\ LinkTypes /\ KeyTypes /\ RestTypes
  BY DEF Types
<1>2. proc[p].ents \in Contents /\ Distinct(proc[p].ents)
  BY <1>1, OwnRecord
<1>3. LinkTypes' /\ KeyTypes' /\ RestTypes'
  <2>1. UNCHANGED <<devVars, history>> /\ (UNCHANGED faults \/ fault)
    BY DEF Save, OpenTmp, WriteLines, RenameTmp, RenameNew, saving
  <2>2. faults' \in 0 .. MaxFaults
    BY <1>1, <2>1, FaultTypes DEF RestTypes
  <2> QED
    BY <1>1, <2>1, <2>2 DEF LinkTypes, KeyTypes, RestTypes, devVars, history
<1>4. ProcTypes'
  BY <1>1, ExitTypes, GotoTypes DEF Save, OpenTmp, WriteLines, RenameTmp, RenameNew
<1>5. FileTypes'
  <2>1. CASE OpenTmp(p)
    BY <1>1, <2>1, NoEntries DEF FileTypes, OpenTmp
  <2>2. CASE WriteLines(p)
    <3>1. PICK n \in 0 .. Len(proc[p].ents) : tmp' = SubSeq(proc[p].ents, 1, n)
      BY <2>2 DEF WriteLines
    <3>2. tmp' \in Contents /\ Distinct(tmp')
      BY <1>2, <3>1, SubList
    <3> QED
      BY <1>1, <2>2, <3>2 DEF FileTypes, WriteLines
  <2>3. CASE RenameTmp(p)
    BY <1>1, <2>3 DEF FileTypes, RenameTmp
  <2>4. CASE RenameNew(p)
    BY <1>1, <2>4 DEF FileTypes, RenameNew
  <2> QED
    BY <2>1, <2>2, <2>3, <2>4 DEF Save
<1> QED
  BY <1>3, <1>4, <1>5 DEF Types

LEMMA DeviceTypes ==
  ASSUME Types, NEW d \in Devices, Device(d)
  PROVE  Types'
<1>1. FileTypes /\ ProcTypes /\ LinkTypes /\ KeyTypes /\ RestTypes
  BY DEF Types
<1>2. \A t \in {"S", "M", "k", "l"} : Frame(t) \in Frames
  BY DEF Frames
<1>3. CASE DevReset(d) \/ DevMac(d) \/ DevRefuse(d)
  <2>1. FileTypes' /\ ProcTypes' /\ LinkTypes' /\ RestTypes'
    BY <1>2, <1>3, AnswerTypes DEF DevReset, DevMac, DevRefuse
  <2>2. DevMac(d) => Head(toDev[d]) \in Commands
    BY <1>2, AnswerTypes DEF DevMac
  <2>3. KeyTypes'
    BY <1>1, <1>3, <2>2 DEF KeyTypes, DevReset, DevMac, DevRefuse
  <2> QED
    BY <2>1, <2>3 DEF Types
<1>4. CASE DevRekey(d)
  <2>1. Ack(fresh) \in Frames
    BY <1>1 DEF KeyTypes, Frames
  <2>2. /\ FileTypes' /\ ProcTypes' /\ LinkTypes' /\ RestTypes'
        /\ Head(toDev[d]) \in Commands /\ Head(toDev[d]).cmd = "L"
    BY <1>4, <2>1, AnswerTypes DEF DevRekey
  <2>3. Head(toDev[d]).nonce \in Values
    BY <2>2 DEF Commands, Reset, M, L
  <2>4. <<Head(toDev[d]).nonce, fresh>> \in LongTermKeys
    BY <1>1, <2>3 DEF KeyTypes, LongTermKeys
  <2>5. KeyTypes'
    BY <1>1, <1>4, <2>4, FreshTypes DEF KeyTypes, DevRekey
  <2> QED
    BY <2>2, <2>5 DEF Types
<1>5. CASE DevKeyReq(d)
  <2>1. <<Frame("k")>> \in Seq(Frames)
    BY <1>2
  <2>2. LinkTypes'
    BY <1>1, <1>5, <2>1 DEF LinkTypes, DevKeyReq
  <2>3. FileTypes' /\ ProcTypes' /\ KeyTypes' /\ RestTypes'
    BY <1>1, <1>5 DEF FileTypes, ProcTypes, KeyTypes, RestTypes, DevKeyReq, files, history
  <2> QED
    BY <2>2, <2>3 DEF Types
<1> QED
  BY <1>3, <1>4, <1>5 DEF Device

LEMMA LoseTypes ==
  ASSUME Types, NEW d \in Devices, Lose(d)
  PROVE  Types'
<1>1. FileTypes /\ ProcTypes /\ LinkTypes /\ KeyTypes /\ RestTypes
  BY DEF Types
<1>2. toTool[d] \in Seq(Frames) /\ toDev[d] \in Seq(Commands)
  BY <1>1 DEF LinkTypes
<1>3. /\ toTool[d] # <<>> => Tail(toTool[d]) \in Seq(Frames)
      /\ toDev[d] # <<>> => Tail(toDev[d]) \in Seq(Commands)
  BY <1>2, HeadTailProperties
<1>4. LinkTypes'
  BY <1>1, <1>3 DEF LinkTypes, Lose
<1>5. FileTypes' /\ ProcTypes' /\ KeyTypes'
  BY <1>1 DEF FileTypes, ProcTypes, KeyTypes, Lose, files
<1>6. RestTypes'
  BY <1>1, FaultTypes DEF RestTypes, Lose, history
<1> QED
  BY <1>4, <1>5, <1>6 DEF Types

LEMMA InitTypes ==
  Init => Types
<1> SUFFICES ASSUME Init
             PROVE  Types
  OBVIOUS
<1>1. FileTypes
  BY KeyringAssumption DEF Init, FileTypes
<1>2. ProcTypes
  <2>1. PICK d \in Devices : proc = [p \in Procs |-> Ended(d, NULL)]
    BY DEF Init
  <2> QED
    BY <2>1, EndedTypes DEF ProcTypes
<1>3. 0 \in Values /\ 1 % Fresh \in Values /\ <<0, 0>> \in LongTermKeys
  BY RekeyAssumption DEF Values, LongTermKeys
<1>4. LinkTypes /\ KeyTypes
  BY <1>3 DEF Init, LinkTypes, KeyTypes
<1>5. RestTypes
  <2>1. 0 \in 0 .. MaxFaults
    BY RekeyAssumption
  <2>2. faults \in 0 .. MaxFaults
    BY <2>1 DEF Init
  <2>3. overlap \in BOOLEAN /\ stale \subseteq Devices /\ installed \subseteq Devices
    BY Zenon DEF Init
  <2> QED
    BY <2>2, <2>3 DEF RestTypes
<1> QED
  BY <1>1, <1>2, <1>4, <1>5 DEF Types

LEMMA NextTypes ==
  Types /\ [Next]_vars => Types'
<1> SUFFICES ASSUME Types, [Next]_vars
             PROVE  Types'
  OBVIOUS
<1>1. ASSUME NEW d \in Devices, NEW right \in BOOLEAN, Start(d, right)
      PROVE  Types'
  BY <1>1, StartTypes
<1>2. ASSUME NEW p \in Procs, Process(p)
      PROVE  Types'
  BY <1>2, ReadErrorTypes, ReadSnumTypes, ReadMacTypes, ReadAckTypes, SaveTypes
  DEF Process
<1>3. faults \in 0 .. MaxFaults
  BY DEF Types, RestTypes
<1>4. ASSUME NEW p \in Procs, NoNonce(p)
      PROVE  Types'
  <2>1. PICK code \in {1, 4} : exit(p, code)
    BY <1>4 DEF NoNonce
  <2>2. FileTypes /\ ProcTypes /\ LinkTypes /\ KeyTypes /\ RestTypes
    BY DEF Types
  <2>3. ProcTypes'
    BY <2>1, <2>2, ExitTypes
  <2>4. FileTypes' /\ LinkTypes' /\ KeyTypes' /\ RestTypes'
    <3>1. UNCHANGED <<files, devVars, history>> /\ fault
      BY <1>4 DEF NoNonce
    <3> QED
      BY <1>3, <2>2, <3>1, FaultTypes
      DEF FileTypes, LinkTypes, KeyTypes, RestTypes, files, devVars, history
  <2> QED
    BY <2>3, <2>4 DEF Types
<1>5. ASSUME NEW p \in Procs, Kill(p)
      PROVE  Types'
  BY <1>3, <1>5, FaultTypes, KilledTypes DEF Kill, kill
<1>6. ASSUME NEW p \in Procs, Interrupt(p)
      PROVE  Types'
  BY <1>3, <1>6, KilledTypes DEF Interrupt, kill
<1>7. ASSUME NEW d \in Devices, Device(d)
      PROVE  Types'
  BY <1>7, DeviceTypes
<1>8. ASSUME NEW d \in Devices, Lose(d)
      PROVE  Types'
  BY <1>8, LoseTypes
<1>9. CASE UNCHANGED vars
  BY <1>9 DEF Types, FileTypes, ProcTypes, LinkTypes, KeyTypes, RestTypes, vars, files,
              devVars, history
<1>10. ASSUME NEW d \in Devices, StartFails(d)
       PROVE  Types'
  BY <1>10, StartFailsTypes
<1> QED
  BY <1>1, <1>2, <1>4, <1>5, <1>6, <1>7, <1>8, <1>9, <1>10 DEF Next

(* Every variable has its type, and no list in memory or in a file holds   *)
(* two entries for one serial number (add_ltkey).                          *)
THEOREM TypeCorrect == Spec => []TypeOK
<1>1. Types => TypeOK
  BY DEF Types, TypeOK, FileTypes, ProcTypes, LinkTypes, KeyTypes, RestTypes
<1> QED
  BY <1>1, InitTypes, NextTypes, PTL DEF Spec

-----------------------------------------------------------------------------
(* The files *)

LEMMA Records ==
  ASSUME NEW d, NEW code
  PROVE  Ended(d, code).at = "exit" /\ Ended(d, code).dev = d /\ Ended(d, code).status = code
BY DEF Ended

LEMMA SetRecord ==
  ASSUME ProcTypes, NEW p \in Procs, NEW r, set(p, r)
  PROVE  \A q \in Procs : proc'[q] = IF q = p THEN r ELSE proc[q]
BY DEF ProcTypes, set

LEMMA ExitRecord ==
  ASSUME ProcTypes, NEW p \in Procs, NEW code, exit(p, code)
  PROVE  /\ \A q \in Procs \ {p} : proc'[q] = proc[q]
         /\ proc'[p].at = "exit" /\ proc'[p].dev = proc[p].dev /\ proc'[p].status = code
BY SetRecord, Records DEF exit

(* All of a record but its retries, its nonce and where it is.             *)
Kept(p) ==
  /\ proc'[p].dev = proc[p].dev
  /\ proc'[p].ents = proc[p].ents
  /\ proc'[p].status = proc[p].status

LEMMA GotoRecord ==
  ASSUME ProcTypes, NEW p \in Procs, NEW at, goto(p, at)
  PROVE  /\ \A q \in Procs \ {p} : proc'[q] = proc[q]
         /\ proc'[p].at = at /\ proc'[p].nonce = proc[p].nonce /\ Kept(p)
<1>1. proc[p] \in Processes
  BY DEF ProcTypes
<1> QED
  BY <1>1, SetRecord DEF goto, Processes, Kept

LEMMA RetryRecord ==
  ASSUME ProcTypes, NEW p \in Procs, retry(p)
  PROVE  \/ exit(p, 3)
         \/ /\ \A q \in Procs \ {p} : proc'[q] = proc[q]
            /\ proc'[p].at = proc[p].at /\ proc'[p].nonce = proc[p].nonce /\ Kept(p)
<1>1. proc[p] \in Processes
  BY DEF ProcTypes
<1> QED
  BY <1>1, SetRecord DEF retry, Processes, Kept

(* Steps that touch no file and no list.                                   *)
LEMMA SameFiles ==
  ASSUME Whole, Written, UNCHANGED <<keyring, new, tmp, installed>>,
         \A p \in Procs : \/ proc'[p].at = "exit"
                          \/ /\ p \in Alive
                             /\ proc'[p].ents = proc[p].ents
                             /\ proc'[p].at \in {"lines", "rename_tmp"} =>
                                  proc'[p].at = proc[p].at
  PROVE  Whole' /\ Written'
<1>1. Whole'
  BY DEF Whole, Knows, Alive
<1>2. Written'
  BY DEF Written
<1> QED
  BY <1>1, <1>2

LEMMA StartWhole ==
  ASSUME Types, Whole, Written, NEW d \in Devices, NEW right \in BOOLEAN, Start(d, right)
  PROVE  Whole' /\ Written'
<1> DEFINE p == CHOOSE q \in Procs : q \notin Alive
           r == [Ended(d, NULL) EXCEPT
                  !.at = "snum", !.ents = read_keyring(keyring),
                  !.retries = Retries, !.mkey = right]
<1>1. UNCHANGED <<keyring, new, tmp, installed>>
  BY DEF Start, starting, files
<1>2. CASE keyring = Absent
  <2>1. start(p, Ended(d, 2))
    BY <1>2 DEF Start
  <2> HIDE DEF p
  <2>2. \A q \in Procs : proc'[q].at = "exit" \/ (q \in Alive /\ proc'[q] = proc[q])
    BY <2>1, Records DEF start
  <2> QED
    BY <1>1, <2>2, SameFiles
<1>3. CASE keyring # Absent
  <2>1. start(p, r)
    BY <1>3 DEF Start
  <2>2. /\ r.at = "snum" /\ r.ents = read_keyring(keyring)
        /\ keyring \in Contents /\ Distinct(keyring)
    BY <1>3, StartRecord DEF Types, FileTypes
  <2>3. Knows(r.ents)
    BY <1>3, <2>2, ReadList DEF Whole, Knows
  <2> HIDE DEF r, p
  <2>4. \A q \in Procs : \/ proc'[q].at = "exit"
                         \/ proc'[q].at = "snum" /\ proc'[q].ents = r.ents
                         \/ q \in Alive /\ proc'[q] = proc[q]
    BY <2>1, <2>2, Records DEF start
  <2>5. Whole'
    BY <1>1, <2>3, <2>4 DEF Whole, Knows, Alive
  <2>6. Written'
    BY <1>1, <2>4 DEF Written
  <2> QED
    BY <2>5, <2>6
<1> QED
  BY <1>2, <1>3

LEMMA ReadWhole ==
  ASSUME Types, Whole, Written, NEW p \in Procs,
         ReadError(p) \/ ReadSnum(p) \/ ReadMac(p) \/ ReadAck(p)
  PROVE  Whole' /\ Written'
<1>1. ProcTypes /\ proc[p] \in Processes
  BY DEF Types, ProcTypes
<1>2. UNCHANGED <<keyring, new, tmp, installed>> /\ p \in Alive
  BY DEF ReadError, ReadSnum, ReadMac, ReadAck, reading, files, history, Alive
<1>3. CASE \E code : exit(p, code)
  BY <1>1, <1>2, <1>3, ExitRecord, SameFiles DEF Alive
<1>4. CASE retry(p)
  BY <1>1, <1>2, <1>3, <1>4, RetryRecord, SameFiles DEF Alive, Kept
<1>5. CASE ReadSnum(p) /\ ~retry(p)
  <2> DEFINE r == [proc[p] EXCEPT !.at = "mac", !.retries = Retries, !.nonce = fresh]
  <2>1. set(p, r)
    BY <1>5 DEF ReadSnum
  <2>2. r.at = "mac" /\ r.ents = proc[p].ents
    BY <1>1 DEF Processes
  <2> HIDE DEF r
  <2>3. \A q \in Procs : proc'[q] = IF q = p THEN r ELSE proc[q]
    BY <1>1, <2>1, SetRecord
  <2> QED
    BY <1>2, <2>2, <2>3, SameFiles DEF Alive
<1>6. CASE ReadMac(p) /\ ~retry(p)
  <2>1. goto(p, "ack")
    BY <1>6 DEF ReadMac, goto
  <2> QED
    BY <1>1, <1>2, <2>1, GotoRecord, SameFiles DEF Alive, Kept
<1>7. CASE ReadAck(p)
  <2>1. PICK f \in Frames :
          /\ reading(p, "ack", f)
          /\ IF f.type # "L" THEN UNCHANGED proc
             ELSE set(p, [proc[p] EXCEPT !.at = "open",
                    !.ents = add_ltkey(@, [snum |-> proc[p].dev,
                                           ltkey |-> <<proc[p].nonce, f.entropy>>])])
    BY <1>7 DEF ReadAck
  <2>2. CASE f.type # "L"
    BY <1>2, <2>1, <2>2, SameFiles DEF Alive
  <2>3. CASE f.type = "L"
    <3> DEFINE e == [snum |-> proc[p].dev, ltkey |-> <<proc[p].nonce, f.entropy>>]
               c == add_ltkey(proc[p].ents, e)
               r == [proc[p] EXCEPT !.at = "open", !.ents = c]
    <3>1. e \in Entries /\ e.ltkey # NULL
      BY <2>3, AckEntry, KeyringAssumption DEF Entries
    <3>2. set(p, r)
      BY <2>1, <2>3
    <3> HIDE DEF e
    <3>3. \A s : snum_to_ltkey(c, s) = NULL => snum_to_ltkey(proc[p].ents, s) = NULL
      BY <1>1, <3>1, OwnRecord, AddList
    <3> HIDE DEF c
    <3>4. r.at = "open" /\ r.ents = c
      BY <1>1 DEF Processes
    <3> HIDE DEF r
    <3>5. \A q \in Procs : proc'[q] = IF q = p THEN r ELSE proc[q]
      BY <1>1, <3>2, SetRecord
    <3>6. Whole'
      BY <1>2, <3>3, <3>4, <3>5 DEF Whole, Knows, Alive
    <3>7. Written'
      BY <1>2, <3>4, <3>5 DEF Written
    <3> QED
      BY <3>6, <3>7
  <2> QED
    BY <2>2, <2>3
<1> QED
  BY <1>3, <1>4, <1>5, <1>6, <1>7 DEF ReadError

LEMMA SaveWhole ==
  ASSUME Types, Whole, Written, ~DiskFull, NEW p \in Procs, Save(p)
  PROVE  Whole' /\ Written'
<1>1. ProcTypes /\ proc[p].ents \in Contents /\ Distinct(proc[p].ents)
  BY OwnRecord DEF Types
<1>2. UNCHANGED installed /\ p \in Alive
  BY DEF Save, OpenTmp, WriteLines, RenameTmp, RenameNew, saving, history, Alive
<1>3. CASE OpenTmp(p)
  <2>1. CASE tmp # Absent
    BY <1>1, <1>2, <1>3, <2>1, ExitRecord, SameFiles DEF OpenTmp, Alive
  <2>2. CASE tmp = Absent
    <3>1. /\ \A q \in Procs \ {p} : proc'[q] = proc[q]
          /\ proc'[p].at = "lines" /\ Kept(p)
      BY <1>1, <1>3, <2>2, GotoRecord DEF OpenTmp
    <3>2. tmp' # Absent /\ UNCHANGED <<keyring, new>>
      BY <1>3, <2>2, NoEntries, KeyringAssumption DEF OpenTmp
    <3>3. \A q \in Procs : proc[q].at \notin {"lines", "rename_tmp"}
      BY <2>2 DEF Written
    <3>4. Whole'
      BY <1>2, <3>1, <3>2 DEF Whole, Knows, Alive, Kept
    <3>5. Written'
      BY <3>1, <3>2, <3>3 DEF Written
    <3> QED
      BY <3>4, <3>5
  <2> QED
    BY <2>1, <2>2
<1>4. CASE WriteLines(p)
  <2>1. /\ \A q \in Procs \ {p} : proc'[q] = proc[q]
        /\ proc'[p].at = "rename_tmp" /\ Kept(p)
    BY <1>1, <1>4, GotoRecord DEF WriteLines
  <2>2. tmp' = proc[p].ents /\ tmp' # Absent /\ UNCHANGED <<keyring, new>>
    BY <1>1, <1>4, SubList, KeyringAssumption DEF WriteLines
  <2>3. proc[p].at = "lines"
    BY <1>4 DEF WriteLines, saving
  <2>4. Whole'
    BY <1>2, <2>1, <2>2 DEF Whole, Knows, Alive, Kept
  <2>5. Written'
    BY <2>1, <2>2, <2>3 DEF Written, Kept
  <2> QED
    BY <2>4, <2>5
<1>5. CASE RenameTmp(p) /\ goto(p, "rename_new")
  <2>1. /\ \A q \in Procs \ {p} : proc'[q] = proc[q]
        /\ proc'[p].at = "rename_new" /\ Kept(p)
    BY <1>1, <1>5, GotoRecord
  <2>2. proc[p].at = "rename_tmp" /\ new' = tmp /\ UNCHANGED keyring
    <3>1. ~exit(p, 6)
      BY <1>1, <2>1, ExitRecord
    <3> QED
      BY <1>5, <3>1 DEF RenameTmp, saving
  <2>3. tmp = proc[p].ents
    BY <2>2 DEF Written
  <2>4. Whole'
    BY <1>2, <2>1, <2>2, <2>3 DEF Whole, Knows, Alive, Kept
  <2>5. Written'
    BY <2>1, <2>2 DEF Written
  <2> QED
    BY <2>4, <2>5
<1>6. CASE RenameNew(p)
  <2>1. /\ \A q \in Procs \ {p} : proc'[q] = proc[q]
        /\ proc'[p].at = "exit"
    BY <1>1, <1>6, ExitRecord DEF RenameNew
  <2>2. UNCHANGED tmp
    BY <1>6 DEF RenameNew
  <2>3. Whole'
    BY <1>2, <1>6, <2>1 DEF Whole, Knows, Alive, RenameNew
  <2>4. Written'
    BY <2>1, <2>2 DEF Written
  <2> QED
    BY <2>3, <2>4
<1>7. CASE RenameTmp(p) /\ exit(p, 6)
  <2>1. /\ \A q \in Procs \ {p} : proc'[q] = proc[q]
        /\ proc'[p].at = "exit"
    BY <1>1, <1>7, ExitRecord
  <2>2. proc[p].at = "rename_tmp" /\ UNCHANGED <<keyring, new>>
    <3>1. ~goto(p, "rename_new")
      BY <1>1, <2>1, GotoRecord
    <3> QED
      BY <1>7, <3>1 DEF RenameTmp, saving
  <2>3. Whole'
    BY <1>2, <2>1, <2>2 DEF Whole, Knows, Alive
  <2>4. Written'
    BY <2>1, <2>2 DEF Written
  <2> QED
    BY <2>3, <2>4
<1> QED
  BY <1>3, <1>4, <1>5, <1>6, <1>7 DEF Save, RenameTmp

LEMMA NextWhole ==
  ASSUME Types, Whole, Written, ~DiskFull, [Next]_vars
  PROVE  Whole' /\ Written'
<1>1. ProcTypes
  BY DEF Types
<1>2. ASSUME NEW d \in Devices, NEW right \in BOOLEAN, Start(d, right)
      PROVE  Whole' /\ Written'
  BY <1>2, StartWhole
<1>3. ASSUME NEW p \in Procs, Process(p)
      PROVE  Whole' /\ Written'
  BY <1>3, ReadWhole, SaveWhole DEF Process
<1>4. ASSUME NEW p \in Procs, NoNonce(p) \/ Kill(p) \/ Interrupt(p)
      PROVE  Whole' /\ Written'
  <2>1. PICK code : exit(p, code)
    BY <1>4 DEF NoNonce, Kill, Interrupt, kill
  <2>2. UNCHANGED <<keyring, new, tmp, installed>>
    BY <1>4 DEF NoNonce, Kill, Interrupt, kill, files, history
  <2> QED
    BY <1>1, <2>1, <2>2, ExitRecord, SameFiles DEF Alive
<1>5. ASSUME NEW d \in Devices, Device(d) \/ Lose(d)
      PROVE  Whole' /\ Written'
  <2>1. UNCHANGED <<files, proc, installed>>
    BY <1>5 DEF Device, DevReset, DevMac, DevRekey, DevRefuse, DevKeyReq, answer, Lose,
                history
  <2> QED
    BY <2>1, SameFiles DEF files, Alive
<1>6. CASE UNCHANGED vars
  BY <1>6, SameFiles DEF vars, files, history, Alive
<1>7. ASSUME NEW d \in Devices, StartFails(d)
      PROVE  Whole' /\ Written'
  <2>1. \A q \in Procs : proc'[q].at = "exit" \/ (q \in Alive /\ proc'[q] = proc[q])
    BY <1>7, StartFailsEnds, Records
  <2> QED
    BY <1>7, <2>1, StartFailsEnds, SameFiles
<1> QED
  BY <1>2, <1>3, <1>4, <1>5, <1>6, <1>7 DEF Next

LEMMA InitWhole ==
  Init => Whole /\ Written
<1> SUFFICES ASSUME Init
             PROVE  Whole /\ Written
  OBVIOUS
<1>1. \A p \in Procs : proc[p].at = "exit"
  BY Records DEF Init
<1>2. installed = {d \in Devices : Known(d) # NULL}
  BY DEF Init
<1>3. keyring = Absent => installed = {}
  BY <1>2 DEF Known
<1>4. keyring # Absent => Knows(keyring)
  BY <1>2 DEF Known, Knows
<1>5. new = Absent
  BY DEF Init
<1> QED
  BY <1>1, <1>3, <1>4, <1>5 DEF Whole, Written, Alive

(* Unless the disk is full, whoever is killed where and however two        *)
(* processes overlap, the keyring file is never half written: a device it  *)
(* knew at first stays known (write_keyring, put_keyring).                 *)
THEOREM KeyringNeverTorn ==
  ASSUME ~DiskFull
  PROVE  Spec => []NeverTorn
<1>1. Init => Types /\ Whole /\ Written
  BY InitTypes, InitWhole
<1>2. Types /\ Whole /\ Written /\ [Next]_vars => (Types /\ Whole /\ Written)'
  BY NextTypes, NextWhole
<1>3. Types /\ Whole /\ Written => NeverTorn
  BY DEF Whole, NeverTorn, Known, Knows
<1> QED
  BY <1>1, <1>2, <1>3, PTL DEF Spec

-----------------------------------------------------------------------------
(* A command is written, or lost.                                          *)
LEMMA WriteOf ==
  ASSUME LinkTypes, NEW d \in Devices, NEW c \in Commands, write(d, c)
  PROVE  toDev'[d] = toDev[d] \/ toDev'[d] = Append(toDev[d], c)
BY DEF LinkTypes, write

-----------------------------------------------------------------------------
(* One process at a time *)

LEMMA Only ==
  ASSUME Alone, ~overlap, NEW p \in Alive
  PROVE  /\ p \in Procs /\ Committed(p) /\ Others(p) /\ proc[p].status # 0
         /\ \A q \in Procs \ {p} : proc[q].at = "exit" /\ proc[q].status # 0
BY DEF Alone, Alive

(* A step of the process that is alive.                                    *)
LEMMA OwnStep ==
  ASSUME Alone, ~overlap, NEW p \in Alive,
         \A q \in Procs \ {p} : proc'[q] = proc[q],
         Committed(p)',
         proc'[p].at # "exit" => Others(p)' /\ proc'[p].status # 0
  PROVE  Alone'
<1>1. p \in Procs /\ \A q \in Procs \ {p} : proc'[q].at = "exit" /\ proc'[q].status # 0
  BY Only
<1>2. \A q \in Procs : Committed(q)'
  BY <1>1 DEF Committed, Follows
<1> QED
  BY <1>1, <1>2 DEF Alone, Alive

LEMMA ExitStep ==
  ASSUME ProcTypes, Alone, ~overlap, NEW p \in Alive, NEW code, code # 0, exit(p, code)
  PROVE  Alone'
<1>1. /\ p \in Procs
      /\ \A q \in Procs \ {p} : proc'[q] = proc[q]
      /\ proc'[p].at = "exit" /\ proc'[p].status # 0
  BY ExitRecord DEF Alive
<1>2. Committed(p)'
  BY <1>1 DEF Committed, Follows
<1> QED
  BY <1>1, <1>2, OwnStep

LEMMA SameOthers ==
  ASSUME NEW p \in Procs, Others(p), UNCHANGED keyring,
         proc'[p].dev = proc[p].dev, proc'[p].ents = proc[p].ents
  PROVE  Others(p)'
BY DEF Others, Known

(* The links of a device and its key move on, by steps that are not its    *)
(* process's.                                                              *)
LEMMA LinkStep ==
  ASSUME ProcTypes, Alone, NEW d \in Devices, UNCHANGED <<files, proc, history>>,
         \A e \in Devices \ {d} : /\ toTool'[e] = toTool[e] /\ toDev'[e] = toDev[e]
                                  /\ ltkey'[e] = ltkey[e],
         NoRekey(toDev[d]) =>
           /\ NoRekey(toDev'[d]) /\ ltkey'[d] = ltkey[d]
           /\ NoAck(toTool[d]) => NoAck(toTool'[d])
           /\ \A n : Acks(toTool[d], n, ltkey[d]) => Acks(toTool'[d], n, ltkey[d]),
         \A n : NoAck(toTool[d]) /\ OneRekey(toDev[d], n) =>
           \/ NoAck(toTool'[d]) /\ OneRekey(toDev'[d], n)
           \/ NoRekey(toDev'[d]) /\ Acks(toTool'[d], n, ltkey'[d])
  PROVE  Alone'
<1> SUFFICES ASSUME ~overlap
             PROVE  Alone'
  BY DEF Alone, history
<1>1. UNCHANGED <<keyring, new, tmp, proc>>
  BY DEF files
<1>2. \A p \in Procs : Committed(p)'
  <2> SUFFICES ASSUME NEW p \in Procs
               PROVE  Committed(p)'
    OBVIOUS
  <2>1. Committed(p) /\ proc[p].dev \in Devices
    BY OwnRecord DEF Alone
  <2>2. CASE proc[p].dev # d
    BY <1>1, <2>1, <2>2 DEF Committed, Follows, Agree, Known, history
  <2>3. CASE proc[p].dev = d
    BY <1>1, <2>1, <2>3 DEF Committed, Follows, Agree, Known, history
  <2> QED
    BY <2>2, <2>3
<1>3. \A p \in Alive : Others(p)'
  BY <1>1 DEF Alone, Others, Known
<1> QED
  BY <1>1, <1>2, <1>3 DEF Alone, Alive

LEMMA StartAlone ==
  ASSUME Types, Alone, NEW d \in Devices, NEW right \in BOOLEAN, Start(d, right)
  PROVE  Alone'
<1> DEFINE p == CHOOSE q \in Procs : q \notin Alive
           r == [Ended(d, NULL) EXCEPT
                  !.at = "snum", !.ents = read_keyring(keyring),
                  !.retries = Retries, !.mkey = right]
<1> SUFFICES ASSUME ~overlap'
             PROVE  Alone'
  BY DEF Alone
<1>1. Alive = {} /\ UNCHANGED keyring
  BY DEF Start, starting, files
<1>2. NULL # 0
  BY KeyringAssumption
<1>3. CASE keyring = Absent
  <2>1. start(p, Ended(d, 2))
    BY <1>3 DEF Start
  <2> HIDE DEF p
  <2>2. \A q \in Procs : proc'[q].at = "exit" /\ proc'[q].status # 0
    BY <1>1, <1>2, <2>1, Records DEF start
  <2> QED
    BY <2>2 DEF Alone, Alive, Committed, Follows
<1>4. CASE keyring # Absent
  <2>1. start(p, r) /\ estream_open(d)
    BY <1>4 DEF Start
  <2>2. /\ r.at = "snum" /\ r.dev = d /\ r.ents = read_keyring(keyring) /\ r.status = NULL
        /\ keyring \in Contents /\ Distinct(keyring)
    BY <1>4, StartRecord DEF Types, FileTypes
  <2>3. \A s : snum_to_ltkey(r.ents, s) = snum_to_ltkey(keyring, s)
    BY <2>2, ReadList
  <2> HIDE DEF r, p
  <2>4. \A q \in Procs : IF q = p THEN proc'[q] = r
                         ELSE proc'[q].at = "exit" /\ proc'[q].status # 0
    BY <1>1, <1>2, <2>1, Records DEF start
  <2>5. d \notin stale' => NoAck(toTool'[d]) /\ NoRekey(toDev'[d])
    BY <2>1, LeftUnderWay DEF Types
  <2>6. \A q \in Procs : Committed(q)'
    BY <1>2, <2>2, <2>4, <2>5 DEF Committed, Follows
  <2>7. \A q \in Alive' : q = p /\ Others(q)'
    BY <1>1, <1>4, <2>2, <2>3, <2>4 DEF Alive, Others, Known
  <2> QED
    BY <1>2, <2>2, <2>4, <2>6, <2>7 DEF Alone, Alive
<1> QED
  BY <1>3, <1>4

(* A frame is read: the rest of those under way are as before.             *)
LEMMA ReadLinks ==
  ASSUME LinkTypes, NEW p \in Procs, proc[p].dev \in Devices, NEW at, NEW f,
         reading(p, at, f)
  PROVE  LET frames == toTool[proc[p].dev]
             rest == toTool'[proc[p].dev]
         IN  /\ NoAck(frames) => NoAck(rest) /\ f.type # "L"
             /\ \A n, k : Acks(frames, n, k) =>
                  Acks(rest, n, k) /\ (f.type = "L" => k = <<n, f.entropy>>)
             /\ proc[p].at = at
             /\ UNCHANGED <<keyring, new, ltkey, overlap, stale>>
<1>1. /\ toTool[proc[p].dev] \in Seq(Frames) /\ toTool[proc[p].dev] # <<>>
      /\ f = Head(toTool[proc[p].dev]) /\ toTool'[proc[p].dev] = Tail(toTool[proc[p].dev])
  BY DEF LinkTypes, reading
<1>2. proc[p].at = at /\ UNCHANGED <<keyring, new, ltkey, overlap, stale>>
  BY DEF reading, files, history
<1> QED
  BY <1>1, <1>2, FramesTail

LEMMA ReadSnumAlone ==
  ASSUME Types, Alone, ~overlap, NEW p \in Procs, ReadSnum(p)
  PROVE  Alone'
<1> DEFINE d == proc[p].dev
<1>1. ProcTypes /\ LinkTypes /\ KeyTypes /\ proc[p] \in Processes /\ d \in Devices
  BY OwnRecord DEF Types, ProcTypes
<1>2. p \in Alive /\ proc[p].at = "snum"
  BY DEF ReadSnum, reading, Alive
<1>3. /\ d \notin stale => NoRekey(toDev[d]) /\ NoAck(toTool[d])
      /\ Others(p) /\ proc[p].status # 0
  BY <1>2, Only DEF Committed, Follows
<1>4. /\ d \notin stale => NoAck(toTool'[d])
      /\ UNCHANGED <<keyring, new, ltkey, overlap, stale>>
  BY <1>1, <1>3, ReadLinks DEF ReadSnum
<1>5. toDev[d] \in Seq(Commands)
  BY <1>1 DEF LinkTypes
<1>6. \A c \in Commands :
        d \notin stale /\ c.cmd # "L" /\ write(d, c) => NoRekey(toDev'[d])
  BY <1>1, <1>3, <1>5, WriteOf, CommandsAppend
<1>7. ASSUME \A q \in Procs \ {p} : proc'[q] = proc[q],
             proc'[p].at \in {"snum", "mac"}, Kept(p),
             d \notin stale => NoRekey(toDev'[d])
      PROVE  Alone'
  <2>1. Committed(p)' /\ proc'[p].status # 0
    BY <1>3, <1>4, <1>7 DEF Committed, Follows, Kept
  <2>2. Others(p)'
    BY <1>3, <1>4, <1>7, SameOthers DEF Kept
  <2> QED
    BY <1>2, <1>7, <2>1, <2>2, OwnStep
<1>8. CASE retry(p) /\ write(d, Reset)
  <2>1. d \notin stale => NoRekey(toDev'[d])
    BY <1>6, <1>8 DEF Commands, Reset
  <2>2. CASE exit(p, 3)
    BY <1>1, <1>2, <2>2, ExitStep
  <2>3. CASE ~exit(p, 3)
    BY <1>1, <1>2, <1>7, <1>8, <2>1, <2>3, RetryRecord
  <2> QED
    BY <2>2, <2>3
<1>9. CASE /\ set(p, [proc[p] EXCEPT !.at = "mac", !.retries = Retries, !.nonce = fresh])
           /\ write(d, M(proc[p].mkey, fresh))
  <2> DEFINE r == [proc[p] EXCEPT !.at = "mac", !.retries = Retries, !.nonce = fresh]
  <2>1. M(proc[p].mkey, fresh) \in Commands /\ M(proc[p].mkey, fresh).cmd # "L"
    BY <1>1 DEF Processes, KeyTypes, Commands, M
  <2>2. d \notin stale => NoRekey(toDev'[d])
    BY <1>6, <1>9, <2>1
  <2>3. r.at = "mac" /\ r.ents = proc[p].ents /\ r.dev = d /\ r.status = proc[p].status
    BY <1>1 DEF Processes
  <2> HIDE DEF r
  <2>4. \A q \in Procs : proc'[q] = IF q = p THEN r ELSE proc[q]
    BY <1>1, <1>9, SetRecord DEF r
  <2> QED
    BY <1>7, <2>2, <2>3, <2>4 DEF Kept
<1> QED
  BY <1>8, <1>9 DEF ReadSnum

LEMMA ReadMacAlone ==
  ASSUME Types, Alone, ~overlap, NEW p \in Procs, ReadMac(p)
  PROVE  Alone'
<1> DEFINE d == proc[p].dev
<1>1. /\ ProcTypes /\ LinkTypes /\ proc[p] \in Processes
      /\ d \in Devices /\ proc[p].nonce \in Values
  BY OwnRecord DEF Types, ProcTypes
<1>2. p \in Alive /\ proc[p].at = "mac"
  BY DEF ReadMac, reading, Alive
<1>3. /\ d \notin stale => NoRekey(toDev[d]) /\ NoAck(toTool[d])
      /\ Others(p) /\ proc[p].status # 0
  BY <1>2, Only DEF Committed, Follows
<1>4. /\ d \notin stale => NoAck(toTool'[d])
      /\ UNCHANGED <<keyring, new, ltkey, overlap, stale>>
  BY <1>1, <1>3, ReadLinks DEF ReadMac
<1>5. CASE retry(p) /\ UNCHANGED toDev
  <2>1. CASE exit(p, 3)
    BY <1>1, <1>2, <2>1, ExitStep
  <2>2. CASE ~exit(p, 3)
    <3>1. /\ \A q \in Procs \ {p} : proc'[q] = proc[q]
          /\ proc'[p].at = "mac" /\ Kept(p)
      BY <1>1, <1>2, <1>5, <2>2, RetryRecord
    <3>2. Committed(p)' /\ proc'[p].status # 0
      BY <1>3, <1>4, <1>5, <3>1 DEF Committed, Follows, Kept
    <3>3. Others(p)'
      BY <1>3, <1>4, <3>1, SameOthers DEF Kept
    <3> QED
      BY <1>2, <3>1, <3>2, <3>3, OwnStep
  <2> QED
    BY <2>1, <2>2
<1>6. CASE goto(p, "ack") /\ write(d, L(proc[p].nonce))
  <2>1. /\ \A q \in Procs \ {p} : proc'[q] = proc[q]
        /\ proc'[p].at = "ack" /\ proc'[p].nonce = proc[p].nonce /\ Kept(p)
    BY <1>1, <1>6, GotoRecord
  <2>2. L(proc[p].nonce) \in Commands /\ L(proc[p].nonce).nonce = proc[p].nonce
    BY <1>1 DEF Commands, L
  <2>3. d \notin stale => OneRekey(toDev'[d], proc[p].nonce)
    <3>1. toDev[d] \in Seq(Commands)
      BY <1>1 DEF LinkTypes
    <3> QED
      BY <1>1, <1>3, <1>6, <2>2, <3>1, WriteOf, CommandsAppend
  <2>4. Committed(p)' /\ proc'[p].status # 0
    BY <1>3, <1>4, <2>1, <2>3 DEF Committed, Follows, Kept
  <2>5. Others(p)'
    BY <1>3, <1>4, <2>1, SameOthers DEF Kept
  <2> QED
    BY <1>2, <2>1, <2>4, <2>5, OwnStep
<1> QED
  BY <1>5, <1>6 DEF ReadMac, goto

LEMMA ReadAckAlone ==
  ASSUME Types, Alone, ~overlap, NEW p \in Procs, ReadAck(p)
  PROVE  Alone'
<1> DEFINE d == proc[p].dev
           n == proc[p].nonce
<1>1. /\ ProcTypes /\ LinkTypes /\ proc[p] \in Processes /\ d \in Devices
      /\ proc[p].ents \in Contents /\ Distinct(proc[p].ents)
  BY OwnRecord DEF Types, ProcTypes
<1>2. p \in Alive /\ proc[p].at = "ack"
  BY DEF ReadAck, reading, Alive
<1>3. /\ Others(p) /\ proc[p].status # 0
      /\ \/ d \in stale
         \/ NoAck(toTool[d]) /\ OneRekey(toDev[d], n)
         \/ NoRekey(toDev[d]) /\ Acks(toTool[d], n, ltkey[d])
  BY <1>2, Only DEF Committed, Follows
<1>4. PICK f \in Frames :
        /\ reading(p, "ack", f)
        /\ IF f.type # "L" THEN UNCHANGED proc
           ELSE set(p, [proc[p] EXCEPT !.at = "open",
                  !.ents = add_ltkey(@, [snum |-> d, ltkey |-> <<n, f.entropy>>])])
  BY DEF ReadAck
<1>5. /\ NoAck(toTool[d]) => NoAck(toTool'[d]) /\ f.type # "L"
      /\ \A m, k : Acks(toTool[d], m, k) =>
           Acks(toTool'[d], m, k) /\ (f.type = "L" => k = <<m, f.entropy>>)
      /\ UNCHANGED <<keyring, new, ltkey, overlap, stale, toDev>>
  BY <1>1, <1>4, ReadLinks DEF ReadAck
<1>6. CASE f.type # "L"
  <2>1. UNCHANGED proc
    BY <1>4, <1>6
  <2>2. Committed(p)'
    BY <1>2, <1>3, <1>5, <2>1 DEF Committed, Follows
  <2>3. Others(p)'
    BY <1>3, <1>5, <2>1, SameOthers
  <2> QED
    BY <1>2, <1>3, <2>1, <2>2, <2>3, OwnStep
<1>7. CASE f.type = "L"
  <2> DEFINE e == [snum |-> d, ltkey |-> <<n, f.entropy>>]
             c == add_ltkey(proc[p].ents, e)
             r == [proc[p] EXCEPT !.at = "open", !.ents = c]
  <2>1. d \notin stale => NoRekey(toDev[d]) /\ ltkey[d] = <<n, f.entropy>>
    BY <1>3, <1>5, <1>7
  <2>2. e \in Entries /\ e.snum = d /\ (d \notin stale => e.ltkey = ltkey[d])
    BY <1>7, <2>1, AckEntry
  <2>3. set(p, r)
    BY <1>4, <1>7
  <2> HIDE DEF e
  <2>4. /\ d \notin stale => snum_to_ltkey(c, d) = ltkey[d]
        /\ \A s : s # d => snum_to_ltkey(c, s) = snum_to_ltkey(proc[p].ents, s)
    BY <1>1, <2>2, AddList
  <2> HIDE DEF c
  <2>5. r.at = "open" /\ r.ents = c /\ r.dev = d /\ r.status = proc[p].status
    BY <1>1 DEF Processes
  <2> HIDE DEF r
  <2>6. \A q \in Procs : proc'[q] = IF q = p THEN r ELSE proc[q]
    BY <1>1, <2>3, SetRecord
  <2>7. Committed(p)' /\ proc'[p].status # 0
    BY <1>3, <1>5, <2>1, <2>4, <2>5, <2>6 DEF Committed, Follows
  <2>8. Others(p)'
    BY <1>3, <1>5, <2>4, <2>5, <2>6 DEF Others, Known
  <2> QED
    BY <1>2, <2>6, <2>7, <2>8, OwnStep
<1> QED
  BY <1>6, <1>7

LEMMA SaveAlone ==
  ASSUME Types, Written, Alone, ~DiskFull, ~overlap, NEW p \in Procs, Save(p)
  PROVE  Alone'
<1> DEFINE d == proc[p].dev
<1>1. ProcTypes /\ d \in Devices
  BY OwnRecord DEF Types
<1>2. /\ p \in Alive /\ proc[p].at \in {"open", "lines", "rename_tmp", "rename_new"}
      /\ UNCHANGED <<toDev, ltkey, overlap, stale>>
  BY DEF Save, OpenTmp, WriteLines, RenameTmp, RenameNew, saving, Alive, devVars, history
<1>3. /\ d \notin stale => NoRekey(toDev[d]) /\ snum_to_ltkey(proc[p].ents, d) = ltkey[d]
      /\ proc[p].at = "rename_new" => new = proc[p].ents
      /\ Others(p) /\ proc[p].status # 0
  BY <1>2, Only DEF Committed, Follows
<1>4. CASE exit(p, 6)
  BY <1>1, <1>2, <1>4, ExitStep
<1>5. ASSUME NEW at \in {"lines", "rename_tmp", "rename_new"}, goto(p, at),
             UNCHANGED keyring, at = "rename_new" => new' = proc[p].ents
      PROVE  Alone'
  <2>1. /\ \A q \in Procs \ {p} : proc'[q] = proc[q]
        /\ proc'[p].at = at /\ Kept(p)
    BY <1>1, <1>5, GotoRecord
  <2>2. Committed(p)' /\ proc'[p].status # 0
    BY <1>2, <1>3, <1>5, <2>1 DEF Committed, Follows, Kept
  <2>3. Others(p)'
    BY <1>3, <1>5, <2>1, SameOthers DEF Kept
  <2> QED
    BY <1>2, <2>1, <2>2, <2>3, OwnStep
<1>6. CASE (OpenTmp(p) \/ WriteLines(p)) /\ ~exit(p, 6)
  BY <1>5, <1>6 DEF OpenTmp, WriteLines
<1>7. CASE RenameTmp(p) /\ ~exit(p, 6)
  BY <1>5, <1>7 DEF RenameTmp, Written, saving
<1>8. CASE RenameNew(p) /\ ~exit(p, 6)
  <2>1. exit(p, 0) /\ keyring' = new /\ new # Absent /\ new = proc[p].ents
    BY <1>3, <1>8 DEF RenameNew, saving
  <2>2. /\ \A q \in Procs \ {p} : proc'[q] = proc[q]
        /\ proc'[p].at = "exit" /\ proc'[p].dev = d
    BY <1>1, <2>1, ExitRecord
  <2>3. d \notin stale => Agree(d)'
    BY <1>2, <1>3, <2>1, <2>2 DEF Agree, Known
  <2>4. Committed(p)'
    BY <1>2, <1>3, <2>2, <2>3 DEF Committed, Follows, Agree, Known
  <2> QED
    BY <1>2, <2>2, <2>4, OwnStep
<1> QED
  BY <1>4, <1>6, <1>7, <1>8 DEF Save

LEMMA DeviceAlone ==
  ASSUME Types, Alone, NEW d \in Devices, Device(d) \/ Lose(d)
  PROVE  Alone'
<1>1. ProcTypes /\ LinkTypes /\ KeyTypes
  BY DEF Types
<1>2. toTool[d] \in Seq(Frames) /\ toDev[d] \in Seq(Commands)
  BY <1>1 DEF LinkTypes
<1>3. /\ UNCHANGED <<files, proc, history>>
      /\ \A e \in Devices \ {d} : /\ toTool'[e] = toTool[e] /\ toDev'[e] = toDev[e]
                                  /\ ltkey'[e] = ltkey[e]
  BY <1>1 DEF LinkTypes, KeyTypes, Device, DevReset, DevMac, DevRekey, DevRefuse, DevKeyReq,
              answer, Lose
<1>4. ASSUME NEW c, NEW f \in Frames, answer(d, c, f)
      PROVE  /\ toDev[d] # <<>> /\ Head(toDev[d]).cmd = c
             /\ toDev'[d] = Tail(toDev[d])
             /\ toTool'[d] = Append(toTool[d], f)
  BY <1>1, <1>4 DEF answer, LinkTypes
<1>5. \A t \in {"S", "M", "k", "l"} : Frame(t) \in Frames /\ Frame(t).type = t
  BY DEF Frames, Frame
<1>6. CASE DevReset(d) \/ DevMac(d) \/ DevRefuse(d)
  <2>1. UNCHANGED ltkey
    BY <1>6 DEF DevReset, DevMac, DevRefuse
  <2>2. PICK t \in {"S", "M", "l"} : \E c : answer(d, c, Frame(t))
    BY <1>6 DEF DevReset, DevMac, DevRefuse
  <2>3. toDev[d] # <<>> /\ toDev'[d] = Tail(toDev[d]) /\ toTool'[d] = Append(toTool[d], Frame(t))
    BY <1>4, <1>5, <2>2
  <2>4. Frame(t) \in Frames /\ Frame(t).type # "L"
    BY <1>5
  <2> HIDE DEF Frame
  <2>5. /\ NoRekey(toDev[d]) => NoRekey(toDev'[d])
        /\ \A n : OneRekey(toDev[d], n) => OneRekey(toDev'[d], n)
    BY <1>2, <2>3, CommandsTail
  <2>6. /\ NoAck(toTool[d]) => NoAck(toTool'[d])
        /\ \A n, k : Acks(toTool[d], n, k) => Acks(toTool'[d], n, k)
    BY <1>2, <2>3, <2>4, FramesAppend
  <2> QED
    BY <1>1, <1>3, <2>1, <2>5, <2>6, LinkStep
<1>7. CASE DevRekey(d)
  <2>1. Ack(fresh) \in Frames /\ Ack(fresh).entropy = fresh
    BY <1>1 DEF KeyTypes, Frames, Ack
  <2>2. /\ toDev[d] # <<>> /\ Head(toDev[d]).cmd = "L"
        /\ toDev'[d] = Tail(toDev[d]) /\ toTool'[d] = Append(toTool[d], Ack(fresh))
    BY <1>4, <1>7, <2>1 DEF DevRekey
  <2>3. ltkey'[d] = <<Head(toDev[d]).nonce, fresh>>
    BY <1>1, <1>7 DEF KeyTypes, DevRekey
  <2>4. ~NoRekey(toDev[d])
    BY <1>2, <2>2, CommandsTail
  <2>5. \A n : OneRekey(toDev[d], n) => NoRekey(toDev'[d]) /\ ltkey'[d] = <<n, fresh>>
    BY <1>2, <2>2, <2>3, CommandsTail
  <2>6. \A n : NoAck(toTool[d]) => Acks(toTool'[d], n, <<n, fresh>>)
    BY <1>2, <2>1, <2>2, FramesAppend
  <2>7. \A n : NoAck(toTool[d]) /\ OneRekey(toDev[d], n)
                 => NoRekey(toDev'[d]) /\ Acks(toTool'[d], n, ltkey'[d])
    BY <2>5, <2>6
  <2> QED
    BY <1>1, <1>3, <2>4, <2>7, LinkStep
<1>8. CASE DevKeyReq(d)
  <2>1. toTool'[d] = <<Frame("k")>> /\ UNCHANGED <<toDev, ltkey>>
    BY <1>1, <1>8 DEF DevKeyReq, LinkTypes
  <2>2. DOMAIN <<Frame("k")>> = {1} /\ <<Frame("k")>>[1].type # "L"
    BY <1>5
  <2>3. NoAck(toTool'[d]) /\ \A n, k : Acks(toTool'[d], n, k)
    BY <2>1, <2>2 DEF NoAck, Acks
  <2> QED
    BY <1>1, <1>3, <2>1, <2>3, LinkStep
<1>9. CASE Lose(d)
  <2>1. UNCHANGED ltkey
    BY <1>9 DEF Lose
  <2>2. \/ toTool[d] # <<>> /\ toTool'[d] = Tail(toTool[d]) /\ toDev'[d] = toDev[d]
        \/ toDev[d] # <<>> /\ toDev'[d] = Tail(toDev[d]) /\ toTool'[d] = toTool[d]
    BY <1>1, <1>9 DEF Lose, LinkTypes
  <2>3. /\ NoRekey(toDev[d]) => NoRekey(toDev'[d])
        /\ \A n : OneRekey(toDev[d], n) => OneRekey(toDev'[d], n)
    BY <1>2, <2>2, CommandsTail
  <2>4. /\ NoAck(toTool[d]) => NoAck(toTool'[d])
        /\ \A n, k : Acks(toTool[d], n, k) => Acks(toTool'[d], n, k)
    BY <1>2, <2>2, FramesTail
  <2> QED
    BY <1>1, <1>3, <2>1, <2>3, <2>4, LinkStep
<1> QED
  BY <1>6, <1>7, <1>8, <1>9 DEF Device

LEMMA NextAlone ==
  ASSUME Types, Written, Alone, ~DiskFull, [Next]_vars
  PROVE  Alone'
<1>1. ProcTypes
  BY DEF Types
<1>2. ASSUME NEW d \in Devices, NEW right \in BOOLEAN, Start(d, right)
      PROVE  Alone'
  BY <1>2, StartAlone
<1>3. ASSUME NEW p \in Procs, Process(p) \/ NoNonce(p) \/ Kill(p) \/ Interrupt(p)
      PROVE  Alone'
  <2>1. UNCHANGED overlap
    BY <1>3 DEF Process, ReadError, ReadSnum, ReadMac, ReadAck, reading, Save, OpenTmp,
                WriteLines, RenameTmp, RenameNew, saving, NoNonce, Kill, Interrupt, kill,
                history
  <2>2. CASE overlap
    BY <2>1, <2>2 DEF Alone
  <2>3. CASE ~overlap
    <3>1. CASE Process(p) /\ ~ReadError(p)
      BY <2>3, <3>1, ReadSnumAlone, ReadMacAlone, ReadAckAlone, SaveAlone DEF Process
    <3>2. CASE ReadError(p) \/ NoNonce(p) \/ Kill(p) \/ Interrupt(p)
      <4>1. p \in Alive /\ \E code : code # 0 /\ exit(p, code)
        BY <3>2, KeyringAssumption
        DEF ReadError, reading, NoNonce, Kill, Interrupt, kill, Alive
      <4> QED
        BY <1>1, <2>3, <4>1, ExitStep
    <3> QED
      BY <1>3, <3>1, <3>2
  <2> QED
    BY <2>2, <2>3
<1>4. ASSUME NEW d \in Devices, Device(d) \/ Lose(d)
      PROVE  Alone'
  BY <1>4, DeviceAlone
<1>5. CASE UNCHANGED vars
  BY <1>5 DEF Alone, Committed, Follows, Others, Agree, Known, Alive, vars, files, devVars, history
<1>6. ASSUME NEW d \in Devices, StartFails(d)
      PROVE  Alone'
  <2> SUFFICES ASSUME ~overlap'
               PROVE  Alone'
    BY DEF Alone
  <2>1. Alive = {}
    BY <1>6, StartFailsEnds
  <2>2. PICK code \in {1, 3, 4} : \A q \in Procs : proc'[q] \in {Ended(d, code), Ended(d, NULL)}
    BY <1>6, <2>1, StartFailsEnds
  <2>3. \A c \in {NULL, code} : Ended(d, c).at = "exit" /\ Ended(d, c).status # 0
    BY KeyringAssumption DEF Ended
  <2>4. \A q \in Procs : proc'[q].at = "exit" /\ proc'[q].status # 0
    BY <2>2, <2>3
  <2> QED
    BY <2>4 DEF Alone, Alive, Committed, Follows
<1> QED
  BY <1>2, <1>3, <1>4, <1>5, <1>6 DEF Next

LEMMA InitAlone ==
  Init => Alone
<1> SUFFICES ASSUME Init
             PROVE  Alone
  OBVIOUS
<1>1. \A p \in Procs : proc[p].at = "exit" /\ proc[p].status # 0
  BY Records, KeyringAssumption DEF Init
<1> QED
  BY <1>1 DEF Alone, Alive, Committed, Follows

LEMMA Inductive ==
  ASSUME ~DiskFull
  PROVE  /\ Init => IInv
         /\ IInv /\ [Next]_vars => IInv'
BY InitTypes, InitWhole, InitAlone, NextTypes, NextWhole, NextAlone DEF IInv

(* Unless the disk is full: while no two processes have overlapped,        *)
(* success means that the keyring file holds the key the device has        *)
(* (main of ekey-setkey), wherever earlier runs were killed and whatever   *)
(* estream_open left under way of them, if that was neither an L command   *)
(* nor the answer to one.                                                  *)
THEOREM SuccessIsSaved ==
  ASSUME ~DiskFull
  PROVE  Spec => []Saved
<1>1. IInv => Saved
  BY DEF IInv, Alone, Committed, Follows, Saved
<1> QED
  BY <1>1, Inductive, PTL DEF Spec

(* Unless the disk is full: a run for one device leaves alone what the     *)
(* keyring says of the others (add_ltkey, write_keyring).                  *)
THEOREM OtherKeysKept ==
  ASSUME ~DiskFull
  PROVE  Spec => OthersKept
<1>1. IInv /\ [Next]_vars =>
        [\A d \in Devices : Known(d)' # Known(d) /\ ~overlap'
           => \E p \in Alive : proc[p].dev = d]_vars
  <2> SUFFICES ASSUME IInv, [Next]_vars, NEW d \in Devices, Known(d)' # Known(d), ~overlap'
               PROVE  \E p \in Alive : proc[p].dev = d
    OBVIOUS
  <2>1. PICK p \in Procs : RenameNew(p)
    <3>1. keyring' # keyring
      BY DEF Known
    <3> QED
      BY <3>1 DEF Next, vars, files, Start, StartFails, starting, Process, ReadError,
                  ReadSnum, ReadMac, ReadAck, reading, Save, OpenTmp, WriteLines, RenameTmp,
                  NoNonce, Kill, Interrupt, kill, Device, DevReset, DevMac, DevRekey,
                  DevRefuse, DevKeyReq, answer, Lose
  <2>2. p \in Alive /\ ~overlap /\ proc[p].at = "rename_new"
    BY <2>1 DEF RenameNew, saving, Alive, history
  <2>3. Others(p) /\ new = proc[p].ents
    BY <2>2, Only DEF IInv, Committed
  <2>4. keyring' = new /\ new # Absent
    BY <2>1 DEF RenameNew, Known
  <2>5. Known(d)' = snum_to_ltkey(proc[p].ents, d)
    BY <2>3, <2>4 DEF Known
  <2> QED
    BY <2>2, <2>3, <2>5 DEF Others
<1> QED
  BY <1>1, Inductive, PTL DEF Spec, OthersKept
=============================================================================
