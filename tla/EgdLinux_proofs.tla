-------------------------- MODULE EgdLinux_proofs ---------------------------
(***************************************************************************)
(* Proofs about EgdLinux, for any batch and block size, any number of      *)
(* connections and competitors, failures and restarts of ekeyd: the        *)
(* program's own count of the bytes it waits for never parts from what     *)
(* ekeyd owes on the connection.  The service's invariants (module         *)
(* EgdServer_proofs) hold under this client too: only what changes its     *)
(* connections is proved again.                                            *)
(***************************************************************************)
EXTENDS EgdLinux, EgdServer_proofs

(* A sequence of k requests for READ bytes each.                           *)
Requests(x, k) ==
  /\ Len(x) = 2 * k
  /\ \A i \in 1 .. k : x[2 * i - 1] = EGD_CMD_BLOCKREAD /\ x[2 * i] = READ

pending(c) == IF egdwriteblocked[c] = nil THEN 0 ELSE egdwriteblocked[c]

(* What is on the current connection while its peer is there: requests for *)
(* blocks, all of them counted, and the answers to those before them.      *)
Line(c) ==
  /\ Present(c)
  /\ egdreadblocked[c] = nil
  /\ egdwriteblocked[c] # nil => answers[c] # <<>>
  /\ pos[c] <= Len(script[c])
  /\ \E k \in Nat :
       /\ Requests(Commands(c), k)
       /\ bytes_waiting = k * READ + pending(c) + Len(Handed(c))

(* Once the peer has gone nothing more is written to the connection, and   *)
(* what was is not more than what is waited for.                           *)
LineOK ==
  egd_fd # NoConn =>
    /\ link = "open" => Line(egd_fd)
    /\ link # "open" => dropped(egd_fd)
    /\ link \in {"eof", "hup"} => Len(Handed(egd_fd)) <= bytes_waiting

(* A batch is asked for only when nothing is waited for any more.          *)
AskedOnce ==
  /\ rnd_events => bytes_waiting = 0
  /\ lpc = "issue" => rnd_events

ServerOK == IInv /\ AnswersOK /\ Spreading

LInv == ServerOK /\ LinuxTypeOK /\ AskedOnce /\ LineOK

-----------------------------------------------------------------------------
(* Sequences of requests *)

(* Multiples of READ.                                                      *)
LEMMA Multiples ==
  /\ READ \in Nat /\ READ >= 1 /\ Blocks \in Nat
  /\ \A k \in Nat : k * READ \in Nat
  /\ \A k \in Nat : k >= 1 => (k - 1) * READ = k * READ - READ
  /\ \A k \in Nat : (k + Blocks) * READ = k * READ + Blocks * READ
<1>1. READ \in Nat /\ READ >= 1 /\ Blocks \in Nat
  BY EgdLinuxAssumption, EgdAssumption
<1> QED
  BY <1>1

(* The elements of two sequences in a row.                                 *)
LEMMA Joined ==
  ASSUME NEW S, NEW x \in Seq(S), NEW y \in Seq(S)
  PROVE  /\ x \o y \in Seq(S) /\ Len(x \o y) = Len(x) + Len(y)
         /\ \A i \in 1 .. Len(x) : (x \o y)[i] = x[i]
         /\ \A i \in 1 .. Len(y) : (x \o y)[Len(x) + i] = y[i]
<1>1. Len(x) \in Nat /\ Len(y) \in Nat
  BY SeqFacts
<1>2. /\ x \o y \in Seq(S) /\ Len(x \o y) = Len(x) + Len(y)
      /\ \A i \in 1 .. Len(x) + Len(y) : (x \o y)[i] = IF i <= Len(x) THEN x[i]
                                                        ELSE y[i - Len(x)]
  BY ConcatProperties
<1>3. ASSUME NEW i \in 1 .. Len(y)
      PROVE  (x \o y)[Len(x) + i] = y[i]
  <2>1. Len(x) + i \in 1 .. Len(x) + Len(y) /\ ~(Len(x) + i <= Len(x))
        /\ Len(x) + i - Len(x) = i
    BY <1>1
  <2> QED
    BY <1>2, <2>1
<1>4. ASSUME NEW i \in 1 .. Len(x)
      PROVE  (x \o y)[i] = x[i]
  <2>1. i \in 1 .. Len(x) + Len(y) /\ i <= Len(x)
    BY <1>1
  <2> QED
    BY <1>2, <2>1
<1> QED
  BY <1>2, <1>3, <1>4

(* A byte received moves from the script to the read buffer.               *)
LEMMA ReceivedOne ==
  ASSUME NEW buf \in Seq(Byte), NEW s \in Seq(Byte), NEW n \in Nat, n < Len(s)
  PROVE  Append(buf, s[n + 1]) \o Rest(s, n + 1) = buf \o Rest(s, n)
<1> DEFINE e == s[n + 1]
           b == Append(buf, e)
           r == Rest(s, n + 1)
           t == Rest(s, n)
<1>1. Len(s) \in Nat /\ Len(buf) \in Nat /\ n + 1 \in 1 .. Len(s) /\ e \in Byte
      /\ n \in 0 .. Len(s) /\ n + 1 \in 0 .. Len(s)
  BY SeqFacts
<1>2. /\ b \in Seq(Byte) /\ Len(b) = Len(buf) + 1 /\ b[Len(buf) + 1] = e
      /\ \A i \in 1 .. Len(buf) : b[i] = buf[i]
  BY <1>1, AppendFacts
<1>3. /\ r \in Seq(Byte) /\ Len(r) = Len(s) - (n + 1)
      /\ \A i \in 1 .. Len(s) - (n + 1) : r[i] = s[n + 1 + i]
  BY <1>1, FirstRestAt
<1>4. /\ t \in Seq(Byte) /\ Len(t) = Len(s) - n
      /\ \A i \in 1 .. Len(s) - n : t[i] = s[n + i]
  BY <1>1, FirstRestAt
<1> HIDE DEF b, r, t
<1>5. /\ b \o r \in Seq(Byte) /\ Len(b \o r) = Len(buf) + 1 + (Len(s) - (n + 1))
      /\ \A i \in 1 .. Len(buf) + 1 : (b \o r)[i] = b[i]
      /\ \A i \in 1 .. Len(s) - (n + 1) : (b \o r)[Len(buf) + 1 + i] = r[i]
  <2>1. b \in Seq(Byte) /\ r \in Seq(Byte)
    BY <1>2, <1>3
  <2>2. /\ b \o r \in Seq(Byte) /\ Len(b \o r) = Len(b) + Len(r)
        /\ \A i \in 1 .. Len(b) : (b \o r)[i] = b[i]
        /\ \A i \in 1 .. Len(r) : (b \o r)[Len(b) + i] = r[i]
    BY ONLY <2>1, Joined
  <2>3. Len(b) = Len(buf) + 1 /\ Len(r) = Len(s) - (n + 1)
    BY <1>2, <1>3
  <2> QED
    BY ONLY <2>2, <2>3
<1>6. /\ buf \o t \in Seq(Byte) /\ Len(buf \o t) = Len(buf) + (Len(s) - n)
      /\ \A i \in 1 .. Len(buf) : (buf \o t)[i] = buf[i]
      /\ \A i \in 1 .. Len(s) - n : (buf \o t)[Len(buf) + i] = t[i]
  <2>1. buf \in Seq(Byte) /\ t \in Seq(Byte)
    BY <1>4
  <2>2. /\ buf \o t \in Seq(Byte) /\ Len(buf \o t) = Len(buf) + Len(t)
        /\ \A i \in 1 .. Len(buf) : (buf \o t)[i] = buf[i]
        /\ \A i \in 1 .. Len(t) : (buf \o t)[Len(buf) + i] = t[i]
    BY ONLY <2>1, Joined
  <2>3. Len(t) = Len(s) - n
    BY <1>4
  <2> QED
    BY ONLY <2>2, <2>3
<1>7. Len(b \o r) = Len(buf \o t)
  BY <1>1, <1>5, <1>6
<1>8. ASSUME NEW i \in 1 .. Len(buf \o t)
      PROVE  (b \o r)[i] = (buf \o t)[i]
  <2>1. i \in 1 .. Len(buf) + (Len(s) - n)
    BY <1>6
  <2>2. CASE i <= Len(buf)
    <3>1. i \in 1 .. Len(buf) /\ i \in 1 .. Len(buf) + 1
      BY <1>1, <2>1, <2>2
    <3> QED
      BY <1>2, <1>5, <1>6, <3>1
  <2>3. CASE i = Len(buf) + 1
    <3>1. i \in 1 .. Len(buf) + 1 /\ 1 \in 1 .. Len(s) - n
      BY <1>1, <2>3
    <3>2. (buf \o t)[Len(buf) + 1] = t[1] /\ t[1] = s[n + 1]
      BY <1>4, <1>6, <3>1
    <3> QED
      BY <1>2, <1>5, <2>3, <3>1, <3>2
  <2>4. CASE i > Len(buf) + 1
    <3> DEFINE j == i - Len(buf) - 1
    <3>1. /\ j \in 1 .. Len(s) - (n + 1) /\ j + 1 \in 1 .. Len(s) - n
          /\ Len(buf) + 1 + j = i /\ Len(buf) + (j + 1) = i /\ n + 1 + j = n + (j + 1)
      BY <1>1, <2>1, <2>4
    <3> HIDE DEF j
    <3>2. (b \o r)[i] = r[j] /\ r[j] = s[n + 1 + j]
      BY <1>3, <1>5, <3>1
    <3>3. (buf \o t)[i] = t[j + 1] /\ t[j + 1] = s[n + (j + 1)]
      BY <1>4, <1>6, <3>1
    <3> QED
      BY <3>1, <3>2, <3>3
  <2>5. i \in Int /\ Len(buf) \in Int
    BY <1>1, <2>1
  <2>6. i <= Len(buf) \/ i = Len(buf) + 1 \/ i > Len(buf) + 1
    BY ONLY <2>5
  <2> QED
    BY <2>2, <2>3, <2>4, <2>6
<1> QED
  BY <1>5, <1>6, <1>7, <1>8, SeqEqual DEF b, r, t

(* The first request, once it is in the read buffer, and what follows it.  *)
LEMMA FirstRequest ==
  ASSUME NEW buf \in Seq(Byte), NEW r \in Seq(Byte), NEW k \in Nat,
         Requests(buf \o r, k)
  PROVE  /\ buf # <<>> => k >= 1 /\ buf[1] = EGD_CMD_BLOCKREAD
         /\ Len(buf) >= 2 => /\ buf[2] = READ
                             /\ Rest(buf, 2) \in Seq(Byte)
                             /\ Requests(Rest(buf, 2) \o r, k - 1)
<1> DEFINE x == buf \o r
           b == Rest(buf, 2)
           y == b \o r
<1>1. Len(buf) \in Nat /\ Len(r) \in Nat /\ (buf # <<>> => Len(buf) >= 1)
  BY SeqFacts
<1>2. /\ x \in Seq(Byte) /\ Len(x) = Len(buf) + Len(r)
      /\ \A i \in 1 .. Len(buf) : x[i] = buf[i]
      /\ \A i \in 1 .. Len(r) : x[Len(buf) + i] = r[i]
  BY Joined
<1>3. /\ Len(x) = 2 * k
      /\ \A i \in 1 .. k : x[2 * i - 1] = EGD_CMD_BLOCKREAD /\ x[2 * i] = READ
  BY DEF Requests
<1> HIDE DEF x, y
<1>4. ASSUME Len(buf) >= 1
      PROVE  k >= 1 /\ x[1] = EGD_CMD_BLOCKREAD /\ x[2] = READ
  <2>1. k >= 1 /\ 1 \in 1 .. k /\ 2 * 1 - 1 = 1 /\ 2 * 1 = 2
    BY <1>1, <1>2, <1>3, <1>4
  <2> QED
    BY <1>3, <2>1
<1>5. ASSUME Len(buf) >= 2
      PROVE  buf[2] = READ /\ b \in Seq(Byte) /\ Requests(y, k - 1)
  <2>1. Len(buf) >= 1 /\ 2 \in 1 .. Len(buf) /\ 2 \in 0 .. Len(buf)
    BY <1>1, <1>5
  <2>2. /\ b \in Seq(Byte) /\ Len(b) = Len(buf) - 2
        /\ \A i \in 1 .. Len(buf) - 2 : b[i] = buf[2 + i]
    BY <2>1, FirstRestAt
  <2> HIDE DEF b
  <2>3. /\ y \in Seq(Byte) /\ Len(y) = Len(b) + Len(r)
        /\ \A i \in 1 .. Len(b) : y[i] = b[i]
        /\ \A i \in 1 .. Len(r) : y[Len(b) + i] = r[i]
    <3>1. b \in Seq(Byte) /\ r \in Seq(Byte) /\ y = b \o r
      BY <2>2 DEF y
    <3> QED
      BY ONLY <3>1, Joined
  <2>4. Len(y) = 2 * (k - 1)
    <3> DEFINE p == Len(buf)
               q == Len(r)
               z == Len(y)
               w == Len(x)
    <3>1. /\ p \in Nat /\ q \in Nat /\ k \in Nat /\ w = p + q /\ w = 2 * k
      BY <1>1, <1>2, <1>3
    <3>2. z = (p - 2) + q
      BY <2>2, <2>3
    <3> HIDE DEF p, q, z, w
    <3>3. z = 2 * (k - 1)
      BY ONLY <3>1, <3>2
    <3> QED
      BY <3>3 DEF z
  <2>5. ASSUME NEW i \in 1 .. Len(y)
        PROVE  y[i] = x[i + 2]
    <3>1. i \in 1 .. (Len(buf) - 2) + Len(r)
      BY <2>2, <2>3
    <3>2. CASE i <= Len(buf) - 2
      <4>1. i \in 1 .. Len(buf) - 2 /\ i + 2 \in 1 .. Len(buf) /\ 2 + i = i + 2
        BY <1>1, <3>1, <3>2
      <4> QED
        BY <1>2, <2>2, <2>3, <4>1
    <3>3. CASE i > Len(buf) - 2
      <4> DEFINE j == i - (Len(buf) - 2)
      <4>1. j \in 1 .. Len(r) /\ (Len(buf) - 2) + j = i /\ Len(buf) + j = i + 2
        BY <1>1, <3>1, <3>3
      <4> HIDE DEF j
      <4>2. y[i] = r[j] /\ x[i + 2] = r[j]
        BY <1>2, <2>2, <2>3, <4>1
      <4> QED
        BY <4>2
    <3> QED
      BY <1>1, <3>1, <3>2, <3>3
  <2>6. ASSUME NEW i \in 1 .. k - 1
        PROVE  y[2 * i - 1] = EGD_CMD_BLOCKREAD /\ y[2 * i] = READ
    <3>1. /\ 2 * i - 1 \in 1 .. Len(y) /\ 2 * i \in 1 .. Len(y)
          /\ i + 1 \in 1 .. k
          /\ (2 * i - 1) + 2 = 2 * (i + 1) - 1 /\ 2 * i + 2 = 2 * (i + 1)
      BY <2>4
    <3>2. y[2 * i - 1] = x[2 * (i + 1) - 1] /\ y[2 * i] = x[2 * (i + 1)]
      BY <2>5, <3>1
    <3> QED
      BY <1>3, <3>1, <3>2
  <2>7. Requests(y, k - 1)
    BY <2>4, <2>6 DEF Requests
  <2> QED
    BY <1>2, <1>4, <2>1, <2>2, <2>7
<1>6. buf # <<>> => 1 \in 1 .. Len(buf)
  BY <1>1
<1> QED
  BY <1>1, <1>2, <1>4, <1>5, <1>6 DEF b, y

(* Requests behind requests.                                               *)
LEMMA MoreRequests ==
  ASSUME NEW x \in Seq(Byte), NEW y \in Seq(Byte), NEW k \in Nat, NEW m \in Nat,
         Requests(x, k), Requests(y, m)
  PROVE  x \o y \in Seq(Byte) /\ Requests(x \o y, k + m)
<1> DEFINE z == x \o y
<1>1. /\ z \in Seq(Byte) /\ Len(z) = Len(x) + Len(y)
      /\ \A i \in 1 .. Len(x) : z[i] = x[i]
      /\ \A i \in 1 .. Len(y) : z[Len(x) + i] = y[i]
  BY Joined
<1> HIDE DEF z
<1>2. Len(x) = 2 * k /\ Len(y) = 2 * m
  BY DEF Requests
<1>3. ASSUME NEW i \in 1 .. k + m
      PROVE  z[2 * i - 1] = EGD_CMD_BLOCKREAD /\ z[2 * i] = READ
  <2>1. CASE i <= k
    <3>1. i \in 1 .. k /\ 2 * i - 1 \in 1 .. 2 * k /\ 2 * i \in 1 .. 2 * k
      BY <2>1
    <3> QED
      BY <1>1, <1>2, <3>1 DEF Requests
  <2>2. CASE i > k
    <3> DEFINE j == i - k
    <3>1. /\ j \in 1 .. m /\ 2 * j - 1 \in 1 .. 2 * m /\ 2 * j \in 1 .. 2 * m
          /\ 2 * k + (2 * j - 1) = 2 * i - 1 /\ 2 * k + 2 * j = 2 * i
      BY <2>2
    <3> HIDE DEF j
    <3>2. z[2 * i - 1] = y[2 * j - 1] /\ z[2 * i] = y[2 * j]
      BY <1>1, <1>2, <3>1
    <3> QED
      BY <3>1, <3>2 DEF Requests
  <2> QED
    BY <2>1, <2>2
<1>4. Len(z) = 2 * (k + m)
  BY <1>1, <1>2
<1> QED
  BY <1>1, <1>3, <1>4 DEF Requests, z

(* One request, and the batch issue_read_for_random writes.                *)
LEMMA BatchRequests == batch \in Seq(Byte) /\ Requests(batch, Blocks)
<1> DEFINE q == <<EGD_CMD_BLOCKREAD, READ>>
           R(n) == [i \in 1 .. n |-> q]
<1>1. EGD_CMD_BLOCKREAD \in Byte /\ READ \in Byte /\ Blocks \in Nat
  BY EgdLinuxAssumption, EgdAssumption DEF Byte, EGD_CMD_BLOCKREAD
<1>2. q \in Seq(Byte) /\ Requests(q, 1)
  <2>1. q \in Seq(Byte) /\ Len(q) = 2 /\ q[1] = EGD_CMD_BLOCKREAD /\ q[2] = READ
    BY <1>1
  <2> HIDE DEF q
  <2>2. \A i \in 1 .. 1 : q[2 * i - 1] = EGD_CMD_BLOCKREAD /\ q[2 * i] = READ
    <3>1. \A i \in 1 .. 1 : 2 * i - 1 = 1 /\ 2 * i = 2
      OBVIOUS
    <3> QED
      BY <2>1, <3>1
  <2> QED
    BY <2>1, <2>2 DEF Requests
<1> HIDE DEF q
<1> DEFINE Good(n) == /\ R(n) \in Seq(Seq(Byte)) /\ FlattenSeq(R(n)) \in Seq(Byte)
                      /\ Requests(FlattenSeq(R(n)), n)
           Q == {n \in Nat : Good(n)}
<1>3. \A n \in Nat : R(n) \in Seq(Seq(Byte)) /\ Len(R(n)) = n
  <2>1. ASSUME NEW n \in Nat
        PROVE  R(n) \in Seq(Seq(Byte)) /\ Len(R(n)) = n
    BY <1>2, <2>1, IsASeq, LenProperties
  <2> QED
    BY <2>1
<1>4. Good(0)
  <2>1. R(0) = <<>>
    BY <1>3, EmptySeq
  <2>2. FlattenSeq(<<>>) = <<>> /\ <<>> \in Seq(Byte) /\ Len(<<>>) = 0
    <3>1. FlattenSeq(<<>>) = <<>>
      BY DEF FlattenSeq
    <3> QED
      BY <3>1, EmptySeq
  <2>3. Requests(<<>>, 0)
    BY <2>2 DEF Requests
  <2> QED
    BY <1>3, <2>1, <2>2, <2>3
<1>5. ASSUME NEW n \in Nat, Good(n)
      PROVE  Good(n + 1)
  <2> DEFINE a == R(n + 1)
             b == Append(R(n), q)
  <2>1. n + 1 \in Nat /\ \A i \in 1 .. n + 1 : i = n + 1 \/ i \in 1 .. n
    OBVIOUS
  <2>2. a \in Seq(Seq(Byte)) /\ Len(a) = n + 1 /\ \A i \in 1 .. n + 1 : a[i] = q
    BY <1>3, <2>1
  <2>3. \A i \in 1 .. n : R(n)[i] = q
    OBVIOUS
  <2>4. R(n) \in Seq(Seq(Byte)) /\ Len(R(n)) = n
    BY <1>3
  <2> HIDE DEF R
  <2>5. /\ b \in Seq(Seq(Byte)) /\ Len(b) = n + 1 /\ b[n + 1] = q
        /\ \A i \in 1 .. n : b[i] = R(n)[i]
    BY <1>2, <2>4, AppendFacts
  <2> HIDE DEF a, b
  <2>6. \A i \in 1 .. n + 1 : a[i] = b[i]
    BY <2>1, <2>2, <2>3, <2>5
  <2>7. a = b
    BY <2>2, <2>5, <2>6, SeqEqual
  <2>8. FlattenSeq(b) = FlattenSeq(R(n)) \o q
    BY <1>2, <2>4, FlattenAppend DEF b
  <2>9. FlattenSeq(a) \in Seq(Byte) /\ Requests(FlattenSeq(a), n + 1)
    BY <1>2, <1>5, <2>7, <2>8, MoreRequests
  <2> QED
    BY <2>2, <2>9 DEF a
<1>6. 0 \in Q /\ \A n \in Nat : n \in Q => n + 1 \in Q
  <2> HIDE DEF Good, R
  <2> QED
    BY <1>4, <1>5
<1>7. Blocks \in Q
  <2> HIDE DEF Q
  <2>1. Q \subseteq Nat
    BY DEF Q
  <2> QED
    BY <1>1, <1>6, <2>1, SetInduction
<1>8. batch = FlattenSeq(R(Blocks))
  BY DEF batch, q
<1> QED
  BY <1>7, <1>8

-----------------------------------------------------------------------------
(* One command on the program's connection                                 *)

(* A request for a block is answered, in full or in part; what is missing  *)
(* is awaited.                                                             *)
LEMMA BlockLine ==
  ASSUME IInv, AnswersOK, NEW c \in Clients, NEW buf \in Seq(Byte), buf[2] = READ,
         ~gone(c), egdwriteblocked[c] = nil, BlockRead(c, buf)
  PROVE  /\ status' = status /\ readbuffers'[c] = Rest(buf, 2)
         /\ answers'[c] # <<>>
         /\ pending(c)' \in Nat /\ Len(Handed(c))' \in Nat /\ Len(Handed(c)) \in Nat
         /\ pending(c)' + Len(Handed(c))' = READ + Len(Handed(c))
<1> DEFINE got == dequeued(READ)
           a == Answer("block", READ, got)
           h == Handed(c)
<1>1. READ \in Nat /\ READ >= 1
  BY Multiples
<1>2. got \in Seq(Label) /\ Len(got) \in Nat /\ Len(got) <= READ
  BY <1>1, DequeueOK DEF IInv
<1>3. a \in AnswerRecord /\ a.bytes = got
  BY <1>1, <1>2 DEF Answer, AnswerRecord
<1>4. ctlwrite(c, a) /\ leave(c, Rest(buf, 2)) /\ status' = status
      /\ egdwriteblocked' = [egdwriteblocked EXCEPT ![c] =
                               IF Len(got) < READ THEN READ - Len(got) ELSE @]
  BY DEF BlockRead
<1>5. answers[c] \in Seq(AnswerRecord) /\ h \in Seq(Label)
  BY HandedOK DEF AnswersOK
<1> HIDE DEF a, got
<1>6. answers'[c] = Append(answers[c], a) /\ h' = h \o got
  BY <1>3, <1>4, CtlWrites
<1>7. answers'[c] # <<>>
  <2>1. Len(Append(answers[c], a)) = Len(answers[c]) + 1 /\ Len(answers[c]) \in Nat
    BY <1>3, <1>5, AppendFacts, SeqFacts
  <2>2. Append(answers[c], a) # <<>>
    <3> DEFINE q == Append(answers[c], a)
    <3>1. Len(q) >= 1
      BY <2>1
    <3> HIDE DEF q
    <3>2. q # <<>>
      BY <3>1, EmptySeq
    <3> QED
      BY <3>2 DEF q
  <2> QED
    BY <1>6, <2>2
<1>8. Len(h') = Len(h) + Len(got) /\ Len(h) \in Nat
  BY <1>2, <1>5, <1>6, Joined, SeqFacts
<1>9. egdwriteblocked'[c] = IF Len(got) < READ THEN READ - Len(got) ELSE nil
  BY <1>4 DEF IInv, ClientsOK
<1>10. pending(c)' = READ - Len(got)
  <2>1. CASE Len(got) < READ
    <3>1. egdwriteblocked'[c] = READ - Len(got) /\ READ - Len(got) # -1
      BY <1>1, <1>2, <1>9, <2>1
    <3> QED
      BY <3>1 DEF pending, nil
  <2>2. CASE ~(Len(got) < READ)
    <3>1. egdwriteblocked'[c] = nil /\ READ - Len(got) = 0
      BY <1>1, <1>2, <1>9, <2>2
    <3> QED
      BY <3>1 DEF pending
  <2> QED
    BY <2>1, <2>2
<1>11. readbuffers'[c] = Rest(buf, 2)
  BY <1>4 DEF leave, IInv, ClientsOK
<1>12. READ - Len(got) \in Nat /\ Len(h) + Len(got) \in Nat
      /\ (READ - Len(got)) + (Len(h) + Len(got)) = READ + Len(h)
  BY <1>1, <1>2, <1>8
<1> QED
  BY <1>4, <1>7, <1>8, <1>10, <1>11, <1>12

(* The bytes asked for and those handed over stay the same sum, whatever   *)
(* egd_try_cmd does with the bytes received.                               *)
LEMMA TryLine ==
  ASSUME IInv, AnswersOK, NEW c \in Clients, NEW buf \in Seq(Byte), NEW r \in Seq(Byte),
         NEW k \in Nat, Requests(buf \o r, k), ~gone(c), egdreadblocked[c] = nil,
         egdwriteblocked[c] # nil => answers[c] # <<>>, egd_try_cmd(c, buf)
  PROVE  /\ status' = status /\ egdreadblocked'[c] = nil
         /\ egdwriteblocked'[c] # nil => answers'[c] # <<>>
         /\ \E j \in Nat :
              /\ Requests(readbuffers'[c] \o r, j)
              /\ j * READ + pending(c)' + Len(Handed(c))'
                   = k * READ + pending(c) + Len(Handed(c))
<1>1. ASSUME leave(c, buf), UNCHANGED <<egdwriteblocked, answers, status>>,
             egdreadblocked'[c] = nil
      PROVE  /\ egdwriteblocked'[c] # nil => answers'[c] # <<>>
             /\ \E j \in Nat :
                  /\ Requests(readbuffers'[c] \o r, j)
                  /\ j * READ + pending(c)' + Len(Handed(c))'
                       = k * READ + pending(c) + Len(Handed(c))
  <2>1. readbuffers'[c] = buf
    BY <1>1 DEF leave, IInv, ClientsOK
  <2>2. pending(c)' = pending(c) /\ Handed(c)' = Handed(c)
    BY <1>1 DEF pending, Handed
  <2> QED
    BY <1>1, <2>1, <2>2
<1>2. egdreadblocked' = [egdreadblocked EXCEPT ![c] = nil] => egdreadblocked'[c] = nil
  BY DEF IInv, ClientsOK
<1>3. CASE egdwriteblocked[c] # nil
  BY <1>1, <1>3 DEF egd_try_cmd
<1>4. CASE egdwriteblocked[c] = nil
  <2>1. command(c, buf)
    BY <1>4 DEF egd_try_cmd
  <2>2. CASE buf = <<>>
    BY <1>1, <1>2, <2>1, <2>2 DEF command, Dispatch
  <2>3. CASE buf # <<>>
    <3>1. k >= 1 /\ buf[1] = EGD_CMD_BLOCKREAD
      BY <2>3, FirstRequest
    <3>2. ~AddEntropy(c, buf) /\ ~QueryPool(c, buf) /\ ~ReadBytes(c, buf)
          /\ ~GetPid(c, buf) /\ ~UnknownCmd(c, buf)
      BY <3>1 DEF AddEntropy, QueryPool, ReadBytes, GetPid, UnknownCmd, EGD_CMD_BLOCKREAD,
         EGD_CMD_ADDENTROPY, EGD_CMD_QUERYPOOL, EGD_CMD_READBYTES, EGD_CMD_GETPID
    <3>3. egdreadblocked'[c] = nil /\ (BlockRead(c, buf) \/ PushBack(c, buf))
      BY <1>2, <2>1, <2>3, <3>2 DEF command, Dispatch
    <3>4. CASE PushBack(c, buf)
      BY <1>1, <3>3, <3>4 DEF PushBack
    <3>5. CASE BlockRead(c, buf)
      <4>1. Len(buf) >= 2
        BY <3>5 DEF BlockRead
      <4>2. buf[2] = READ /\ Requests(Rest(buf, 2) \o r, k - 1)
        BY <4>1, FirstRequest
      <4>3. /\ status' = status /\ readbuffers'[c] = Rest(buf, 2)
            /\ answers'[c] # <<>>
            /\ pending(c)' \in Nat /\ Len(Handed(c))' \in Nat /\ Len(Handed(c)) \in Nat
            /\ pending(c)' + Len(Handed(c))' = READ + Len(Handed(c))
        BY <1>4, <3>5, <4>2, BlockLine
      <4>4. pending(c) = 0
        BY <1>4 DEF pending
      <4>5. (k - 1) * READ = k * READ - READ /\ k - 1 \in Nat /\ k * READ \in Nat /\ READ \in Nat
        BY <3>1, Multiples
      <4> DEFINE p == k * READ
                 q == pending(c)'
                 u == Len(Handed(c))'
                 v == Len(Handed(c))
      <4>6. p \in Nat /\ q \in Nat /\ u \in Nat /\ v \in Nat /\ READ \in Nat /\ q + u = READ + v
        BY <4>3, <4>5
      <4>7. (p - READ) + q + u = p + 0 + v
        <5> HIDE DEF p, q, u, v
        <5> QED
          BY ONLY <4>6
      <4>8. (k - 1) * READ + pending(c)' + Len(Handed(c))'
              = k * READ + pending(c) + Len(Handed(c))
        BY <4>4, <4>5, <4>7
      <4> QED
        BY <3>3, <4>2, <4>3, <4>5, <4>8
    <3> QED
      BY <3>3, <3>4, <3>5
  <2> QED
    BY <2>2, <2>3
<1> QED
  BY <1>3, <1>4

(* egd_try_cmd marks no client but its own, and writes to none that is     *)
(* closed.                                                                 *)
LEMMA TryStatus ==
  ASSUME IInv, AnswersOK, NEW d \in Clients, NEW buf, egd_try_cmd(d, buf), NEW c \in Clients
  PROVE  /\ c # d => status'[c] = status[c]
         /\ dropped(d) => dropped(d)' /\ answers'[d] = answers[d]
<1> DEFINE Same == /\ c # d => status'[c] = status[c]
                   /\ dropped(d) => dropped(d)' /\ answers'[d] = answers[d]
<1>1. ASSUME UNCHANGED <<status, answers>> PROVE Same
  BY <1>1 DEF dropped
<1>2. ASSUME status' = status, NEW a, ctlwrite(d, a) PROVE Same
  BY <1>2 DEF ctlwrite, gone, dropped
<1>3. ASSUME NEW b, UnknownCmd(d, b) PROVE Same
  BY <1>3 DEF UnknownCmd, dropped, IInv, ClientsOK
<1>4. ASSUME NEW b, Dispatch(d, b) PROVE Same
  BY <1>1, <1>2, <1>3, <1>4
  DEF Dispatch, QueryPool, ReadBytes, BlockRead, GetPid, PushBack
<1>5. ASSUME NEW b, command(d, b) PROVE Same
  BY <1>1, <1>4, <1>5 DEF command, AddEntropy
<1> HIDE DEF Same
<1>6. Same
  BY <1>1, <1>5 DEF egd_try_cmd
<1> QED
  BY <1>6 DEF Same

-----------------------------------------------------------------------------
(* The steps of ekeyd                                                      *)

(* A connection that a step does not touch.                                *)
LEMMA LineSame ==
  ASSUME NEW e \in Clients, Line(e), bytes_waiting' = bytes_waiting, e \notin closed',
         readbuffers'[e] = readbuffers[e], egdwriteblocked'[e] = egdwriteblocked[e],
         egdreadblocked'[e] = egdreadblocked[e], answers'[e] = answers[e],
         status'[e] = status[e], script'[e] = script[e], pos'[e] = pos[e]
  PROVE  Line(e)'
<1>1. /\ Commands(e)' = Commands(e) /\ pending(e)' = pending(e)
      /\ Handed(e)' = Handed(e)
  BY DEF Commands, pending, Handed
<1> QED
  BY <1>1 DEF Line, Present

(* What is written to the connection is what had been asked for.           *)
LEMMA SpreadLine ==
  ASSUME IInv, AnswersOK, Spreading, NEW e \in Clients, Line(e), egd_spreadwrite(e),
         bytes_waiting' = bytes_waiting
  PROVE  Line(e)'
<1> DEFINE n == egdwriteblocked[e]
           got == dequeued(n)
           h == Handed(e)
<1>1. /\ e \in Blocked /\ n \in Nat /\ n >= 1
      /\ got \in Seq(Label) /\ Len(got) = n /\ got # <<>>
  BY SpreadTakes
<1>2. ~gone(e) /\ answers[e] # <<>> /\ egdreadblocked[e] = nil /\ pos[e] <= Len(script[e])
  BY <1>1 DEF Line, Present, gone, dropped, Blocked
<1>3. /\ complete(e, got) /\ egdwriteblocked' = [egdwriteblocked EXCEPT ![e] = nil]
      /\ UNCHANGED <<readbuffers, egdreadblocked, status, closed, script, pos>>
  BY <1>1 DEF egd_spreadwrite
<1>4. egdwriteblocked'[e] = nil
  BY <1>3 DEF IInv, ClientsOK
<1>5. PICK k \in Nat : /\ Requests(Commands(e), k)
                       /\ bytes_waiting = k * READ + pending(e) + Len(Handed(e))
  BY DEF Line
<1>6. pending(e) = n /\ pending(e)' = 0
  BY <1>1, <1>4 DEF pending, Blocked
<1> HIDE DEF got, n
<1>7. h' = h \o got
  BY <1>1, <1>2, <1>3, CompleteWrites
<1>8. h \in Seq(Label)
  BY HandedOK
<1>9. Len(h') = Len(h) + n /\ Len(h) \in Nat
  BY <1>1, <1>7, <1>8, Joined, SeqFacts
<1>10. bytes_waiting' = k * READ + pending(e)' + Len(Handed(e))'
  <2> DEFINE p == k * READ
             u == Len(h)
             v == Len(h')
  <2>1. p \in Nat /\ n \in Nat /\ u \in Nat /\ v = u + n
    BY <1>1, <1>9, Multiples
  <2>2. p + n + u = p + 0 + v
    <3> HIDE DEF p, u, v
    <3> QED
      BY ONLY <2>1
  <2> QED
    BY <1>5, <1>6, <2>2
<1>11. Commands(e)' = Commands(e)
  BY <1>3 DEF Commands
<1> QED
  BY <1>2, <1>3, <1>4, <1>5, <1>10, <1>11 DEF Line, Present

(* A byte received, or a command tried again.                              *)
LEMMA ReadLine ==
  ASSUME IInv, AnswersOK, NEW e \in Clients, Line(e), egd_ctlread(e) \/ egd_retry(e),
         bytes_waiting' = bytes_waiting
  PROVE  Line(e)'
<1>1. /\ readbuffers[e] \in Seq(Byte) /\ script[e] \in Seq(Byte) /\ pos[e] \in Nat
      /\ Len(script[e]) \in Nat /\ pos[e] <= Len(script[e])
  BY SeqFacts DEF IInv, ClientsOK, LoopOK, Line
<1>2. PICK k \in Nat : /\ Requests(Commands(e), k)
                       /\ bytes_waiting = k * READ + pending(e) + Len(Handed(e))
  BY DEF Line
<1>3. \E buf \in Seq(Byte), r \in Seq(Byte) :
        /\ egd_try_cmd(e, buf) /\ buf \o r = Commands(e)
        /\ Commands(e)' = readbuffers'[e] \o r
        /\ pos'[e] <= Len(script'[e])
  <2>1. CASE egd_ctlread(e)
    <3> DEFINE n == pos[e]
               s == script[e]
               buf == Append(readbuffers[e], s[n + 1])
               r == Rest(s, n + 1)
    <3>1. n < Len(s) /\ n + 1 \in 1 .. Len(s) /\ n + 1 \in Nat
      BY <1>1, <2>1 DEF egd_ctlread
    <3>2. buf \in Seq(Byte) /\ r \in Seq(Byte)
      BY <1>1, <3>1, SeqFacts, AppendFacts, FirstRest
    <3>3. buf \o r = Commands(e)
      BY <1>1, <3>1, ReceivedOne DEF Commands
    <3>4. pos'[e] = n + 1 /\ script' = script /\ egd_try_cmd(e, buf)
      BY <2>1 DEF egd_ctlread, IInv, LoopOK
    <3> HIDE DEF buf
    <3>5. Commands(e)' = readbuffers'[e] \o r
      BY <3>4 DEF Commands
    <3>6. pos'[e] <= Len(script'[e])
      BY <1>1, <3>1, <3>4
    <3> QED
      BY <3>2, <3>3, <3>4, <3>5, <3>6
  <2>2. CASE egd_retry(e)
    <3>1. Rest(script[e], pos[e]) \in Seq(Byte)
      BY <1>1, FirstRest
    <3>2. /\ script' = script /\ pos' = pos /\ egd_try_cmd(e, readbuffers[e])
      BY <2>2 DEF egd_retry
    <3> QED
      BY <1>1, <3>1, <3>2 DEF Commands
  <2> QED
    BY <2>1, <2>2
<1>4. PICK buf \in Seq(Byte), r \in Seq(Byte) :
        /\ egd_try_cmd(e, buf) /\ buf \o r = Commands(e)
        /\ Commands(e)' = readbuffers'[e] \o r
        /\ pos'[e] <= Len(script'[e])
  BY <1>3
<1>5. ~gone(e) /\ egdreadblocked[e] = nil /\ (egdwriteblocked[e] # nil => answers[e] # <<>>)
  BY DEF Line, Present, gone, dropped
<1>6. /\ status' = status /\ egdreadblocked'[e] = nil
      /\ egdwriteblocked'[e] # nil => answers'[e] # <<>>
      /\ \E j \in Nat :
              /\ Requests(readbuffers'[e] \o r, j)
              /\ j * READ + pending(e)' + Len(Handed(e))'
                   = k * READ + pending(e) + Len(Handed(e))
  BY <1>2, <1>4, <1>5, TryLine
<1>7. Present(e)'
  BY <1>6 DEF Line, Present, egd_ctlread, egd_retry
<1> QED
  BY <1>2, <1>4, <1>6, <1>7 DEF Line

(* Nothing ekeyd does parts the count from what it owes.                   *)
LEMMA ServerLine ==
  ASSUME IInv, AnswersOK, Spreading, NEW e \in Slots, Line(e), [Next]_vars,
         bytes_waiting' = bytes_waiting
  PROVE  Line(e)'
<1>1. e \in Clients /\ e \notin MayClose
  BY EgdLinuxAssumption
<1>2. status[e] = "open" /\ e \notin closed
  BY DEF Line, Present
<1>3. CASE UNCHANGED vars
  BY <1>1, <1>2, <1>3, LineSame DEF vars, serverVars
<1>4. CASE ENTROPY
  BY <1>1, <1>2, <1>4, LineSame DEF ENTROPY
<1>5. ASSUME NEW d \in Clients, egd_ctlread(d) \/ egd_spin(d) \/ egd_retry(d)
      PROVE  Line(e)'
  <2>1. CASE d = e
    <3>1. ~egd_spin(d)
      BY <1>2, <2>1 DEF egd_spin
    <3> QED
      BY <1>1, <1>5, <2>1, <3>1, ReadLine
  <2>2. CASE d # e
    <3>1. PICK buf \in Seq(Byte) : egd_try_cmd(d, buf)
      BY <1>5, TriedBytes
    <3>2. /\ readbuffers'[e] = readbuffers[e] /\ egdreadblocked'[e] = egdreadblocked[e]
          /\ egdwriteblocked'[e] = egdwriteblocked[e] /\ answers'[e] = answers[e]
          /\ status'[e] = status[e]
      BY <1>1, <2>2, <3>1, TryOthers, TryStatus
    <3>3. closed' = closed /\ script' = script /\ pos'[e] = pos[e]
      BY <1>1, <1>5, <2>2 DEF egd_ctlread, egd_spin, egd_retry, IInv, LoopOK
    <3> QED
      BY <1>1, <1>2, <3>2, <3>3, LineSame
  <2> QED
    BY <2>1, <2>2
<1>6. ASSUME NEW d \in Clients, egd_spreadwrite(d)
      PROVE  Line(e)'
  <2>1. CASE d = e
    BY <1>1, <1>6, <2>1, SpreadLine
  <2>2. CASE d # e
    <3> DEFINE got == dequeued(egdwriteblocked[d])
    <3>1. got \in Seq(Label) /\ got # <<>>
      BY <1>6, SpreadTakes
    <3>2. /\ complete(d, got) /\ egdwriteblocked' = [egdwriteblocked EXCEPT ![d] = nil]
          /\ UNCHANGED <<readbuffers, egdreadblocked, status, closed, script, pos>>
      BY <1>6, <3>1 DEF egd_spreadwrite
    <3> HIDE DEF got
    <3>3. answers'[e] = answers[e]
      BY <1>1, <2>2, <3>1, <3>2, CompleteWrites DEF Writes
    <3>4. egdwriteblocked'[e] = egdwriteblocked[e]
      BY <1>1, <2>2, <3>2 DEF IInv, ClientsOK
    <3> QED
      BY <1>1, <1>2, <3>2, <3>3, <3>4, LineSame
  <2> QED
    BY <2>1, <2>2
<1>7. ASSUME NEW d \in Clients, egd_eof(d) \/ delctlsocket(d) \/ Collect(d)
      PROVE  Line(e)'
  <2>1. d # e
    BY <1>2, <1>7 DEF egd_eof, delctlsocket, Collect
  <2>2. /\ UNCHANGED <<answers, closed, script, pos>>
        /\ readbuffers'[e] = readbuffers[e] /\ egdreadblocked'[e] = egdreadblocked[e]
        /\ egdwriteblocked'[e] = egdwriteblocked[e] /\ status'[e] = status[e]
    BY <1>1, <1>7, <2>1 DEF egd_eof, delctlsocket, Collect, IInv, ClientsOK
  <2> QED
    BY <1>1, <1>2, <2>2, LineSame
<1>8. ASSUME NEW d \in Clients, Disconnect(d)
      PROVE  Line(e)'
  <2>1. e \notin closed' /\ UNCHANGED <<serverVars, script, pos>>
    BY <1>1, <1>2, <1>8 DEF Disconnect
  <2> QED
    BY <1>1, <2>1, LineSame DEF serverVars
<1> QED
  BY <1>3, <1>4, <1>5, <1>6, <1>7, <1>8 DEF Next

(* Nor does it write to a connection it has closed.                        *)
LEMMA DeadSame ==
  ASSUME IInv, AnswersOK, NEW e \in Clients, dropped(e), [Next]_vars
  PROVE  dropped(e)' /\ answers'[e] = answers[e]
<1>1. ASSUME NEW d \in Clients, egd_ctlread(d) \/ egd_spin(d) \/ egd_retry(d)
      PROVE  dropped(e)' /\ answers'[e] = answers[e]
  <2>1. PICK buf \in Seq(Byte) : egd_try_cmd(d, buf)
    BY <1>1, TriedBytes
  <2> QED
    BY <2>1, TryOthers, TryStatus DEF dropped
<1>2. ASSUME NEW d \in Clients, egd_spreadwrite(d)
      PROVE  dropped(e)' /\ answers'[e] = answers[e]
  <2>1. status' = status
    BY <1>2 DEF egd_spreadwrite
  <2>2. answers' = answers \/ \E s : complete(d, s)
    BY <1>2 DEF egd_spreadwrite
  <2>3. answers'[e] = answers[e]
    BY <2>2 DEF complete, gone, AnswersOK
  <2> QED
    BY <2>1, <2>3 DEF dropped
<1>3. ASSUME NEW d \in Clients, egd_eof(d) \/ delctlsocket(d) \/ Collect(d) \/ Disconnect(d)
      PROVE  dropped(e)' /\ answers'[e] = answers[e]
  BY <1>3 DEF dropped, egd_eof, delctlsocket, Collect, Disconnect, serverVars, IInv, ClientsOK
<1>4. CASE ENTROPY \/ UNCHANGED vars
  BY <1>4 DEF dropped, ENTROPY, vars, serverVars
<1> QED
  BY <1>1, <1>2, <1>3, <1>4 DEF Next

-----------------------------------------------------------------------------
(* The service, whoever steps                                              *)

(* A step of ekeyd, or one that leaves it alone.                           *)
LEMMA ServerStep ==
  ASSUME ServerOK, [Next]_vars
  PROVE  ServerOK'
BY StepInv, StepAnswersOK, StepSpreads DEF ServerOK

(* A step that only changes the connections.                               *)
LEMMA ServerKeeps ==
  ASSUME ServerOK, UNCHANGED <<pool, total_entropy, fed, readbuffers, egdwriteblocked,
                               egdreadblocked, pc, todo, to_try>>,
         status' \in [Clients -> {"open", "tokill", "dead", "stuck"}], AnswersOK',
         closed' \subseteq Clients, script' \in [Clients -> Seq(Byte)],
         pos' \in [Clients -> Nat]
  PROVE  ServerOK'
<1>1. Blocked' = Blocked /\ totpending' = totpending
  BY PendingIs DEF Blocked
<1>2. PoolOK' /\ ClientsOK'
  BY DEF ServerOK, IInv, PoolOK, ClientsOK
<1>3. LoopOK'
  BY <1>1 DEF ServerOK, IInv, LoopOK
<1>4. Spreading'
  BY <1>1 DEF ServerOK, Spreading
<1> QED
  BY <1>2, <1>3, <1>4 DEF ServerOK, IInv

-----------------------------------------------------------------------------
(* The steps of the program                                                *)

(* What the types say, next to the state of the connection.                *)
Loops ==
  /\ lpc \in {"resolve", "connect", "poll", "issue", "punt", "ended"}
  /\ caller \in {"start", "again", "loop", "punt"}
  /\ rnd_events \in BOOLEAN
  /\ egd_revents \in BOOLEAN
  /\ thirsty \in BOOLEAN

(* A step that touches neither the connection nor the count.               *)
LEMMA Quiet ==
  ASSUME LInv, UNCHANGED <<vars, egd_fd, egd_poll, link, bytes_waiting>>, Loops', AskedOnce'
  PROVE  LInv'
<1>1. ServerOK'
  BY ServerStep DEF LInv
<1>2. LinuxTypeOK'
  BY DEF LInv, LinuxTypeOK, Loops
<1>3. LineOK'
  <2>1. CASE egd_fd = NoConn
    BY <2>1 DEF LineOK
  <2>2. CASE egd_fd # NoConn
    <3>1. egd_fd \in Clients
      BY <2>2, EgdLinuxAssumption DEF LInv, LinuxTypeOK
    <3>2. link = "open" => Line(egd_fd)'
      <4> SUFFICES ASSUME link = "open" PROVE Line(egd_fd)'
        OBVIOUS
      <4>1. Line(egd_fd)
        BY <2>2 DEF LInv, LineOK
      <4> QED
        BY <3>1, <4>1, LineSame DEF vars, serverVars, Line, Present
    <3>3. Handed(egd_fd)' = Handed(egd_fd)
      BY DEF Handed, vars, serverVars
    <3> QED
      BY <2>2, <3>2, <3>3 DEF LInv, LineOK, vars, serverVars, dropped
  <2> QED
    BY <2>1, <2>2
<1> QED
  BY <1>1, <1>2, <1>3 DEF LInv

(* A call of egd_connect that failed.                                      *)
LEMMA FailedIs ==
  ASSUME caller \in {"start", "again", "loop", "punt"}, failed
  PROVE  /\ lpc' \in {"resolve", "poll", "ended"}
         /\ caller' \in {"start", "again", "loop", "punt"}
<1>1. CASE caller = "start" /\ Retry
  BY <1>1 DEF failed, call, goto
<1>2. CASE caller = "start" /\ ~Retry
  BY <1>2 DEF failed, goto
<1>3. CASE caller = "punt"
  BY <1>3 DEF failed, goto
<1>4. CASE caller \in {"again", "loop"}
  BY <1>4 DEF failed, goto
<1>5. Retry \in BOOLEAN
  BY EgdLinuxAssumption
<1> QED
  BY <1>1, <1>2, <1>3, <1>4, <1>5

(* The steps that touch neither, one by one.                               *)
LEMMA QuietSteps ==
  ASSUME LInv,
         \/ Resolve \/ ResolveFails \/ Poll \/ PollTimeout \/ PollFails
         \/ PuntEof \/ PuntFails \/ KernelDrains \/ ServerStarts
  PROVE  LInv'
<1>1. Loops /\ AskedOnce
  BY DEF LInv, LinuxTypeOK, Loops
<1>2. CASE Resolve
  BY <1>1, <1>2, Quiet DEF Resolve, goto, Loops, AskedOnce
<1>3. CASE ResolveFails
  <2>1. lpc' \in {"resolve", "poll", "ended"} /\ caller' \in {"start", "again", "loop", "punt"}
    BY <1>1, <1>3, FailedIs DEF ResolveFails, Loops
  <2> QED
    BY <1>1, <1>3, <2>1, Quiet DEF ResolveFails, Loops, AskedOnce
<1>4. CASE Poll
  <2>1. /\ rnd_events' \in BOOLEAN /\ egd_revents' \in BOOLEAN
        /\ rnd_events' => bytes_waiting' = 0
    BY <1>1, <1>4 DEF Poll, AskedOnce
  <2>2. /\ lpc' \in {"resolve", "issue", "punt", "ended"}
        /\ caller' \in {"start", "again", "loop", "punt"}
    BY <1>1, <1>4 DEF Poll, call, goto, Loops
  <2>3. lpc' = "issue" => pollOut
    BY <1>4 DEF Poll, call, goto
  <2>4. pollOut => rnd_events'
    BY <1>4 DEF Poll, pollOut
  <2>5. Loops' /\ AskedOnce'
    BY <1>1, <1>4, <2>1, <2>2, <2>3, <2>4 DEF Poll, Loops, AskedOnce
  <2> QED
    BY <1>4, <2>5, Quiet DEF Poll
<1>5. CASE PollTimeout
  BY <1>1, <1>5, Quiet DEF PollTimeout, call, goto, Loops, AskedOnce
<1>6. CASE PuntEof
  BY <1>1, <1>6, Quiet DEF PuntEof, call, goto, Loops, AskedOnce
<1>7. CASE PuntFails
  BY <1>1, <1>7, Quiet DEF PuntFails, goto, Loops, AskedOnce
<1>8. CASE KernelDrains
  BY <1>1, <1>8, Quiet DEF KernelDrains, Loops, AskedOnce
<1>9. CASE ServerStarts
  BY <1>1, <1>9, Quiet DEF ServerStarts, linuxVars, Loops, AskedOnce
<1>10. CASE PollFails
  BY <1>1, <1>10, Quiet DEF PollFails, goto, Loops, AskedOnce
<1> QED
  BY <1>2, <1>3, <1>4, <1>5, <1>6, <1>7, <1>8, <1>9, <1>10

(* A new connection owes nothing, and nothing is waited for.               *)
LEMMA ConnectStep ==
  ASSUME LInv, Connect
  PROVE  LInv'
<1>1. PICK c \in Slots :
       /\ Fresh(c)
       /\ egd_fd' = c
       /\ status' = [status EXCEPT ![c] = "open"]
       /\ answers' = [k \in Clients |->
                        IF k \in {c, egd_fd} THEN <<>> ELSE answers[k]]
       /\ script' = [script EXCEPT ![c] = <<>>]
       /\ pos' = [pos EXCEPT ![c] = 0]
       /\ closed' = (closed \cup ({egd_fd} \ {NoConn})) \ {c}
  BY DEF Connect
<1>2. c \in Clients /\ egd_fd \in Clients \cup {NoConn} /\ NoConn \notin Clients
  BY <1>1, EgdLinuxAssumption DEF LInv, LinuxTypeOK
<1>3. UNCHANGED <<pool, total_entropy, fed, readbuffers, egdwriteblocked,
                  egdreadblocked, pc, todo, to_try>>
  BY DEF Connect
<1>4. status' \in [Clients -> {"open", "tokill", "dead", "stuck"}] /\ closed' \subseteq Clients
  BY <1>1, <1>2 DEF LInv, ServerOK, IInv, ClientsOK, LoopOK
<1>5. AnswersOK'
  <2>1. <<>> \in Seq(AnswerRecord)
    BY EmptySeq
  <2> QED
    BY <1>1, <2>1 DEF LInv, ServerOK, AnswersOK
<1>6. script' \in [Clients -> Seq(Byte)] /\ pos' \in [Clients -> Nat]
  <2>1. <<>> \in Seq(Byte)
    BY EmptySeq
  <2> QED
    BY <1>1, <2>1 DEF LInv, ServerOK, IInv, LoopOK
<1>7. ServerOK'
  BY <1>3, <1>4, <1>5, <1>6, ServerKeeps DEF LInv
<1>8. LinuxTypeOK' /\ AskedOnce'
  <2>1. 0 \in 0 .. Blocks * READ
    BY Multiples
  <2> QED
    BY <1>1, <1>2, <2>1 DEF LInv, LinuxTypeOK, AskedOnce, Connect, goto
<1>9. Line(c)'
  <2>1. /\ readbuffers'[c] = <<>> /\ script'[c] = <<>> /\ pos'[c] = 0 /\ answers'[c] = <<>>
        /\ egdwriteblocked'[c] = nil /\ egdreadblocked'[c] = nil
        /\ status'[c] = "open" /\ c \notin closed' /\ bytes_waiting' = 0
    BY <1>1, <1>2, <1>3 DEF Fresh, LInv, ServerOK, IInv, ClientsOK, LoopOK, Connect
  <2>2. Rest(<<>>, 0) = <<>> /\ <<>> \o <<>> = <<>> /\ Len(<<>>) = 0
    BY DEF Rest
  <2>3. Commands(c)' = <<>>
    BY <2>1, <2>2 DEF Commands
  <2>4. Handed(c)' = <<>>
    BY <2>1 DEF Handed, FlattenSeq
  <2>5. pending(c)' = 0
    BY <2>1 DEF pending
  <2>6. Requests(<<>>, 0)
    BY <2>2 DEF Requests
  <2>7. 0 \in Nat /\ 0 = 0 * READ + 0 + 0
    BY Multiples
  <2> QED
    BY <2>1, <2>2, <2>3, <2>4, <2>5, <2>6, <2>7 DEF Line, Present
<1>10. LineOK'
  BY <1>1, <1>9 DEF LineOK, Connect
<1> QED
  BY <1>7, <1>8, <1>10 DEF LInv

(* Nobody listens: there is no connection any more.                        *)
LEMMA ConnectFailsStep ==
  ASSUME LInv, ConnectFails
  PROVE  LInv'
<1>1. egd_fd \in Clients \cup {NoConn} /\ NoConn \notin Clients
  BY EgdLinuxAssumption DEF LInv, LinuxTypeOK
<1>2. closed' \subseteq Clients
  BY <1>1 DEF ConnectFails, hangup, LInv, ServerOK, IInv, LoopOK
<1>3. AnswersOK'
  <2>1. <<>> \in Seq(AnswerRecord)
    BY EmptySeq
  <2> QED
    BY <2>1 DEF ConnectFails, hangup, LInv, ServerOK, AnswersOK
<1>4. ServerOK'
  BY <1>2, <1>3, ServerKeeps
  DEF ConnectFails, LInv, ServerOK, IInv, ClientsOK, LoopOK
<1>5. lpc' \in {"resolve", "connect", "poll", "ended"} /\ caller' \in {"start", "again", "loop", "punt"}
  <2>1. caller \in {"start", "again", "loop", "punt"}
    BY DEF LInv, LinuxTypeOK
  <2>2. CASE persistent
    BY <2>1, <2>2 DEF ConnectFails
  <2>3. CASE ~persistent
    BY <2>1, <2>3, FailedIs DEF ConnectFails
  <2> QED
    BY <2>2, <2>3
<1>6. LinuxTypeOK' /\ AskedOnce'
  BY <1>5 DEF LInv, LinuxTypeOK, AskedOnce, ConnectFails
<1>7. LineOK'
  BY DEF LineOK, ConnectFails
<1> QED
  BY <1>4, <1>6, <1>7 DEF LInv

(* Nothing is waited for when a batch is asked for.                        *)
LEMMA NoneWaited ==
  ASSUME LInv, lpc = "issue"
  PROVE  /\ bytes_waiting = 0 /\ Blocks * READ \in Nat
         /\ bytes_waiting + Blocks * READ = Blocks * READ
         /\ 0 \in 0 .. Blocks * READ /\ Blocks * READ \in 0 .. Blocks * READ
<1>1. bytes_waiting = 0
  BY DEF LInv, AskedOnce
<1>2. Blocks * READ \in Nat
  BY Multiples
<1> DEFINE p == Blocks * READ
<1>3. 0 + p = p /\ 0 \in 0 .. p /\ p \in 0 .. p
  <2>1. p \in Nat
    BY <1>2
  <2> HIDE DEF p
  <2> QED
    BY ONLY <2>1
<1> QED
  BY <1>1, <1>2, <1>3

(* The batch is counted and goes behind what is on the connection.         *)
LEMMA IssueStep ==
  ASSUME LInv, Issue
  PROVE  LInv'
<1>1. PICK e \in Clients : e = egd_fd /\ e # NoConn /\ link = "open"
  BY EgdLinuxAssumption DEF LInv, LinuxTypeOK, Issue
<1>2. Line(e)
  BY <1>1 DEF LInv, LineOK
<1> DEFINE left == Rest(script[e], pos[e])
<1>3. /\ readbuffers[e] \in Seq(Byte) /\ script[e] \in Seq(Byte) /\ pos[e] \in Nat
      /\ left \in Seq(Byte)
  BY <1>1, FirstRest DEF LInv, ServerOK, IInv, ClientsOK, LoopOK
<1> DEFINE s == left \o batch
<1>4. s \in Seq(Byte) /\ Rest(s, 0) = s
  <2>1. s \in Seq(Byte)
    BY <1>3, BatchRequests, Joined
  <2> HIDE DEF s
  <2>2. 0 \in 0 .. Len(s) /\ Len(s) \in Nat
    BY <2>1, SeqFacts
  <2>3. /\ Rest(s, 0) \in Seq(Byte) /\ Len(Rest(s, 0)) = Len(s) - 0
        /\ \A i \in 1 .. Len(s) - 0 : Rest(s, 0)[i] = s[0 + i]
    BY <2>1, <2>2, FirstRestAt
  <2>4. Len(Rest(s, 0)) = Len(s) /\ \A i \in 1 .. Len(s) : Rest(s, 0)[i] = s[i]
    BY <2>2, <2>3
  <2>5. Rest(s, 0) = s
    BY <2>1, <2>3, <2>4, SeqEqual
  <2> QED
    BY <2>1, <2>5
<1>5. /\ UNCHANGED <<serverVars, fed, closed, pc, todo, to_try, egd_fd, egd_poll, link, caller, thirsty>>
      /\ script' = [script EXCEPT ![e] = s] /\ pos' = [pos EXCEPT ![e] = 0]
      /\ bytes_waiting' = bytes_waiting + Blocks * READ
      /\ rnd_events' = FALSE /\ egd_revents' = FALSE /\ lpc' \in {"punt", "poll"}
  BY <1>1 DEF Issue, rndOff, goto
<1> HIDE DEF s
<1>6. script'[e] = s /\ pos'[e] = 0
  BY <1>1, <1>5 DEF LInv, ServerOK, IInv, LoopOK
<1>7. ServerOK'
  <2>1. script' \in [Clients -> Seq(Byte)] /\ pos' \in [Clients -> Nat]
    BY <1>4, <1>5 DEF LInv, ServerOK, IInv, LoopOK
  <2>2. /\ status' \in [Clients -> {"open", "tokill", "dead", "stuck"}]
        /\ closed' \subseteq Clients /\ AnswersOK'
    BY <1>5 DEF LInv, ServerOK, IInv, ClientsOK, LoopOK, AnswersOK, serverVars
  <2> QED
    BY <1>5, <2>1, <2>2, ServerKeeps DEF LInv, serverVars
<1>8. Commands(e)' = Commands(e) \o batch /\ Commands(e) \in Seq(Byte)
  <2>1. Commands(e)' = readbuffers[e] \o s
    BY <1>4, <1>5, <1>6 DEF Commands, serverVars
  <2>2. readbuffers[e] \o (left \o batch) = (readbuffers[e] \o left) \o batch
    <3>1. \A x \in Seq(Byte), y \in Seq(Byte), z \in Seq(Byte) : x \o (y \o z) = (x \o y) \o z
      BY Associative
    <3> QED
      BY <1>3, <3>1, BatchRequests
  <2>3. readbuffers[e] \o left \in Seq(Byte)
    BY <1>3, Joined
  <2> QED
    BY <2>1, <2>2, <2>3 DEF s, Commands
<1>9. PICK k \in Nat : /\ Requests(Commands(e), k)
                       /\ bytes_waiting = k * READ + pending(e) + Len(Handed(e))
  BY <1>2 DEF Line
<1>10. Requests(Commands(e)', k + Blocks) /\ k + Blocks \in Nat
  <2>1. Blocks \in Nat
    BY Multiples
  <2>2. Requests(Commands(e) \o batch, k + Blocks)
    BY <1>8, <1>9, <2>1, BatchRequests, MoreRequests
  <2> QED
    BY <1>8, <2>1, <2>2
<1>11. Handed(e)' = Handed(e) /\ pending(e)' = pending(e)
  BY <1>5 DEF Handed, pending, serverVars
<1>12. pending(e) \in Nat /\ Len(Handed(e)) \in Nat
  <2>1. egdwriteblocked[e] \in {nil} \cup 1 .. MaxAsk /\ MaxAsk \in Nat
    BY <1>1, EgdAssumption DEF LInv, ServerOK, IInv, ClientsOK
  <2> QED
    BY <1>1, <2>1, HandedOK, SeqFacts DEF LInv, ServerOK, pending
<1>13. bytes_waiting' = (k + Blocks) * READ + pending(e)' + Len(Handed(e))'
  <2> DEFINE p == k * READ
             q == Blocks * READ
             r == (k + Blocks) * READ
             u == pending(e)
             v == Len(Handed(e))
  <2>1. /\ p \in Nat /\ q \in Nat /\ r = p + q /\ u \in Nat /\ v \in Nat
        /\ bytes_waiting' = bytes_waiting + q /\ bytes_waiting = p + u + v
    BY <1>5, <1>9, <1>12, Multiples
  <2>2. bytes_waiting' = r + u + v
    <3> HIDE DEF p, q, r, u, v
    <3> QED
      BY ONLY <2>1
  <2> QED
    BY <1>11, <2>2
<1>14. Line(e)'
  <2>1. pos'[e] <= Len(script'[e])
    BY <1>4, <1>6, SeqFacts
  <2>2. Present(e)' /\ egdreadblocked'[e] = nil /\ (egdwriteblocked'[e] # nil => answers'[e] # <<>>)
    BY <1>2, <1>5 DEF Line, Present, serverVars
  <2> QED
    BY <1>10, <1>13, <2>1, <2>2 DEF Line
<1>15. LinuxTypeOK' /\ AskedOnce'
  <2>1. bytes_waiting' \in 0 .. Blocks * READ
    BY <1>5, NoneWaited DEF Issue
  <2> QED
    BY <1>5, <2>1 DEF LInv, LinuxTypeOK, AskedOnce
<1>16. LineOK'
  BY <1>1, <1>5, <1>14 DEF LineOK
<1> QED
  BY <1>7, <1>15, <1>16 DEF LInv

(* Asking a peer that is gone.                                             *)
LEMMA IssueFailsStep ==
  ASSUME LInv, IssueFails
  PROVE  LInv'
<1>1. /\ UNCHANGED <<vars, caller, egd_fd, egd_poll, thirsty>>
      /\ rnd_events' = FALSE /\ egd_revents' = FALSE /\ lpc' \in {"punt", "poll"}
  BY DEF IssueFails, rndOff, goto
<1>2. bytes_waiting = 0 /\ bytes_waiting' \in {0, Blocks * READ} /\ Blocks * READ \in Nat
  BY NoneWaited DEF IssueFails
<1>3. link' \in {"open", "eof", "hup", "reset"} /\ (egd_fd # NoConn => link # "open" /\ link' # "open")
      /\ (link' \in {"eof", "hup"} => link' = link \/ link = "eof")
  BY DEF IssueFails, LInv, LinuxTypeOK
<1>4. ServerOK'
  BY <1>1, ServerStep DEF LInv
<1>5. LinuxTypeOK' /\ AskedOnce'
  <2>1. bytes_waiting' \in 0 .. Blocks * READ
    BY <1>2, NoneWaited DEF IssueFails
  <2> QED
    BY <1>1, <1>3, <2>1 DEF LInv, LinuxTypeOK, AskedOnce
<1>6. LineOK'
  <2>1. CASE egd_fd = NoConn
    BY <1>1, <2>1 DEF LineOK
  <2>2. CASE egd_fd # NoConn
    <3>1. /\ link # "open" /\ link' # "open" /\ dropped(egd_fd)
          /\ link' \in {"eof", "hup"} => Len(Handed(egd_fd)) <= 0
      BY <1>2, <1>3, <2>2 DEF LInv, LineOK
    <3>2. status' = status /\ Handed(egd_fd)' = Handed(egd_fd)
      BY <1>1 DEF vars, serverVars, Handed
    <3>3. Len(Handed(egd_fd)) \in Nat
      <4>1. egd_fd \in Clients
        BY <2>2, EgdLinuxAssumption DEF LInv, LinuxTypeOK
      <4> QED
        BY <4>1, HandedOK, SeqFacts DEF LInv, ServerOK
    <3>4. link' \in {"eof", "hup"} => Len(Handed(egd_fd)) <= bytes_waiting'
      <4> DEFINE q == Len(Handed(egd_fd))
                 p == Blocks * READ
      <4>1. q \in Nat /\ p \in Nat /\ bytes_waiting' \in {0, p}
        BY <1>2, <3>3
      <4>2. q <= 0 => q <= bytes_waiting'
        <5> HIDE DEF q, p
        <5> QED
          BY ONLY <4>1
      <4> QED
        BY <3>1, <4>2
    <3> QED
      BY <1>1, <2>2, <3>1, <3>2, <3>4 DEF LineOK, dropped
  <2> QED
    BY <2>1, <2>2
<1> QED
  BY <1>4, <1>5, <1>6 DEF LInv

(* What is given to the kernel is no longer on the connection, nor counted.*)
LEMMA PuntEntropyStep ==
  ASSUME LInv, PuntEntropy
  PROVE  LInv'
<1>1. PICK e \in Clients : /\ e = egd_fd /\ e # NoConn /\ link # "reset"
                          /\ Handed(e) # <<>>
  BY EgdLinuxAssumption DEF LInv, LinuxTypeOK, PuntEntropy
<1> DEFINE h == Handed(e)
           m == Len(inHand)
           a == Answer("block", READ, Rest(h, m))
<1>2. h \in Seq(Label) /\ Len(h) \in Nat /\ Len(h) >= 1
  BY <1>1, HandedOK, SeqFacts DEF LInv, ServerOK
<1>3. m \in Nat /\ m <= Len(h) /\ Rest(h, m) \in Seq(Label) /\ Len(Rest(h, m)) = Len(h) - m
  <2>1. READ \in Nat
    BY Multiples
  <2>2. Len(First(h, READ)) = Least(READ, Len(h))
    BY <1>2, <2>1, FirstRest
  <2>3. m \in Nat /\ m <= Len(h) /\ Least(m, Len(h)) = m
    BY <1>1, <1>2, <2>1, <2>2 DEF inHand, Least
  <2> HIDE DEF m, h
  <2>4. Rest(h, m) \in Seq(Label) /\ Len(Rest(h, m)) = Len(h) - Least(m, Len(h))
    BY <1>2, <2>3, FirstRest
  <2> QED
    BY <2>3, <2>4
<1>4. a \in AnswerRecord /\ a.bytes = Rest(h, m)
  BY <1>3, Multiples DEF Answer, AnswerRecord
<1>5. /\ answers' = [answers EXCEPT ![e] = <<a>>]
      /\ bytes_waiting' = bytes_waiting - m /\ lpc' = "poll" /\ thirsty' = FALSE
      /\ UNCHANGED <<pool, total_entropy, readbuffers, egdwriteblocked, egdreadblocked,
                     status, fed, closed, script, pos, pc, todo, to_try, caller,
                     egd_fd, egd_poll, link, rnd_events, egd_revents>>
  BY <1>1 DEF PuntEntropy, goto
<1> HIDE DEF a, m
<1>6. <<a>> \in Seq(AnswerRecord) /\ <<a>> # <<>> /\ FlattenSeq(BytesOf(<<a>>)) = Rest(h, m)
  <2> DEFINE t == Rest(h, m)
  <2>1. t \in Seq(Label) /\ <<>> \in Seq(AnswerRecord) /\ a \in AnswerRecord /\ a.bytes = t
    BY <1>3, <1>4, EmptySeq
  <2> HIDE DEF t
  <2>2. /\ Append(<<>>, a) \in Seq(AnswerRecord)
        /\ FlattenSeq(BytesOf(Append(<<>>, a))) = FlattenSeq(BytesOf(<<>>)) \o t
    BY <2>1, HandedAppend
  <2>3. Append(<<>>, a) = <<a>>
    OBVIOUS
  <2>4. BytesOf(<<>>) = <<>>
    <3>1. BytesOf(<<>>) \in Seq(Seq(Label)) /\ Len(BytesOf(<<>>)) = Len(<<>>) /\ Len(<<>>) = 0
      BY <2>1, BytesOfOK
    <3> QED
      BY <3>1, EmptySeq
  <2>5. FlattenSeq(<<>>) = <<>>
    BY DEF FlattenSeq
  <2>6. <<>> \o t = t
    BY <2>1
  <2> QED
    BY <2>2, <2>3, <2>4, <2>5, <2>6 DEF t
<1>7. answers'[e] = <<a>> /\ AnswersOK'
  BY <1>1, <1>5, <1>6 DEF LInv, ServerOK, AnswersOK
<1>8. Handed(e)' = Rest(h, m)
  <2>1. Handed(e)' = FlattenSeq(BytesOf(answers'[e]))
    BY DEF Handed, BytesOf
  <2> QED
    BY <1>6, <1>7, <2>1
<1>9. ServerOK'
  BY <1>5, <1>7, ServerKeeps DEF LInv, ServerOK, IInv, ClientsOK, LoopOK
<1>10. m <= bytes_waiting /\ bytes_waiting >= 1 /\ bytes_waiting \in Nat
       /\ (link # "open" => Len(h) <= bytes_waiting)
  <2>1. bytes_waiting \in 0 .. Blocks * READ /\ Blocks * READ \in Nat
    BY Multiples DEF LInv, LinuxTypeOK
  <2>2. Len(h) <= bytes_waiting
    <3>1. CASE link = "open"
      <4>1. PICK k \in Nat : bytes_waiting = k * READ + pending(e) + Len(h)
        BY <1>1, <3>1 DEF LInv, LineOK, Line
      <4>2. egdwriteblocked[e] \in {nil} \cup 1 .. MaxAsk /\ MaxAsk \in Nat
        BY <1>1, EgdAssumption DEF LInv, ServerOK, IInv, ClientsOK
      <4> DEFINE p == k * READ
                 u == pending(e)
                 v == Len(h)
      <4>3. p \in Nat /\ u \in Nat /\ v \in Nat /\ bytes_waiting = p + u + v
        BY <1>2, <4>1, <4>2, Multiples DEF pending
      <4>4. v <= bytes_waiting
        <5> HIDE DEF p, u, v
        <5> QED
          BY ONLY <4>3
      <4> QED
        BY <4>4
    <3>2. CASE link # "open"
      <4>1. link \in {"eof", "hup"}
        BY <1>1, <3>2 DEF LInv, LinuxTypeOK
      <4> QED
        BY <1>1, <4>1 DEF LInv, LineOK
    <3> QED
      BY <3>1, <3>2
  <2> DEFINE v == Len(h)
             p == Blocks * READ
  <2>3. v \in Nat /\ v >= 1 /\ v <= bytes_waiting /\ m \in Nat /\ m <= v /\ p \in Nat
        /\ bytes_waiting \in 0 .. p
    BY <1>2, <1>3, <2>1, <2>2
  <2>4. m <= bytes_waiting /\ bytes_waiting >= 1 /\ bytes_waiting \in Nat
    <3> HIDE DEF v, p
    <3> QED
      BY ONLY <2>3
  <2> QED
    BY <2>2, <2>4
<1>11. ~rnd_events /\ bytes_waiting' \in 0 .. Blocks * READ
  <2>1. ~rnd_events
    BY <1>10 DEF LInv, AskedOnce
  <2> DEFINE p == Blocks * READ
  <2>2. p \in Nat /\ bytes_waiting \in 0 .. p /\ m \in Nat /\ m <= bytes_waiting
        /\ bytes_waiting' = bytes_waiting - m
    BY <1>3, <1>5, <1>10, Multiples DEF LInv, LinuxTypeOK
  <2>3. bytes_waiting' \in 0 .. p
    <3> HIDE DEF p
    <3> QED
      BY ONLY <2>2
  <2> QED
    BY <2>1, <2>3
<1>12. LinuxTypeOK' /\ AskedOnce'
  BY <1>5, <1>11 DEF LInv, LinuxTypeOK, AskedOnce
<1>13. ASSUME link = "open"
       PROVE  Line(e)'
  <2>1. Line(e)
    BY <1>1, <1>13 DEF LInv, LineOK
  <2>2. PICK k \in Nat : /\ Requests(Commands(e), k)
                         /\ bytes_waiting = k * READ + pending(e) + Len(h)
    BY <2>1 DEF Line
  <2>3. Commands(e)' = Commands(e) /\ pending(e)' = pending(e)
    BY <1>5 DEF Commands, pending
  <2>4. egdwriteblocked[e] \in {nil} \cup 1 .. MaxAsk /\ MaxAsk \in Nat
    BY <1>1, EgdAssumption DEF LInv, ServerOK, IInv, ClientsOK
  <2> DEFINE p == k * READ
             u == pending(e)
             v == Len(h)
             w == Len(Handed(e))'
  <2>5. /\ p \in Nat /\ u \in Nat /\ v \in Nat /\ m \in Nat /\ w = v - m
        /\ bytes_waiting = p + u + v /\ bytes_waiting' = bytes_waiting - m
    BY <1>2, <1>3, <1>5, <1>8, <2>2, <2>4, Multiples DEF pending
  <2>6. bytes_waiting' = p + u + w
    <3> HIDE DEF p, u, v, w
    <3> QED
      BY ONLY <2>5
  <2>7. bytes_waiting' = k * READ + pending(e)' + Len(Handed(e))'
    BY <2>3, <2>6
  <2>8. /\ Present(e)' /\ egdreadblocked'[e] = nil /\ pos'[e] <= Len(script'[e])
        /\ answers'[e] # <<>>
    BY <1>5, <1>6, <1>7, <2>1 DEF Line, Present
  <2> QED
    BY <2>2, <2>3, <2>7, <2>8 DEF Line
<1>14. ASSUME link # "open"
       PROVE  Len(Handed(e))' <= bytes_waiting' /\ dropped(e)'
  <2> DEFINE v == Len(h)
             w == Len(Handed(e))'
  <2>1. v \in Nat /\ m \in Nat /\ w = v - m /\ v <= bytes_waiting /\ bytes_waiting \in Nat
        /\ bytes_waiting' = bytes_waiting - m
    BY <1>2, <1>3, <1>5, <1>8, <1>10, <1>14
  <2>2. w <= bytes_waiting'
    <3> HIDE DEF v, w
    <3> QED
      BY ONLY <2>1
  <2>3. dropped(e)'
    BY <1>1, <1>5, <1>14 DEF LInv, LineOK, dropped
  <2> QED
    BY <2>2, <2>3
<1>15. LineOK'
  <2>1. egd_fd' = e /\ link' = link
    BY <1>1, <1>5
  <2> QED
    BY <1>13, <1>14, <2>1 DEF LineOK
<1> QED
  BY <1>9, <1>12, <1>15 DEF LInv

-----------------------------------------------------------------------------
(* ekeyd around it                                                         *)

(* A step of ekeyd while the program does nothing.                         *)
LEMMA ServedStep ==
  ASSUME LInv, Server(Next)
  PROVE  LInv'
<1>1. Next /\ UNCHANGED linuxVars
  BY DEF Server
<1>2. ServerOK'
  BY <1>1, ServerStep DEF LInv
<1>3. LinuxTypeOK' /\ AskedOnce'
  BY <1>1 DEF linuxVars, LInv, LinuxTypeOK, AskedOnce
<1>4. LineOK'
  <2>1. CASE egd_fd = NoConn
    BY <1>1, <2>1 DEF LineOK, linuxVars
  <2>2. CASE egd_fd # NoConn
    <3>1. PICK e \in Slots : e = egd_fd /\ e \in Clients
      BY <2>2, EgdLinuxAssumption DEF LInv, LinuxTypeOK
    <3>2. egd_fd' = e /\ link' = link /\ bytes_waiting' = bytes_waiting
      BY <1>1, <3>1 DEF linuxVars
    <3>3. IInv /\ AnswersOK /\ Spreading
      BY DEF LInv, ServerOK
    <3>4. link = "open" => Line(e)'
      BY <1>1, <2>2, <3>1, <3>2, <3>3, ServerLine DEF LInv, LineOK
    <3>5. ASSUME link # "open"
          PROVE  dropped(e)' /\ Handed(e)' = Handed(e)
      <4>1. dropped(e)
        BY <2>2, <3>1, <3>5 DEF LInv, LineOK
      <4>2. dropped(e)' /\ answers'[e] = answers[e]
        BY <1>1, <3>1, <3>3, <4>1, DeadSame
      <4> QED
        BY <4>2 DEF Handed
    <3>6. link \in {"eof", "hup"} => Len(Handed(e)) <= bytes_waiting
      BY <2>2, <3>1 DEF LInv, LineOK
    <3> QED
      BY <3>2, <3>4, <3>5, <3>6 DEF LineOK
  <2> QED
    BY <2>1, <2>2
<1> QED
  BY <1>2, <1>3, <1>4 DEF LInv

(* ekeyd ends with all it knew.                                            *)
LEMMA StopStep ==
  ASSUME LInv, ServerStops
  PROVE  LInv'
<1>1. ServerOK'
  <2>1. PoolOK'
    BY EmptySeq, EgdAssumption DEF ServerStops, PoolOK
  <2>2. ClientsOK'
    <3>1. <<>> \in Seq(Byte)
      BY EmptySeq
    <3> QED
      BY <3>1 DEF ServerStops, ClientsOK
  <2>3. LoopOK'
    <3>1. <<>> \in Seq(Byte)
      BY EmptySeq
    <3> QED
      BY <3>1 DEF ServerStops, LInv, ServerOK, IInv, LoopOK
  <2>4. AnswersOK' /\ Spreading'
    BY DEF ServerStops, LInv, ServerOK, AnswersOK, Spreading
  <2> QED
    BY <2>1, <2>2, <2>3, <2>4 DEF ServerOK, IInv
<1>2. /\ UNCHANGED <<answers, lpc, caller, egd_fd, egd_poll, bytes_waiting, rnd_events,
                     egd_revents, thirsty>>
      /\ status' = [c \in Clients |-> "dead"]
  BY DEF ServerStops
<1>3. /\ link' \in {"open", "eof", "hup", "reset"}
      /\ egd_fd # NoConn => link' # "open"
      /\ egd_fd # NoConn /\ link # "open" => link' = link
  BY DEF ServerStops, LInv, LinuxTypeOK
<1>4. LinuxTypeOK' /\ AskedOnce'
  BY <1>2, <1>3 DEF LInv, LinuxTypeOK, AskedOnce
<1>5. LineOK'
  <2>1. CASE egd_fd = NoConn
    BY <1>2, <2>1 DEF LineOK
  <2>2. CASE egd_fd # NoConn
    <3>1. PICK e \in Clients : e = egd_fd
      BY <2>2, EgdLinuxAssumption DEF LInv, LinuxTypeOK
    <3>2. dropped(e)' /\ Handed(e)' = Handed(e) /\ link' # "open"
      BY <1>2, <1>3, <2>2 DEF Handed, dropped
    <3>3. link' \in {"eof", "hup"} => Len(Handed(e)) <= bytes_waiting
      <4>1. CASE link = "open"
        <5>1. PICK k \in Nat : bytes_waiting = k * READ + pending(e) + Len(Handed(e))
          BY <2>2, <3>1, <4>1 DEF LInv, LineOK, Line
        <5>2. /\ egdwriteblocked[e] \in {nil} \cup 1 .. MaxAsk /\ MaxAsk \in Nat
              /\ Len(Handed(e)) \in Nat
          BY EgdAssumption, HandedOK, SeqFacts DEF LInv, ServerOK, IInv, ClientsOK
        <5> DEFINE p == k * READ
                   u == pending(e)
                   v == Len(Handed(e))
        <5>3. p \in Nat /\ u \in Nat /\ v \in Nat /\ bytes_waiting = p + u + v
          BY <5>1, <5>2, Multiples DEF pending
        <5>4. v <= bytes_waiting
          <6> HIDE DEF p, u, v
          <6> QED
            BY ONLY <5>3
        <5> QED
          BY <5>4
      <4>2. CASE link # "open"
        BY <1>3, <2>2, <3>1, <4>2 DEF LInv, LineOK
      <4> QED
        BY <4>1, <4>2
    <3> QED
      BY <1>2, <3>1, <3>2, <3>3 DEF LineOK
  <2> QED
    BY <2>1, <2>2
<1> QED
  BY <1>1, <1>4, <1>5 DEF LInv

-----------------------------------------------------------------------------
(* The theorems                                                            *)

(* At first there is no connection.                                        *)
LEMMA InitLine == LinuxInit => LInv
<1> SUFFICES ASSUME LinuxInit PROVE LInv
  OBVIOUS
<1>1. <<>> \in Seq(Byte) /\ <<>> \in Seq(Label) /\ <<>> \in Seq(AnswerRecord) /\ Len(<<>>) = 0
  BY EmptySeq
<1>2. PoolOK /\ ClientsOK
  BY <1>1, EgdAssumption DEF LinuxInit, PoolOK, ClientsOK
<1>3. LoopOK
  <2>1. script \in [Clients -> Seq(Byte)]
    <3>1. script \in [Clients -> Scripts \cup {<<>>}] /\ Scripts \subseteq Seq(Byte)
      BY EgdAssumption DEF LinuxInit, Byte
    <3> QED
      BY <1>1, <3>1
  <2>2. 0 \in 0 .. Labels /\ 0 \in Nat
    BY EgdAssumption
  <2> QED
    BY <2>1, <2>2 DEF LinuxInit, LoopOK
<1>4. AnswersOK /\ Spreading
  BY <1>1 DEF LinuxInit, AnswersOK, Spreading
<1>5. LinuxTypeOK /\ AskedOnce
  <2>1. 0 \in 0 .. Blocks * READ
    BY Multiples
  <2> QED
    BY <2>1 DEF LinuxInit, LinuxTypeOK, AskedOnce
<1>6. LineOK
  BY DEF LinuxInit, LineOK
<1> QED
  BY <1>2, <1>3, <1>4, <1>5, <1>6 DEF LInv, ServerOK, IInv

(* Every step keeps the invariant.                                         *)
LEMMA StepLine == LInv /\ [LinuxNext]_allVars => LInv'
<1> SUFFICES ASSUME LInv, [LinuxNext]_allVars PROVE LInv'
  OBVIOUS
<1>1. CASE \/ Resolve \/ ResolveFails \/ Poll \/ PollTimeout \/ PollFails
           \/ PuntEof \/ PuntFails \/ KernelDrains \/ ServerStarts
  BY <1>1, QuietSteps
<1>2. CASE Connect
  BY <1>2, ConnectStep
<1>3. CASE ConnectFails
  BY <1>3, ConnectFailsStep
<1>4. CASE Issue
  BY <1>4, IssueStep
<1>5. CASE IssueFails
  BY <1>5, IssueFailsStep
<1>6. CASE PuntEntropy
  BY <1>6, PuntEntropyStep
<1>7. CASE Server(Next)
  BY <1>7, ServedStep
<1>8. CASE ServerStops
  BY <1>8, StopStep
<1>9. CASE UNCHANGED allVars
  <2>1. Loops' /\ AskedOnce'
    BY <1>9 DEF allVars, linuxVars, LInv, LinuxTypeOK, Loops, AskedOnce
  <2> QED
    BY <1>9, <2>1, Quiet DEF allVars, linuxVars
<1> QED
  BY <1>1, <1>2, <1>3, <1>4, <1>5, <1>6, <1>7, <1>8, <1>9 DEF LinuxNext, Linux

(* The invariant of the program, its connection and the service together.  *)
LEMMA LinuxInvariant == LinuxSpec => []LInv
<1> QED
  BY InitLine, StepLine, PTL DEF LinuxSpec

(* The variables of ekey-egd-linux keep their types; in particular it      *)
(* never waits for more than one batch (issue_read_for_random is called    *)
(* only when bytes_waiting is 0), and the entry of the poll set names a    *)
(* connection exactly while there is one.                                  *)
THEOREM LinuxTypes == LinuxSpec => []LinuxTypeOK
<1>1. LInv => LinuxTypeOK
  BY DEF LInv
<1> QED
  BY <1>1, LinuxInvariant, PTL

(* bytes_waiting is exactly what ekeyd still owes on the open connection,  *)
(* through every answer in pieces, timeout, reconnection and restart of    *)
(* ekeyd, and whatever other clients of the pool do (egd_connect,          *)
(* issue_read_for_random and punt_entropy against egd_ctlread,             *)
(* egd_spreadwrite and the retry after it).                                *)
THEOREM CountIsExact == LinuxSpec => []Accounted
<1>1. LInv => Accounted
  <2> SUFFICES ASSUME LInv, egd_fd # NoConn, link = "open" PROVE Outstanding(egd_fd)
    BY DEF Accounted
  <2>1. Line(egd_fd)
    BY DEF LInv, LineOK
  <2>2. PICK k \in Nat :
          /\ Len(Commands(egd_fd)) = 2 * k
          /\ bytes_waiting = k * READ + pending(egd_fd) + Len(Handed(egd_fd))
    BY <2>1 DEF Line, Requests
  <2>3. (2 * k) % 2 = 0 /\ (2 * k) \div 2 = k
    OBVIOUS
  <2> QED
    BY <2>2, <2>3 DEF Outstanding, pending
<1> QED
  BY <1>1, LinuxInvariant, PTL
=============================================================================
