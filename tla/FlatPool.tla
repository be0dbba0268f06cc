------------------------------ MODULE FlatPool ------------------------------
(***************************************************************************)
(* What the pool of collected entropy promises: a row of bytes of limited  *)
(* length.  A block is put in front of it if it fits and is dropped if it  *)
(* does not; a request is given bytes from the front, exactly as many as   *)
(* it has asked for, or all there are if they are fewer.                   *)
(***************************************************************************)
EXTENDS Naturals, Sequences

CONSTANTS Byte, BlockLen, MAX_ENTROPY, MaxAsk, NULL

VARIABLES
  pool,   \* the bytes held
  want,   \* how many the request being served has asked for, or NULL
  out     \* what the last request was given

poolVars == <<pool, want, out>>

Least(a, b) == IF a < b THEN a ELSE b

Put ==
  /\ Len(pool) + BlockLen <= MAX_ENTROPY
  /\ pool' \in Seq(Byte) /\ Len(pool') = Len(pool) + BlockLen
  /\ SubSeq(pool', BlockLen + 1, Len(pool')) = pool
  /\ UNCHANGED <<want, out>>

Ask(n) == want = NULL /\ want' = n /\ UNCHANGED <<pool, out>>

Get ==
  LET size == Least(want, Len(pool)) IN
  /\ want # NULL /\ want' = NULL
  /\ out' = SubSeq(pool, 1, size)
  /\ pool' = SubSeq(pool, size + 1, Len(pool))

Init == pool = <<>> /\ want = NULL /\ out = <<>>

Next == Put \/ (\E n \in 0 .. MaxAsk : Ask(n)) \/ Get

Spec == Init /\ [][Next]_poolVars
=============================================================================
