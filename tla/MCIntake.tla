------------------------------ MODULE MCIntake ------------------------------
(* Blocks of two bytes: their encoding ends with a filler, as that of 32   *)
(* bytes does, and is padded to a payload of two groups.                   *)
EXTENDS Intake

Case(blks, cut, noise, at, as) ==
  [blocks |-> blks, cut |-> cut, noise |-> noise, at |-> at, as |-> as]

Lost == 99

Noise == {<<>>, <<SOF0, SOF1>>}
Cuts == {0, 1, 11}

\* Three frames, joined anywhere, and a byte that is damaged or lost.
Damaged ==
  {Case(<< <<0, 255>>, <<171, 1>>, <<16, 67>> >>, cut, noise, at, as) :
     cut \in Cuts, noise \in Noise, at \in 8 .. 30, as \in {SOF0, Lost}}

\* Bytes at which a bit moves from one character to the next.
Edges == {0, 1, 3, 4, 15, 16, 63, 64, 127, 128, 192, 255}
Encoded == {Case(<< <<a, b>> >>, 0, <<>>, 0, 0) : a, b \in Edges}

AllCases == Damaged \cup Encoded
=============================================================================
