------------------------------- MODULE Pem64 --------------------------------
(***************************************************************************)
(* The base64 codec device and host share (device/frames/pem.c).  A        *)
(* character of the alphabet is its place in dictionary; the characters    *)
(* that are not in it, and the ones a frame is delimited with, follow.     *)
(***************************************************************************)
EXTENDS Naturals, Sequences, SequencesExt

Bytes == 0 .. 255
Alphabet == 0 .. 63
FILLERCHAR == 64     \* '='
SOF0 == 65           \* '*'
SOF1 == 66           \* ' ', also what pads a payload
EOF0 == 67           \* CR
EOF1 == 68           \* LF
Letter == 69         \* type and class of an entropy frame: E!
Chars == 0 .. 69

Invalid == 70        \* -1 in inverse_dictionary

(* The filler is looked up as a zero.                                      *)
inverse_dictionary(c) ==
  IF c \in Alphabet THEN c ELSE IF c = FILLERCHAR THEN 0 ELSE Invalid

Sextets(b1, b2, b3) ==
  <<b1 \div 4, (b1 % 4) * 16 + b2 \div 16, (b2 % 16) * 4 + b3 \div 64, b3 % 64>>

(* Three bytes make four characters; the ones of the last group that hold  *)
(* no bit of a byte are fillers.                                           *)
pem64_encode_bytes(bytes) ==
  LET n == Len(bytes)
      at(i) == IF i <= n THEN bytes[i] ELSE 0 IN
  FlattenSeq([g \in 1 .. (n + 2) \div 3 |->
    [q \in 1 .. 4 |->
      IF 3 * g - 3 + q > n + 1 THEN FILLERCHAR
      ELSE Sextets(at(3 * g - 2), at(3 * g - 1), at(3 * g))[q]]])

(* Mutant: a filler is decoded like any other character.                   *)
filler_decoded(c, byte) == <<byte>>

byteUnlessFiller(c, byte) == IF c = FILLERCHAR THEN <<>> ELSE <<byte>>

(* Decoding stops at the first group with a character it does not know.    *)
pem64_decode_bytes(text) ==
  LET b(i) == inverse_dictionary(text[i])
      known(g) == \A i \in 4 * g - 3 .. 4 * g : b(i) # Invalid
      groups == {g \in 0 .. Len(text) \div 4 : \A h \in 1 .. g : known(h)}
      last == CHOOSE g \in groups : \A h \in groups : h <= g IN
  FlattenSeq([g \in 1 .. last |->
    LET i == 4 * g - 3 IN
    <<b(i) * 4 + b(i + 1) \div 16>>
      \o byteUnlessFiller(text[i + 2], (b(i + 1) % 16) * 16 + b(i + 2) \div 4)
      \o byteUnlessFiller(text[i + 3], (b(i + 2) % 4) * 64 + b(i + 3))])
=============================================================================
