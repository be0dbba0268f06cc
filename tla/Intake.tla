------------------------------- MODULE Intake -------------------------------
(***************************************************************************)
(* The way of entropy from the bytes a device sends to the bytes a client  *)
(* is given: the device's frames (device/frames/frame.c), a serial line    *)
(* that is joined in the middle of a frame and damages bytes, the framer   *)
(* that finds frames in whatever pieces the line delivers (frame.c), the   *)
(* packet layer that decodes them (packet.c), and the block list they are  *)
(* kept in (control.lua).                                                  *)
(*                                                                         *)
(* The session is left out (EkeySession has it): the MAC is perfect, and a *)
(* frame verifies exactly if the device has sent it; type and class are    *)
(* one letter and the MAC takes no room in the frame.                      *)
(***************************************************************************)
EXTENDS Pem64, FiniteSets, FiniteSetsExt, Functions

CONSTANTS
  Cases,         \* what is sent, and what happens to it on the line
  BlockLen,      \* bytes of a block (32)
  PayloadLen,    \* characters of a payload (48)
  MAX_ENTROPY,   \* limit of the pool (2^20)
  MaxAsk,        \* most bytes asked for at once (255)
  NULL           \* no request is being served

ASSUME IntakeAssumption ==
  /\ {BlockLen, PayloadLen, MAX_ENTROPY, MaxAsk} \subseteq Nat
  /\ BlockLen > 0 /\ NULL \notin Nat
  /\ PayloadLen >= 4 * ((BlockLen + 2) \div 3)
  /\ Cases \subseteq [blocks : Seq([1 .. BlockLen -> Bytes]), cut : Nat,
                      noise : Seq(Chars), at : Nat, as : Nat]
  /\ \A case \in Cases : case.blocks # <<>>

EFRAME_LEN == PayloadLen + 5

VARIABLES
  blocks,          \* the blocks the device sends
  line,            \* all bytes that arrive
  bytes_read,      \* how many of them were read
  frame,           \* state->frame, its first state->used bytes
  open,            \* the connection has not met an error
  found,           \* byte_last of every frame so far
  entropy_blocks, total_entropy,
  asked,           \* nbytes of the dequeue_entropy being run, or NULL
  retstr,          \* what it has gathered
  out              \* what dequeue_entropy returned last

framerVars == <<bytes_read, frame, open, found>>
poolVars == <<entropy_blocks, total_entropy, asked, retstr, out>>

\* All bytes in the pool, in the order they are handed out.
held == FlattenSeq(Reverse(entropy_blocks))
vars == <<blocks, line, framerVars, poolVars>>

-----------------------------------------------------------------------------
(* The device and the line *)

(* The payload is padded with spaces.                                      *)
framer_fill_frame(block) ==
  LET payload == pem64_encode_bytes(block) IN
  <<SOF0, SOF1, Letter>> \o payload
    \o [i \in 1 .. PayloadLen - Len(payload) |-> SOF1] \o <<EOF0, EOF1>>

(* The line is joined after the first cut bytes; stray bytes come after    *)
(* the first frame; and at most one byte is replaced or, for an as that is *)
(* no character, lost.                                                     *)
Damage(s, at, as) ==
  IF at \notin DOMAIN s THEN s
  ELSE IF as \in Chars THEN [s EXCEPT ![at] = as] ELSE RemoveAt(s, at)

Line(case) ==
  LET frames == [i \in DOMAIN case.blocks |-> framer_fill_frame(case.blocks[i])] IN
  Damage(SubSeq(Head(frames), case.cut + 1, EFRAME_LEN) \o case.noise
           \o FlattenSeq(Tail(frames)),
         case.at, case.as)

(* The EFRAME_LEN bytes from an offset on are a frame the device has sent. *)
Window(o) == SubSeq(line, o + 1, o + EFRAME_LEN)
Sent(s) == \E i \in DOMAIN blocks : s = framer_fill_frame(blocks[i])
Intact == {o \in 0 .. Len(line) - EFRAME_LEN : Sent(Window(o))}

-----------------------------------------------------------------------------
(* eframe_read *)

\* The places of SOF0 from place i on: memchr finds the first of them.
stars(buf, i) == {j \in i .. Len(buf) : buf[j] = SOF0}

from(buf, places) == IF places = {} THEN <<>> ELSE SubSeq(buf, Min(places), Len(buf))

wellFormed(buf) ==
  /\ buf[1] = SOF0 /\ buf[2] = SOF1
  /\ buf[EFRAME_LEN - 1] = EOF0 /\ buf[EFRAME_LEN] = EOF1

(* Mutant: the whole buffer is given up.                                   *)
skip_all(buf) == IF buf[1] = SOF0 THEN <<>> ELSE from(buf, stars(buf, 1))

(* What stays in a full buffer without a frame: from the first SOF0 on,    *)
(* or from the next one if that was no start of a frame.                   *)
skipsof0(buf) == from(buf, stars(buf, IF buf[1] = SOF0 THEN 2 ELSE 1))

(* decode_packet of a verified frame.                                      *)
decode_packet(buf) == pem64_decode_bytes(SubSeq(buf, 4, EFRAME_LEN - 2))

(* Mutant: a block that does not fit is added.                             *)
enqueue_always(block) ==
  /\ entropy_blocks' = Append(entropy_blocks, block)
  /\ total_entropy' = total_entropy + Len(block)

enqueue_entropy(block) ==
  IF total_entropy + Len(block) <= MAX_ENTROPY
    THEN /\ entropy_blocks' = Append(entropy_blocks, block)
         /\ total_entropy' = total_entropy + Len(block)
    ELSE UNCHANGED <<entropy_blocks, total_entropy>>

(* estream_read takes 1 to avail bytes into the rest of the buffer.        *)
read(n) ==
  /\ open /\ asked = NULL
  /\ n \in 1 .. Min({EFRAME_LEN - Len(frame), Len(line) - bytes_read})
  /\ bytes_read' = bytes_read + n

filled(n) == frame \o SubSeq(line, bytes_read + 1, bytes_read + n)

(* No frame yet: EWOULDBLOCK.                                              *)
Incomplete ==
  /\ \E n \in 1 .. EFRAME_LEN :
       /\ read(n)
       /\ \/ Len(filled(n)) < EFRAME_LEN /\ frame' = filled(n)
          \/ /\ Len(filled(n)) = EFRAME_LEN /\ ~wellFormed(filled(n))
             /\ frame' = skipsof0(filled(n))
  /\ UNCHANGED <<open, found, poolVars>>

(* A frame: epkt_read empties the buffer.  An unknown type or class is an  *)
(* error that ends the connection; a frame that does not verify is dropped.*)
FrameRead ==
  /\ \E n \in 1 .. EFRAME_LEN :
       /\ read(n)
       /\ Len(filled(n)) = EFRAME_LEN /\ wellFormed(filled(n))
       /\ open' = (filled(n)[3] = Letter)
       /\ IF Sent(filled(n)) THEN enqueue_entropy(decode_packet(filled(n)))
          ELSE UNCHANGED <<entropy_blocks, total_entropy>>
  /\ found' = Append(found, bytes_read' - EFRAME_LEN)
  /\ frame' = <<>>
  /\ UNCHANGED <<asked, retstr, out>>

(* End of file closes the connection.                                      *)
Eof ==
  /\ open /\ asked = NULL /\ bytes_read = Len(line)
  /\ open' = FALSE
  /\ UNCHANGED <<bytes_read, frame, found, poolVars>>

-----------------------------------------------------------------------------
(* dequeue_entropy.  ekeyd is single threaded: nothing else happens while  *)
(* its loop runs.                                                          *)
idle == asked = NULL

Ask(n) ==
  /\ idle
  /\ asked' = n /\ retstr' = <<>>
  /\ UNCHANGED <<framerVars, entropy_blocks, total_entropy, out>>

(* The condition of the loop, and the block it looks at.                   *)
looping == ~idle /\ total_entropy > 0 /\ asked > 0

eval == Last(entropy_blocks)

TakeBlock ==
  /\ looping /\ Len(eval) <= asked
  /\ retstr' = retstr \o eval
  /\ asked' = asked - Len(eval)
  /\ entropy_blocks' = Front(entropy_blocks)
  /\ total_entropy' = total_entropy - Len(eval)
  /\ UNCHANGED <<framerVars, out>>

(* Mutant: the block is put back whole.                                    *)
TakePart_uncut ==
  /\ looping /\ Len(eval) > asked
  /\ retstr' = retstr \o SubSeq(eval, 1, asked)
  /\ asked' = 0
  /\ total_entropy' = total_entropy - asked
  /\ UNCHANGED <<framerVars, entropy_blocks, out>>

TakePart ==
  /\ looping /\ Len(eval) > asked
  /\ retstr' = retstr \o SubSeq(eval, 1, asked)
  /\ asked' = 0
  /\ entropy_blocks' =
       Append(Front(entropy_blocks), SubSeq(eval, asked + 1, Len(eval)))
  /\ total_entropy' = total_entropy - asked
  /\ UNCHANGED <<framerVars, out>>

Return ==
  /\ ~idle /\ ~looping
  /\ out' = retstr
  /\ asked' = NULL /\ retstr' = <<>>
  /\ UNCHANGED <<framerVars, entropy_blocks, total_entropy>>

-----------------------------------------------------------------------------
Init ==
  /\ \E case \in Cases : blocks = case.blocks /\ line = Line(case)
  /\ bytes_read = 0 /\ frame = <<>> /\ open = TRUE /\ found = <<>>
  /\ entropy_blocks = <<>> /\ total_entropy = 0
  /\ asked = NULL /\ retstr = <<>> /\ out = <<>>

Framer == Incomplete \/ FrameRead \/ Eof

dequeue_entropy == TakeBlock \/ TakePart \/ Return

Next ==
  /\ \/ Framer
     \/ \E n \in 0 .. MaxAsk : Ask(n)
     \/ dequeue_entropy
  /\ UNCHANGED <<blocks, line>>

Spec == Init /\ [][Next]_vars

-----------------------------------------------------------------------------
(* Types; the buffer always has room when it is read into (a full one      *)
(* would be an invalid argument), and total_entropy counts the bytes held. *)
TypeOK ==
  /\ bytes_read \in 0 .. Len(line)
  /\ frame \in Seq(Chars) /\ Len(frame) < EFRAME_LEN
  /\ open \in BOOLEAN
  /\ \A i \in DOMAIN entropy_blocks :
       entropy_blocks[i] \in Seq(Bytes) /\ Len(entropy_blocks[i]) \in 1 .. BlockLen
  /\ total_entropy = Len(held) /\ total_entropy <= MAX_ENTROPY
  /\ asked \in 0 .. MaxAsk \cup {NULL}
  /\ retstr \in Seq(Bytes) /\ out \in Seq(Bytes)

(* However the line is cut into pieces, whatever damaged or stray bytes    *)
(* come before it, and wherever the line was joined: a frame that arrives  *)
(* whole is found, once and at its place (byte_last), as soon as its last  *)
(* byte was read.                                                          *)
IntactFound ==
  /\ \A o \in Intact :
       open /\ o + EFRAME_LEN <= bytes_read => o \in Range(found)
  /\ \A i, j \in DOMAIN found : i < j => found[i] + EFRAME_LEN <= found[j]
  /\ \A i \in DOMAIN found :
       found[i] + EFRAME_LEN <= bytes_read /\ wellFormed(Window(found[i]))

(* What the pool holds are bytes of the device, each block the one encoded *)
(* in a frame, or the rest of it: codec, padding and parsing lose, change  *)
(* and add nothing.                                                        *)
Genuine ==
  \A i \in DOMAIN entropy_blocks :
    \E b \in Range(blocks) : IsSuffix(entropy_blocks[i], b)

(* The list of blocks, taken from its end and cut in the middle of blocks, *)
(* is a row of bytes.  What the loop has taken so far counts as held until *)
(* it returns, and as asked for: a request gets all it has asked for, or   *)
(* all there is, and the count beside the list strands no bytes.           *)
Flat == INSTANCE FlatPool
          WITH Byte <- Bytes, pool <- retstr \o held,
               want <- IF idle THEN NULL ELSE asked + Len(retstr)

PoolIsFlat == Flat!Spec
=============================================================================
