--------------------------- MODULE EntropySource ----------------------------
(***************************************************************************)
(* What a key connection promises to the output stream of ekeyd: blocks of *)
(* entropy, none twice and each generated after the one before it, until   *)
(* the connection is closed; and nothing after that.                       *)
(***************************************************************************)
EXTENDS Naturals, Sequences

CONSTANTS
  Blocks,         \* what the device may ever generate
  Later(_, _)     \* the first block was generated after the second

VARIABLES
  out,    \* the last two blocks written, oldest first
  open    \* the connection is not closed

sourceVars == <<out, open>>

Init == out = <<>> /\ open = TRUE

(* Two blocks are kept so that writing one twice is a step.                *)
Emit ==
  /\ open = TRUE /\ open' = TRUE
  /\ \/ out = <<>> /\ Len(out') = 1
     \/ /\ out # <<>> /\ Len(out') = 2
        /\ out'[1] = out[Len(out)]
        /\ Later(out'[2], out'[1])
  /\ out'[Len(out')] \in Blocks

Close == open = TRUE /\ open' = FALSE /\ UNCHANGED out

Next == Emit \/ Close

Spec == Init /\ [][Next]_sourceVars
=============================================================================
