----------------------------- MODULE MCULRlcLink -----------------------------
(* Instances of ULRlcLink for TLC: what the MS sends in a TBF.              *)
EXTENDS ULRlcLink

Piece == [ends |-> 0, more |-> FALSE]           \* a piece of one PDU
Seam == [ends |-> 1, more |-> TRUE]             \* a PDU ends, the next begins
Tail1 == [ends |-> 1, more |-> FALSE]           \* a PDU ends, then fill
Tail2 == [ends |-> 2, more |-> FALSE]           \* two PDUs end, then fill

OnePdu == <<Piece, Piece, Piece, Tail1>>
Packed == <<Piece, Seam, Tail2>>
ExactFit == <<Piece, Seam>>                     \* the last PDU fills its block

\* Up to six blocks: longer than the window, shorter than the sequence space.
SixBlocks == {<<Piece, Seam, Piece, Piece, Seam, Tail1>>, OnePdu, Packed}
\* Five and six blocks, longer than a sequence space of four.
WrapBlocks == {<<Piece, Seam, Piece, Piece, Tail1>>, <<Piece, Piece, Seam, Piece, Seam, Tail2>>}
TinyBlocks == {<<Piece, Tail1>>, ExactFit}
OnePduOnly == {OnePdu}
==============================================================================
