------------------------ MODULE MCResizeTransaction ------------------------
(* ResizeTransaction for TLC.  Two sizes, so that a layout can resize a    *)
(* window and back, and a third rect for a move without a resize.          *)
EXTENDS ResizeTransaction

TwoRects == {[size |-> 1, pos |-> 1], [size |-> 2, pos |-> 2]}

ThreeRects == TwoRects \cup {[size |-> 1, pos |-> 2]}
=============================================================================
