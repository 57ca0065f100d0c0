-------------------------- MODULE MCChunkedTransfer --------------------------
(* The lengths of the spec's round-trip list (0, 1, 255, 256, 257, 512,      *)
(* 513) and one that does not fit the buffer.                                *)
EXTENDS ChunkedTransfer

MCLengths == {0, 1, 255, 256, 257, 512, 513, 700}
=============================================================================
