------------------------- MODULE MCTransferQueue -------------------------
(* Instances of TransferQueue for TLC: one photo upload, one file upload     *)
(* and one download, or a subset of them.                                    *)
EXTENDS TransferQueue

CONSTANTS photo, file, fetch, t1, t2

TwoTasks == Permutations({t1, t2})
=============================================================================
