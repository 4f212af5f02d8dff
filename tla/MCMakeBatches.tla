---------------------------- MODULE MCMakeBatches ----------------------------
(* MakeBatches on every sorted list of at most MaxDigests sizes.  The real  *)
(* constants (256, 256, about 4 MiB, 2^64) are scaled down so that a batch  *)
(* holds from none to three of the blobs.                                   *)
EXTENDS MakeBatches, FiniteSetsExt

CONSTANT MaxDigests

MCInputs ==
    { d \in UNION {[1 .. n -> 0 .. MaxBlobSize] : n \in 0 .. MaxDigests} : SortedBySize(d) }

MCBytesUpTo(d) ==
    [n \in 0 .. Len(d) |-> MapThenSumSet(LAMBDA i : d[i] + PerBlob, 1 .. n)]
=============================================================================
