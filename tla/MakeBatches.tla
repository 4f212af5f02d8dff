----------------------------- MODULE MakeBatches -----------------------------
(***************************************************************************)
(* Client::makeBatches(): splits a list of digests, sorted by size, into   *)
(* ranges that each fit in one BatchUpdateBlobs or BatchReadBlobs request. *)
(* Whatever comes after the last range goes through the ByteStream API.    *)
(*                                                                         *)
(* Only the sizes of the digests matter.  Indices are those of the code:   *)
(* a batch <<s, e>> stands for the positions s .. e-1 of the vector, that  *)
(* is digests[s+1] .. digests[e] here.  Sizes are size_t, so every sum is  *)
(* taken modulo SizeMod.                                                   *)
(***************************************************************************)
EXTENDS Integers, Sequences

CONSTANTS
    SIZEOF_ESTIMATED_TOP_LEVEL_GRPC_CONTAINER,
    PER_BLOB_METADATA_SIZE,
    DefaultMaxBatchTotalSize,  \* what Client::init() starts from
    ServerLimits,              \* max_batch_total_size_bytes of the servers
    SizeMod,                   \* 2^w for a size_t of w bits
    MaxBlobSize,               \* the largest size a digest can state
    Inputs,                    \* the (sorted) lists of sizes
    BytesUpTo(_)               \* BytesUpTo(d)[n]: room the first n digests take

Container == SIZEOF_ESTIMATED_TOP_LEVEL_GRPC_CONTAINER
PerBlob == PER_BLOB_METADATA_SIZE

\* Both callers of makeBatches() sort by size first.
SortedBySize(d) == \A i, j \in 1 .. Len(d) : i <= j => d[i] <= d[j]

ASSUME SizesAssumption ==
    /\ Container \in Nat
    /\ PerBlob \in Nat
    /\ ServerLimits \subseteq Nat
    /\ MaxBlobSize \in Nat
    /\ SizeMod \in Nat
    /\ DefaultMaxBatchTotalSize \in Nat
    /\ Container <= DefaultMaxBatchTotalSize
    /\ DefaultMaxBatchTotalSize + MaxBlobSize + PerBlob < SizeMod

ASSUME InputsAssumption ==
    \A d \in Inputs : d \in Seq(0 .. MaxBlobSize) /\ SortedBySize(d)

ASSUME BytesUpToAssumption ==
    \A d \in Inputs :
        /\ BytesUpTo(d) \in [0 .. Len(d) -> Nat]
        /\ BytesUpTo(d)[0] = 0
        /\ \A n \in 1 .. Len(d) : BytesUpTo(d)[n] = BytesUpTo(d)[n - 1] + d[n] + PerBlob

VARIABLES
    digests,
    d_maxBatchTotalSizeBytes,
    pc,              \* "outer" and "inner" loop, "returned"
    batch_start,
    batch_end,
    bytes_in_batch,
    batches

vars == <<digests, d_maxBatchTotalSizeBytes, pc, batch_start, batch_end, bytes_in_batch, batches>>

Wrap(n) == n % SizeMod

\* Client::init(): a server limit only ever lowers the default; 0 is no limit.
NegotiatedLimit(server) ==
    IF server > 0 /\ server < DefaultMaxBatchTotalSize THEN server ELSE DefaultMaxBatchTotalSize

\* Mutant: no room is kept for the request itself.
max_batch_size_NoContainer == Wrap(d_maxBatchTotalSizeBytes)

max_batch_size == Wrap(d_maxBatchTotalSizeBytes - Container)

TypeOK ==
    /\ digests \in Inputs
    /\ d_maxBatchTotalSizeBytes \in 0 .. DefaultMaxBatchTotalSize
    /\ pc \in {"outer", "inner", "returned"}
    /\ batch_start \in 0 .. Len(digests)
    /\ batch_end \in 0 .. Len(digests)
    /\ bytes_in_batch \in 0 .. SizeMod - 1
    /\ batches \in Seq(Nat \X Nat)

Init ==
    /\ digests \in Inputs
    /\ d_maxBatchTotalSizeBytes \in {NegotiatedLimit(s) : s \in ServerLimits}
    /\ pc = "outer"
    /\ batch_start = 0
    /\ batch_end = 0
    /\ bytes_in_batch = 0
    /\ batches = << >>

SizeOfNext == digests[batch_end + 1]
\* Mutant: a blob that just fits is taken for too large.
NextIsTooLarge_OrEqual == Wrap(SizeOfNext + PerBlob) >= max_batch_size

NextIsTooLarge == Wrap(SizeOfNext + PerBlob) > max_batch_size
\* Mutant: a blob that just fits is left to the next batch.
NextFits_Strictly == Wrap(bytes_in_batch + SizeOfNext + PerBlob) < max_batch_size

NextFits == Wrap(bytes_in_batch + SizeOfNext + PerBlob) <= max_batch_size

\* The outer loop ends: no digest is left, or the rest is too large.
Return ==
    /\ pc = "outer"
    /\ batch_end < Len(digests) => NextIsTooLarge
    /\ pc' = "returned"
    /\ UNCHANGED <<digests, d_maxBatchTotalSizeBytes, batch_start, batch_end, bytes_in_batch, batches>>

BeginBatch ==
    /\ pc = "outer"
    /\ batch_end < Len(digests)
    /\ ~ NextIsTooLarge
    /\ pc' = "inner"
    /\ bytes_in_batch' = 0
    /\ UNCHANGED <<digests, d_maxBatchTotalSizeBytes, batch_start, batch_end, batches>>

AddDigest ==
    /\ pc = "inner"
    /\ batch_end < Len(digests)
    /\ NextFits
    /\ bytes_in_batch' = Wrap(bytes_in_batch + SizeOfNext + PerBlob)
    /\ batch_end' = batch_end + 1
    /\ UNCHANGED <<digests, d_maxBatchTotalSizeBytes, pc, batch_start, batches>>

\* Mutant: every batch starts with the first digest.
CloseBatch_StartNotMoved ==
    /\ pc = "inner"
    /\ batch_end < Len(digests) => ~ NextFits
    /\ batches' = Append(batches, <<batch_start, batch_end>>)
    /\ pc' = "outer"
    /\ UNCHANGED <<digests, d_maxBatchTotalSizeBytes, batch_start, batch_end, bytes_in_batch>>

CloseBatch ==
    /\ pc = "inner"
    /\ batch_end < Len(digests) => ~ NextFits
    /\ batches' = Append(batches, <<batch_start, batch_end>>)
    /\ batch_start' = batch_end
    /\ pc' = "outer"
    /\ UNCHANGED <<digests, d_maxBatchTotalSizeBytes, batch_end, bytes_in_batch>>

Next == Return \/ BeginBatch \/ AddDigest \/ CloseBatch

\* Sequential code: it runs until it returns.
Spec == Init /\ [][Next]_vars /\ WF_vars(Next)

(***************************************************************************)
(* Properties.                                                             *)
(***************************************************************************)
BytesBetween(s, e) == BytesUpTo(digests)[e] - BytesUpTo(digests)[s]

\* What follows the last batch: the range left to the ByteStream API by
\* uploadBlobs() and downloadBlobs().
Rest == IF batches = << >> THEN 0 ELSE batches[Len(batches)][2]

\* No server states a limit that does not even hold an empty request.
SaneServers == \A s \in ServerLimits : s = 0 \/ s >= Container

\* "The sum of sizes inside the range MUST NOT exceed the maximum batch size
\* request allowed" (client.h, batchUpload() and batchDownload()): every
\* batch, with its metadata, fits in the negotiated size.
BatchesFit ==
    \A i \in 1 .. Len(batches) :
        Container + BytesBetween(batches[i][1], batches[i][2]) <= d_maxBatchTotalSizeBytes

\* The batches are non-empty ranges that follow one another from index 0, so
\* that every digest before Rest is transferred in exactly one batch.
BatchesPartition ==
    /\ \A i \in 1 .. Len(batches) : batches[i][1] < batches[i][2]
    /\ \A i \in 1 .. Len(batches) :
         batches[i][1] = IF i = 1 THEN 0 ELSE batches[i - 1][2]
    /\ Rest <= Len(digests)

\* What is left over when makeBatches() returns is exactly what cannot be
\* sent in a batch of its own; this is where the sorting is needed.
RestIsTooLarge ==
    pc = "returned" =>
        \A i \in Rest + 1 .. Len(digests) :
            Container + PerBlob + digests[i] > d_maxBatchTotalSizeBytes

\* Greedy: the first digest of a batch would not have fit in the one before,
\* so no two neighbouring batches can be sent as one.
BatchesAreMaximal ==
    \A i \in 1 .. Len(batches) - 1 :
        Container + BytesBetween(batches[i][1], batches[i][2] + 1) > d_maxBatchTotalSizeBytes
=============================================================================
