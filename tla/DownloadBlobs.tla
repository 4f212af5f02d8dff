--------------------------- MODULE DownloadBlobs ---------------------------
(***************************************************************************)
(* Client::downloadBlobs(), in its three forms, which share one loop:      *)
(*   "data"       the blobs are returned in a map;                         *)
(*   "directory"  they are written to files, and the paths returned;       *)
(*   "outputs"    they are written to the paths of an OutputMap, and       *)
(*                throw_on_error is set.                                   *)
(* Small blobs come in batches with BatchReadBlobs, the others one by one  *)
(* through fetchString() or download(), which do what AtomicTransfer       *)
(* promises.  What makeBatches() returns is any list of ranges that        *)
(* MakeBatches allows.                                                     *)
(*                                                                         *)
(* A caller may ask for the same digest more than once.  The server is     *)
(* external: it gives one response for each digest of a batch, with any    *)
(* status, and data that may be damaged.                                   *)
(***************************************************************************)
EXTENDS Integers, Sequences

CONSTANTS
    Lists,   \* the lists of digests asked for, sorted by size
    Modes    \* the forms that are called

VARIABLES
    mode,
    request_list,
    ends,              \* the batches: the end of each range
    pc,
    batch,             \* the batch that is next
    d,                 \* the next response of a batch, or the next digest of
                       \* the ByteStream loop
    batch_results,     \* of batchDownload(): digests by status
    download_results,  \* of the loop: digests by status
    written,           \* digests that write_blob() was called for
    dest               \* what is in the map, the file or the output

vars == <<mode, request_list, ends, pc, batch, d, batch_results, download_results, written, dest>>
inputs == <<mode, request_list, ends>>

Positions == 1 .. Len(request_list)
Requested == {request_list[i] : i \in Positions}
throw_on_error == mode = "outputs"

Results == [OK : SUBSET Requested, failed : SUBSET Requested]
NoResults == [OK |-> {}, failed |-> {}]

\* The lists of ranges that makeBatches() may return for a list of n digests.
Batchings(n) ==
    { e \in UNION {[1 .. k -> 1 .. n] : k \in 0 .. n} :
        \A i, j \in DOMAIN e : i < j => e[i] < e[j] }

TypeOK ==
    /\ mode \in Modes
    /\ request_list \in Lists
    /\ ends \in Batchings(Len(request_list))
    /\ pc \in {"batches", "responses", "single", "returned", "threw"}
    /\ batch \in 1 .. Len(ends) + 1
    /\ d \in 1 .. Len(request_list) + 1
    /\ batch_results \in Results
    /\ download_results \in Results
    /\ written \subseteq Requested
    /\ dest \in [Requested -> {"absent", "intact", "damaged"}]

Init ==
    /\ mode \in Modes
    /\ request_list \in Lists
    /\ ends \in Batchings(Len(request_list))
    /\ pc = "batches"
    /\ batch = 1
    /\ d = 1
    /\ batch_results = NoResults
    /\ download_results = NoResults
    /\ written = {}
    /\ dest = [x \in Requested |-> "absent"]

(***************************************************************************)
(* The batches.                                                            *)
(***************************************************************************)
InBatches == pc = "batches" /\ batch <= Len(ends)
BatchStart == IF batch = 1 THEN 1 ELSE ends[batch - 1] + 1
BatchDigests == {request_list[i] : i \in BatchStart .. ends[batch]}

Merge(r, s) == [OK |-> r.OK \cup s.OK, failed |-> r.failed \cup s.failed]
OkResult(x) == [OK |-> {x}, failed |-> {}]
FailedResults(S) == [OK |-> {}, failed |-> S]

\* Mutant: a failed batch is logged and otherwise ignored.
BatchFailed_Silent ==
    /\ pc' = IF throw_on_error THEN "threw" ELSE "batches"
    /\ batch' = IF throw_on_error THEN batch ELSE batch + 1
    /\ UNCHANGED <<inputs, d, batch_results, download_results>>

\* catch (std::runtime_error) around batchDownload().
BatchFailed ==
    /\ pc' = IF throw_on_error THEN "threw" ELSE "batches"
    /\ batch' = IF throw_on_error THEN batch ELSE batch + 1
    /\ download_results' =
         IF throw_on_error THEN download_results
         ELSE Merge(download_results, FailedResults(BatchDigests))
    /\ UNCHANGED <<inputs, d, batch_results>>

BatchReadFails ==
    /\ InBatches
    /\ BatchFailed
    /\ UNCHANGED <<written, dest>>

BatchReadAnswers ==
    /\ InBatches
    /\ pc' = "responses"
    /\ d' = BatchStart
    /\ batch_results' = NoResults
    /\ UNCHANGED <<inputs, batch, download_results, written, dest>>

InResponses == pc = "responses" /\ d <= ends[batch]
Digest == request_list[d]

\* The data was intact, and write_blob() stored it.
ResponseOk ==
    /\ InResponses
    /\ batch_results' = Merge(batch_results, OkResult(Digest))
    /\ written' = written \cup {Digest}
    /\ dest' = [dest EXCEPT ![Digest] = "intact"]
    /\ d' = d + 1
    /\ UNCHANGED <<inputs, pc, batch, download_results>>

\* The server has an error for this digest, or sent data of another one.
ResponseBad ==
    /\ InResponses
    /\ batch_results' = Merge(batch_results, FailedResults({Digest}))
    /\ d' = d + 1
    /\ UNCHANGED <<inputs, pc, batch, download_results, written, dest>>

\* A file could not be written.  An output is replaced atomically; a file in
\* the directory is truncated first.
WriteDamages(x) ==
    /\ mode # "data"
    /\ dest' = IF mode = "directory" THEN [dest EXCEPT ![x] = "damaged"] ELSE dest

\* Mutant: the state of the stream is not looked at after writing.
ResponseNotWritten_Unnoticed ==
    /\ InResponses
    /\ WriteDamages(Digest)
    /\ batch_results' = Merge(batch_results, OkResult(Digest))
    /\ written' = written \cup {Digest}
    /\ d' = d + 1
    /\ UNCHANGED <<inputs, pc, batch, download_results>>

ResponseNotWritten ==
    /\ InResponses
    /\ WriteDamages(Digest)
    /\ BatchFailed
    /\ UNCHANGED written

BatchReturns ==
    /\ pc = "responses"
    /\ d > ends[batch]
    /\ download_results' = Merge(download_results, batch_results)
    /\ pc' = "batches"
    /\ batch' = batch + 1
    /\ UNCHANGED <<inputs, d, batch_results, written, dest>>

(***************************************************************************)
(* The ByteStream loop, for what no batch covered.                         *)
(***************************************************************************)
BatchesDone ==
    /\ pc = "batches"
    /\ batch > Len(ends)
    /\ pc' = "single"
    /\ d' = IF ends = << >> THEN 1 ELSE ends[Len(ends)] + 1
    /\ UNCHANGED <<inputs, batch, batch_results, download_results, written, dest>>

InSingle == pc = "single" /\ d <= Len(request_list)

FetchOk ==
    /\ InSingle
    /\ download_results' = Merge(download_results, OkResult(Digest))
    /\ written' = written \cup {Digest}
    /\ dest' = [dest EXCEPT ![Digest] = "intact"]
    /\ d' = d + 1
    /\ UNCHANGED <<inputs, pc, batch, batch_results>>

\* A GrpcError or another runtime_error is caught.
FetchFailed ==
    /\ pc' = IF throw_on_error THEN "threw" ELSE "single"
    /\ d' = IF throw_on_error THEN d ELSE d + 1
    /\ download_results' =
         IF throw_on_error THEN download_results
         ELSE Merge(download_results, FailedResults({Digest}))
    /\ UNCHANGED <<inputs, batch, batch_results, written>>

\* fetchString() failed, or the file could not be opened.
FetchFails ==
    /\ InSingle
    /\ FetchFailed
    /\ UNCHANGED dest

\* download() failed with the file open, or write_blob() failed.
FetchNotWritten ==
    /\ InSingle
    /\ WriteDamages(Digest)
    /\ FetchFailed

Return ==
    /\ pc = "single"
    /\ d > Len(request_list)
    /\ pc' = "returned"
    /\ UNCHANGED <<inputs, batch, d, batch_results, download_results, written, dest>>

Next ==
    \/ BatchReadFails \/ BatchReadAnswers
    \/ ResponseOk \/ ResponseBad \/ ResponseNotWritten \/ BatchReturns
    \/ BatchesDone
    \/ FetchOk \/ FetchFails \/ FetchNotWritten
    \/ Return

\* Every request is answered or given up.
Spec == Init /\ [][Next]_vars /\ WF_vars(Next)

(***************************************************************************)
(* Properties.                                                             *)
(***************************************************************************)
\* The map returned: what was written is OK, and emplace() adds the failed
\* digests that are not in it yet.
StatusOf(x) ==
    CASE x \in written -> "OK"
      [] x \notin written /\ x \in download_results.failed -> "failed"
      [] OTHER -> "missing"

NoDuplicates == \A i, j \in Positions : i # j => request_list[i] # request_list[j]

\* "return it in a map indexed by hash. Allow each digest to potentially fail
\* separately" (client.h): every digest has an entry in the map, also those of
\* a batch that broke off in the middle.
EveryDigestHasAStatus ==
    pc = "returned" /\ ~ throw_on_error => \A x \in Requested : StatusOf(x) # "missing"

\* An entry that is OK has its data: what a broken batch or stream left behind
\* is never taken for a blob, if no digest is asked for twice.  The list of
\* statuses and the calls of write_blob() tell the same story: a status of OK is
\* a blob that was written, and for a digest asked for once, a failed one was
\* not, unless its batch broke off after it.
OkMeansIntact ==
    /\ NoDuplicates => \A x \in Requested : x \in written => dest[x] = "intact"
    /\ download_results.OK \subseteq written
    /\ mode = "data" /\ NoDuplicates => download_results.failed \cap written = {}
=============================================================================
