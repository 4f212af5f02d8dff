---------------------------- MODULE UploadBlobs ----------------------------
(***************************************************************************)
(* Client::uploadBlobs(): sends a list of blobs, the small ones in batches *)
(* with BatchUpdateBlobs, the others one by one with ByteStream.Write().   *)
(*                                                                         *)
(* Requests are named by their place in the list sorted by size.  What     *)
(* makeBatches() returns is any list of ranges that MakeBatches allows;    *)
(* upload() is what AtomicTransfer promises: no exception only if the blob *)
(* is stored.  The server is external: it stores a blob only if its bytes  *)
(* match the digest, and may have done so when the answer never came.      *)
(***************************************************************************)
EXTENDS Integers, Sequences

CONSTANT NumRequests  \* requests.size()

ASSUME NumRequestsAssumption == NumRequests \in Nat

VARIABLES
    throw_on_error,
    source,      \* of each request: "data" or "path"
    contents,    \* of each request, compared with its digest
    ends,        \* the batches: the end of each range
    pc,
    batch,       \* the batch that is next
    d,           \* the request that is next in the ByteStream loop
    results,     \* of uploadBlobs(): how many entries each request has in it
    stored       \* what the server has

vars == <<throw_on_error, source, contents, ends, pc, batch, d, results, stored>>
inputs == <<throw_on_error, source, contents, ends>>

Requests == 1 .. NumRequests

\* The lists of ranges that makeBatches() may return.
Batchings ==
    { e \in UNION {[1 .. n -> Requests] : n \in 0 .. NumRequests} :
        \A i, j \in DOMAIN e : i < j => e[i] < e[j] }

\* "changed" is a file overwritten, "resized" one that has another size, since
\* the digest was computed.
TypeOK ==
    /\ throw_on_error \in BOOLEAN
    /\ source \in [Requests -> {"data", "path"}]
    /\ contents \in [Requests -> {"intact", "changed", "resized"}]
    /\ ends \in Batchings
    /\ pc \in {"batches", "single", "returned", "threw", "logic_error"}
    /\ batch \in 1 .. Len(ends) + 1
    /\ d \in 1 .. NumRequests + 1
    /\ results \in [Requests -> Nat]
    /\ stored \subseteq Requests

Init ==
    /\ throw_on_error \in BOOLEAN
    /\ source \in [Requests -> {"data", "path"}]
    /\ contents \in [Requests -> {"intact", "changed", "resized"}]
    /\ ends \in Batchings
    /\ pc = "batches"
    /\ batch = 1
    /\ d = 1
    /\ results = [i \in Requests |-> 0]
    /\ stored = {}

Intact(i) == contents[i] = "intact"
WrongLength(i) == source[i] = "data" /\ contents[i] = "resized"

\* Mutant: every batch starts with the first request.
BatchRange_FromTheStart == 1 .. ends[batch]

\* request_list[batch_start .. batch_end), as places in the list.
BatchRange ==
    (IF batch = 1 THEN 1 ELSE ends[batch - 1] + 1) .. ends[batch]

\* results with one more entry for each request in S.
Reporting(S) == [i \in Requests |-> IF i \in S THEN results[i] + 1 ELSE results[i]]

\* Mutant: a failed batch is logged and otherwise ignored.
BatchFailed_Silent ==
    /\ pc' = IF throw_on_error THEN "threw" ELSE pc
    /\ batch' = IF throw_on_error THEN batch ELSE batch + 1
    /\ UNCHANGED <<inputs, d, results>>

\* catch (std::runtime_error) around batchUpload().
BatchFailed ==
    /\ pc' = IF throw_on_error THEN "threw" ELSE pc
    /\ results' = IF throw_on_error THEN results ELSE Reporting(BatchRange)
    /\ batch' = IF throw_on_error THEN batch ELSE batch + 1
    /\ UNCHANGED <<inputs, d>>

InBatches == pc = "batches" /\ batch <= Len(ends)

\* A file of the batch cannot be read: nothing is sent.
BatchUnreadable ==
    /\ InBatches
    /\ \E i \in BatchRange : source[i] = "path"
    /\ BatchFailed
    /\ UNCHANGED stored

\* The request failed for good; some attempt may have stored some blobs.
BatchUpdateFails(S) ==
    /\ InBatches
    /\ S \subseteq {i \in BatchRange : Intact(i)}
    /\ BatchFailed
    /\ stored' = stored \cup S

\* The server took the blobs in S, and says why it did not take the others.
BatchUpdateAnswers(S) ==
    /\ InBatches
    /\ S \subseteq {i \in BatchRange : Intact(i)}
    /\ stored' = stored \cup S
    /\ results' = Reporting(BatchRange \ S)
    /\ batch' = batch + 1
    /\ UNCHANGED <<inputs, pc, d>>

\* Mutant: the ByteStream loop goes over the whole list.
BatchesDone_WholeList ==
    /\ pc = "batches"
    /\ batch > Len(ends)
    /\ pc' = "single"
    /\ d' = 1
    /\ UNCHANGED <<inputs, batch, results, stored>>

\* What no batch covered is left to the ByteStream API.
BatchesDone ==
    /\ pc = "batches"
    /\ batch > Len(ends)
    /\ pc' = "single"
    /\ d' = IF ends = << >> THEN 1 ELSE ends[Len(ends)] + 1
    /\ UNCHANGED <<inputs, batch, results, stored>>

InSingle == pc = "single" /\ d <= NumRequests

UploadSucceeds ==
    /\ InSingle
    /\ Intact(d)
    /\ stored' = stored \cup {d}
    /\ d' = d + 1
    /\ UNCHANGED <<inputs, pc, batch, results>>

\* uploadRequest() throws a GrpcError, with the server's status, or another
\* runtime_error: the file cannot be opened or read, or ended early, or the
\* server committed another size.  The blob may have been stored all the same.
UploadFails(late) ==
    /\ InSingle
    /\ ~ WrongLength(d)
    /\ late => Intact(d)
    /\ stored' = IF late THEN stored \cup {d} ELSE stored
    /\ pc' = IF throw_on_error THEN "threw" ELSE pc
    /\ results' = IF throw_on_error THEN results ELSE Reporting({d})
    /\ d' = IF throw_on_error THEN d ELSE d + 1
    /\ UNCHANGED <<inputs, batch>>

\* upload(string) finds that the data has another size than the digest: a
\* logic_error, which is no runtime_error.
UploadRejects ==
    /\ InSingle
    /\ WrongLength(d)
    /\ pc' = "logic_error"
    /\ UNCHANGED <<inputs, batch, d, results, stored>>

Return ==
    /\ pc = "single"
    /\ d > NumRequests
    /\ pc' = "returned"
    /\ UNCHANGED <<inputs, batch, d, results, stored>>

Next ==
    \/ BatchUnreadable
    \/ \E S \in SUBSET Requests : BatchUpdateFails(S) \/ BatchUpdateAnswers(S)
    \/ BatchesDone
    \/ UploadSucceeds
    \/ \E late \in BOOLEAN : UploadFails(late)
    \/ UploadRejects
    \/ Return

\* Every request is answered or given up.
Spec == Init /\ [][Next]_vars /\ WF_vars(Next)

(***************************************************************************)
(* Properties.                                                             *)
(***************************************************************************)
Reported == {i \in Requests : results[i] > 0}

\* "An empty result indicates that all digests were uploaded" (client.h): what
\* uploadBlobs() does not report when it returns is stored, whichever of the
\* two ways it went and whatever failed before it.
NothingIsForgotten ==
    pc = "returned" => Requests \ Reported \subseteq stored

\* No request is reported twice: a request is in one batch, or after the last.
ReportedOnce ==
    \A i \in Requests : results[i] <= 1

\* Results come in the order of the list: what is still to be sent is neither
\* reported nor stored, so that an exception leaves it untouched.
FutureIsUntouched ==
    /\ pc = "batches" /\ batch <= Len(ends) =>
         \A i \in Reported \cup stored, j \in BatchRange : i < j
    /\ pc = "single" => \A i \in Reported \cup stored : i < d
=============================================================================
