------------------------- MODULE BlobTransfersProofs -------------------------
(* Proofs about the two halves of BlobTransfers, for any requests, any lists *)
(* of digests and any batches: uploadBlobs(), by the specification it has on *)
(* its own in UploadBlobs, then downloadBlobs(), as a part of BlobTransfers. *)
EXTENDS BlobTransfers, TLAPS

-----------------------------------------------------------------------------
(* uploadBlobs().                                                          *)

\* Everything up to n has been dealt with, and nothing beyond.
DoneUpTo(n) ==
    \A i \in Requests :
        /\ i <= n => i \in stored \/ results[i] > 0
        /\ i > n => i \notin stored /\ results[i] = 0

\* The requests in the batches before this one.
InEarlierBatches == IF batch = 1 THEN 0 ELSE ends[batch - 1]

\* The inductive invariant of an upload.
UploadInv ==
    /\ TypeOK
    /\ ReportedOnce
    /\ pc = "batches" => DoneUpTo(InEarlierBatches)
    /\ pc = "single" => DoneUpTo(d - 1)
    /\ pc = "returned" => DoneUpTo(NumRequests)

\* The ends of the ranges, as a sequence.
LEMMA BatchingsAreIncreasing ==
    ASSUME NEW e \in Batchings
    PROVE  /\ e \in Seq(Requests)
           /\ \A i, j \in 1 .. Len(e) : i < j => e[i] < e[j]
<1>1. PICK n \in 0 .. NumRequests : e \in [1 .. n -> Requests]
      BY DEF Batchings
<1>2. e \in Seq(Requests) /\ Len(e) = n
      BY <1>1
<1>. QED  BY <1>1, <1>2 DEF Batchings

\* The batch that is next starts after the earlier ones.
LEMMA RangeFollows ==
    ASSUME TypeOK, InBatches
    PROVE  /\ InEarlierBatches \in 0 .. NumRequests
           /\ ends[batch] \in Requests
           /\ InEarlierBatches < ends[batch]
           /\ BatchRange = InEarlierBatches + 1 .. ends[batch]
           /\ BatchRange \subseteq Requests
<1>1. ends \in Seq(Requests) /\ \A i, j \in 1 .. Len(ends) : i < j => ends[i] < ends[j]
      BY BatchingsAreIncreasing DEF TypeOK
<1>2. batch \in 1 .. Len(ends)
      BY <1>1 DEF TypeOK, InBatches
<1>3. ends[batch] \in Requests
      BY <1>1, <1>2
<1>4. CASE batch = 1
      BY <1>3, <1>4, NumRequestsAssumption DEF InEarlierBatches, BatchRange, Requests
<1>5. CASE batch # 1
  <2>1. batch - 1 \in 1 .. Len(ends) /\ ends[batch - 1] \in Requests
        BY <1>1, <1>2, <1>5
  <2>2. ends[batch - 1] < ends[batch]
        BY <1>1, <1>2, <2>1
  <2>. QED  BY <1>3, <1>5, <2>1, <2>2, NumRequestsAssumption
            DEF InEarlierBatches, BatchRange, Requests
<1>. QED  BY <1>4, <1>5

\* After this batch, the next one starts where it ended.
LEMMA NextBatch ==
    ASSUME TypeOK, InBatches, batch' = batch + 1, ends' = ends
    PROVE  batch' \in 1 .. Len(ends) + 1 /\ InEarlierBatches' = ends[batch]
<1>1. ends \in Seq(Requests)
      BY BatchingsAreIncreasing DEF TypeOK
<1>2. batch \in 1 .. Len(ends)
      BY <1>1 DEF TypeOK, InBatches
<1>. QED  BY <1>1, <1>2 DEF InEarlierBatches

LEMMA UploadInit == Init => UploadInv
<1>. SUFFICES ASSUME Init PROVE UploadInv
     OBVIOUS
<1>1. ends \in Seq(Requests)
      BY BatchingsAreIncreasing DEF Init
<1>2. TypeOK
      BY <1>1, NumRequestsAssumption DEF Init, TypeOK, Requests
<1>. QED  BY <1>2, NumRequestsAssumption
          DEF Init, UploadInv, ReportedOnce, DoneUpTo, InEarlierBatches, Requests

\* Results of requests that had none.
LEMMA ReportingNew ==
    ASSUME TypeOK, ReportedOnce,
           NEW S \in SUBSET Requests, \A i \in S : results[i] = 0,
           results' = Reporting(S)
    PROVE  /\ results' \in [Requests -> Nat]
           /\ ReportedOnce'
           /\ \A i \in S : results'[i] = 1
           /\ \A i \in Requests \ S : results'[i] = results[i]
BY DEF TypeOK, ReportedOnce, Reporting, Requests

\* The exception handler of the batch loop, whatever the server stored.
LEMMA BatchFailedStep ==
    ASSUME UploadInv, InBatches, BatchFailed,
           NEW S \in SUBSET BatchRange, stored' = stored \cup S
    PROVE  UploadInv'
<1>. USE DEF UploadInv, inputs
<1>1. /\ InEarlierBatches \in 0 .. NumRequests
      /\ ends[batch] \in Requests
      /\ InEarlierBatches < ends[batch]
      /\ BatchRange = InEarlierBatches + 1 .. ends[batch]
      /\ BatchRange \subseteq Requests
      BY RangeFollows
<1>2. DoneUpTo(InEarlierBatches) /\ pc = "batches"
      BY DEF InBatches
<1>3. stored' \subseteq Requests
      BY <1>1 DEF TypeOK
<1>4. CASE throw_on_error
      BY <1>3, <1>4 DEF BatchFailed, TypeOK, ReportedOnce
<1>5. CASE ~ throw_on_error
  <2>1. results' = Reporting(BatchRange) /\ batch' = batch + 1 /\ pc' = "batches"
        BY <1>2, <1>5 DEF BatchFailed
  <2>2. \A i \in BatchRange : results[i] = 0
        BY <1>1, <1>2, NumRequestsAssumption DEF DoneUpTo, Requests
  <2>3. /\ results' \in [Requests -> Nat]
        /\ ReportedOnce'
        /\ \A i \in BatchRange : results'[i] = 1
        /\ \A i \in Requests \ BatchRange : results'[i] = results[i]
        BY <1>1, <2>1, <2>2, ReportingNew
  <2>4. batch' \in 1 .. Len(ends) + 1 /\ InEarlierBatches' = ends[batch]
        BY <2>1, NextBatch DEF BatchFailed
  <2>5. TypeOK'
        BY <1>3, <2>1, <2>3, <2>4 DEF TypeOK, BatchFailed
  <2>6. DoneUpTo(InEarlierBatches)'
    <3>. SUFFICES ASSUME NEW i \in Requests
                  PROVE  /\ i <= ends[batch] => i \in stored' \/ results'[i] > 0
                         /\ i > ends[batch] => i \notin stored' /\ results'[i] = 0
         BY <2>4 DEF DoneUpTo
    <3>1. CASE i <= InEarlierBatches
          BY <1>1, <1>2, <2>3, <3>1, NumRequestsAssumption DEF DoneUpTo, Requests
    <3>2. CASE i \in BatchRange
          BY <1>1, <2>3, <3>2, NumRequestsAssumption DEF Requests
    <3>3. CASE i > ends[batch]
          BY <1>1, <1>2, <2>3, <3>3, NumRequestsAssumption DEF DoneUpTo, Requests
    <3>. QED  BY <1>1, <3>1, <3>2, <3>3, NumRequestsAssumption DEF Requests
  <2>. QED  BY <2>1, <2>3, <2>5, <2>6
<1>. QED  BY <1>4, <1>5

LEMMA AnswersStep ==
    ASSUME UploadInv, NEW S \in SUBSET Requests, BatchUpdateAnswers(S)
    PROVE  UploadInv'
<1>. USE DEF UploadInv, inputs
<1>0. InBatches /\ S \subseteq BatchRange
      BY DEF BatchUpdateAnswers
<1>1. /\ InEarlierBatches \in 0 .. NumRequests
      /\ ends[batch] \in Requests
      /\ InEarlierBatches < ends[batch]
      /\ BatchRange = InEarlierBatches + 1 .. ends[batch]
      /\ BatchRange \subseteq Requests
      BY <1>0, RangeFollows
<1>2. DoneUpTo(InEarlierBatches) /\ pc = "batches" /\ pc' = "batches"
      BY DEF InBatches, BatchUpdateAnswers
<1>3. \A i \in BatchRange \ S : results[i] = 0
      BY <1>1, <1>2, NumRequestsAssumption DEF DoneUpTo, Requests
<1>4. /\ results' \in [Requests -> Nat]
      /\ ReportedOnce'
      /\ \A i \in BatchRange \ S : results'[i] = 1
      /\ \A i \in Requests \ (BatchRange \ S) : results'[i] = results[i]
  <2>1. BatchRange \ S \in SUBSET Requests /\ results' = Reporting(BatchRange \ S)
        BY <1>1 DEF BatchUpdateAnswers
  <2>. QED  BY <1>3, <2>1, ReportingNew
<1>5. batch' \in 1 .. Len(ends) + 1 /\ InEarlierBatches' = ends[batch]
      BY <1>0, NextBatch DEF BatchUpdateAnswers
<1>6. TypeOK'
      BY <1>0, <1>1, <1>2, <1>4, <1>5 DEF TypeOK, BatchUpdateAnswers
<1>7. DoneUpTo(InEarlierBatches)'
  <2>. SUFFICES ASSUME NEW i \in Requests
                PROVE  /\ i <= ends[batch] => i \in stored' \/ results'[i] > 0
                       /\ i > ends[batch] => i \notin stored' /\ results'[i] = 0
       BY <1>5 DEF DoneUpTo
  <2>0. stored' = stored \cup S
        BY DEF BatchUpdateAnswers
  <2>1. CASE i <= InEarlierBatches
        BY <1>1, <1>2, <1>4, <2>0, <2>1, NumRequestsAssumption DEF DoneUpTo, Requests
  <2>2. CASE i \in BatchRange
        BY <1>1, <1>4, <2>0, <2>2, NumRequestsAssumption DEF Requests
  <2>3. CASE i > ends[batch]
        BY <1>0, <1>1, <1>2, <1>4, <2>0, <2>3, NumRequestsAssumption DEF DoneUpTo, Requests
  <2>. QED  BY <1>1, <2>1, <2>2, <2>3, NumRequestsAssumption DEF Requests
<1>. QED  BY <1>2, <1>4, <1>6, <1>7

LEMMA BatchesDoneStep ==
    ASSUME UploadInv, BatchesDone
    PROVE  UploadInv'
<1>. USE DEF UploadInv, inputs, BatchesDone
<1>1. ends \in Seq(Requests) /\ batch = Len(ends) + 1
      BY BatchingsAreIncreasing DEF TypeOK
<1>2. d' = InEarlierBatches + 1
      BY <1>1 DEF InEarlierBatches
<1>3. InEarlierBatches \in 0 .. NumRequests
      BY <1>1, NumRequestsAssumption DEF InEarlierBatches, Requests
<1>4. TypeOK' /\ ReportedOnce'
      BY <1>2, <1>3, NumRequestsAssumption DEF TypeOK, ReportedOnce
<1>5. DoneUpTo(d - 1)'
      BY <1>2, <1>3 DEF DoneUpTo
<1>. QED  BY <1>4, <1>5

\* A turn of the ByteStream loop: request d is stored or reported, or both.
LEMMA SingleStep ==
    ASSUME UploadInv, InSingle, d' = d + 1, pc' = pc, UNCHANGED <<inputs, batch>>,
           stored' \in {stored, stored \cup {d}},
           \/ stored' = stored \cup {d} /\ results' = results
           \/ results' = Reporting({d})
    PROVE  UploadInv'
<1>. USE DEF UploadInv, inputs
<1>1. d \in Requests /\ pc = "single" /\ DoneUpTo(d - 1)
      BY NumRequestsAssumption DEF InSingle, TypeOK, Requests
<1>2. results[d] = 0
      BY <1>1, NumRequestsAssumption DEF DoneUpTo, Requests
<1>3. /\ results' \in [Requests -> Nat]
      /\ ReportedOnce'
      /\ \A i \in Requests \ {d} : results'[i] = results[i]
      /\ d \in stored' \/ results'[d] = 1
  <2>1. CASE stored' = stored \cup {d} /\ results' = results
        BY <2>1 DEF TypeOK, ReportedOnce
  <2>2. CASE results' = Reporting({d})
    <3>1. {d} \in SUBSET Requests /\ \A i \in {d} : results[i] = 0
          BY <1>1, <1>2
    <3>. QED  BY <2>2, <3>1, ReportingNew
  <2>. QED  BY <2>1, <2>2
<1>4. TypeOK'
      BY <1>1, <1>3, NumRequestsAssumption DEF TypeOK, Requests
<1>5. DoneUpTo(d - 1)'
      BY <1>1, <1>3, NumRequestsAssumption DEF DoneUpTo, Requests
<1>. QED  BY <1>1, <1>3, <1>4, <1>5

\* UploadInv is inductive.
LEMMA UploadStep == UploadInv /\ [Next]_vars => UploadInv'
<1>. SUFFICES ASSUME UploadInv, [Next]_vars PROVE UploadInv'
     OBVIOUS
<1>1. CASE BatchUnreadable
  <2>1. stored' = stored \cup {} /\ {} \in SUBSET BatchRange
        BY <1>1 DEF BatchUnreadable
  <2>. QED  BY <1>1, <2>1, BatchFailedStep DEF BatchUnreadable
<1>2. ASSUME NEW S \in SUBSET Requests, BatchUpdateFails(S) PROVE UploadInv'
  <2>1. S \in SUBSET BatchRange
        BY <1>2 DEF BatchUpdateFails
  <2>. QED  BY <1>2, <2>1, BatchFailedStep DEF BatchUpdateFails
<1>3. ASSUME NEW S \in SUBSET Requests, BatchUpdateAnswers(S) PROVE UploadInv'
      BY <1>3, AnswersStep
<1>4. CASE BatchesDone
      BY <1>4, BatchesDoneStep
<1>5. CASE UploadSucceeds
      BY <1>5, SingleStep DEF UploadSucceeds
<1>6. ASSUME NEW late \in BOOLEAN, UploadFails(late) PROVE UploadInv'
  <2>0. stored' \in {stored, stored \cup {d}}
        BY <1>6 DEF UploadFails
  <2>1. CASE throw_on_error
    <3>1. pc' = "threw" /\ stored' \subseteq Requests
          BY <1>6, <2>0, <2>1, NumRequestsAssumption
          DEF UploadFails, InSingle, UploadInv, TypeOK, Requests
    <3>. QED  BY <1>6, <2>1, <3>1 DEF UploadFails, UploadInv, TypeOK, ReportedOnce, inputs
  <2>2. CASE ~ throw_on_error
        BY <1>6, <2>0, <2>2, SingleStep DEF UploadFails
  <2>. QED  BY <2>1, <2>2
<1>7. CASE UploadRejects
      BY <1>7 DEF UploadRejects, UploadInv, TypeOK, ReportedOnce, inputs
<1>8. CASE Return
  <2>1. d = NumRequests + 1 /\ pc' = "returned" /\ DoneUpTo(d - 1)
        BY <1>8, NumRequestsAssumption DEF Return, UploadInv, TypeOK
  <2>2. TypeOK' /\ ReportedOnce'
        BY <1>8 DEF Return, UploadInv, TypeOK, ReportedOnce, inputs
  <2>3. DoneUpTo(NumRequests)'
        BY <1>8, <2>1, NumRequestsAssumption DEF Return, DoneUpTo
  <2>. QED  BY <2>1, <2>2, <2>3 DEF UploadInv
<1>9. CASE UNCHANGED vars
      BY <1>9 DEF vars, UploadInv, TypeOK, ReportedOnce, DoneUpTo, InEarlierBatches
<1>. QED  BY <1>1, <1>2, <1>3, <1>4, <1>5, <1>6, <1>7, <1>8, <1>9 DEF Next

\* uploadBlobs() keeps the inductive invariant.
THEOREM UploadInvariance == Spec => []UploadInv
BY UploadInit, UploadStep, PTL DEF Spec

\* The type invariant, for every list of requests.
THEOREM UploadTypeCorrect == Spec => []TypeOK
<1>1. UploadInv => TypeOK
      BY DEF UploadInv
<1>. QED  BY <1>1, UploadInvariance, PTL

\* What uploadBlobs() does not report when it returns, the server has.
THEOREM Unreported == Spec => []NothingIsForgotten
<1>1. UploadInv => NothingIsForgotten
      BY NumRequestsAssumption
      DEF UploadInv, NothingIsForgotten, DoneUpTo, Reported, Requests
<1>. QED  BY <1>1, UploadInvariance, PTL

\* No request is reported twice.
THEOREM Once == Spec => []ReportedOnce
<1>1. UploadInv => ReportedOnce
      BY DEF UploadInv
<1>. QED  BY <1>1, UploadInvariance, PTL

\* What is still to be sent is neither reported nor stored.
THEOREM Untouched == Spec => []FutureIsUntouched
<1>1. ASSUME UploadInv PROVE FutureIsUntouched
  <2>1. CASE InBatches
    <3>1. DoneUpTo(InEarlierBatches) /\ pc = "batches"
          BY <1>1, <2>1 DEF UploadInv, InBatches
    <3>2. /\ InEarlierBatches \in 0 .. NumRequests
          /\ BatchRange = InEarlierBatches + 1 .. ends[batch]
          /\ ends[batch] \in Requests
          BY <1>1, <2>1, RangeFollows DEF UploadInv
    <3>3. \A i \in Reported \cup stored : i \in Requests /\ i <= InEarlierBatches
          BY <1>1, <3>1, <3>2, NumRequestsAssumption DEF UploadInv, TypeOK, DoneUpTo, Reported, Requests
    <3>. QED  BY <3>1, <3>2, <3>3, NumRequestsAssumption DEF FutureIsUntouched, Requests
  <2>2. CASE pc = "single"
        BY <1>1, <2>2, NumRequestsAssumption
        DEF UploadInv, TypeOK, DoneUpTo, Reported, Requests, FutureIsUntouched
  <2>. QED  BY <2>1, <2>2 DEF FutureIsUntouched, InBatches
<1>. QED  BY <1>1, UploadInvariance, PTL

-----------------------------------------------------------------------------
(* downloadBlobs().                                                        *)

\* The digests at the first n positions, and at those from m to n.
Between(m, n) == {request_list[i] : i \in m .. n}
Before(n) == Between(1, n)

\* The digests at the first n positions have a status, and no others have.
Covered(n) == Before(n) \subseteq written \cup download_results.failed
Within(n) == written \subseteq Before(n) /\ download_results.failed \subseteq Before(n)

\* In the middle of a batch: the statuses of its first responses are in
\* batch_results, while their blobs were written already.
ResponsesInv ==
    /\ range <= Len(ranges)
    /\ next \in D!BatchStart .. ranges[range] + 1
    /\ Covered(D!BatchStart - 1)
    /\ Between(D!BatchStart, next - 1) \subseteq written \cup batch_results.failed
    /\ written \subseteq Before(next - 1)
    /\ download_results.failed \subseteq Before(D!BatchStart - 1)
    /\ batch_results.failed \subseteq Before(next - 1)
    /\ mode = "data" /\ D!NoDuplicates => batch_results.failed \cap written = {}

\* The inductive invariant of a download.
DownloadInv ==
    /\ D!TypeOK
    /\ D!OkMeansIntact
    /\ batch_results.OK \subseteq written
    /\ rpc = "batches" => Covered(D!BatchStart - 1) /\ Within(D!BatchStart - 1)
    /\ rpc = "responses" => ResponsesInv
    /\ rpc = "single" => Covered(next - 1) /\ Within(next - 1)
    /\ rpc = "returned" => Covered(Len(request_list))

\* The list asked for, as a sequence.
LEMMA ListFacts ==
    ASSUME D!TypeOK
    PROVE  /\ request_list \in Seq(Digests)
           /\ Len(request_list) \in Nat
           /\ \A i \in 1 .. Len(request_list) : request_list[i] \in D!Requested
           /\ \A m \in Nat, n \in 0 .. Len(request_list) :
                m > 0 => Between(m, n) \subseteq D!Requested
<1>1. request_list \in Seq(Digests)
      BY DownloadAssumption DEF D!TypeOK
<1>. QED  BY <1>1 DEF D!Requested, D!Positions, Between

\* The ends of the ranges, as a sequence.
LEMMA RangesIncrease ==
    ASSUME D!TypeOK
    PROVE  /\ ranges \in Seq(1 .. Len(request_list))
           /\ \A i, j \in 1 .. Len(ranges) : i < j => ranges[i] < ranges[j]
           /\ range \in 1 .. Len(ranges) + 1
<1>1. PICK k \in 0 .. Len(request_list) : ranges \in [1 .. k -> 1 .. Len(request_list)]
      BY DEF D!TypeOK, D!Batchings
<1>2. ranges \in Seq(1 .. Len(request_list)) /\ Len(ranges) = k
      BY <1>1, ListFacts
<1>. QED  BY <1>1, <1>2 DEF D!TypeOK, D!Batchings

\* The batch that is next starts after the earlier ones.
LEMMA StartOfBatch ==
    ASSUME D!TypeOK
    PROVE  /\ D!BatchStart - 1 \in 0 .. Len(request_list)
           /\ D!BatchStart \in Nat \ {0}
           /\ range <= Len(ranges) =>
                /\ ranges[range] \in 1 .. Len(request_list)
                /\ D!BatchStart <= ranges[range]
<1>1. Len(request_list) \in Nat
      BY ListFacts
<1>2. Len(ranges) \in Nat /\ range \in 1 .. Len(ranges) + 1
      BY RangesIncrease
<1>3. \A i \in 1 .. Len(ranges) : ranges[i] \in 1 .. Len(request_list)
      BY RangesIncrease
<1>4. CASE range = 1
      BY <1>1, <1>2, <1>3, <1>4 DEF D!BatchStart
<1>5. CASE range # 1
  <2>1. range - 1 \in 1 .. Len(ranges)
        BY <1>2, <1>5
  <2>2. range <= Len(ranges) => ranges[range - 1] < ranges[range]
        BY <1>2, <2>1, RangesIncrease
  <2>. QED  BY <1>1, <1>2, <1>3, <1>5, <2>1, <2>2 DEF D!BatchStart
<1>. QED  BY <1>4, <1>5

\* After this batch, the next one starts where it ended.
LEMMA NextStart ==
    ASSUME D!TypeOK, range <= Len(ranges), range' = range + 1, UNCHANGED ranges
    PROVE  range' \in 1 .. Len(ranges) + 1 /\ (D!BatchStart)' = ranges[range] + 1
BY RangesIncrease DEF D!BatchStart

\* Lengthening a part of the list.
LEMMA BetweenFacts ==
    ASSUME D!TypeOK, NEW m \in Nat \ {0}, NEW k \in Nat, NEW n \in 0 .. Len(request_list),
           m - 1 <= k, k <= n
    PROVE  /\ Before(n) = Before(m - 1) \cup Between(m, n)
           /\ Before(k) \subseteq Before(n)
           /\ Between(m, n) \subseteq Before(n)
           /\ k < n => Between(m, k + 1) = Between(m, k) \cup {request_list[k + 1]}
           /\ Between(m, m - 1) = {}
BY ListFacts DEF Before, Between

\* If no digest comes twice, two parts of the list have none in common.
LEMMA PartsAreDisjoint ==
    ASSUME D!TypeOK, D!NoDuplicates,
           NEW m \in Nat \ {0}, NEW n \in 0 .. Len(request_list)
    PROVE  Between(m, n) \cap Before(m - 1) = {}
<1>. SUFFICES ASSUME NEW i \in m .. n, NEW j \in 1 .. m - 1, request_list[i] = request_list[j]
              PROVE  FALSE
     BY DEF Before, Between
<1>1. CASE m <= n
  <2>1. i \in D!Positions /\ j \in D!Positions /\ i # j
        BY <1>1, ListFacts DEF D!Positions
  <2>. QED  BY <2>1 DEF D!NoDuplicates
<1>. QED  BY <1>1, ListFacts

LEMMA DownloadInit == ASSUME D!Init PROVE DownloadInv
<1>1. Len(request_list) \in Nat
      BY DownloadAssumption DEF D!Init
<1>2. ranges \in Seq(1 .. Len(request_list))
  <2>1. PICK k \in 0 .. Len(request_list) : ranges \in [1 .. k -> 1 .. Len(request_list)]
        BY DEF D!Init, D!Batchings
  <2>. QED  BY <1>1, <2>1
<1>3. D!TypeOK
      BY <1>1, <1>2 DEF D!Init, D!TypeOK, D!Results, D!NoResults
<1>4. D!BatchStart = 1 /\ Before(0) = {}
      BY DEF D!Init, D!BatchStart, Before, Between
<1>. QED  BY <1>3, <1>4
          DEF D!Init, D!NoResults, D!OkMeansIntact, DownloadInv, Covered, Within

\* Writing the blob at position next: what a failed write leaves behind is not
\* among the blobs that were written before, if no digest comes twice.
LEMMA DestStaysIntact ==
    ASSUME DownloadInv, UNCHANGED <<mode, request_list>>,
           next \in 1 .. Len(request_list), written \subseteq Before(next - 1),
           \/ dest' = [dest EXCEPT ![D!Digest] = "intact"] /\ written' = written \cup {D!Digest}
           \/ D!WriteDamages(D!Digest) /\ UNCHANGED written
    PROVE  /\ dest' \in [D!Requested -> {"absent", "intact", "damaged"}]
           /\ written' \subseteq D!Requested
           /\ D!NoDuplicates => \A x \in D!Requested : x \in written' => dest'[x] = "intact"
<1>. USE DEF DownloadInv, D!TypeOK
<1>1. D!Digest \in D!Requested /\ D!Digest = request_list[next]
      BY ListFacts DEF D!Digest
<1>2. D!NoDuplicates => \A x \in D!Requested : x \in written => dest[x] = "intact"
      BY DEF D!OkMeansIntact
<1>3. CASE dest' = [dest EXCEPT ![D!Digest] = "intact"] /\ written' = written \cup {D!Digest}
      BY <1>1, <1>2, <1>3
<1>4. CASE D!WriteDamages(D!Digest) /\ UNCHANGED written
  <2>1. D!NoDuplicates => D!Digest \notin Before(next - 1)
        BY <1>1, ListFacts DEF D!NoDuplicates, D!Positions, Before, Between
  <2>. QED  BY <1>1, <1>2, <1>4, <2>1 DEF D!WriteDamages
<1>. QED  BY <1>3, <1>4

\* The exception handler of the batch loop, before or in the middle of the
\* responses.  A blob written from this batch keeps its entry; only a form that
\* writes files gets here with one.
LEMMA BatchBreaksOff ==
    ASSUME DownloadInv, D!BatchFailed, range <= Len(ranges), UNCHANGED written,
           rpc \in {"batches", "responses"},
           Covered(D!BatchStart - 1),
           written \subseteq Before(ranges[range]),
           download_results.failed \subseteq Before(ranges[range]),
           mode = "data" => Within(D!BatchStart - 1),
           dest' \in [D!Requested -> {"absent", "intact", "damaged"}],
           D!NoDuplicates => \A x \in D!Requested : x \in written => dest'[x] = "intact"
    PROVE  DownloadInv'
<1>. USE DEF DownloadInv, D!inputs
<1>1. /\ D!BatchStart - 1 \in 0 .. Len(request_list)
      /\ D!BatchStart \in Nat \ {0}
      /\ ranges[range] \in 1 .. Len(request_list)
      /\ D!BatchStart <= ranges[range]
      BY StartOfBatch
<1>2. /\ UNCHANGED <<mode, request_list, ranges, next, batch_results, written>>
      /\ D!Requested' = D!Requested /\ D!NoDuplicates' = D!NoDuplicates
      BY DEF D!BatchFailed, D!Requested, D!Positions, D!NoDuplicates
<1>3. CASE D!throw_on_error
  <2>1. rpc' = "threw" /\ UNCHANGED <<range, download_results>>
        BY <1>3 DEF D!BatchFailed
  <2>2. D!TypeOK'
        BY <1>2, <2>1 DEF D!TypeOK, D!Results
  <2>3. D!OkMeansIntact'
        BY <1>2, <2>1 DEF D!OkMeansIntact
  <2>. QED  BY <1>2, <2>1, <2>2, <2>3
<1>4. CASE ~ D!throw_on_error
  <2>1. /\ rpc' = "batches" /\ range' = range + 1
        /\ download_results' = D!Merge(download_results, D!FailedResults(D!BatchDigests))
        BY <1>4 DEF D!BatchFailed
  <2>2. range' \in 1 .. Len(ranges) + 1 /\ (D!BatchStart)' = ranges[range] + 1
        BY <1>2, <2>1, NextStart
  <2>3. /\ download_results'.OK = download_results.OK
        /\ download_results'.failed =
             download_results.failed \cup Between(D!BatchStart, ranges[range])
        BY <2>1 DEF D!Merge, D!FailedResults, D!BatchDigests, Between
  <2>4. Between(D!BatchStart, ranges[range]) \subseteq D!Requested
        BY <1>1, ListFacts
  <2>5. download_results' \in D!Results
    <3>1. download_results \in D!Results
          BY DEF D!TypeOK
    <3>. QED  BY <2>1, <2>4, <3>1
              DEF D!Merge, D!FailedResults, D!BatchDigests, Between, D!Results
  <2>6. D!TypeOK'
        BY <1>2, <2>1, <2>2, <2>5 DEF D!TypeOK, D!Results
  <2>7. Before(ranges[range]) =
          Before(D!BatchStart - 1) \cup Between(D!BatchStart, ranges[range])
        BY <1>1, BetweenFacts
  <2>8. (Covered(D!BatchStart - 1) /\ Within(D!BatchStart - 1))'
    <3>1. Before(D!BatchStart - 1)' = Before(ranges[range])
          BY <1>1, <1>2, <2>2 DEF Before, Between
    <3>. QED  BY <1>2, <2>3, <2>7, <3>1 DEF Covered, Within
  <2>9. D!OkMeansIntact'
    <3>1. mode = "data" /\ D!NoDuplicates =>
            Between(D!BatchStart, ranges[range]) \cap Before(D!BatchStart - 1) = {}
          BY <1>1, PartsAreDisjoint
    <3>. QED  BY <1>2, <2>3, <3>1 DEF D!OkMeansIntact, Within
  <2>. QED  BY <1>2, <2>1, <2>6, <2>8, <2>9
<1>. QED  BY <1>3, <1>4

LEMMA BatchReadFailsStep ==
    ASSUME DownloadInv, D!BatchReadFails
    PROVE  DownloadInv'
<1>. USE DEF DownloadInv
<1>1. /\ D!BatchFailed /\ range <= Len(ranges) /\ rpc = "batches"
      /\ UNCHANGED <<written, dest>>
      BY DEF D!BatchReadFails, D!InBatches
<1>2. Before(D!BatchStart - 1) \subseteq Before(ranges[range])
      BY <1>1, StartOfBatch, BetweenFacts
<1>3. /\ dest' \in [D!Requested -> {"absent", "intact", "damaged"}]
      /\ D!NoDuplicates => \A x \in D!Requested : x \in written => dest'[x] = "intact"
      BY <1>1 DEF D!TypeOK, D!OkMeansIntact
<1>. QED  BY <1>1, <1>2, <1>3, BatchBreaksOff DEF Within

LEMMA BatchReadAnswersStep ==
    ASSUME DownloadInv, D!BatchReadAnswers
    PROVE  DownloadInv'
<1>. USE DEF DownloadInv, D!inputs
<1>1. /\ range <= Len(ranges) /\ rpc = "batches" /\ rpc' = "responses"
      /\ next' = D!BatchStart /\ batch_results' = D!NoResults
      /\ UNCHANGED <<mode, request_list, ranges, range, download_results, written, dest>>
      BY DEF D!BatchReadAnswers, D!InBatches
<1>2. /\ D!BatchStart - 1 \in 0 .. Len(request_list) /\ D!BatchStart \in Nat \ {0}
      /\ ranges[range] \in 1 .. Len(request_list) /\ D!BatchStart <= ranges[range]
      BY <1>1, StartOfBatch
<1>3. /\ D!BatchStart' = D!BatchStart /\ D!Requested' = D!Requested
      /\ D!NoDuplicates' = D!NoDuplicates
      BY <1>1 DEF D!BatchStart, D!Requested, D!Positions, D!NoDuplicates
<1>4. D!TypeOK'
      BY <1>1, <1>2, <1>3, ListFacts DEF D!TypeOK, D!Results, D!NoResults
<1>5. D!OkMeansIntact'
      BY <1>1, <1>3 DEF D!OkMeansIntact
<1>6. ResponsesInv'
  <2>1. Between(D!BatchStart, next - 1)' = {}
        BY <1>1, <1>2, <1>3 DEF Between
  <2>2. Before(D!BatchStart - 1)' = Before(D!BatchStart - 1)
        BY <1>1, <1>3 DEF Before, Between
  <2>3. Before(next - 1)' = Before(D!BatchStart - 1)
        BY <1>1 DEF Before, Between
  <2>. QED  BY <1>1, <1>2, <1>3, <2>1, <2>2, <2>3
            DEF ResponsesInv, Covered, Within, D!NoResults
<1>. QED  BY <1>1, <1>4, <1>5, <1>6 DEF D!NoResults

\* Where the next response is.
LEMMA InResponsesFacts ==
    ASSUME DownloadInv, D!InResponses
    PROVE  /\ rpc = "responses" /\ ResponsesInv /\ range <= Len(ranges)
           /\ D!BatchStart \in Nat \ {0} /\ ranges[range] \in 1 .. Len(request_list)
           /\ next \in D!BatchStart .. ranges[range] /\ next \in 1 .. Len(request_list)
           /\ D!Digest = request_list[next] /\ D!Digest \in D!Requested
           /\ Before(next) = Before(next - 1) \cup {D!Digest}
           /\ Between(D!BatchStart, next) = Between(D!BatchStart, next - 1) \cup {D!Digest}
           /\ Before(next - 1) \subseteq Before(ranges[range])
           /\ Before(D!BatchStart - 1) \subseteq Before(next - 1)
           /\ D!NoDuplicates => D!Digest \notin Before(next - 1)
<1>. USE DEF DownloadInv
<1>1. rpc = "responses" /\ ResponsesInv /\ range <= Len(ranges) /\ next <= ranges[range]
      BY DEF D!InResponses, ResponsesInv
<1>2. /\ D!BatchStart - 1 \in 0 .. Len(request_list) /\ D!BatchStart \in Nat \ {0}
      /\ ranges[range] \in 1 .. Len(request_list) /\ D!BatchStart <= ranges[range]
      BY <1>1, StartOfBatch
<1>3. Len(request_list) \in Nat
      BY ListFacts
<1>4. next \in D!BatchStart .. ranges[range] /\ next \in 1 .. Len(request_list)
      BY <1>1, <1>2, <1>3 DEF ResponsesInv
<1>5. D!Digest = request_list[next] /\ D!Digest \in D!Requested
      BY <1>4, ListFacts DEF D!Digest
<1>6. Between(D!BatchStart, next) = Between(D!BatchStart, next - 1) \cup {D!Digest}
      BY <1>2, <1>3, <1>4, <1>5 DEF Between
<1>7. Before(next) = Before(next - 1) \cup {D!Digest}
      BY <1>3, <1>4, <1>5 DEF Before, Between
<1>8. /\ Before(next - 1) \subseteq Before(ranges[range])
      /\ Before(D!BatchStart - 1) \subseteq Before(next - 1)
      BY <1>2, <1>3, <1>4 DEF Before, Between
<1>9. D!NoDuplicates => D!Digest \notin Before(next - 1)
      BY <1>3, <1>4, <1>5 DEF D!NoDuplicates, D!Positions, Before, Between
<1>. QED  BY <1>1, <1>2, <1>4, <1>5, <1>6, <1>7, <1>8, <1>9

LEMMA ResponseStep ==
    ASSUME DownloadInv, D!ResponseOk \/ D!ResponseBad
    PROVE  DownloadInv'
<1>. USE DEF DownloadInv, D!inputs
<1>1. /\ D!InResponses /\ next' = next + 1
      /\ UNCHANGED <<mode, request_list, ranges, rpc, range, download_results>>
      BY DEF D!ResponseOk, D!ResponseBad
<1>2. /\ rpc = "responses" /\ ResponsesInv /\ range <= Len(ranges)
      /\ D!BatchStart \in Nat \ {0} /\ ranges[range] \in 1 .. Len(request_list)
      /\ next \in D!BatchStart .. ranges[range] /\ next \in 1 .. Len(request_list)
      /\ D!Digest \in D!Requested
      /\ Before(next) = Before(next - 1) \cup {D!Digest}
      /\ Between(D!BatchStart, next) = Between(D!BatchStart, next - 1) \cup {D!Digest}
      /\ Before(D!BatchStart - 1) \subseteq Before(next - 1)
      /\ D!NoDuplicates => D!Digest \notin Before(next - 1)
      BY <1>1, InResponsesFacts
<1>3. /\ D!BatchStart' = D!BatchStart /\ D!Requested' = D!Requested
      /\ D!NoDuplicates' = D!NoDuplicates
      BY <1>1 DEF D!BatchStart, D!Requested, D!Positions, D!NoDuplicates
<1>4. /\ Before(next - 1)' = Before(next)
      /\ Between(D!BatchStart, next - 1)' = Between(D!BatchStart, next)
      /\ Before(D!BatchStart - 1)' = Before(D!BatchStart - 1)
      BY <1>1, <1>2, <1>3 DEF Before, Between
<1>5. written \subseteq Before(next - 1) /\ batch_results.failed \subseteq Before(next - 1)
      BY <1>2 DEF ResponsesInv
<1>6. batch_results \in D!Results
      BY DEF D!TypeOK
<1>7. next' \in 1 .. Len(request_list) + 1 /\ next' \in D!BatchStart .. ranges[range] + 1
      BY <1>1, <1>2
<1>8. /\ batch_results' \in D!Results
      /\ dest' \in [D!Requested -> {"absent", "intact", "damaged"}]
      /\ written' \subseteq D!Requested
      /\ D!NoDuplicates => \A x \in D!Requested : x \in written' => dest'[x] = "intact"
      /\ written \subseteq written' /\ written' \subseteq Before(next)
      /\ batch_results'.OK \subseteq written'
      /\ batch_results'.failed \subseteq Before(next)
      /\ Between(D!BatchStart, next) \subseteq written' \cup batch_results'.failed
      /\ mode = "data" /\ D!NoDuplicates =>
           batch_results'.failed \cap written' = {} /\ download_results.failed \cap written' = {}
  <2>1. CASE D!ResponseOk
    <3>1. /\ dest' = [dest EXCEPT ![D!Digest] = "intact"] /\ written' = written \cup {D!Digest}
          /\ batch_results' = D!Merge(batch_results, D!OkResult(D!Digest))
          BY <2>1 DEF D!ResponseOk
    <3>2. /\ dest' \in [D!Requested -> {"absent", "intact", "damaged"}]
          /\ written' \subseteq D!Requested
          /\ D!NoDuplicates => \A x \in D!Requested : x \in written' => dest'[x] = "intact"
          BY <1>1, <1>2, <1>5, <3>1, DestStaysIntact
    <3>3. /\ batch_results'.OK = batch_results.OK \cup {D!Digest}
          /\ batch_results'.failed = batch_results.failed
          /\ batch_results' \in D!Results
          BY <1>2, <1>6, <3>1 DEF D!Merge, D!OkResult, D!Results
    <3>. QED  BY <1>2, <1>5, <3>1, <3>2, <3>3 DEF ResponsesInv, D!OkMeansIntact
  <2>2. CASE D!ResponseBad
    <3>1. /\ UNCHANGED <<dest, written>>
          /\ batch_results' = D!Merge(batch_results, D!FailedResults({D!Digest}))
          BY <2>2 DEF D!ResponseBad
    <3>2. /\ batch_results'.OK = batch_results.OK
          /\ batch_results'.failed = batch_results.failed \cup {D!Digest}
          /\ batch_results' \in D!Results
          BY <1>2, <1>6, <3>1 DEF D!Merge, D!FailedResults, D!Results
    <3>3. /\ dest' \in [D!Requested -> {"absent", "intact", "damaged"}]
          /\ written' \subseteq D!Requested
          /\ D!NoDuplicates => \A x \in D!Requested : x \in written' => dest'[x] = "intact"
          BY <3>1 DEF D!TypeOK, D!OkMeansIntact
    <3>4. mode = "data" /\ D!NoDuplicates =>
            batch_results'.failed \cap written' = {} /\ download_results.failed \cap written' = {}
          BY <1>2, <1>5, <3>1, <3>2 DEF ResponsesInv, D!OkMeansIntact
    <3>. QED  BY <1>2, <1>5, <3>1, <3>2, <3>3, <3>4 DEF ResponsesInv
  <2>. QED  BY <2>1, <2>2
<1>9. D!TypeOK'
      BY <1>1, <1>3, <1>7, <1>8 DEF D!TypeOK, D!Results
<1>10. D!OkMeansIntact'
      BY <1>1, <1>3, <1>8 DEF D!OkMeansIntact
<1>11. ResponsesInv'
      BY <1>1, <1>2, <1>3, <1>4, <1>7, <1>8 DEF ResponsesInv, Covered
<1>. QED  BY <1>1, <1>2, <1>8, <1>9, <1>10, <1>11

LEMMA ResponseNotWrittenStep ==
    ASSUME DownloadInv, D!ResponseNotWritten
    PROVE  DownloadInv'
<1>. USE DEF DownloadInv
<1>1. /\ D!InResponses /\ D!BatchFailed /\ D!WriteDamages(D!Digest) /\ UNCHANGED written
      /\ UNCHANGED <<mode, request_list>>
      BY DEF D!ResponseNotWritten, D!BatchFailed, D!inputs
<1>2. /\ rpc = "responses" /\ ResponsesInv /\ range <= Len(ranges)
      /\ next \in 1 .. Len(request_list)
      /\ Before(next - 1) \subseteq Before(ranges[range])
      /\ Before(D!BatchStart - 1) \subseteq Before(next - 1)
      BY <1>1, InResponsesFacts
<1>3. written \subseteq Before(next - 1) /\ download_results.failed \subseteq Before(next - 1)
      BY <1>2 DEF ResponsesInv
<1>4. /\ dest' \in [D!Requested -> {"absent", "intact", "damaged"}]
      /\ D!NoDuplicates => \A x \in D!Requested : x \in written => dest'[x] = "intact"
      BY <1>1, <1>2, <1>3, DestStaysIntact
<1>5. mode # "data"
      BY <1>1 DEF D!WriteDamages
<1>. QED  BY <1>1, <1>2, <1>3, <1>4, <1>5, BatchBreaksOff DEF ResponsesInv

\* The statuses of the batch join the others only when all of it was answered.
LEMMA BatchReturnsStep ==
    ASSUME DownloadInv, D!BatchReturns
    PROVE  DownloadInv'
<1>. USE DEF DownloadInv, D!inputs
<1>1. /\ rpc = "responses" /\ rpc' = "batches" /\ next > ranges[range] /\ range' = range + 1
      /\ download_results' = D!Merge(download_results, batch_results)
      /\ UNCHANGED <<mode, request_list, ranges, next, batch_results, written, dest>>
      BY DEF D!BatchReturns
<1>2. ResponsesInv /\ range <= Len(ranges)
      BY <1>1 DEF ResponsesInv
<1>3. /\ D!BatchStart - 1 \in 0 .. Len(request_list) /\ D!BatchStart \in Nat \ {0}
      /\ ranges[range] \in 1 .. Len(request_list) /\ D!BatchStart <= ranges[range]
      BY <1>2, StartOfBatch
<1>4. next - 1 = ranges[range]
      BY <1>1, <1>2, <1>3, ListFacts DEF ResponsesInv
<1>5. range' \in 1 .. Len(ranges) + 1 /\ D!BatchStart' = ranges[range] + 1
      BY <1>1, <1>2, NextStart
<1>6. D!Requested' = D!Requested /\ D!NoDuplicates' = D!NoDuplicates
      BY <1>1 DEF D!Requested, D!Positions, D!NoDuplicates
<1>7. /\ download_results' \in D!Results
      /\ download_results'.OK = download_results.OK \cup batch_results.OK
      /\ download_results'.failed = download_results.failed \cup batch_results.failed
      BY <1>1 DEF D!TypeOK, D!Merge, D!Results
<1>8. D!TypeOK'
      BY <1>1, <1>5, <1>6, <1>7 DEF D!TypeOK, D!Results
<1>9. D!OkMeansIntact'
      BY <1>1, <1>2, <1>6, <1>7 DEF D!OkMeansIntact, ResponsesInv
<1>10. (Covered(D!BatchStart - 1) /\ Within(D!BatchStart - 1))'
  <2>1. Before(D!BatchStart - 1)' = Before(next - 1)
        BY <1>1, <1>3, <1>4, <1>5 DEF Before, Between
  <2>2. /\ Before(next - 1) = Before(D!BatchStart - 1) \cup Between(D!BatchStart, next - 1)
        /\ Before(D!BatchStart - 1) \subseteq Before(next - 1)
        BY <1>3, <1>4, BetweenFacts
  <2>. QED  BY <1>1, <1>2, <1>7, <2>1, <2>2 DEF Covered, Within, ResponsesInv
<1>. QED  BY <1>1, <1>8, <1>9, <1>10

\* The ByteStream loop starts after the last batch, and ends with the list.
LEMMA LoopEndsStep ==
    ASSUME DownloadInv, D!BatchesDone \/ D!Return
    PROVE  DownloadInv'
<1>. USE DEF DownloadInv, D!inputs
<1>1. UNCHANGED <<mode, request_list, ranges, range, batch_results, download_results, written,
                  dest>>
      BY DEF D!BatchesDone, D!Return
<1>2. D!Requested' = D!Requested /\ D!NoDuplicates' = D!NoDuplicates
      BY <1>1 DEF D!Requested, D!Positions, D!NoDuplicates
<1>3. D!OkMeansIntact'
      BY <1>1, <1>2 DEF D!OkMeansIntact
<1>4. Len(request_list) \in Nat
      BY ListFacts
<1>5. CASE D!BatchesDone
  <2>1. /\ rpc = "batches" /\ rpc' = "single" /\ range > Len(ranges)
        /\ next' = IF ranges = << >> THEN 1 ELSE ranges[Len(ranges)] + 1
        BY <1>5 DEF D!BatchesDone
  <2>2. ranges \in Seq(1 .. Len(request_list)) /\ range = Len(ranges) + 1
        BY <2>1, RangesIncrease
  <2>3. ranges # << >> <=> Len(ranges) # 0
        BY <2>2
  <2>4. next' = D!BatchStart
        BY <2>1, <2>2, <2>3 DEF D!BatchStart
  <2>5. next' \in 1 .. Len(request_list) + 1
        BY <1>4, <2>4, StartOfBatch
  <2>6. D!TypeOK'
        BY <1>1, <1>2, <2>1, <2>5 DEF D!TypeOK, D!Results
  <2>7. Before(next - 1)' = Before(D!BatchStart - 1)
        BY <1>1, <2>4 DEF Before, Between
  <2>. QED  BY <1>1, <1>3, <2>1, <2>6, <2>7 DEF Covered, Within
<1>6. CASE D!Return
  <2>1. rpc = "single" /\ rpc' = "returned" /\ next > Len(request_list) /\ UNCHANGED next
        BY <1>6 DEF D!Return
  <2>2. next - 1 = Len(request_list)
        BY <1>4, <2>1 DEF D!TypeOK
  <2>3. D!TypeOK'
        BY <1>1, <1>2, <2>1 DEF D!TypeOK, D!Results
  <2>4. Before(Len(request_list))' = Before(next - 1)
        BY <1>1, <2>2 DEF Before, Between
  <2>. QED  BY <1>1, <1>3, <2>1, <2>3, <2>4 DEF Covered
<1>. QED  BY <1>5, <1>6

\* One digest of the ByteStream loop.
LEMMA FetchStep ==
    ASSUME DownloadInv, D!FetchOk \/ D!FetchFails \/ D!FetchNotWritten
    PROVE  DownloadInv'
<1>. USE DEF DownloadInv, D!inputs
<1>1. /\ rpc = "single" /\ next <= Len(request_list)
      /\ UNCHANGED <<mode, request_list, ranges, range, batch_results>>
      BY DEF D!FetchOk, D!FetchFails, D!FetchNotWritten, D!FetchFailed, D!InSingle
<1>2. next \in 1 .. Len(request_list)
      BY <1>1, ListFacts DEF D!TypeOK
<1>3. D!Digest = request_list[next] /\ D!Digest \in D!Requested
      BY <1>2, ListFacts DEF D!Digest
<1>4. D!Requested' = D!Requested /\ D!NoDuplicates' = D!NoDuplicates
      BY <1>1 DEF D!Requested, D!Positions, D!NoDuplicates
<1>5. Covered(next - 1) /\ Within(next - 1)
      BY <1>1
<1>6. D!NoDuplicates => D!Digest \notin Before(next - 1)
      BY <1>2, <1>3, ListFacts DEF D!NoDuplicates, D!Positions, Before, Between
<1>7. Before(next) = Before(next - 1) \cup {D!Digest}
      BY <1>2, <1>3, ListFacts DEF Before, Between
<1>8. next' = next + 1 => Before(next - 1)' = Before(next)
      BY <1>1, <1>2 DEF Before, Between
<1>9. next + 1 \in 1 .. Len(request_list) + 1
      BY <1>2, ListFacts
<1>10. download_results \in D!Results
      BY DEF D!TypeOK
<1>11. CASE D!FetchOk
  <2>1. /\ dest' = [dest EXCEPT ![D!Digest] = "intact"] /\ written' = written \cup {D!Digest}
        /\ download_results' = D!Merge(download_results, D!OkResult(D!Digest))
        /\ next' = next + 1 /\ rpc' = "single"
        BY <1>1, <1>11 DEF D!FetchOk
  <2>2. /\ dest' \in [D!Requested -> {"absent", "intact", "damaged"}]
        /\ written' \subseteq D!Requested
        /\ D!NoDuplicates => \A x \in D!Requested : x \in written' => dest'[x] = "intact"
        BY <1>1, <1>2, <1>5, <2>1, DestStaysIntact DEF Within
  <2>3. /\ download_results'.OK = download_results.OK \cup {D!Digest}
        /\ download_results'.failed = download_results.failed
        /\ download_results' \in D!Results
        BY <1>3, <1>10, <2>1 DEF D!Merge, D!OkResult, D!Results
  <2>4. D!TypeOK'
        BY <1>1, <1>4, <1>9, <2>1, <2>2, <2>3 DEF D!TypeOK, D!Results
  <2>5. D!OkMeansIntact'
        BY <1>1, <1>4, <1>5, <1>6, <2>1, <2>2, <2>3 DEF D!OkMeansIntact, Within
  <2>. QED  BY <1>1, <1>5, <1>7, <1>8, <2>1, <2>3, <2>4, <2>5 DEF Covered, Within
<1>12. CASE D!FetchFails \/ D!FetchNotWritten
  <2>1. D!FetchFailed /\ UNCHANGED written
        BY <1>12 DEF D!FetchFails, D!FetchNotWritten, D!FetchFailed
  <2>2. /\ dest' \in [D!Requested -> {"absent", "intact", "damaged"}]
        /\ D!NoDuplicates => \A x \in D!Requested : x \in written => dest'[x] = "intact"
    <3>1. CASE UNCHANGED dest
          BY <3>1 DEF D!TypeOK, D!OkMeansIntact
    <3>2. CASE D!WriteDamages(D!Digest)
          BY <1>1, <1>2, <1>5, <2>1, <3>2, DestStaysIntact DEF Within
    <3>. QED  BY <1>12, <3>1, <3>2 DEF D!FetchFails, D!FetchNotWritten
  <2>3. CASE D!throw_on_error
    <3>1. rpc' = "threw" /\ UNCHANGED <<next, download_results>>
          BY <2>1, <2>3 DEF D!FetchFailed
    <3>2. D!TypeOK'
          BY <1>1, <1>4, <2>1, <2>2, <3>1 DEF D!TypeOK, D!Results
    <3>3. D!OkMeansIntact'
          BY <1>1, <1>4, <2>1, <2>2, <3>1 DEF D!OkMeansIntact
    <3>. QED  BY <1>1, <2>1, <3>1, <3>2, <3>3
  <2>4. CASE ~ D!throw_on_error
    <3>1. /\ rpc' = "single" /\ next' = next + 1
          /\ download_results' = D!Merge(download_results, D!FailedResults({D!Digest}))
          BY <2>1, <2>4 DEF D!FetchFailed
    <3>2. /\ download_results'.OK = download_results.OK
          /\ download_results'.failed = download_results.failed \cup {D!Digest}
          /\ download_results' \in D!Results
          BY <1>3, <1>10, <3>1 DEF D!Merge, D!FailedResults, D!Results
    <3>3. D!TypeOK'
          BY <1>1, <1>4, <1>9, <2>1, <2>2, <3>1, <3>2 DEF D!TypeOK, D!Results
    <3>4. D!OkMeansIntact'
          BY <1>1, <1>4, <1>5, <1>6, <2>1, <2>2, <3>2 DEF D!OkMeansIntact, Within
    <3>. QED  BY <1>1, <1>5, <1>7, <1>8, <2>1, <3>1, <3>2, <3>3, <3>4 DEF Covered, Within
  <2>. QED  BY <2>3, <2>4
<1>. QED  BY <1>11, <1>12

\* The inductive invariant holds throughout, also while an upload is made.
LEMMA DownloadInvariance == BlobsSpec => []DownloadInv
<1>1. BlobsInit => DownloadInv
      BY DownloadInit DEF BlobsInit
<1>2. DownloadInv /\ [BlobsNext]_blobvars => DownloadInv'
  <2>. SUFFICES ASSUME DownloadInv, [BlobsNext]_blobvars PROVE DownloadInv'
       OBVIOUS
  <2>1. CASE Download
    <3>1. D!Next
          BY <2>1 DEF Download
    <3>. QED  BY <3>1, BatchReadFailsStep, BatchReadAnswersStep, ResponseStep,
                 ResponseNotWrittenStep, BatchReturnsStep, LoopEndsStep, FetchStep DEF D!Next
  <2>2. CASE UNCHANGED downloadvars
        BY <2>2
        DEF downloadvars, DownloadInv, ResponsesInv, Covered, Within, Before, Between,
            D!TypeOK, D!Results, D!Requested, D!Positions, D!BatchStart, D!OkMeansIntact,
            D!NoDuplicates
  <2>. QED  BY <2>1, <2>2 DEF BlobsNext, Upload, blobvars
<1>. QED  BY <1>1, <1>2, PTL DEF BlobsSpec

\* downloadBlobs() keeps its variables within their types.
THEOREM DownloadTypeCorrect == BlobsSpec => []D!TypeOK
<1>1. DownloadInv => D!TypeOK
      BY DEF DownloadInv
<1>. QED  BY <1>1, DownloadInvariance, PTL

\* The map that downloadBlobs() returns has an entry for every digest, whichever
\* batches failed or broke off.
THEOREM EveryStatus == BlobsSpec => []EveryDigestHasAStatus
<1>1. DownloadInv => EveryDigestHasAStatus
  <2>. SUFFICES ASSUME DownloadInv, rpc = "returned", NEW x \in D!Requested
                PROVE  D!StatusOf(x) # "missing"
       BY DEF EveryDigestHasAStatus, D!EveryDigestHasAStatus
  <2>1. x \in written \/ x \in download_results.failed
        BY DEF DownloadInv, Covered, Before, Between, D!Requested, D!Positions
  <2>. QED  BY <2>1 DEF D!StatusOf
<1>. QED  BY <1>1, DownloadInvariance, PTL

\* What downloadBlobs() reports as OK was written and is intact, if no digest
\* was asked for twice.
THEOREM IntactDownloads == BlobsSpec => []OkMeansIntact
<1>1. DownloadInv => OkMeansIntact
      BY DEF DownloadInv, OkMeansIntact
<1>. QED  BY <1>1, DownloadInvariance, PTL
=============================================================================
