-------------------------- MODULE MakeBatchesProofs --------------------------
(***************************************************************************)
(* Proofs about makeBatches() for lists of any length, any sizes and any   *)
(* limit that holds at least the message container (SaneServers): under    *)
(* that condition no size_t computation wraps around, the batches fit,     *)
(* cover a prefix of the list without gaps, and leave out only blobs that  *)
(* are too large.                                                          *)
(***************************************************************************)
EXTENDS MakeBatches, TLAPS

Limit == d_maxBatchTotalSizeBytes
Bytes == BytesUpTo(digests)

\* The negotiated limit holds the container, so max_batch_size is their
\* difference.
LimitInv == Container <= Limit

\* Where the two indices are, between and inside the batches.
IndexInv ==
    /\ batch_start = Rest
    /\ batch_start <= batch_end
    /\ pc \in {"outer", "returned"} => batch_start = batch_end

\* bytes_in_batch is what the open batch takes, and an open batch that is
\* still empty has a digest that fits.
OpenBatchInv ==
    pc = "inner" =>
        /\ bytes_in_batch = Bytes[batch_end] - Bytes[batch_start]
        /\ Container + bytes_in_batch <= Limit
        /\ batch_start = batch_end =>
             batch_end < Len(digests) /\ Container + PerBlob + SizeOfNext <= Limit

\* The closed batches.
ClosedInv ==
    \A i \in 1 .. Len(batches) :
        /\ batches[i][1] < batches[i][2]
        /\ batches[i][2] <= Len(digests)
        /\ batches[i][1] = IF i = 1 THEN 0 ELSE batches[i - 1][2]
        /\ Container + Bytes[batches[i][2]] - Bytes[batches[i][1]] <= Limit
        /\ batches[i][2] < Len(digests) =>
             Container + Bytes[batches[i][2] + 1] - Bytes[batches[i][1]] > Limit

\* Why makeBatches() returned.
ReturnInv ==
    pc = "returned" /\ batch_end < Len(digests) => Container + PerBlob + SizeOfNext > Limit

IInv == TypeOK /\ LimitInv /\ IndexInv /\ OpenBatchInv /\ ClosedInv /\ ReturnInv

\* Sums below 2^w are not changed by size_t arithmetic.
LEMMA NoWrap ==
  ASSUME NEW n \in Nat, n < SizeMod
  PROVE  Wrap(n) = n
  BY SizesAssumption DEF Wrap

\* What is known of the input list.
LEMMA InputFacts ==
  ASSUME TypeOK
  PROVE  /\ digests \in Seq(0 .. MaxBlobSize)
         /\ Len(digests) \in Nat
         /\ Bytes \in [0 .. Len(digests) -> Nat]
         /\ Bytes[0] = 0
         /\ \A n \in 0 .. Len(digests) - 1 : Bytes[n + 1] = Bytes[n] + digests[n + 1] + PerBlob
  <1>1. digests \in Inputs
    BY DEF TypeOK
  <1>2. digests \in Seq(0 .. MaxBlobSize) /\ Len(digests) \in Nat
    BY <1>1, InputsAssumption
  <1>3. /\ Bytes \in [0 .. Len(digests) -> Nat]
        /\ Bytes[0] = 0
        /\ \A n \in 1 .. Len(digests) : Bytes[n] = Bytes[n - 1] + digests[n] + PerBlob
    BY <1>1, BytesUpToAssumption DEF Bytes
  <1>4. ASSUME NEW n \in 0 .. Len(digests) - 1
        PROVE  Bytes[n + 1] = Bytes[n] + digests[n + 1] + PerBlob
    <2>1. n + 1 \in 1 .. Len(digests) /\ (n + 1) - 1 = n
      BY <1>2
    <2> QED BY <1>3, <2>1
  <1> QED BY <1>2, <1>3, <1>4

\* The room up to an index is a number.
LEMMA BytesNat ==
  ASSUME TypeOK, NEW n \in 0 .. Len(digests)
  PROVE  Bytes[n] \in Nat
  BY InputFacts

\* An element of a sequence belongs to the set the sequence is over.
LEMMA ElementOf ==
  ASSUME NEW S, NEW q \in Seq(S), NEW i \in 1 .. Len(q)
  PROVE  q[i] \in S
  OBVIOUS

\* Without wrap-around, the code's three comparisons are the intended ones.
LEMMA Comparisons ==
  ASSUME IInv
  PROVE  /\ max_batch_size = Limit - Container
         /\ batch_end < Len(digests) =>
              /\ SizeOfNext \in 0 .. MaxBlobSize
              /\ NextIsTooLarge <=> Container + PerBlob + SizeOfNext > Limit
              /\ pc = "inner" =>
                   /\ Wrap(bytes_in_batch + SizeOfNext + PerBlob) = bytes_in_batch + SizeOfNext + PerBlob
                   /\ NextFits <=> Container + bytes_in_batch + SizeOfNext + PerBlob <= Limit
  <1>1. max_batch_size = Limit - Container
    <2>1. Limit - Container \in Nat /\ Limit - Container < SizeMod
      BY SizesAssumption DEF IInv, TypeOK, LimitInv, Limit
    <2> QED BY <2>1, NoWrap DEF max_batch_size, Limit
  <1>2. ASSUME batch_end < Len(digests)
        PROVE  SizeOfNext \in 0 .. MaxBlobSize
    <2>1. digests \in Seq(0 .. MaxBlobSize)
      BY InputFacts DEF IInv
    <2>2. batch_end + 1 \in 1 .. Len(digests)
      BY <1>2, <2>1 DEF IInv, TypeOK
    <2> QED BY <2>1, <2>2, ElementOf DEF SizeOfNext
  <1>3. ASSUME batch_end < Len(digests)
        PROVE  NextIsTooLarge <=> Container + PerBlob + SizeOfNext > Limit
    <2>1. SizeOfNext + PerBlob \in Nat /\ SizeOfNext + PerBlob < SizeMod
      BY <1>2, <1>3, SizesAssumption
    <2>2. Wrap(SizeOfNext + PerBlob) = SizeOfNext + PerBlob
      BY <2>1, NoWrap
    <2> QED BY <1>1, <1>2, <1>3, <2>2, SizesAssumption DEF NextIsTooLarge, IInv, TypeOK, Limit
  <1>4. ASSUME batch_end < Len(digests), pc = "inner"
        PROVE  /\ Wrap(bytes_in_batch + SizeOfNext + PerBlob) = bytes_in_batch + SizeOfNext + PerBlob
               /\ NextFits <=> Container + bytes_in_batch + SizeOfNext + PerBlob <= Limit
    <2>1. bytes_in_batch \in Nat /\ bytes_in_batch <= Limit
          /\ Limit \in Nat /\ Limit <= DefaultMaxBatchTotalSize
      BY <1>4, SizesAssumption DEF IInv, OpenBatchInv, TypeOK, Limit
    <2>2. /\ bytes_in_batch + SizeOfNext + PerBlob \in Nat
          /\ bytes_in_batch + SizeOfNext + PerBlob < SizeMod
      BY <1>2, <1>4, <2>1, SizesAssumption
    <2>3. Wrap(bytes_in_batch + SizeOfNext + PerBlob) = bytes_in_batch + SizeOfNext + PerBlob
      BY <2>2, NoWrap
    <2> QED BY <1>1, <1>2, <1>4, <2>1, <2>3, SizesAssumption DEF NextFits
  <1> QED BY <1>1, <1>2, <1>3, <1>4

\* A server limit that holds the container leaves the negotiated limit so.
LEMMA InitIInv == SaneServers /\ Init => IInv
  <1> SUFFICES ASSUME SaneServers, Init PROVE IInv
    OBVIOUS
  <1>1. PICK s \in ServerLimits : Limit = NegotiatedLimit(s)
    BY DEF Init, Limit
  <1>2. Limit \in 0 .. DefaultMaxBatchTotalSize /\ Container <= Limit
    BY <1>1, SizesAssumption DEF SaneServers, NegotiatedLimit
  <1>3. TypeOK
    <2>1. digests \in Inputs /\ Len(digests) \in Nat
      BY InputsAssumption DEF Init
    <2> QED BY <1>2, <2>1, SizesAssumption DEF Init, TypeOK, Limit
  <1> QED BY <1>2, <1>3 DEF IInv, Init, LimitInv, IndexInv, OpenBatchInv, ClosedInv, ReturnInv, Rest

\* Returning changes no data.
LEMMA ReturnStep == IInv /\ Return => IInv'
  <1> SUFFICES ASSUME IInv, Return PROVE IInv'
    OBVIOUS
  <1>1. ReturnInv'
    BY Comparisons DEF Return, ReturnInv, SizeOfNext, Limit
  <1> QED BY <1>1 DEF IInv, TypeOK, LimitInv, IndexInv, OpenBatchInv, ClosedInv, Return,
                      Limit, Bytes, Rest, SizeOfNext

\* A batch is opened only when the next digest fits in an empty one.
LEMMA BeginBatchStep == IInv /\ BeginBatch => IInv'
  <1> SUFFICES ASSUME IInv, BeginBatch PROVE IInv'
    OBVIOUS
  <1>1. OpenBatchInv'
    <2>1. batch_start = batch_end /\ batch_end \in 0 .. Len(digests)
      BY DEF IInv, IndexInv, BeginBatch, TypeOK
    <2>2. Bytes[batch_end] \in Nat
      BY <2>1, InputFacts DEF IInv
    <2>3. Container + PerBlob + SizeOfNext <= Limit
      BY Comparisons, SizesAssumption DEF BeginBatch, IInv, TypeOK, Limit
    <2> QED BY <2>1, <2>2, <2>3, SizesAssumption
            DEF IInv, LimitInv, OpenBatchInv, BeginBatch, Limit, Bytes, SizeOfNext, TypeOK
  <1>2. TypeOK'
    BY SizesAssumption DEF IInv, TypeOK, BeginBatch
  <1> QED BY <1>1, <1>2
          DEF IInv, LimitInv, IndexInv, ClosedInv, ReturnInv, BeginBatch, Limit, Bytes, Rest

\* Adding a digest keeps bytes_in_batch equal to the room of the open range.
LEMMA AddDigestStep == IInv /\ AddDigest => IInv'
  <1> SUFFICES ASSUME IInv, AddDigest PROVE IInv'
    OBVIOUS
  <1>1. /\ batch_end \in 0 .. Len(digests) - 1
        /\ batch_start \in 0 .. batch_end
        /\ Len(digests) \in Nat
    BY InputFacts DEF IInv, IndexInv, AddDigest, TypeOK
  <1>2. /\ SizeOfNext \in 0 .. MaxBlobSize
        /\ bytes_in_batch' = bytes_in_batch + SizeOfNext + PerBlob
        /\ Container + bytes_in_batch + SizeOfNext + PerBlob <= Limit
    BY Comparisons DEF AddDigest
  <1>3. Bytes[batch_end + 1] = Bytes[batch_end] + SizeOfNext + PerBlob
    BY <1>1, InputFacts DEF IInv, SizeOfNext
  <1>4. Bytes[batch_end] \in Nat /\ Bytes[batch_start] \in Nat
    BY BytesNat DEF IInv, TypeOK
  <1>5. OpenBatchInv'
    <2>1. bytes_in_batch = Bytes[batch_end] - Bytes[batch_start]
      BY DEF IInv, OpenBatchInv, AddDigest
    <2>2. Limit \in Nat /\ Container \in Nat /\ PerBlob \in Nat /\ SizeOfNext \in Nat
      BY <1>2, SizesAssumption DEF IInv, TypeOK, Limit
    <2>3. /\ bytes_in_batch' = Bytes[batch_end + 1] - Bytes[batch_start]
          /\ Container + bytes_in_batch' <= Limit
          /\ batch_start # batch_end + 1
      <3>1. bytes_in_batch' = Bytes[batch_end + 1] - Bytes[batch_start]
        BY <1>2, <1>3, <1>4, <2>1, <2>2
      <3>2. Container + bytes_in_batch' <= Limit
        BY <1>2, <1>4, <2>1, <2>2
      <3>3. batch_start # batch_end + 1
        BY <1>1
      <3> QED BY <3>1, <3>2, <3>3
    <2>4. /\ UNCHANGED <<Limit, Bytes, batch_start>>
          /\ batch_end' = batch_end + 1
      BY DEF AddDigest, Limit, Bytes
    <2> QED BY <2>3, <2>4 DEF OpenBatchInv
  <1>6. TypeOK'
    BY <1>1, <1>2, SizesAssumption DEF IInv, TypeOK, AddDigest, Limit
  <1>7. LimitInv' /\ IndexInv' /\ ClosedInv' /\ ReturnInv'
    BY <1>1 DEF IInv, LimitInv, IndexInv, ClosedInv, ReturnInv, AddDigest, Limit, Bytes, Rest
  <1> QED BY <1>5, <1>6, <1>7 DEF IInv

\* Closing a batch appends a non-empty range that fits and starts where the
\* one before ended.
LEMMA CloseBatchStep == IInv /\ CloseBatch => IInv'
  <1> SUFFICES ASSUME IInv, CloseBatch PROVE IInv'
    OBVIOUS
  <1> DEFINE new == <<batch_start, batch_end>>
  <1>1. /\ batch_end \in 0 .. Len(digests)
        /\ batch_start \in 0 .. batch_end
        /\ Len(digests) \in Nat
        /\ batches \in Seq(Nat \X Nat)
        /\ batches' = Append(batches, new)
        /\ batch_start' = batch_end
        /\ UNCHANGED <<digests, Limit, Bytes, batch_end>>
        /\ Limit \in Nat
    BY InputFacts DEF IInv, IndexInv, CloseBatch, TypeOK, Limit, Bytes
  <1>2. batch_start < batch_end
    <2>1. CASE batch_start = batch_end
      <3>1. batch_end < Len(digests) /\ Container + PerBlob + SizeOfNext <= Limit
        BY <2>1 DEF IInv, OpenBatchInv, CloseBatch
      <3>2. bytes_in_batch = 0
        <4>1. Bytes[batch_end] \in Nat
          BY <1>1, InputFacts DEF IInv
        <4> QED BY <2>1, <4>1 DEF IInv, OpenBatchInv, CloseBatch
      <3>3. NextFits
        BY <3>1, <3>2, Comparisons, SizesAssumption DEF CloseBatch
      <3> QED BY <3>1, <3>3 DEF CloseBatch
    <2> QED BY <1>1, <2>1
  <1>3. /\ Bytes[batch_end] \in Nat
        /\ Bytes[batch_start] \in Nat
        /\ Container + Bytes[batch_end] - Bytes[batch_start] <= Limit
        /\ bytes_in_batch = Bytes[batch_end] - Bytes[batch_start]
    <2>1. Bytes[batch_end] \in Nat /\ Bytes[batch_start] \in Nat
      BY BytesNat DEF IInv, TypeOK
    <2> QED BY <2>1, SizesAssumption DEF IInv, OpenBatchInv, CloseBatch
  <1>4. batch_end < Len(digests) =>
          Container + Bytes[batch_end + 1] - Bytes[batch_start] > Limit
    <2> SUFFICES ASSUME batch_end < Len(digests)
                 PROVE  Container + Bytes[batch_end + 1] - Bytes[batch_start] > Limit
      OBVIOUS
    <2>1. Bytes[batch_end + 1] = Bytes[batch_end] + SizeOfNext + PerBlob
      BY <1>1, InputFacts DEF IInv, SizeOfNext
    <2>2. SizeOfNext \in Nat /\ ~(Container + bytes_in_batch + SizeOfNext + PerBlob <= Limit)
      BY Comparisons, SizesAssumption DEF CloseBatch
    <2>3. Limit \in Nat /\ Container \in Nat /\ PerBlob \in Nat
      BY <1>1, SizesAssumption
    <2> QED BY <1>3, <2>1, <2>2, <2>3
  <1>5. batch_start = IF batches = << >> THEN 0 ELSE batches[Len(batches)][2]
    BY DEF IInv, IndexInv, Rest
  <1>6. ClosedInv'
    <2> SUFFICES ASSUME NEW i \in 1 .. Len(batches')
                 PROVE  /\ batches'[i][1] < batches'[i][2]
                        /\ batches'[i][2] <= Len(digests)
                        /\ batches'[i][1] = IF i = 1 THEN 0 ELSE batches'[i - 1][2]
                        /\ Container + Bytes[batches'[i][2]] - Bytes[batches'[i][1]] <= Limit
                        /\ batches'[i][2] < Len(digests) =>
                             Container + Bytes[batches'[i][2] + 1] - Bytes[batches'[i][1]] > Limit
      BY <1>1 DEF ClosedInv
    <2>1. CASE i = Len(batches')
      <3>1. batches'[i] = new
        BY <1>1, <2>1
      <3>2. batches'[i][1] = IF i = 1 THEN 0 ELSE batches'[i - 1][2]
        BY <1>1, <1>5, <2>1, <3>1
      <3>3. batches'[i][1] = batch_start /\ batches'[i][2] = batch_end
        BY <3>1
      <3>4. batch_end <= Len(digests)
        BY <1>1
      <3> QED BY <1>2, <1>3, <1>4, <3>2, <3>3, <3>4
    <2>2. CASE i # Len(batches')
      <3>1. i \in 1 .. Len(batches) /\ batches'[i] = batches[i]
        BY <1>1, <2>2
      <3>2. i # 1 => batches'[i - 1] = batches[i - 1]
        BY <1>1, <3>1
      <3> QED BY <3>1, <3>2 DEF IInv, ClosedInv
    <2> QED BY <2>1, <2>2
  <1>7. IndexInv'
    <2>1. batches' # << >> /\ batches'[Len(batches')] = new
      BY <1>1
    <2> QED BY <1>1, <2>1 DEF IndexInv, Rest
  <1>8. TypeOK'
    BY <1>1 DEF IInv, TypeOK, CloseBatch
  <1>9. LimitInv' /\ OpenBatchInv' /\ ReturnInv'
    BY DEF IInv, LimitInv, OpenBatchInv, ReturnInv, CloseBatch, Limit
  <1> QED BY <1>6, <1>7, <1>8, <1>9 DEF IInv

\* IInv holds at every step of makeBatches(), for every list and limit.
THEOREM Invariance == SaneServers => (Spec => []IInv)
  <1>1. SaneServers /\ Init => IInv
    BY InitIInv
  <1>2. IInv /\ [Next]_vars => IInv'
    <2> SUFFICES ASSUME IInv, [Next]_vars PROVE IInv'
      OBVIOUS
    <2>1. CASE UNCHANGED vars
      BY <2>1 DEF vars, IInv, TypeOK, LimitInv, IndexInv, OpenBatchInv, ClosedInv, ReturnInv,
                  Limit, Bytes, Rest, SizeOfNext
    <2> QED BY <2>1, ReturnStep, BeginBatchStep, AddDigestStep, CloseBatchStep DEF Next
  <1> QED BY <1>1, <1>2, PTL DEF Spec

\* The indices stay inside the list and no size_t sum overflows its type.
THEOREM TypeCorrect == SaneServers => (Spec => []TypeOK)
  <1>1. IInv => TypeOK
    BY DEF IInv
  <1> QED BY <1>1, Invariance, PTL

\* Every batch handed to batchUpload() or batchDownload() fits in the size
\* negotiated with the server.
THEOREM Fit == SaneServers => (Spec => []BatchesFit)
  <1>1. IInv => BatchesFit
    <2> SUFFICES ASSUME IInv, NEW i \in 1 .. Len(batches)
                 PROVE  Container + (Bytes[batches[i][2]] - Bytes[batches[i][1]]) <= Limit
      BY DEF BatchesFit, BytesBetween, Bytes, Limit
    <2>1. batches[i][1] \in 0 .. Len(digests) /\ batches[i][2] \in 0 .. Len(digests)
      BY InputFacts DEF IInv, ClosedInv, TypeOK
    <2>2. Bytes[batches[i][1]] \in Nat /\ Bytes[batches[i][2]] \in Nat
      BY <2>1, InputFacts DEF IInv
    <2> QED BY <2>2, SizesAssumption DEF IInv, ClosedInv
  <1> QED BY <1>1, Invariance, PTL

\* The batches cover a prefix of the list, each digest once.
THEOREM Partition == SaneServers => (Spec => []BatchesPartition)
  <1>1. IInv => BatchesPartition
    <2> SUFFICES ASSUME IInv PROVE BatchesPartition
      OBVIOUS
    <2>1. Rest <= Len(digests)
      BY InputFacts DEF IInv, TypeOK, IndexInv
    <2> QED BY <2>1 DEF IInv, ClosedInv, BatchesPartition
  <1> QED BY <1>1, Invariance, PTL

\* Every digest left to the ByteStream API is too large for a batch.
THEOREM RestTooLarge == SaneServers => (Spec => []RestIsTooLarge)
  <1>1. IInv => RestIsTooLarge
    <2> SUFFICES ASSUME IInv, pc = "returned", NEW i \in Rest + 1 .. Len(digests)
                 PROVE  Container + PerBlob + digests[i] > Limit
      BY DEF RestIsTooLarge, Limit
    <2>1. /\ digests \in Seq(0 .. MaxBlobSize) /\ SortedBySize(digests)
          /\ Rest = batch_end /\ batch_end \in 0 .. Len(digests)
      BY InputsAssumption DEF IInv, TypeOK, IndexInv
    <2>2. /\ batch_end < Len(digests)
          /\ batch_end + 1 \in 1 .. Len(digests)
          /\ i \in 1 .. Len(digests)
          /\ batch_end + 1 <= i
      BY <2>1
    <2>3. Container + PerBlob + digests[batch_end + 1] > Limit
      BY <2>2 DEF IInv, ReturnInv, SizeOfNext
    <2>4. digests[batch_end + 1] <= digests[i]
      BY <2>1, <2>2 DEF SortedBySize
    <2>5. digests[batch_end + 1] \in Nat /\ digests[i] \in Nat /\ Limit \in Nat
      <3>1. digests[batch_end + 1] \in 0 .. MaxBlobSize /\ digests[i] \in 0 .. MaxBlobSize
        BY <2>1, <2>2, ElementOf
      <3> QED BY <3>1 DEF IInv, TypeOK, Limit
    <2> QED BY <2>3, <2>4, <2>5, SizesAssumption
  <1> QED BY <1>1, Invariance, PTL

\* No two neighbouring batches could have been one.
THEOREM Maximal == SaneServers => (Spec => []BatchesAreMaximal)
  <1>1. IInv => BatchesAreMaximal
    <2> SUFFICES ASSUME IInv, NEW i \in 1 .. Len(batches) - 1
                 PROVE  Container + (Bytes[batches[i][2] + 1] - Bytes[batches[i][1]]) > Limit
      BY DEF BatchesAreMaximal, BytesBetween, Bytes, Limit
    <2>1. /\ batches \in Seq(Nat \X Nat)
          /\ i \in 1 .. Len(batches) /\ i + 1 \in 1 .. Len(batches)
          /\ (i + 1) - 1 = i /\ i + 1 # 1
      BY DEF IInv, TypeOK
    <2>2. batches[i + 1][1] = batches[i][2] /\ batches[i + 1][1] < batches[i + 1][2]
          /\ batches[i + 1][2] <= Len(digests)
      BY <2>1 DEF IInv, ClosedInv
    <2>3. /\ batches[i][1] \in 0 .. Len(digests)
          /\ batches[i][2] \in 0 .. Len(digests) - 1
      <3>1. batches[i] \in Nat \X Nat /\ batches[i + 1] \in Nat \X Nat
        BY <2>1, ElementOf
      <3>2. Len(digests) \in Nat
        BY InputFacts DEF IInv
      <3>3. batches[i][1] < batches[i][2]
        BY <2>1 DEF IInv, ClosedInv
      <3> QED BY <2>2, <3>1, <3>2, <3>3
    <2>4. Bytes[batches[i][1]] \in Nat /\ Bytes[batches[i][2] + 1] \in Nat
      BY <2>3, InputFacts DEF IInv
    <2> QED BY <2>1, <2>3, <2>4, SizesAssumption DEF IInv, ClosedInv
  <1> QED BY <1>1, Invariance, PTL
=============================================================================
