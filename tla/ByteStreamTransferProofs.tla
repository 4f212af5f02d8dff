---------------------- MODULE ByteStreamTransferProofs ----------------------
(* Proofs about ByteStreamTransfer, for any blob, any data passed to         *)
(* upload(), any copies on the server, any chunk size and number of retries. *)
EXTENDS ByteStreamTransfer, SequenceTheorems, TLAPS

(***************************************************************************)
(* The inductive invariant.                                                *)
(***************************************************************************)
\* What the stream of this attempt has carried: the string up to offset, or the
\* bytes that read() gave since the attempt began, wherever the descriptor was.
SentInv ==
    /\ source = "string" =>
         /\ Len(data) = Size
         /\ offset <= Len(data)
         /\ sent = SubSeq(data, 1, offset)
    /\ source = "fd" =>
         /\ offset <= fdpos
         /\ sent = SubSeq(data, fdpos - offset + 1, fdpos)

UploadInv ==
    /\ source \in {"string", "fd"}
    /\ data \in Seq(Int)
    /\ fdpos \in 0 .. Len(data)
    /\ offset \in Nat
    /\ stored \in BOOLEAN
    /\ lpc \in {"start", "rejected"} => pc = "idle"
    /\ lpc \in {"sending", "closing"} => pc = "invoking"
    /\ source = "string" /\ lpc \notin {"start", "rejected"} => Len(data) = Size
    /\ lpc = "sending" => ~ finished /\ SentInv
    /\ IntactDataFinishesIntact
    /\ Outcome = "ok" => stored

\* Between two attempts of download() as well, the digest context has seen the
\* file as far as it was written, and, from intact copies, the blob as far.
DownloadInv ==
    /\ dest \in {"string", "fd"}
    /\ rpc \in {"between", "reading"}
    /\ stream \in Seq(Int)
    /\ downloaded_data \in Seq(Int)
    /\ result \in Seq(Int)
    /\ file \in Seq(Int)
    /\ digestContext \in Seq(Int)
    /\ rpc = "reading" => pc = "invoking"
    /\ dest = "fd" /\ pc # "threw" => bytesDownloaded <= Len(file)
    /\ honest =>
         /\ bytesDownloaded <= Size
         /\ digestContext = SubSeq(Blob, 1, bytesDownloaded)
    /\ ResumeIsExact
    /\ D!Outcome = "ok" => D!Delivered

\* Of the direction that is not called.
NoUploadInv == ~ finished
NoDownloadInv ==
    /\ dest = "string" /\ rpc = "between"
    /\ bytesDownloaded = 0 /\ digestContext = << >>

IInv ==
    /\ op \in {"upload", "download"}
    /\ op = "upload" => UploadInv /\ NoDownloadInv
    /\ op = "download" => DownloadInv /\ NoUploadInv

(***************************************************************************)
(* The retrier, as its callers see it.                                     *)
(***************************************************************************)
LEMMA InvocationReturnsFacts ==
    ASSUME NEW s, R!InvocationReturns(s, 0)
    PROVE  /\ pc = "invoking"
           /\ pc' \in {"true", "false", "sleeping"}
           /\ d_status' = s
BY DEF R!InvocationReturns, R!FinalAnswer, R!LimitExceeded, R!Backoff, R!Answer

\* OK is never retried.
LEMMA OkIsFinal ==
    ASSUME R!InvocationReturns(R!OK, 0)
    PROVE  pc = "invoking" /\ pc' = "true"
BY DEF R!InvocationReturns, R!FinalAnswer, R!LimitExceeded, R!Backoff, R!Answer,
       R!statusIsRetryable, R!RetryableStatusCodes, R!OK, R!UNAVAILABLE

(***************************************************************************)
(* upload().                                                               *)
(***************************************************************************)
\* One more chunk of the string.
LEMMA SendFromStringStep ==
    ASSUME UploadInv, NEW accepted \in BOOLEAN, SendFromString(accepted)
    PROVE  UploadInv'
<1>. DEFINE n == SmallerOf(ChunkSize, Len(data) - offset)
            chunk == SubSeq(data, offset + 1, offset + n)
<1>1. /\ source = "string" /\ lpc = "sending" /\ pc = "invoking"
      /\ data \in Seq(Int) /\ offset \in Nat /\ offset <= Len(data) /\ Len(data) = Size
      /\ sent = SubSeq(data, 1, offset)
      BY DEF SendFromString, UploadInv, SentInv
<1>2. n \in Nat /\ offset + n <= Len(data)
      BY <1>1, UploadAssumption DEF SmallerOf
<1>3. /\ UNCHANGED <<rvars, source, data, fdpos, stored>>
      /\ offset' = offset + n
      /\ Write(chunk, offset + n = Len(data), accepted)
      BY DEF SendFromString
<1>. HIDE DEF n
<1>4. sent \o chunk = SubSeq(data, 1, offset + n)
  <2>1. offset \in 1 - 1 .. Len(data) /\ offset + n \in offset .. Len(data)
        BY <1>1, <1>2
  <2>2. 1 \in 1 .. Len(data) + 1
        BY <1>1
  <2>. QED  BY <1>1, <2>1, <2>2, ConcatAdjacentSubSeq
<1>5. lpc' \in {"sending", "closing"} /\ (lpc' = "sending" => accepted /\ ~ finished')
      BY <1>3 DEF Write
<1>6. accepted => sent' = SubSeq(data, 1, offset + n)
      BY <1>3, <1>4 DEF Write
<1>7. finished' => sent' = data
  <2>1. finished' => accepted /\ offset + n = Len(data)
        BY <1>3 DEF Write
  <2>2. SubSeq(data, 1, Len(data)) = data
        BY <1>1, SubSeqFull
  <2>. QED  BY <1>6, <2>1, <2>2
<1>8. offset' \in Nat /\ offset' <= Len(data)
      BY <1>1, <1>2, <1>3
<1>. HIDE DEF chunk
<1>9. lpc' = "sending" => SentInv'
      BY <1>1, <1>3, <1>5, <1>6, <1>8 DEF SentInv, Size
<1>. QED  BY <1>1, <1>3, <1>5, <1>7, <1>8, <1>9
          DEF UploadInv, IntactDataFinishesIntact, Outcome, rvars

\* One more chunk of the file.  If the data is the blob, an attempt that began in
\* the middle of the file cannot reach its end with the whole size sent.
LEMMA SendFromFdStep ==
    ASSUME UploadInv, NEW n \in 0 .. ChunkSize, NEW accepted \in BOOLEAN,
           SendFromFd(n, accepted)
    PROVE  UploadInv'
<1>. DEFINE chunk == SubSeq(data, fdpos + 1, fdpos + n)
<1>1. /\ source = "fd" /\ lpc = "sending" /\ pc = "invoking"
      /\ data \in Seq(Int) /\ offset \in Nat /\ fdpos \in 0 .. Len(data) /\ offset <= fdpos
      /\ sent = SubSeq(data, fdpos - offset + 1, fdpos)
      /\ n <= Len(data) - fdpos
      BY DEF SendFromFd, UploadInv, SentInv
<1>2. n \in Nat /\ Len(data) \in Nat /\ Size \in Nat
      BY <1>1, UploadAssumption DEF Size
<1>3. /\ UNCHANGED <<rvars, source, data, stored>>
      /\ fdpos' = fdpos + n
      /\ offset' = IF accepted THEN offset + n ELSE offset
      /\ Write(chunk, offset + n >= Size, accepted)
      BY DEF SendFromFd
<1>4. sent \o chunk = SubSeq(data, fdpos - offset + 1, fdpos + n)
  <2>. DEFINE first == fdpos - offset + 1
  <2>1. /\ first \in 1 .. Len(data) + 1
        /\ fdpos \in first - 1 .. Len(data)
        /\ fdpos + n \in fdpos .. Len(data)
        BY <1>1, <1>2
  <2>. HIDE DEF first
  <2>2. SubSeq(data, first, fdpos) \o SubSeq(data, fdpos + 1, fdpos + n) =
          SubSeq(data, first, fdpos + n)
        BY <1>1, <2>1, ConcatAdjacentSubSeq
  <2>. QED  BY <1>1, <2>2 DEF first
<1>5. lpc' \in {"sending", "closing"} /\ (lpc' = "sending" => accepted /\ ~ finished')
      BY <1>3 DEF Write
<1>6. accepted => sent' = SubSeq(data, fdpos - offset + 1, fdpos + n)
      BY <1>3, <1>4 DEF Write
<1>7. data = Blob /\ finished' => sent' = data
  <2>1. finished' => accepted /\ offset + n >= Size
        BY <1>3 DEF Write
  <2>2. SubSeq(data, 1, Len(data)) = data
        BY <1>1, SubSeqFull
  <2>3. data = Blob /\ finished' => fdpos - offset + 1 = 1 /\ fdpos + n = Len(data)
        BY <1>1, <1>2, <2>1 DEF Size
  <2>. QED  BY <1>6, <2>1, <2>2, <2>3
<1>8. offset' \in Nat /\ fdpos' \in 0 .. Len(data) /\ offset' <= fdpos'
      BY <1>1, <1>2, <1>3
<1>9. lpc' = "sending" => sent' = SubSeq(data, fdpos' - offset' + 1, fdpos')
  <2>1. accepted => fdpos' - offset' + 1 = fdpos - offset + 1
        BY <1>1, <1>2, <1>3
  <2>. QED  BY <1>3, <1>5, <1>6, <2>1
<1>. HIDE DEF chunk
<1>10. lpc' = "sending" => SentInv'
      BY <1>1, <1>3, <1>8, <1>9 DEF SentInv
<1>. QED  BY <1>1, <1>3, <1>5, <1>7, <1>8, <1>10
          DEF UploadInv, IntactDataFinishesIntact, Outcome, rvars

\* A new stream has carried nothing.
LEMMA BeginUploadStep ==
    ASSUME UploadInv, BeginAttempt
    PROVE  UploadInv'
<1>1. /\ pc = "invoking" /\ lpc = "between" /\ lpc' = "sending"
      /\ offset' = 0 /\ sent' = << >> /\ ~ finished'
      /\ UNCHANGED <<rvars, source, data, fdpos, stored>>
      BY DEF BeginAttempt
<1>2. data \in Seq(Int) /\ fdpos \in 0 .. Len(data)
      BY DEF UploadInv
<1>3. SubSeq(data, 1, 0) = << >>
      BY SubSeqEmpty
<1>4. SubSeq(data, fdpos - 0 + 1, fdpos) = << >>
      BY <1>2, SubSeqEmpty
<1>5. SentInv'
      BY <1>1, <1>2, <1>3, <1>4 DEF SentInv, UploadInv, Size
<1>. QED  BY <1>1, <1>2, <1>5 DEF UploadInv, IntactDataFinishesIntact, Outcome, rvars

\* The call begins, or is rejected.
LEMMA StartUploadStep ==
    ASSUME UploadInv, StartString \/ StartFd
    PROVE  UploadInv'
<1>1. /\ lpc = "start" /\ lpc' \in {"rejected", "between"}
      /\ lpc' = "rejected" => UNCHANGED rvars
      /\ lpc' = "between" => pc' = "invoking"
      /\ source = "string" /\ lpc' = "between" => Len(data) = Size
      /\ UNCHANGED <<source, data, offset, sent, finished, stored>>
      /\ fdpos' \in {0, fdpos}
      BY DEF StartString, StartFd, R!Start
<1>2. pc = "idle"
      BY <1>1 DEF UploadInv
<1>. QED  BY <1>1, <1>2, UploadAssumption
          DEF UploadInv, IntactDataFinishesIntact, Outcome, rvars, Size

\* The attempt ends.  It ends with OK only if the server has the blob.
LEMMA EndAttemptStep ==
    ASSUME UploadInv,
           \/ UnexpectedEof \/ ReadError \/ FinishOk \/ FinishShort
           \/ \E s \in ErrorCodes : FinishError(s)
    PROVE  UploadInv'
<1>1. /\ UNCHANGED <<source, data, fdpos, offset, sent, finished, stored>>
      /\ lpc \in {"sending", "closing"} /\ lpc' \in {"between", "eof"}
      BY DEF UnexpectedEof, ReadError, FinishOk, FinishShort, FinishError
<1>2. CASE FinishOk
      BY <1>1, <1>2, OkIsFinal DEF FinishOk, UploadInv, IntactDataFinishesIntact
<1>3. CASE UnexpectedEof \/ ReadError \/ FinishShort
  <2>1. pc' = "threw"
        BY <1>3 DEF UnexpectedEof, ReadError, FinishShort, R!InvocationThrows
  <2>. QED  BY <1>1, <2>1 DEF UploadInv, IntactDataFinishesIntact, Outcome, R!Returned
<1>4. ASSUME NEW s \in ErrorCodes, FinishError(s)
      PROVE  UploadInv'
  <2>1. d_status' # R!OK
        BY <1>4, InvocationReturnsFacts, UploadAssumption DEF FinishError, R!OK
  <2>. QED  BY <1>1, <2>1 DEF UploadInv, IntactDataFinishesIntact, Outcome
<1>. QED  BY <1>2, <1>3, <1>4

\* The back-off ends, or the server commits.
LEMMA UploadOtherStep ==
    ASSUME UploadInv, SleepEnds \/ ServerCommits
    PROVE  UploadInv'
<1>1. /\ UNCHANGED <<source, data, fdpos, lpc, offset, sent, finished>>
      /\ stored \in BOOLEAN /\ (stored' = stored \/ stored' = TRUE)
      BY DEF SleepEnds, ServerCommits, UploadInv
<1>2. CASE SleepEnds
  <2>1. pc = "sleeping" /\ pc' = "invoking" /\ UNCHANGED stored
        BY <1>2 DEF SleepEnds, R!Wake
  <2>. QED  BY <1>1, <2>1 DEF UploadInv, SentInv, IntactDataFinishesIntact, Outcome, R!Returned
<1>3. CASE ServerCommits
  <2>1. UNCHANGED rvars /\ stored' \in BOOLEAN /\ stored'
        BY <1>3 DEF ServerCommits
  <2>. QED  BY <1>1, <2>1 DEF UploadInv, SentInv, IntactDataFinishesIntact, Outcome, rvars
<1>. QED  BY <1>2, <1>3

\* upload() preserves its invariant.
LEMMA UploadStep ==
    ASSUME UploadInv, Client \/ ServerCommits
    PROVE  UploadInv'
BY SendFromStringStep, SendFromFdStep, BeginUploadStep, StartUploadStep, EndAttemptStep,
   UploadOtherStep DEF Client

(***************************************************************************)
(* fetchString() and download().                                           *)
(***************************************************************************)
LEMMA DownloadReturnsFacts ==
    ASSUME NEW s, D!R!InvocationReturns(s, 0)
    PROVE  /\ pc = "invoking"
           /\ pc' \in {"true", "false", "sleeping"}
           /\ d_status' = s
BY DEF D!R!InvocationReturns, D!R!FinalAnswer, D!R!LimitExceeded, D!R!Backoff, D!R!Answer

\* A sequence in two parts.
LEMMA SplitSeq ==
    ASSUME NEW s \in Seq(Int), NEW n \in 0 .. Len(s)
    PROVE  /\ SubSeq(s, 1, n) \in Seq(Int) /\ Len(SubSeq(s, 1, n)) = n
           /\ SubSeq(s, n + 1, Len(s)) \in Seq(Int)
           /\ SubSeq(s, 1, n) \o SubSeq(s, n + 1, Len(s)) = s
<1>1. Len(s) \in Nat /\ \A i \in 1 .. Len(s) : s[i] \in Int
      BY LenProperties, ElementOfSeq
<1>2. SubSeq(s, 1, n) \in Seq(Int) /\ Len(SubSeq(s, 1, n)) = n
      BY <1>1, SubSeqProperties
<1>3. SubSeq(s, n + 1, Len(s)) \in Seq(Int)
      BY <1>1, SubSeqProperties
<1>4. SubSeq(s, 1, n) \o SubSeq(s, n + 1, Len(s)) = SubSeq(s, 1, Len(s))
  <2>1. 1 \in 1 .. Len(s) + 1 /\ n \in 1 - 1 .. Len(s) /\ Len(s) \in n .. Len(s)
        BY <1>1
  <2>. QED  BY <2>1, ConcatAdjacentSubSeq
<1>. QED  BY <1>2, <1>3, <1>4, SubSeqFull

\* The first part of a sequence.
LEMMA PrefixOfConcat ==
    ASSUME NEW s \in Seq(Int), NEW t \in Seq(Int)
    PROVE  Len(s) <= Len(s \o t) /\ SubSeq(s \o t, 1, Len(s)) = s
<1>1. /\ s \o t \in Seq(Int)
      /\ Len(s \o t) = Len(s) + Len(t)
      /\ \A i \in 1 .. Len(s) : (s \o t)[i] = s[i]
      BY ConcatProperties, LenProperties
<1>2. Len(s) \in Nat /\ Len(t) \in Nat /\ \A i \in 1 .. Len(s) : s[i] \in Int
      BY LenProperties, ElementOfSeq
<1>. DEFINE p == SubSeq(s \o t, 1, Len(s))
<1>3. /\ p \in Seq(Int) /\ Len(p) = Len(s)
      /\ \A i \in 1 .. Len(s) : p[i] = s[i]
      BY <1>1, <1>2, SubSeqProperties
<1>4. p = s
  <2>. HIDE DEF p
  <2>. QED  BY <1>3, SeqEqual
<1>. QED  BY <1>1, <1>2, <1>4

LEMMA ConcatThree ==
    ASSUME NEW s \in Seq(Int), NEW t \in Seq(Int), NEW u \in Seq(Int)
    PROVE  (s \o t) \o u = s \o (t \o u)
BY ConcatAssociative

\* The bytes written are in the file, after those before.
LEMMA OverwriteFacts ==
    ASSUME NEW f \in Seq(Int), NEW at \in 0 .. Len(f), NEW chunk \in Seq(Int)
    PROVE  /\ D!Overwrite(f, at, chunk) \in Seq(Int)
           /\ at + Len(chunk) <= Len(D!Overwrite(f, at, chunk))
           /\ SubSeq(D!Overwrite(f, at, chunk), 1, at + Len(chunk)) = SubSeq(f, 1, at) \o chunk
<1>. DEFINE head == SubSeq(f, 1, at) \o chunk
            rest == SubSeq(f, at + Len(chunk) + 1, Len(f))
<1>1. D!Overwrite(f, at, chunk) = head \o rest
      BY DEF D!Overwrite
<1>2. Len(f) \in Nat /\ Len(chunk) \in Nat /\ \A i \in 1 .. Len(f) : f[i] \in Int
      BY LenProperties, ElementOfSeq
<1>3. SubSeq(f, 1, at) \in Seq(Int) /\ Len(SubSeq(f, 1, at)) = at
      BY SplitSeq
<1>4. head \in Seq(Int) /\ Len(head) = at + Len(chunk)
      BY <1>3, ConcatProperties
<1>5. rest \in Seq(Int)
      BY <1>2, SubSeqProperties
<1>. HIDE DEF head, rest
<1>6. head \o rest \in Seq(Int)
      BY <1>4, <1>5, ConcatProperties
<1>7. Len(head) <= Len(head \o rest) /\ SubSeq(head \o rest, 1, Len(head)) = head
      BY <1>4, <1>5, PrefixOfConcat
<1>. QED  BY <1>1, <1>4, <1>6, <1>7 DEF head

\* The rest of some copy; if that is intact, what is still missing of the blob.
LEMMA BeginDownloadStep ==
    ASSUME DownloadInv, NEW copy \in Copies, D!BeginAttempt(copy)
    PROVE  DownloadInv'
<1>. USE DEF ResumeIsExact, D!ResumeIsExact
<1>1. /\ pc = "invoking" /\ rpc = "between" /\ rpc' = "reading"
      /\ stream' = SubSeq(copy, D!read_offset + 1, Len(copy))
      /\ honest' => honest /\ copy = Blob
      /\ downloaded_data' = << >>
      /\ UNCHANGED <<rvars, dest, result, file, bytesDownloaded, digestContext>>
      BY DEF D!BeginAttempt, D!rvars, rvars
<1>2. copy \in Seq(Int) /\ Blob \in Seq(Int) /\ << >> \in Seq(Int)
      BY TransferAssumption, UploadAssumption
<1>3. bytesDownloaded \in Nat
      BY LenProperties DEF DownloadInv
<1>4. D!read_offset \in Nat
      BY <1>3 DEF D!read_offset
<1>5. stream' \in Seq(Int)
  <2>1. Len(copy) \in Nat /\ \A i \in 1 .. Len(copy) : copy[i] \in Int
        BY <1>2, LenProperties, ElementOfSeq
  <2>. QED  BY <1>1, <1>4, <2>1, SubSeqProperties
<1>6. honest' /\ dest = "fd" => digestContext \o stream' = Blob
  <2>1. honest' => bytesDownloaded \in 0 .. Len(Blob)
        BY <1>1, <1>2, <1>3, LenProperties DEF DownloadInv, Size
  <2>2. dest = "fd" /\ honest' => stream' = SubSeq(Blob, bytesDownloaded + 1, Len(Blob))
        BY <1>1 DEF D!read_offset
  <2>3. honest' => digestContext = SubSeq(Blob, 1, bytesDownloaded)
        BY <1>1 DEF DownloadInv
  <2>. QED  BY <1>2, <2>1, <2>2, <2>3, SplitSeq
<1>7. honest' /\ dest # "fd" => << >> \o stream' = Blob
      BY <1>1, <1>2, ConcatEmptySeq, SubSeqFull DEF D!read_offset
<1>. QED  BY <1>1, <1>2, <1>5, <1>6, <1>7
          DEF DownloadInv, D!Outcome, D!Delivered, D!R!Returned, rvars

\* fetchString() gets n bytes more.
LEMMA ReadToStringStep ==
    ASSUME DownloadInv, NEW n \in 1 .. ChunkSize, D!ReadToString(n)
    PROVE  DownloadInv'
<1>. USE DEF ResumeIsExact, D!ResumeIsExact
<1>1. /\ dest = "string" /\ rpc = "reading" /\ n \in 1 .. Len(stream)
      /\ downloaded_data' = downloaded_data \o SubSeq(stream, 1, n)
      /\ stream' = SubSeq(stream, n + 1, Len(stream))
      /\ UNCHANGED <<rvars, dest, rpc, honest, result, file, bytesDownloaded, digestContext>>
      BY DEF D!ReadToString, D!rvars, rvars
<1>2. stream \in Seq(Int) /\ downloaded_data \in Seq(Int) /\ n \in 0 .. Len(stream)
      BY <1>1 DEF DownloadInv
<1>3. /\ SubSeq(stream, 1, n) \in Seq(Int) /\ stream' \in Seq(Int)
      /\ SubSeq(stream, 1, n) \o stream' = stream
      BY <1>1, <1>2, SplitSeq
<1>4. downloaded_data' \in Seq(Int) /\ downloaded_data' \o stream' = downloaded_data \o stream
  <2>1. downloaded_data \o SubSeq(stream, 1, n) \in Seq(Int)
        BY <1>2, <1>3, ConcatProperties
  <2>2. (downloaded_data \o SubSeq(stream, 1, n)) \o stream' =
          downloaded_data \o (SubSeq(stream, 1, n) \o stream')
        BY <1>2, <1>3, ConcatThree
  <2>. QED  BY <1>1, <1>3, <2>1, <2>2
<1>. QED  BY <1>1, <1>3, <1>4 DEF DownloadInv, D!Outcome, D!Delivered, rvars

\* download() gets n bytes more, and writes them.
LEMMA ReadToFdStep ==
    ASSUME DownloadInv, NEW n \in 1 .. ChunkSize, D!ReadToFd(n)
    PROVE  DownloadInv'
<1>. USE DEF ResumeIsExact, D!ResumeIsExact
<1>. DEFINE chunk == SubSeq(stream, 1, n)
<1>1. /\ dest = "fd" /\ rpc = "reading" /\ n \in 1 .. Len(stream)
      /\ file' = D!Overwrite(file, bytesDownloaded, chunk)
      /\ digestContext' = digestContext \o chunk
      /\ bytesDownloaded' = bytesDownloaded + n
      /\ stream' = SubSeq(stream, n + 1, Len(stream))
      /\ UNCHANGED <<rvars, dest, rpc, honest, downloaded_data, result>>
      BY DEF D!ReadToFd, D!rvars, rvars
<1>2. /\ stream \in Seq(Int) /\ file \in Seq(Int) /\ digestContext \in Seq(Int)
      /\ n \in 0 .. Len(stream) /\ pc = "invoking"
      /\ bytesDownloaded = Len(digestContext) /\ bytesDownloaded <= Len(file)
      /\ digestContext = SubSeq(file, 1, bytesDownloaded)
      BY <1>1 DEF DownloadInv
<1>3. /\ chunk \in Seq(Int) /\ Len(chunk) = n /\ stream' \in Seq(Int)
      /\ chunk \o stream' = stream
      BY <1>1, <1>2, SplitSeq
<1>4. bytesDownloaded \in 0 .. Len(file)
      BY <1>2, LenProperties
<1>. HIDE DEF chunk
<1>5. /\ file' \in Seq(Int) /\ bytesDownloaded' <= Len(file')
      /\ SubSeq(file', 1, bytesDownloaded') = digestContext'
  <2>1. /\ D!Overwrite(file, bytesDownloaded, chunk) \in Seq(Int)
        /\ bytesDownloaded + Len(chunk) <= Len(D!Overwrite(file, bytesDownloaded, chunk))
        /\ SubSeq(D!Overwrite(file, bytesDownloaded, chunk), 1, bytesDownloaded + Len(chunk)) =
             SubSeq(file, 1, bytesDownloaded) \o chunk
        BY <1>2, <1>3, <1>4, OverwriteFacts
  <2>. QED  BY <1>1, <1>2, <1>3, <2>1
<1>6. /\ digestContext' \in Seq(Int) /\ bytesDownloaded' = Len(digestContext')
      /\ digestContext' \o stream' = digestContext \o stream
  <2>1. /\ digestContext \o chunk \in Seq(Int)
        /\ Len(digestContext \o chunk) = Len(digestContext) + Len(chunk)
        BY <1>2, <1>3, ConcatProperties
  <2>2. (digestContext \o chunk) \o stream' = digestContext \o (chunk \o stream')
        BY <1>2, <1>3, ConcatThree
  <2>. QED  BY <1>1, <1>2, <1>3, <2>1, <2>2
<1>7. honest' =>
        /\ digestContext' \o stream' = Blob
        /\ bytesDownloaded' <= Size
        /\ digestContext' = SubSeq(Blob, 1, bytesDownloaded')
  <2>1. honest' => digestContext' \o stream' = Blob
        BY <1>1, <1>6 DEF DownloadInv
  <2>. QED  BY <1>3, <1>6, <2>1, PrefixOfConcat DEF Size
<1>. QED  BY <1>1, <1>2, <1>3, <1>5, <1>6, <1>7
          DEF DownloadInv, D!Outcome, D!Delivered, D!R!Returned, rvars

\* The exception of a short write leaves the file ahead of the digest context.
LEMMA WriteFailsStep ==
    ASSUME DownloadInv, NEW n \in 1 .. ChunkSize, NEW m \in 0 .. ChunkSize - 1,
           D!WriteFails(n, m)
    PROVE  DownloadInv'
<1>. USE DEF ResumeIsExact, D!ResumeIsExact
<1>1. /\ dest = "fd" /\ rpc = "reading" /\ rpc' = "between" /\ pc' = "threw"
      /\ n \in 1 .. Len(stream) /\ m < n
      /\ file' = D!Overwrite(file, bytesDownloaded, SubSeq(stream, 1, m))
      /\ UNCHANGED <<dest, stream, honest, downloaded_data, result, bytesDownloaded,
                     digestContext>>
      BY DEF D!WriteFails, D!R!InvocationThrows
<1>2. /\ stream \in Seq(Int) /\ file \in Seq(Int)
      /\ bytesDownloaded \in 0 .. Len(file)
      BY <1>1, LenProperties DEF DownloadInv
<1>3. m \in 0 .. Len(stream)
      BY <1>1, <1>2, LenProperties
<1>4. SubSeq(stream, 1, m) \in Seq(Int)
      BY <1>2, <1>3, SplitSeq
<1>5. file' \in Seq(Int)
      BY <1>1, <1>2, <1>4, OverwriteFacts
<1>. QED  BY <1>1, <1>5 DEF DownloadInv, D!Outcome

\* The verified data is the blob; for download(), the file has nothing after it.
LEMMA FinishDownloadStep ==
    ASSUME DownloadInv,
           D!FinishOk \/ D!FinishMismatch \/ \E s \in ErrorCodes : D!FinishError(s)
    PROVE  DownloadInv'
<1>. USE DEF ResumeIsExact, D!ResumeIsExact
<1>1. /\ rpc = "reading" /\ rpc' = "between" /\ pc = "invoking"
      /\ UNCHANGED <<dest, stream, honest, downloaded_data, file, bytesDownloaded,
                     digestContext>>
      BY DEF D!FinishOk, D!FinishMismatch, D!FinishError, DownloadInv
<1>2. CASE D!FinishOk
  <2>1. dest = "string" => result' = Blob /\ downloaded_data = Blob
        BY <1>2 DEF D!FinishOk, D!Verified
  <2>2. dest = "fd" => Len(file) = Size /\ digestContext = Blob /\ result' = result
        BY <1>2 DEF D!FinishOk, D!Verified, D!Size, Size
  <2>3. dest = "fd" => file = Blob
    <3>1. dest = "fd" => SubSeq(file, 1, Len(file)) = Blob
          BY <1>1, <2>2 DEF DownloadInv, Size
    <3>. QED  BY <3>1, SubSeqFull DEF DownloadInv
  <2>4. result' \in Seq(Int)
        BY <2>1, <2>2, UploadAssumption DEF DownloadInv
  <2>5. pc' # "invoking"
        BY <1>2, DownloadReturnsFacts DEF D!FinishOk
  <2>6. D!Delivered'
        BY <1>1, <2>1, <2>3 DEF DownloadInv, D!Delivered
  <2>. QED  BY <1>1, <2>4, <2>5, <2>6 DEF DownloadInv
<1>3. CASE D!FinishMismatch
  <2>1. pc' = "threw" /\ result' = result
        BY <1>3 DEF D!FinishMismatch, D!R!InvocationThrows
  <2>. QED  BY <1>1, <2>1 DEF DownloadInv, D!Outcome
<1>4. ASSUME NEW s \in ErrorCodes, D!FinishError(s)
      PROVE  DownloadInv'
  <2>1. d_status' # R!OK /\ result' = result
        BY <1>4, DownloadReturnsFacts, UploadAssumption DEF D!FinishError, R!OK
  <2>. QED  BY <1>1, <2>1 DEF DownloadInv, D!Outcome, R!OK, D!R!OK
<1>. QED  BY <1>2, <1>3, <1>4

\* The call begins, or its back-off ends.
LEMMA DownloadOtherStep ==
    ASSUME DownloadInv, D!Start \/ D!SleepEnds
    PROVE  DownloadInv'
<1>1. /\ UNCHANGED <<dest, rpc, stream, honest, downloaded_data, result, file,
                     bytesDownloaded, digestContext>>
      /\ pc \in {"idle", "sleeping"} /\ pc' = "invoking"
      BY DEF D!Start, D!SleepEnds, D!R!Start, D!R!Wake
<1>. QED  BY <1>1 DEF DownloadInv, ResumeIsExact, D!ResumeIsExact, D!Outcome, D!R!Returned

\* A download preserves its invariant.
LEMMA DownloadStep ==
    ASSUME DownloadInv, D!Next
    PROVE  DownloadInv'
BY BeginDownloadStep, ReadToStringStep, ReadToFdStep, WriteFailsStep, FinishDownloadStep,
   DownloadOtherStep DEF D!Next

(***************************************************************************)
(* The transfer.                                                           *)
(***************************************************************************)
LEMMA InitIInv ==
    ASSUME TransferInit
    PROVE  IInv
<1>1. /\ pc = "idle" /\ lpc = "start" /\ rpc = "between" /\ ~ finished /\ offset = 0
      /\ source \in {"string", "fd"} /\ data \in Seq(Int) /\ fdpos \in 0 .. Len(data)
      /\ stored \in BOOLEAN
      BY UploadAssumption DEF TransferInit, Init, D!Init, R!Init
<1>2. /\ dest \in {"string", "fd"} /\ stream = << >> /\ downloaded_data = << >>
      /\ result = << >> /\ file \in Seq(Int) /\ bytesDownloaded = 0 /\ digestContext = << >>
      BY TransferAssumption DEF TransferInit, D!Init
<1>3. UploadInv
      BY <1>1 DEF UploadInv, IntactDataFinishesIntact, Outcome
<1>4. DownloadInv
  <2>1. \A f \in Seq(Int) : SubSeq(f, 1, 0) = << >>
        BY SubSeqEmpty
  <2>2. << >> \in Seq(Int) /\ Len(<< >>) = 0
        OBVIOUS
  <2>3. 0 <= Size /\ 0 <= Len(file)
        BY <1>2, UploadAssumption, LenProperties DEF Size
  <2>. QED  BY <1>1, <1>2, <2>1, <2>2, <2>3, UploadAssumption
            DEF DownloadInv, ResumeIsExact, D!ResumeIsExact, D!Outcome
<1>5. op \in {"upload", "download"} /\ (op = "upload" => dest = "string")
      BY DEF TransferInit, NoDownload
<1>. QED  BY <1>1, <1>2, <1>3, <1>4, <1>5
          DEF IInv, NoUploadInv, NoDownloadInv

LEMMA NextIInv ==
    ASSUME IInv, [TransferNext]_transfervars
    PROVE  IInv'
<1>1. CASE UploadClient \/ Server
  <2>1. op = "upload" /\ UNCHANGED <<op, downloadvars>> /\ (Client \/ ServerCommits)
        BY <1>1 DEF UploadClient, Server
  <2>2. UploadInv'
        BY <2>1, UploadStep DEF IInv
  <2>. QED  BY <2>1, <2>2 DEF IInv, NoDownloadInv, downloadvars
<1>2. CASE DownloadClient
  <2>1. op = "download" /\ UNCHANGED <<op, uploadvars>> /\ D!Next
        BY <1>2 DEF DownloadClient
  <2>2. DownloadInv'
        BY <2>1, DownloadStep DEF IInv
  <2>. QED  BY <2>1, <2>2 DEF IInv, NoUploadInv, uploadvars
<1>3. CASE UNCHANGED transfervars
  <2>. USE DEF transfervars, uploadvars, downloadvars, rvars
  <2>1. op = "upload" => UploadInv'
        BY <1>3 DEF IInv, UploadInv, SentInv, IntactDataFinishesIntact, Outcome
  <2>2. op = "download" => DownloadInv'
        BY <1>3 DEF IInv, DownloadInv, ResumeIsExact, D!ResumeIsExact, D!Outcome, D!Delivered
  <2>. QED  BY <1>3, <2>1, <2>2 DEF IInv, NoUploadInv, NoDownloadInv
<1>. QED  BY <1>1, <1>2, <1>3 DEF TransferNext

LEMMA Invariance == TransferSpec => []IInv
BY InitIInv, NextIInv, PTL DEF TransferSpec

\* ByteStreamUpload: whatever breaks between the client and the server, and on
\* whichever attempt, a stream closed with finish_write carried the blob if the
\* string or the file passed to upload() is the blob.
THEOREM IntactUploads == TransferSpec => []IntactDataFinishesIntact
<1>1. IInv => IntactDataFinishesIntact
      BY DEF IInv, UploadInv, NoUploadInv, IntactDataFinishesIntact
<1>. QED  BY <1>1, Invariance, PTL

\* ByteStreamDownload: however often a download is resumed, it asks for exactly
\* the bytes that it has not got, and its digest context has seen exactly the
\* bytes written to the file.
THEOREM ExactResume == TransferSpec => []ResumeIsExact
<1>1. ASSUME IInv  PROVE ResumeIsExact
  <2>1. CASE op = "download"
        BY <1>1, <2>1 DEF IInv, DownloadInv
  <2>2. CASE op = "upload"
    <3>1. dest = "string" /\ rpc = "between" /\ bytesDownloaded = 0 /\ digestContext = << >>
          BY <1>1, <2>2 DEF IInv, NoDownloadInv
    <3>2. Len(<< >>) = 0
          OBVIOUS
    <3>. QED  BY <3>1, <3>2 DEF ResumeIsExact, D!ResumeIsExact
  <2>. QED  BY <1>1, <2>1, <2>2 DEF IInv
<1>. QED  BY <1>1, Invariance, PTL

(***************************************************************************)
(* The refinement.                                                         *)
(***************************************************************************)
\* AtomicTransfer without its fairness.
AtomicSafety == A!Init /\ [][A!Next]_(A!vars)

\* The refinement mapping.
Dlv == IF op = "upload" THEN stored ELSE D!Delivered
Out == IF op = "upload" THEN Outcome ELSE D!Outcome

LEMMA MappingTypes ==
    ASSUME IInv
    PROVE  /\ Dlv \in BOOLEAN
           /\ Out \in {"pending", "ok", "failed"}
           /\ Out = "ok" => Dlv = TRUE
<1>1. D!Delivered \in BOOLEAN
      BY DEF D!Delivered
<1>2. op = "upload" => stored \in BOOLEAN
      BY DEF IInv, UploadInv
<1>3. Outcome \in {"pending", "ok", "failed"} /\ D!Outcome \in {"pending", "ok", "failed"}
      BY DEF Outcome, D!Outcome
<1>4. (op = "upload" /\ Outcome = "ok" => stored) /\ (op = "download" /\ D!Outcome = "ok" => D!Delivered)
      BY DEF IInv, UploadInv, DownloadInv
<1>5. op \in {"upload", "download"}
      BY DEF IInv
<1>. HIDE DEF D!Delivered, D!Outcome, Outcome, IInv
<1>. QED  BY <1>1, <1>2, <1>3, <1>4, <1>5 DEF Dlv, Out

\* The client's thread takes no step once the call has an outcome.
LEMMA UploadIsPending ==
    ASSUME UploadInv, Client
    PROVE  Outcome = "pending"
<1>1. CASE StartString \/ StartFd
      BY <1>1 DEF StartString, StartFd, UploadInv, Outcome, R!Returned
<1>2. CASE SleepEnds
      BY <1>2 DEF SleepEnds, R!Wake, UploadInv, Outcome, R!Returned
<1>3. CASE BeginAttempt
      BY <1>3 DEF BeginAttempt, Outcome, R!Returned
<1>4. CASE ~ (StartString \/ StartFd \/ SleepEnds \/ BeginAttempt)
  <2>1. lpc \in {"sending", "closing"}
        BY <1>4 DEF Client, SendFromString, SendFromFd, UnexpectedEof, ReadError, FinishOk,
                    FinishShort, FinishError
  <2>. QED  BY <2>1 DEF UploadInv, Outcome, R!Returned
<1>. QED  BY <1>1, <1>2, <1>3, <1>4

LEMMA DownloadIsPending ==
    ASSUME DownloadInv, D!Next
    PROVE  D!Outcome = "pending"
<1>1. pc = "idle" \/ pc = "sleeping" \/ pc = "invoking" \/ rpc = "reading"
      BY DEF D!Next, D!Start, D!BeginAttempt, D!ReadToString, D!ReadToFd, D!WriteFails,
             D!FinishOk, D!FinishMismatch, D!FinishError, D!SleepEnds, D!R!Wake
<1>. QED  BY <1>1 DEF DownloadInv, D!Outcome, D!R!Returned

\* One step of a transfer is one step of AtomicTransfer, or none.
LEMMA StepRefines ==
    ASSUME IInv, IInv', [TransferNext]_transfervars
    PROVE  \/ /\ Out # "ok" /\ Dlv' \in BOOLEAN /\ Out' = Out
           \/ /\ Out = "pending" /\ Out' = "ok" /\ Dlv' = TRUE
           \/ /\ Out = "pending" /\ Out' = "failed" /\ Dlv' \in BOOLEAN
           \/ Dlv' = Dlv /\ Out' = Out
<1>1. /\ Dlv' \in BOOLEAN
      /\ Out' \in {"pending", "ok", "failed"}
      /\ Out' = "ok" => Dlv' = TRUE
  <2>1. IInv => /\ Dlv \in BOOLEAN
                /\ Out \in {"pending", "ok", "failed"}
                /\ Out = "ok" => Dlv = TRUE
        BY MappingTypes
  <2>2. (IInv => /\ Dlv \in BOOLEAN
                 /\ Out \in {"pending", "ok", "failed"}
                 /\ Out = "ok" => Dlv = TRUE)'
        BY <2>1, MappingTypes, PTL
  <2>. QED  BY <2>2
<1>2. CASE UploadClient
  <2>1. Out = "pending"
        BY <1>2, UploadIsPending DEF UploadClient, IInv, Out
  <2>. QED  BY <1>1, <2>1
<1>3. CASE DownloadClient
  <2>1. Out = "pending"
        BY <1>3, DownloadIsPending DEF DownloadClient, IInv, Out
  <2>. QED  BY <1>1, <2>1
<1>4. CASE Server
  <2>1. op = "upload" /\ op' = op /\ ~ stored /\ UNCHANGED <<rvars, lpc>>
        BY <1>4 DEF Server, ServerCommits
  <2>2. Outcome' = Outcome
        BY <2>1 DEF Outcome, rvars
  <2>3. Out # "ok" /\ Out' = Out
        BY <2>1, <2>2 DEF Out, IInv, UploadInv
  <2>. QED  BY <1>1, <2>3
<1>5. CASE UNCHANGED transfervars
      BY <1>5 DEF transfervars, uploadvars, downloadvars, rvars, Dlv, Out, Outcome,
                  D!Outcome, D!Delivered
<1>. QED  BY <1>2, <1>3, <1>4, <1>5 DEF TransferNext

\* Each of upload(), fetchString() and download() is one atomic transfer: it
\* ends at most once, without an exception only when the destination holds the
\* blob, and nothing that the retrier, the server or another attempt does later
\* takes a successful transfer back.
THEOREM Refinement == TransferSpec => AtomicSafety
<1>1. TransferInit => A!Init
  <2>. SUFFICES ASSUME TransferInit  PROVE A!Init
       OBVIOUS
  <2>1. Dlv \in BOOLEAN
        BY InitIInv, MappingTypes
  <2>2. Out = "pending"
        BY DEF TransferInit, Init, D!Init, R!Init, Out, Outcome, D!Outcome, R!Returned,
               D!R!Returned
  <2>. QED  BY <2>1, <2>2 DEF A!Init, Dlv, Out
<1>2. IInv /\ IInv' /\ [TransferNext]_transfervars => [A!Next]_(A!vars)
      BY StepRefines DEF A!Next, A!Move, A!Succeed, A!Fail, A!vars, Dlv, Out
<1>. QED  BY <1>1, <1>2, Invariance, PTL DEF TransferSpec, AtomicSafety

=============================================================================
