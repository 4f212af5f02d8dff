------------------------- MODULE ByteStreamDownload -------------------------
(***************************************************************************)
(* Client::fetchString() and Client::download(fd): one ByteStream.Read()   *)
(* stream per attempt, under GrpcRetrier.  fetchString() starts over with  *)
(* every attempt; download() asks for the rest, and carries the digest     *)
(* context and the file over from one attempt to the next.                 *)
(*                                                                         *)
(* The server is external: the stream of each attempt comes from some copy *)
(* of the blob, which may be damaged, and may end at any point, with or    *)
(* without an error.  The digest of a sequence of bytes is that sequence:  *)
(* two blobs have the same digest when they are equal.                     *)
(***************************************************************************)
EXTENDS Integers, Sequences

CONSTANTS
    Blob,         \* the bytes that the requested digest describes
    Copies,       \* what the server's replicas hold under that digest
    OldFiles,     \* what the file of download(fd) may hold before
    ChunkSize,    \* the largest ReadResponse
    RetryLimit,
    ErrorCodes

VARIABLES
    \* the retrier made by issueRequestAndThrowOnErrors()
    pc, d_retryAttempts, d_status, d_retryDelayBase, statuses, sleeps,
    dest,             \* "string" (fetchString) or "fd" (download)
    lpc,
    stream,           \* bytes the current stream has yet to give
    honest,           \* history: every stream so far came from an intact copy
    \* fetchString()
    downloaded_data,
    result,
    \* download()
    file,
    bytesDownloaded,
    digestContext

rvars == <<pc, d_retryAttempts, d_status, d_retryDelayBase, statuses, sleeps>>
vars == <<rvars, dest, lpc, stream, honest, downloaded_data, result, file, bytesDownloaded, digestContext>>

R == INSTANCE GrpcRetrier
       WITH ExtraRetryable <- {}, DelayBase <- 100, ServerDelays <- {0}

Size == Len(Blob)

TypeOK ==
    /\ R!TypeOK
    /\ dest \in {"string", "fd"}
    /\ lpc \in {"between", "reading"}
    /\ stream \in Seq(Int)
    /\ honest \in BOOLEAN
    /\ downloaded_data \in Seq(Int)
    /\ \E copy \in Copies : Len(downloaded_data) <= Len(copy)
    /\ result \in Seq(Int)
    /\ file \in Seq(Int)
    /\ bytesDownloaded \in Nat
    /\ digestContext \in Seq(Int)

Init ==
    /\ R!Init
    /\ dest \in {"string", "fd"}
    /\ lpc = "between"
    /\ stream = << >>
    /\ honest = TRUE
    /\ downloaded_data = << >>
    /\ result = << >>
    /\ file \in OldFiles
    /\ bytesDownloaded = 0
    /\ digestContext = << >>

Start ==
    /\ pc = "idle"
    /\ R!Start
    /\ UNCHANGED <<dest, lpc, stream, honest, downloaded_data, result, file, bytesDownloaded, digestContext>>

\* Mutant: download() asks for the whole blob again.
read_offset_Zero == 0

read_offset == IF dest = "fd" THEN bytesDownloaded ELSE 0

\* The retrier calls the lambda, which opens a stream on one of the copies.
BeginAttempt(copy) ==
    /\ pc = "invoking"
    /\ lpc = "between"
    /\ lpc' = "reading"
    /\ stream' = SubSeq(copy, read_offset + 1, Len(copy))
    /\ honest' = (honest /\ copy = Blob)
    /\ downloaded_data' = << >>
    /\ UNCHANGED <<rvars, dest, result, file, bytesDownloaded, digestContext>>

\* write(fd, chunk): at the position where the last write ended.
Overwrite(f, at, chunk) ==
    SubSeq(f, 1, at) \o chunk \o SubSeq(f, at + Len(chunk) + 1, Len(f))

\* reader->Read() gives the next n bytes.
ReadToString(n) ==
    /\ dest = "string"
    /\ lpc = "reading"
    /\ n \in 1 .. Len(stream)
    /\ downloaded_data' = downloaded_data \o SubSeq(stream, 1, n)
    /\ stream' = SubSeq(stream, n + 1, Len(stream))
    /\ UNCHANGED <<rvars, dest, lpc, honest, result, file, bytesDownloaded, digestContext>>

ReadToFd(n) ==
    LET chunk == SubSeq(stream, 1, n)
    IN  /\ dest = "fd"
        /\ lpc = "reading"
        /\ n \in 1 .. Len(stream)
        /\ file' = Overwrite(file, bytesDownloaded, chunk)
        /\ digestContext' = digestContext \o chunk
        /\ bytesDownloaded' = bytesDownloaded + n
        /\ stream' = SubSeq(stream, n + 1, Len(stream))
        /\ UNCHANGED <<rvars, dest, lpc, honest, downloaded_data, result>>

\* write() stores only m of the n bytes (the disk is full): system_error.
WriteFails(n, m) ==
    /\ dest = "fd"
    /\ lpc = "reading"
    /\ n \in 1 .. Len(stream)
    /\ m < n
    /\ file' = Overwrite(file, bytesDownloaded, SubSeq(stream, 1, m))
    /\ lpc' = "between"
    /\ R!InvocationThrows
    /\ UNCHANGED <<dest, stream, honest, downloaded_data, result, bytesDownloaded, digestContext>>

\* Mutant: the size is compared, the digest is not.
Verified_SizeOnly ==
    CASE dest = "string" -> Len(downloaded_data) = Size
      [] dest = "fd" -> Len(file) = Size

\* The checks made when Finish() is OK: the size, then the digest.
Verified ==
    CASE dest = "string" -> Len(downloaded_data) = Size /\ downloaded_data = Blob
      [] dest = "fd" -> Len(file) = Size /\ digestContext = Blob

FinishOk ==
    /\ lpc = "reading"
    /\ Verified
    /\ lpc' = "between"
    /\ result' = IF dest = "string" THEN downloaded_data ELSE result
    /\ R!InvocationReturns(R!OK, 0)
    /\ UNCHANGED <<dest, stream, honest, downloaded_data, file, bytesDownloaded, digestContext>>

\* Finish() is OK but the data is not the blob: runtime_error.
FinishMismatch ==
    /\ lpc = "reading"
    /\ ~ Verified
    /\ lpc' = "between"
    /\ R!InvocationThrows
    /\ UNCHANGED <<dest, stream, honest, downloaded_data, result, file, bytesDownloaded, digestContext>>

FinishError(s) ==
    /\ lpc = "reading"
    /\ lpc' = "between"
    /\ R!InvocationReturns(s, 0)
    /\ UNCHANGED <<dest, stream, honest, downloaded_data, result, file, bytesDownloaded, digestContext>>

SleepEnds ==
    /\ R!Wake
    /\ UNCHANGED <<dest, lpc, stream, honest, downloaded_data, result, file, bytesDownloaded, digestContext>>

Next ==
    \/ Start
    \/ \E copy \in Copies : BeginAttempt(copy)
    \/ \E n \in 1 .. ChunkSize : ReadToString(n) \/ ReadToFd(n)
    \/ \E n \in 1 .. ChunkSize, m \in 0 .. ChunkSize - 1 : WriteFails(n, m)
    \/ FinishOk
    \/ FinishMismatch
    \/ \E s \in ErrorCodes : FinishError(s)
    \/ SleepEnds

\* The client's thread runs on, and every stream gives data or ends.
Spec == Init /\ [][Next]_vars /\ WF_vars(Next)

(***************************************************************************)
(* Properties.                                                             *)
(***************************************************************************)
Outcome ==
    IF pc = "true" /\ d_status = R!OK THEN "ok"
    ELSE IF pc \in R!Returned THEN "failed" ELSE "pending"

\* The string returned, or the file, is the blob.
Delivered == IF dest = "string" THEN result = Blob ELSE file = Blob

\* Resuming neither skips nor repeats bytes: as long as the streams come from
\* intact copies, what has been received and what the stream still holds make
\* up the blob, so an attempt that reads its stream to the end can succeed.  The
\* digest context has seen exactly the bytes in the file, across all attempts, so
\* download() never verifies anything but what it has written.
ResumeIsExact ==
    /\ honest /\ lpc = "reading" =>
          (IF dest = "fd" THEN digestContext ELSE downloaded_data) \o stream = Blob
    /\ bytesDownloaded = Len(digestContext)
    /\ dest = "fd" /\ pc # "threw" => digestContext = SubSeq(file, 1, bytesDownloaded)
=============================================================================
