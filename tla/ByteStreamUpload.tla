-------------------------- MODULE ByteStreamUpload --------------------------
(***************************************************************************)
(* Client::upload(), from a string and from a file descriptor: one         *)
(* ByteStream.Write() stream per attempt, under GrpcRetrier.               *)
(*                                                                         *)
(* The server is external: it stores a blob once a stream gave it exactly  *)
(* that blob followed by finish_write, possibly after the client has given *)
(* the stream up; it may break a stream at any point.                      *)
(***************************************************************************)
EXTENDS Integers, Sequences

CONSTANTS
    Blob,        \* the bytes that the digest passed to upload() describes
    SourceData,  \* what the string or the file passed to upload() may hold
    ChunkSize,   \* bytestreamChunkSizeBytes()
    RetryLimit,
    ErrorCodes

ASSUME UploadAssumption ==
    /\ ChunkSize \in Nat \ {0}
    /\ Blob \in Seq(Int)
    /\ SourceData \subseteq Seq(Int)
    /\ "OK" \notin ErrorCodes

VARIABLES
    \* the retrier made by issueRequestAndThrowOnErrors()
    pc, d_retryAttempts, d_status, d_retryDelayBase, statuses, sleeps,
    \* the caller's data
    source,    \* "string" or "fd"
    data,
    fdpos,     \* file position of the descriptor
    \* the lambda
    lpc,
    offset,
    \* the stream of the current attempt
    sent,      \* bytes accepted by Write()
    finished,  \* the request with finish_write was accepted
    \* the server
    inflight,  \* some attempt delivered the whole blob
    stored

rvars == <<pc, d_retryAttempts, d_status, d_retryDelayBase, statuses, sleeps>>
vars == <<rvars, source, data, fdpos, lpc, offset, sent, finished, inflight, stored>>

\* Client::makeRetrier() adds no retryable code to UNAVAILABLE.
R == INSTANCE GrpcRetrier
       WITH ExtraRetryable <- {}, DelayBase <- 100, ServerDelays <- {0}

Size == Len(Blob)
SmallerOf(m, n) == IF m <= n THEN m ELSE n

TypeOK ==
    /\ R!TypeOK
    /\ source \in {"string", "fd"}
    /\ data \in SourceData
    /\ fdpos \in 0 .. Len(data)
    /\ lpc \in {"start", "rejected", "between", "sending", "closing", "eof"}
    /\ offset \in 0 .. Size + ChunkSize
    /\ Len(sent) <= Size + ChunkSize
    /\ finished \in BOOLEAN
    /\ inflight \in BOOLEAN
    /\ stored \in BOOLEAN

Init ==
    /\ R!Init
    /\ source \in {"string", "fd"}
    /\ data \in SourceData
    /\ fdpos \in 0 .. Len(data)
    /\ lpc = "start"
    /\ offset = 0
    /\ sent = << >>
    /\ finished = FALSE
    /\ inflight = FALSE
    /\ stored \in BOOLEAN

\* upload(string): a length that contradicts the digest is a logic_error.
StartString ==
    /\ source = "string"
    /\ lpc = "start"
    /\ IF Len(data) # Size
       THEN lpc' = "rejected" /\ UNCHANGED rvars
       ELSE lpc' = "between" /\ R!Start
    /\ UNCHANGED <<source, data, fdpos, offset, sent, finished, inflight, stored>>

\* upload(fd): rewinds the descriptor, once.
StartFd ==
    /\ source = "fd"
    /\ lpc = "start"
    /\ fdpos' = 0
    /\ lpc' = "between"
    /\ R!Start
    /\ UNCHANGED <<source, data, offset, sent, finished, inflight, stored>>

\* Mutant: a retry goes on at the offset of the attempt before.
BeginAttempt_KeepsOffset ==
    /\ pc = "invoking"
    /\ lpc = "between"
    /\ lpc' = "sending"
    /\ sent' = << >>
    /\ finished' = FALSE
    /\ UNCHANGED <<rvars, source, data, fdpos, offset, inflight, stored>>

\* The retrier calls the lambda, which opens a new stream.
BeginAttempt ==
    /\ pc = "invoking"
    /\ lpc = "between"
    /\ lpc' = "sending"
    /\ offset' = 0
    /\ sent' = << >>
    /\ finished' = FALSE
    /\ UNCHANGED <<rvars, source, data, fdpos, inflight, stored>>

\* writer->Write() of a chunk, the last one with finish_write; if the stream
\* is broken the loop ends.
Write(chunk, last, accepted) ==
    /\ lpc' = IF accepted /\ ~ last THEN "sending" ELSE "closing"
    /\ sent' = IF accepted THEN sent \o chunk ELSE sent
    /\ finished' = (accepted /\ last)
    /\ inflight' = (inflight \/ (accepted /\ last /\ sent' = Blob))

\* One turn of the loop of upload(string).
SendFromString(accepted) ==
    LET n == SmallerOf(ChunkSize, Len(data) - offset)
    IN  /\ source = "string"
        /\ lpc = "sending"
        /\ offset' = offset + n
        /\ Write(SubSeq(data, offset + 1, offset + n), offset + n = Len(data), accepted)
        /\ UNCHANGED <<rvars, source, data, fdpos, stored>>

\* One turn of the loop of upload(fd); read() gave n bytes.
SendFromFd(n, accepted) ==
    /\ source = "fd"
    /\ lpc = "sending"
    /\ n = 0 <=> fdpos = Len(data)
    /\ n <= Len(data) - fdpos
    /\ ~ (n = 0 /\ offset < Size)
    /\ fdpos' = fdpos + n
    /\ offset' = IF accepted THEN offset + n ELSE offset
    /\ Write(SubSeq(data, fdpos + 1, fdpos + n), offset + n >= Size, accepted)
    /\ UNCHANGED <<rvars, source, data, stored>>

\* read() reached the end too early: "unexpected end of file".
UnexpectedEof ==
    /\ source = "fd"
    /\ lpc = "sending"
    /\ fdpos = Len(data)
    /\ offset < Size
    /\ lpc' = "eof"
    /\ R!InvocationThrows
    /\ UNCHANGED <<source, data, fdpos, offset, sent, finished, inflight, stored>>

\* read() failed.
ReadError ==
    /\ source = "fd"
    /\ lpc = "sending"
    /\ lpc' = "between"
    /\ R!InvocationThrows
    /\ UNCHANGED <<source, data, fdpos, offset, sent, finished, inflight, stored>>

\* WritesDone() and Finish(): the server confirms the whole size.
FinishOk ==
    /\ lpc = "closing"
    /\ stored
    /\ lpc' = "between"
    /\ R!InvocationReturns(R!OK, 0)
    /\ UNCHANGED <<source, data, fdpos, offset, sent, finished, inflight, stored>>

\* Finish() is OK but committed_size is not the size of the blob.
FinishShort ==
    /\ lpc = "closing"
    /\ lpc' = "between"
    /\ R!InvocationThrows
    /\ UNCHANGED <<source, data, fdpos, offset, sent, finished, inflight, stored>>

FinishError(s) ==
    /\ lpc = "closing"
    /\ lpc' = "between"
    /\ R!InvocationReturns(s, 0)
    /\ UNCHANGED <<source, data, fdpos, offset, sent, finished, inflight, stored>>

SleepEnds ==
    /\ R!Wake
    /\ UNCHANGED <<source, data, fdpos, lpc, offset, sent, finished, inflight, stored>>

\* External: the server commits what a stream completed.
ServerCommits ==
    /\ inflight
    /\ ~ stored
    /\ stored' = TRUE
    /\ UNCHANGED <<rvars, source, data, fdpos, lpc, offset, sent, finished, inflight>>

Client ==
    \/ StartString
    \/ StartFd
    \/ BeginAttempt
    \/ \E accepted \in BOOLEAN : SendFromString(accepted)
    \/ \E n \in 0 .. ChunkSize, accepted \in BOOLEAN : SendFromFd(n, accepted)
    \/ UnexpectedEof
    \/ ReadError
    \/ FinishOk
    \/ FinishShort
    \/ \E s \in ErrorCodes : FinishError(s)
    \/ SleepEnds

Next == Client \/ ServerCommits

\* The client's thread runs on; the server owes nothing.
Spec == Init /\ [][Next]_vars /\ WF_vars(Client)

(***************************************************************************)
(* Properties.                                                             *)
(***************************************************************************)
\* issueRequestAndThrowOnErrors(): only an OK status returns normally.
Outcome ==
    IF pc = "true" /\ d_status = R!OK THEN "ok"
    ELSE IF lpc = "rejected" \/ pc \in R!Returned THEN "failed" ELSE "pending"

\* If the caller's data is the blob, a stream that ends with finish_write
\* carried the blob, on whichever attempt: a retry never makes the client
\* commit a part of the file, or the right number of wrong bytes.
IntactDataFinishesIntact ==
    data = Blob /\ finished => sent = Blob

\* "will attempt to invoke the request until it either succeeds, fails with a
\* final, non-retryable error, or the limit of attempts was exceeded"
\* (grpcretrier.h): an unchanged file never ends unexpectedly.
IntactFileHasNoUnexpectedEof ==
    data = Blob => lpc # "eof"
=============================================================================
