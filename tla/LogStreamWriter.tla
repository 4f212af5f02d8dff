--------------------------- MODULE LogStreamWriter ---------------------------
(***************************************************************************)
(* LogStreamWriter: appends to a log stream through one ByteStream.Write() *)
(* call that is kept open between calls to write(), until commit().        *)
(*                                                                         *)
(* Data is append-only, so byte counts stand for contents.  The stream and *)
(* the server are external: Write() being true means that the bytes are on *)
(* their way; the server reports what it has when the stream is finished.  *)
(* write() and commit() have a program counter each, so that modules which *)
(* call them from two threads can tell whether they overlap.               *)
(***************************************************************************)
EXTENDS Integers

CONSTANTS
    RetryLimit,  \* d_grpcRetryLimit
    MaxBytes     \* bound: bytes written in total

VARIABLES
    d_writeOffset,
    d_writeCommitted,
    d_resourceReady,
    stream,      \* of d_bytestreamWriter, which is created on first use
    wpc,         \* write(): where it is, its argument, what it returned last
    chunk,
    wresult,
    kpc,         \* commit(): where it is, d_retryAttempts, what it returned
    attempts,
    kresult,
    sent,        \* bytes accepted by the stream
    received,    \* bytes that the server has
    committed    \* committed_size in the server's response; -1 is none

writevars == <<wpc, chunk, wresult>>
commitvars == <<kpc, attempts, kresult>>
vars == <<d_writeOffset, d_writeCommitted, d_resourceReady, stream,
          writevars, commitvars, sent, received, committed>>

Results == {"none", "true", "false", "threw"}

TypeOK ==
    /\ d_writeOffset \in 0 .. MaxBytes
    /\ d_writeCommitted \in BOOLEAN
    /\ d_resourceReady \in BOOLEAN
    /\ stream \in {"none", "open", "halfclosed", "finished", "broken"}
    /\ wpc \in {"idle", "querying", "sending"}
    /\ chunk \in 0 .. MaxBytes
    /\ wresult \in Results
    /\ kpc \in {"idle", "sending", "finishing"}
    /\ attempts \in 0 .. RetryLimit
    /\ kresult \in Results
    /\ sent \in 0 .. MaxBytes
    /\ received \in 0 .. sent
    /\ committed \in -1 .. MaxBytes

Init ==
    /\ d_writeOffset = 0
    /\ d_writeCommitted = FALSE
    /\ d_resourceReady = FALSE
    /\ stream = "none"
    /\ wpc = "idle" /\ chunk = 0 /\ wresult = "none"
    /\ kpc = "idle" /\ attempts = 0 /\ kresult = "none"
    /\ sent = 0
    /\ received = 0
    /\ committed = -1

(***************************************************************************)
(* write(data), for data of n bytes.                                       *)
(***************************************************************************)
WriteCall(n) ==
    /\ wpc = "idle"
    /\ chunk' = n
    /\ IF d_writeCommitted
       THEN wresult' = "threw" /\ UNCHANGED wpc
       ELSE /\ wpc' = IF d_resourceReady THEN "sending" ELSE "querying"
            /\ wresult' = "none"
    /\ UNCHANGED <<d_writeOffset, d_writeCommitted, d_resourceReady, stream,
                   commitvars, sent, received, committed>>

\* queryStreamWriteStatus(): what the retrier makes of QueryWriteStatus().
QueryReturns(ok) ==
    /\ wpc = "querying"
    /\ d_resourceReady' = ok
    /\ wpc' = IF ok THEN "sending" ELSE "idle"
    /\ wresult' = IF ok THEN "none" ELSE "false"
    /\ UNCHANGED <<d_writeOffset, d_writeCommitted, stream, chunk,
                   commitvars, sent, received, committed>>

\* Write() on a stream that takes no more requests is false.
Usable == stream \in {"none", "open"}
Broken == IF stream = "finished" THEN "finished" ELSE "broken"

\* The retrier sees OK or INTERNAL, neither of which it retries.
SendData(ok) ==
    /\ wpc = "sending"
    /\ ok => Usable
    /\ stream' = IF ok THEN "open" ELSE Broken
    /\ sent' = IF ok THEN sent + chunk ELSE sent
    /\ d_writeOffset' = IF ok THEN d_writeOffset + chunk ELSE d_writeOffset
    /\ wresult' = IF ok THEN "true" ELSE "false"
    /\ wpc' = "idle"
    /\ UNCHANGED <<d_writeCommitted, d_resourceReady, chunk, commitvars, received, committed>>

(***************************************************************************)
(* commit().                                                               *)
(***************************************************************************)
CommitCall ==
    /\ kpc = "idle"
    /\ attempts' = 0
    /\ IF d_writeCommitted
       THEN kresult' = "threw" /\ UNCHANGED kpc
       ELSE kresult' = "none" /\ kpc' = "sending"
    /\ UNCHANGED <<d_writeOffset, d_writeCommitted, d_resourceReady, stream,
                   writevars, sent, received, committed>>

\* The request with finish_write; INTERNAL if the stream is broken.
SendFinish(ok) ==
    /\ kpc = "sending"
    /\ ok => Usable
    /\ stream' = IF ok THEN "halfclosed" ELSE Broken
    /\ kpc' = IF ok THEN "finishing" ELSE "idle"
    /\ kresult' = IF ok THEN "none" ELSE "false"
    /\ UNCHANGED <<d_writeOffset, d_writeCommitted, d_resourceReady, writevars,
                   attempts, sent, received, committed>>

\* Finish() is OK: committed_size has to be what was written (else DATA_LOSS).
FinishOk ==
    /\ kpc = "finishing"
    /\ stream' = "finished"
    /\ committed' = received
    /\ kpc' = "idle"
    /\ d_writeCommitted' = (received = d_writeOffset)
    /\ kresult' = IF received = d_writeOffset THEN "true" ELSE "false"
    /\ UNCHANGED <<d_writeOffset, d_resourceReady, writevars, attempts, sent, received>>

\* Finish() gives an error; UNAVAILABLE makes the retrier call the lambda
\* again, on the stream that was just finished.
FinishError(retryable) ==
    /\ kpc = "finishing"
    /\ stream' = "finished"
    /\ IF retryable /\ attempts < RetryLimit
       THEN attempts' = attempts + 1 /\ kpc' = "sending" /\ UNCHANGED kresult
       ELSE kpc' = "idle" /\ kresult' = "false" /\ UNCHANGED attempts
    /\ UNCHANGED <<d_writeOffset, d_writeCommitted, d_resourceReady, writevars,
                   sent, received, committed>>

\* External: bytes arrive.
ServerReceives ==
    /\ stream \in {"open", "halfclosed"}
    /\ received < sent
    /\ received' \in received + 1 .. sent
    /\ UNCHANGED <<d_writeOffset, d_writeCommitted, d_resourceReady, stream,
                   writevars, commitvars, sent, committed>>

WriteStep == \E ok \in BOOLEAN : QueryReturns(ok) \/ SendData(ok)
CommitStep ==
    \/ \E ok \in BOOLEAN : SendFinish(ok)
    \/ FinishOk
    \/ \E retryable \in BOOLEAN : FinishError(retryable)

\* One thread that calls write() and commit() in any order.
Calls ==
    /\ wpc = "idle" /\ kpc = "idle"
    /\ \/ \E n \in 1 .. MaxBytes : sent + n <= MaxBytes /\ WriteCall(n)
       \/ CommitCall

Next == Calls \/ WriteStep \/ CommitStep \/ ServerReceives

Spec == Init /\ [][Next]_vars /\ WF_vars(WriteStep) /\ WF_vars(CommitStep)
=============================================================================
