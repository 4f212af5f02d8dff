----------------------- MODULE StandardOutputStreamer -----------------------
(***************************************************************************)
(* StandardOutputStreamer: streams a growing file to a log stream.  It     *)
(* composes a file monitor, whose callback is streamLogChunk(), with       *)
(* LogStreamWriter.  write() runs in the monitoring thread, commit() in    *)
(* the thread that calls stop().  The monitor is InotifyFileMonitor where  *)
(* the system has inotify, and StatFileMonitor elsewhere.                  *)
(***************************************************************************)
EXTENDS Integers

CONSTANTS
    BufferSize, MinBatch, MaxFile,  \* of the file monitors
    RetryLimit                      \* of LogStreamWriter

ASSUME StreamerAssumption ==
    /\ BufferSize \in Nat
    /\ MinBatch \in Nat
    /\ MinBatch + 1 < BufferSize
    /\ MaxFile \in Nat
    /\ RetryLimit \in Nat

VARIABLES
    \* StatFileMonitor
    written, closed, cpc, constructed, d_stopRequested,
    mpc, fdpos, d_read_buffer_offset, bytesRead, last_write, delivered,
    \* InotifyFileMonitor
    instance, events, mask, cycles,
    \* LogStreamWriter
    d_writeOffset, d_writeCommitted, d_resourceReady, stream,
    wpc, chunk, wresult, kpc, attempts, kresult, sent, received, committed,
    \* StandardOutputStreamer
    monitor,                \* "stat" or "inotify", a choice of the build
    streamerStopRequested,  \* its own d_stopRequested
    spc,                    \* the owner: constructor and stop()
    stopResult,             \* what stop() returned
    cbpc,                   \* streamLogChunk(), in the monitoring thread
    logStart                \* history: where in the file the log starts; -1
                            \* until the first byte is accepted

M == INSTANCE StatFileMonitor
I == INSTANCE InotifyFileMonitor
W == INSTANCE LogStreamWriter WITH MaxBytes <- MaxFile

ownerAndFile == <<written, closed, cpc, constructed>>
readState == <<fdpos, d_read_buffer_offset, bytesRead, last_write, delivered>>
statvars == <<ownerAndFile, d_stopRequested, mpc, readState>>
inotifyvars == <<instance, events, mask, cycles>>
mvars == <<statvars, inotifyvars, monitor>>
wvars == <<d_writeOffset, d_writeCommitted, d_resourceReady, stream,
           wpc, chunk, wresult, kpc, attempts, kresult, sent, received, committed>>
svars == <<streamerStopRequested, spc, stopResult, cbpc, logStart>>
vars == <<mvars, wvars, svars>>

TypeOK ==
    /\ M!TypeOK
    /\ I!InotifyTypeOK
    /\ monitor \in {"stat", "inotify"}
    /\ W!TypeOK
    /\ streamerStopRequested \in BOOLEAN
    /\ spc \in {"constructing", "running", "stopping", "committing", "returned"}
    /\ stopResult \in {"none", "true", "false"}
    /\ cbpc \in {"idle", "writing", "selfcheck", "selfset", "selfjoin"}
    /\ logStart \in -1 .. MaxFile

\* d_stopRequested is declared after d_fileMonitor: until the constructor
\* gets there its value is whatever the memory held.
Init ==
    /\ M!Init
    /\ I!Init
    /\ monitor \in {"stat", "inotify"}
    /\ W!Init
    /\ streamerStopRequested \in BOOLEAN
    /\ spc = "constructing"
    /\ stopResult = "none"
    /\ cbpc = "idle"
    /\ logStart = -1

(***************************************************************************)
(* The owner.                                                              *)
(***************************************************************************)
\* The members of the monitor that follow its thread, and the constructor's body.
FinishMonitorConstruction ==
    /\ M!Alive
    /\ spc = "constructing"
    /\ \/ monitor = "stat" /\ M!FinishConstruction /\ UNCHANGED inotifyvars
       \/ monitor = "inotify" /\ I!Owner
    /\ UNCHANGED <<monitor, wvars, svars>>

FinishConstruction ==
    /\ M!Alive
    /\ spc = "constructing"
    /\ constructed
    /\ spc' = "running"
    /\ streamerStopRequested' = FALSE
    /\ UNCHANGED <<mvars, wvars, stopResult, cbpc, logStart>>

\* stop() after the monitoring thread noticed a failed write.
StopTooLate ==
    /\ M!Alive
    /\ spc = "running"
    /\ streamerStopRequested
    /\ spc' = "returned"
    /\ stopResult' = "false"
    /\ UNCHANGED <<mvars, wvars, streamerStopRequested, cbpc, logStart>>

StopCall ==
    /\ spc = "running"
    /\ ~ streamerStopRequested
    /\ spc' = "stopping"
    /\ streamerStopRequested' = TRUE
    /\ M!StopCheck
    /\ UNCHANGED <<inotifyvars, monitor, wvars, stopResult, cbpc, logStart>>

\* d_fileMonitor.stop()
StopMonitor ==
    /\ spc = "stopping"
    /\ M!StopSet \/ M!Join
    /\ UNCHANGED <<inotifyvars, monitor, wvars, svars>>

\* Mutant: commits before the monitoring thread has ended.
BeginCommit_NoJoin ==
    /\ M!Alive
    /\ spc = "stopping"
    /\ spc' = "committing"
    /\ W!CommitCall
    /\ UNCHANGED <<mvars, streamerStopRequested, stopResult, cbpc, logStart>>

BeginCommit ==
    /\ M!Alive
    /\ spc = "stopping"
    /\ cpc = "stopped"
    /\ spc' = "committing"
    /\ W!CommitCall
    /\ UNCHANGED <<mvars, streamerStopRequested, stopResult, cbpc, logStart>>

Commit ==
    /\ M!Alive
    /\ spc = "committing"
    /\ W!CommitStep
    /\ UNCHANGED <<mvars, svars>>

\* Mutant: what commit() returned is dropped.
StopReturn_AlwaysTrue ==
    /\ M!Alive
    /\ spc = "committing"
    /\ kpc = "idle"
    /\ kresult \in {"true", "false"}
    /\ spc' = "returned"
    /\ stopResult' = "true"
    /\ UNCHANGED <<mvars, wvars, streamerStopRequested, cbpc, logStart>>

StopReturn ==
    /\ M!Alive
    /\ spc = "committing"
    /\ kpc = "idle"
    /\ kresult \in {"true", "false"}
    /\ spc' = "returned"
    /\ stopResult' = kresult
    /\ UNCHANGED <<mvars, wvars, streamerStopRequested, cbpc, logStart>>

(***************************************************************************)
(* The monitoring thread, with streamLogChunk() as its callback.           *)
(***************************************************************************)
Monitor ==
    /\ M!Alive
    /\ \/ monitor = "stat" /\ M!ThreadButCallback /\ UNCHANGED inotifyvars
       \/ monitor = "inotify" /\ I!ThreadButCallback
    /\ UNCHANGED <<monitor, wvars, svars>>

\* The FileChunk that the callback gets.
ChunkSize == IF monitor = "stat" THEN d_read_buffer_offset ELSE bytesRead

CallbackReturns ==
    /\ \/ monitor = "stat" /\ M!CallbackReturns /\ UNCHANGED inotifyvars
       \/ monitor = "inotify" /\ I!CallbackReturns
    /\ UNCHANGED monitor

\* Mutant: sends the file from its start with every chunk.
BeginWrite_WholeFile ==
    /\ mpc = "callback"
    /\ cbpc = "idle"
    /\ W!WriteCall(delivered)
    /\ cbpc' = "writing"
    /\ UNCHANGED <<mvars, streamerStopRequested, spc, stopResult, logStart>>

BeginWrite ==
    /\ mpc = "callback"
    /\ cbpc = "idle"
    /\ W!WriteCall(ChunkSize)
    /\ cbpc' = "writing"
    /\ UNCHANGED <<mvars, streamerStopRequested, spc, stopResult, logStart>>

WriteProgress ==
    /\ cbpc = "writing"
    /\ W!WriteStep
    /\ logStart' = IF logStart = -1 /\ sent' > sent THEN delivered - chunk ELSE logStart
    /\ UNCHANGED <<mvars, streamerStopRequested, spc, stopResult, cbpc>>

WriteSucceeded ==
    /\ cbpc = "writing"
    /\ wpc = "idle"
    /\ wresult = "true"
    /\ cbpc' = "idle"
    /\ CallbackReturns
    /\ UNCHANGED <<wvars, streamerStopRequested, spc, stopResult, logStart>>

WriteFailed ==
    /\ cbpc = "writing"
    /\ wpc = "idle"
    /\ wresult = "false"
    /\ cbpc' = "selfcheck"
    /\ streamerStopRequested' = TRUE
    /\ UNCHANGED <<mvars, wvars, spc, stopResult, logStart>>

\* Mutant: a second stop() waits until the first one has joined the thread.
SelfStopIsNoop_WaitsForJoin ==
    /\ cbpc = "selfcheck"
    /\ d_stopRequested
    /\ cpc = "stopped"
    /\ cbpc' = "idle"
    /\ CallbackReturns
    /\ UNCHANGED <<wvars, streamerStopRequested, spc, stopResult, logStart>>

\* d_fileMonitor.stop() from the thread it would join: a no-op if the owner
\* raised the flag first ...
SelfStopIsNoop ==
    /\ cbpc = "selfcheck"
    /\ d_stopRequested
    /\ cbpc' = "idle"
    /\ CallbackReturns
    /\ UNCHANGED <<wvars, streamerStopRequested, spc, stopResult, logStart>>

\* ... else the thread raises the flag ...
SelfStopCheck ==
    /\ cbpc = "selfcheck"
    /\ ~ d_stopRequested
    /\ cbpc' = "selfset"
    /\ UNCHANGED <<mvars, wvars, streamerStopRequested, spc, stopResult, logStart>>

SelfStopSet ==
    /\ cbpc = "selfset"
    /\ d_stopRequested' = TRUE
    /\ cbpc' = "selfjoin"
    /\ UNCHANGED <<ownerAndFile, mpc, readState, inotifyvars, monitor, wvars, streamerStopRequested, spc, stopResult, logStart>>

\* ... and joins itself: std::system_error, which nothing catches.
SelfJoin ==
    /\ cbpc = "selfjoin"
    /\ mpc = "callback"
    /\ mpc' = "terminated"
    /\ UNCHANGED <<ownerAndFile, d_stopRequested, readState, inotifyvars, monitor, wvars, svars>>

(***************************************************************************)
(* The others.                                                             *)
(***************************************************************************)
Process ==
    /\ M!Process
    /\ IF monitor = "inotify" THEN I!Notify ELSE UNCHANGED inotifyvars
    /\ UNCHANGED <<monitor, wvars, svars>>

Server ==
    /\ M!Alive
    /\ W!ServerReceives
    /\ UNCHANGED <<mvars, svars>>

Owner ==
    \/ FinishMonitorConstruction \/ FinishConstruction
    \/ StopMonitor \/ BeginCommit \/ Commit \/ StopReturn

Thread ==
    \/ Monitor \/ BeginWrite \/ WriteProgress \/ WriteSucceeded \/ WriteFailed
    \/ SelfStopIsNoop \/ SelfStopCheck \/ SelfStopSet \/ SelfJoin

Next == StopTooLate \/ StopCall \/ Owner \/ Thread \/ Process \/ Server

\* Both threads are scheduled and every RPC is answered; nobody has to call
\* stop().
Spec == Init /\ [][Next]_vars /\ WF_vars(Owner) /\ WF_vars(Thread)

(***************************************************************************)
(* Properties.                                                             *)
(***************************************************************************)
\* "A writer instance cannot not be shared across threads" (logstreamwriter.h):
\* write() and commit() never overlap, and neither is called on a committed
\* stream, although they run in two threads.
WriterIsNotShared ==
    /\ ~ (wpc # "idle" /\ kpc # "idle")
    /\ M!Alive => wresult # "threw" /\ kresult # "threw"

\* The log is one contiguous piece of the file: a chunk that a usable stream
\* is about to take starts where the last accepted one ended, so bytes are
\* neither repeated nor left out in between, and the server has no others.
LogIsContiguous ==
    /\ received <= d_writeOffset
    /\ wpc = "sending" /\ W!Usable /\ logStart >= 0 =>
         delivered - chunk = logStart + d_writeOffset

\* stop() is true only if the server committed all that write() accepted.
StopTrueMeansCommitted ==
    stopResult = "true" => committed = d_writeOffset /\ received = d_writeOffset

\* A call of stop() returns, unless the program is terminated.
StopEnds == spc = "stopping" ~> spc = "returned" \/ ~ M!Alive

\* What the monitor took from the file it has delivered or still holds, in
\* order: nothing is dropped or streamed twice between read() and callback.
NothingLostOnTheWay == M!NothingLostOnTheWay

\* The log follows the file.  Stat monitor: data beyond the minimum batch is
\* streamed without waiting for more, unless the monitor is stopped first.
\* Inotify monitor: what the kernel has reported is streamed, stop() or not.
BatchIsDelivered ==
    /\ monitor = "stat" => M!BatchIsDelivered
    /\ monitor = "inotify" => I!NotifiedIsDelivered

\* "The monitor might be already stopped by the time this method is called
\* due to a `write()` request failure" (stop(), standardoutputstreamer.h): a
\* failed write stops the monitor and leaves stop() to report it.
WriteFailureIsSurvived ==
    cbpc = "selfjoin" => mpc # "terminated"
=============================================================================
