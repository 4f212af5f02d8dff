-------------------- MODULE StandardOutputStreamerProofs --------------------
(* Proofs about StandardOutputStreamer, with either monitor, for any buffer, *)
(* file and number of retries.                                               *)
EXTENDS StandardOutputStreamer, TLAPS

(***************************************************************************)
(* The inductive invariant.                                                *)
(***************************************************************************)
\* Where the monitoring thread and its callback are with respect to each other.
\* The inotify monitor is told nothing before its watch is set.
ThreadInv ==
    /\ cbpc \in {"writing", "selfcheck", "selfset"} => mpc = "callback"
    /\ cbpc = "selfjoin" => mpc \in {"callback", "terminated"}
    /\ wpc # "idle" => cbpc = "writing" /\ chunk = ChunkSize
    /\ cpc = "constructing" <=> ~ constructed
    /\ monitor = "inotify" =>
         /\ d_read_buffer_offset = 0
         /\ ~ constructed => events = {} /\ mpc \notin {"reading", "callback"}

\* The bytes that were taken from the file: delivered, or held in the buffer.
Held == IF mpc = "callback" \/ cbpc = "selfjoin" THEN 0 ELSE d_read_buffer_offset
ReadInv ==
    /\ delivered + Held = fdpos
    /\ fdpos <= written

\* The bytes of the callback's chunk that write() has not dealt with.
Pending == IF mpc = "callback" /\ (cbpc = "idle" \/ wpc # "idle") THEN ChunkSize ELSE 0

\* The bytes that were delivered, as long as the stream can be used: before the
\* log, in it, and pending.
LogInv ==
    /\ sent = d_writeOffset
    /\ d_writeOffset + Pending <= delivered
    /\ logStart = -1 => d_writeOffset = 0
    /\ W!Usable /\ logStart >= 0 => logStart + d_writeOffset + Pending = delivered
    /\ wpc = "sending" \/ logStart >= 0 => d_resourceReady
    /\ wpc = "querying" => ~ d_resourceReady

\* The monitoring thread makes no more calls of write().
ThreadDone == mpc \in {"returned", "failed", "terminated", "undefined"} \/ cbpc = "selfjoin"

\* commit() follows the end of the thread, also when the flag that stop() found
\* raised was raised by the thread itself.
StopInv ==
    /\ d_stopRequested => cpc \in {"joining", "stopped"} \/ cbpc = "selfjoin"
    /\ cpc = "stopped" => ThreadDone
    /\ spc = "committing" => cpc = "stopped"
    /\ kpc # "idle" => spc = "committing"
    /\ d_writeCommitted \/ kresult # "none" => spc \in {"committing", "returned"} /\ ThreadDone
    /\ wresult # "threw" /\ kresult # "threw"

\* What was committed stays all that was written.
CommitInv ==
    /\ kresult = "true" =>
         /\ kpc = "idle" /\ stream = "finished"
         /\ committed = d_writeOffset /\ received = d_writeOffset
    /\ stopResult = "true" => kresult = "true"
    /\ stopResult # "none" => spc = "returned"

IInv == TypeOK /\ ThreadInv /\ ReadInv /\ LogInv /\ StopInv /\ CommitInv

\* The tuples of variables, the types, and the abbreviations of the invariant.
USE DEF mvars, statvars, ownerAndFile, readState, inotifyvars, wvars, svars,
        M!filevars, M!ownervars, M!threadvars, I!ownvars, I!filevars, I!statvars,
        W!writevars, W!commitvars
USE DEF TypeOK, M!TypeOK, I!InotifyTypeOK, W!TypeOK, W!Results, I!Kinds, I!CyclesAfterStop
USE DEF ChunkSize, Held, Pending, ThreadDone, W!Usable

LEMMA InitIInv == Init => IInv
<1>. SUFFICES ASSUME Init PROVE IInv
     OBVIOUS
<1>1. /\ closed \in BOOLEAN /\ constructed \in BOOLEAN /\ d_stopRequested \in BOOLEAN
      /\ last_write \in BOOLEAN /\ instance \in BOOLEAN /\ d_writeCommitted \in BOOLEAN
      /\ d_resourceReady \in BOOLEAN
      BY DEF Init, M!Init, I!Init, W!Init
<1>2. TypeOK
      BY <1>1, StreamerAssumption DEF Init, M!Init, I!Init, W!Init
<1>. QED  BY <1>2, StreamerAssumption
          DEF Init, M!Init, I!Init, W!Init, IInv, ThreadInv, ReadInv, LogInv, StopInv,
              CommitInv

\* The rest of the constructors.  The inotify monitor's may still throw while the
\* thread polls, never while it is in the callback.
LEMMA ConstructionStep ==
    ASSUME IInv, FinishMonitorConstruction \/ FinishConstruction
    PROVE  IInv'
<1>. USE StreamerAssumption
     DEF IInv, ThreadInv, ReadInv, LogInv, StopInv, CommitInv
<1>1. CASE M!FinishConstruction /\ UNCHANGED <<inotifyvars, monitor, wvars, svars>>
  <2>1. constructed' \in BOOLEAN
        BY <1>1 DEF M!FinishConstruction
  <2>. QED  BY <1>1, <2>1 DEF M!FinishConstruction
<1>2. CASE I!InitInstance /\ UNCHANGED <<monitor, wvars, svars>>
      BY <1>2 DEF I!InitInstance
<1>3. CASE I!AddWatch /\ UNCHANGED <<monitor, wvars, svars>>
      BY <1>3 DEF I!AddWatch
<1>4. CASE monitor = "inotify" /\ I!ConstructorThrows /\ UNCHANGED <<monitor, wvars, svars>>
      BY <1>4 DEF I!ConstructorThrows
<1>5. CASE FinishConstruction
  <2>1. streamerStopRequested' \in BOOLEAN
        BY <1>5 DEF FinishConstruction
  <2>. QED  BY <1>5, <2>1 DEF FinishConstruction
<1>. QED  BY <1>1, <1>2, <1>3, <1>4, <1>5 DEF FinishMonitorConstruction, I!Owner

\* stop(), up to the end of the monitoring thread.  The monitor's stop() is a
\* no-op only if the thread is about to join itself.
LEMMA StopStep ==
    ASSUME IInv, StopTooLate \/ StopCall \/ StopMonitor
    PROVE  IInv'
<1>. USE StreamerAssumption
     DEF IInv, ThreadInv, ReadInv, LogInv, StopInv, CommitInv
<1>1. CASE StopTooLate
      BY <1>1 DEF StopTooLate
<1>2. CASE StopCall
  <2>1. streamerStopRequested' \in BOOLEAN
        BY <1>2 DEF StopCall
  <2>. QED  BY <1>2, <2>1 DEF StopCall, M!StopCheck
<1>3. CASE StopMonitor /\ M!StopSet
  <2>1. d_stopRequested' \in BOOLEAN
        BY <1>3 DEF M!StopSet
  <2>. QED  BY <1>3, <2>1 DEF StopMonitor, M!StopSet
<1>4. CASE StopMonitor /\ M!Join
      BY <1>4 DEF StopMonitor, M!Join
<1>. QED  BY <1>1, <1>2, <1>3, <1>4 DEF StopMonitor

\* stop(), with commit(): nothing is sent any more, so that what Finish() reports
\* is compared with an offset that is final.
LEMMA CommitStep ==
    ASSUME IInv, BeginCommit \/ Commit \/ StopReturn
    PROVE  IInv'
<1>. USE StreamerAssumption
     DEF IInv, ThreadInv, ReadInv, LogInv, StopInv, CommitInv
<1>1. CASE BeginCommit
      BY <1>1 DEF BeginCommit, W!CommitCall
<1>2. CASE Commit /\ \E ok \in BOOLEAN : W!SendFinish(ok)
      BY <1>2 DEF Commit, W!SendFinish, W!Broken
<1>3. CASE Commit /\ W!FinishOk
  <2>1. d_writeCommitted' \in BOOLEAN
        BY <1>3 DEF W!FinishOk
  <2>. QED  BY <1>3, <2>1 DEF Commit, W!FinishOk
<1>4. CASE Commit /\ \E retryable \in BOOLEAN : W!FinishError(retryable)
      BY <1>4 DEF Commit, W!FinishError
<1>5. CASE StopReturn
      BY <1>5 DEF StopReturn
<1>. QED  BY <1>1, <1>2, <1>3, <1>4, <1>5 DEF Commit, W!CommitStep

\* The monitoring thread of the stat monitor: its buffer keeps one byte free, and
\* what goes to the callback leaves it only when that returns.
LEMMA StatStep ==
    ASSUME IInv, monitor = "stat", M!ThreadButCallback,
           UNCHANGED <<inotifyvars, monitor, wvars, svars>>
    PROVE  IInv'
<1>. USE StreamerAssumption
     DEF IInv, ThreadInv, ReadInv, LogInv, StopInv, CommitInv
<1>1. CASE M!GiveUpWaiting
      BY <1>1 DEF M!GiveUpWaiting
<1>2. CASE M!FstatFails
      BY <1>2 DEF M!FstatFails
<1>3. CASE M!SeeData
      BY <1>3 DEF M!SeeData
<1>4. CASE M!Read
      BY <1>4 DEF M!Read, M!Available, M!BufferFreeBytes
<1>5. CASE M!ReadFails
      BY <1>5 DEF M!ReadFails
<1>6. CASE M!ReadBeforeConstruction
      BY <1>6 DEF M!ReadBeforeConstruction
<1>7. CASE M!Decide
      BY <1>7 DEF M!Decide
<1>8. CASE M!Recheck
      BY <1>8 DEF M!Recheck
<1>. QED  BY <1>1, <1>2, <1>3, <1>4, <1>5, <1>6, <1>7, <1>8 DEF M!ThreadButCallback

\* The monitoring thread of the inotify monitor, which keeps nothing back.
LEMMA InotifyStep ==
    ASSUME IInv, monitor = "inotify", I!ThreadButCallback, UNCHANGED <<monitor, wvars, svars>>
    PROVE  IInv'
<1>. USE StreamerAssumption
     DEF IInv, ThreadInv, ReadInv, LogInv, StopInv, CommitInv
<1>1. CASE mpc = "polling" /\ I!ThreadGoes("failed")
      BY <1>1 DEF I!ThreadGoes
<1>2. CASE mpc = "polling" /\ I!ThreadGoes("undefined")
      BY <1>2 DEF I!ThreadGoes
<1>3. CASE I!PollFails
      BY <1>3 DEF I!PollFails, I!ThreadGoes
<1>4. CASE I!PollTimesOut
      BY <1>4 DEF I!PollTimesOut
<1>5. CASE I!ReadInotifyEvents
  <2>1. constructed /\ mask' \subseteq I!Kinds /\ events' \subseteq I!Kinds
        BY <1>5 DEF I!ReadInotifyEvents
  <2>. QED  BY <1>5, <2>1 DEF I!ReadInotifyEvents
<1>6. CASE I!Read
      BY <1>6 DEF I!Read
<1>7. CASE I!ReadFails
      BY <1>7 DEF I!ReadFails, I!ThreadGoes
<1>8. CASE I!ReadsNothing
      BY <1>8 DEF I!ReadsNothing, I!ThreadGoes
<1>. QED  BY <1>1, <1>2, <1>3, <1>4, <1>5, <1>6, <1>7, <1>8 DEF I!ThreadButCallback,
             I!PollBeforeConstruction

\* streamLogChunk(), up to the answer of write().  The chunk starts where the log
\* ends: a refused one leaves a stream that takes no more, or has no log yet.
LEMMA WriteStep ==
    ASSUME IInv, BeginWrite \/ WriteProgress \/ WriteFailed
    PROVE  IInv'
<1>. USE StreamerAssumption
     DEF IInv, ThreadInv, ReadInv, LogInv, StopInv, CommitInv
<1>1. CASE BeginWrite
      BY <1>1 DEF BeginWrite, W!WriteCall
<1>2. CASE WriteProgress /\ \E ok \in BOOLEAN : W!QueryReturns(ok)
      BY <1>2 DEF WriteProgress, W!QueryReturns
<1>3. CASE WriteProgress /\ \E ok \in BOOLEAN : W!SendData(ok)
      BY <1>3 DEF WriteProgress, W!SendData, W!Broken
<1>4. CASE WriteFailed
      BY <1>4 DEF WriteFailed
<1>. QED  BY <1>1, <1>2, <1>3, <1>4 DEF WriteProgress, W!WriteStep

\* streamLogChunk() returns to the monitor.
LEMMA ReturnStep ==
    ASSUME IInv, cbpc \in {"writing", "selfcheck"}, wpc = "idle", cbpc' = "idle", CallbackReturns,
           UNCHANGED <<wvars, streamerStopRequested, spc, stopResult, logStart>>
    PROVE  IInv'
<1>. USE StreamerAssumption
     DEF IInv, ThreadInv, ReadInv, LogInv, StopInv, CommitInv
<1>1. CASE monitor = "stat" /\ M!CallbackReturns /\ UNCHANGED inotifyvars
      BY <1>1 DEF CallbackReturns, M!CallbackReturns
<1>2. CASE monitor = "inotify" /\ I!CallbackReturns
      BY <1>2 DEF CallbackReturns, I!CallbackReturns, I!ThreadGoes
<1>. QED  BY <1>1, <1>2 DEF CallbackReturns

\* The thread stops itself after a failed write.
LEMMA SelfStopStep ==
    ASSUME IInv, SelfStopCheck \/ SelfStopSet \/ SelfJoin
    PROVE  IInv'
<1>. USE StreamerAssumption
     DEF IInv, ThreadInv, ReadInv, LogInv, StopInv, CommitInv
<1>1. CASE SelfStopCheck
      BY <1>1 DEF SelfStopCheck
<1>2. CASE SelfStopSet
  <2>1. d_stopRequested' \in BOOLEAN
        BY <1>2 DEF SelfStopSet
  <2>. QED  BY <1>2, <2>1 DEF SelfStopSet
<1>3. CASE SelfJoin
      BY <1>3 DEF SelfJoin
<1>. QED  BY <1>1, <1>2, <1>3

\* The process that writes the file, and the server.
LEMMA OutsideStep ==
    ASSUME IInv, Process \/ Server
    PROVE  IInv'
<1>. USE StreamerAssumption
     DEF IInv, ThreadInv, ReadInv, LogInv, StopInv, CommitInv
<1>1. CASE Process
  <2>1. closed' \in BOOLEAN
        BY <1>1 DEF Process, M!Process, M!Close, M!Append
  <2>2. events' \subseteq I!Kinds /\ UNCHANGED <<instance, mask, cycles>>
        BY <1>1 DEF Process, I!Notify
  <2>3. monitor = "inotify" /\ ~ constructed => UNCHANGED events
        BY <1>1 DEF Process, I!Notify
  <2>4. written' \in 0 .. MaxFile /\ written <= written'
        BY <1>1 DEF Process, M!Process, M!Close, M!Append
  <2>. QED  BY <1>1, <2>1, <2>2, <2>3, <2>4 DEF Process, M!Process, M!Close, M!Append
<1>2. CASE Server
      BY <1>2 DEF Server, W!ServerReceives
<1>. QED  BY <1>1, <1>2

\* The inductive invariant holds throughout.
LEMMA Invariance == Spec => []IInv
<1>1. IInv /\ [Next]_vars => IInv'
  <2>. SUFFICES ASSUME IInv, [Next]_vars PROVE IInv'
       OBVIOUS
  <2>1. CASE StopTooLate \/ StopCall \/ Owner
        BY <2>1, ConstructionStep, StopStep, CommitStep DEF Owner
  <2>2. CASE Monitor
        BY <2>2, StatStep, InotifyStep DEF Monitor
  <2>3. CASE BeginWrite \/ WriteProgress \/ WriteFailed
        BY <2>3, WriteStep
  <2>4. CASE WriteSucceeded \/ SelfStopIsNoop
    <3>1. wpc = "idle"
          BY <2>4 DEF WriteSucceeded, SelfStopIsNoop, IInv, ThreadInv
    <3>. QED  BY <2>4, <3>1, ReturnStep DEF WriteSucceeded, SelfStopIsNoop
  <2>5. CASE SelfStopCheck \/ SelfStopSet \/ SelfJoin
        BY <2>5, SelfStopStep
  <2>6. CASE Process \/ Server
        BY <2>6, OutsideStep
  <2>7. CASE UNCHANGED vars
        BY <2>7 DEF vars, IInv, ThreadInv, ReadInv, LogInv, StopInv, CommitInv
  <2>. QED  BY <2>1, <2>2, <2>3, <2>4, <2>5, <2>6, <2>7 DEF Next, Thread
<1>. QED  BY <1>1, InitIInv, PTL DEF Spec

\* The streamer, its monitor and its writer keep their variables within their
\* types: no buffer is overrun, and no more is written than the file has.
THEOREM TypeCorrect == Spec => []TypeOK
<1>1. IInv => TypeOK
      BY DEF IInv
<1>. QED  BY <1>1, Invariance, PTL

\* write(), in the monitoring thread, and commit(), in the one that calls stop(),
\* never overlap, and neither is called after a commit().
THEOREM WriterOfOneThread == Spec => []WriterIsNotShared
<1>1. IInv => WriterIsNotShared
      BY DEF IInv, ThreadInv, StopInv, WriterIsNotShared
<1>. QED  BY <1>1, Invariance, PTL

\* The log is one piece of the file, however many writes failed before its first
\* byte or after its last.
THEOREM ContiguousLog == Spec => []LogIsContiguous
<1>1. IInv => LogIsContiguous
      BY DEF IInv, ThreadInv, LogInv, LogIsContiguous
<1>. QED  BY <1>1, Invariance, PTL

\* stop() is true only if the server has all that write() accepted.
THEOREM TrueMeansCommitted == Spec => []StopTrueMeansCommitted
<1>1. IInv => StopTrueMeansCommitted
      BY DEF IInv, CommitInv, StopTrueMeansCommitted
<1>. QED  BY <1>1, Invariance, PTL

\* Either monitor passes on what it reads once and in order.
THEOREM NothingLost == Spec => []NothingLostOnTheWay
<1>1. IInv => NothingLostOnTheWay
      BY DEF IInv, ThreadInv, ReadInv, NothingLostOnTheWay, M!NothingLostOnTheWay, M!Alive
<1>. QED  BY <1>1, Invariance, PTL
=============================================================================
