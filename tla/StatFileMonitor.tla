--------------------------- MODULE StatFileMonitor ---------------------------
(***************************************************************************)
(* StreamingStandardOutputStatFileMonitor: a thread that polls a file that *)
(* a process is appending to, and hands what it reads to a callback, until *)
(* stop() is called.                                                       *)
(*                                                                         *)
(* Three actors: the process that writes the file, the owner of the        *)
(* monitor (constructor, stop()), and the monitoring thread.  The file is  *)
(* append-only and read through one descriptor, so byte counts stand for   *)
(* its contents: what was delivered is the first `delivered` bytes.        *)
(*                                                                         *)
(* The thread is started by the constructor's initializer list before the  *)
(* buffer members are initialized.  What the thread does when it gets to   *)
(* read() before that is undefined; nothing is modelled of it but that it  *)
(* happened (mpc = "undefined").  An exception that leaves the thread      *)
(* terminates the program (mpc = "terminated").                            *)
(***************************************************************************)
EXTENDS Integers

CONSTANTS
    BufferSize,  \* d_read_buffer_size
    MinBatch,    \* s_min_write_batch_size_bytes
    MaxFile      \* bound: bytes the process writes

VARIABLES
    \* the process
    written,               \* size of the file
    closed,
    \* the owner
    cpc,
    constructed,           \* the buffer members are initialized
    \* the monitor
    d_stopRequested,
    mpc,
    fdpos,                 \* bytes taken from the descriptor
    d_read_buffer_offset,
    bytesRead,
    last_write,
    delivered              \* bytes passed to the callback, the pending call included

filevars == <<written, closed>>
ownervars == <<cpc, constructed>>
threadvars == <<mpc, fdpos, d_read_buffer_offset, bytesRead, last_write, delivered>>
vars == <<filevars, ownervars, d_stopRequested, threadvars>>

TypeOK ==
    /\ written \in 0 .. MaxFile
    /\ closed \in BOOLEAN
    /\ cpc \in {"constructing", "running", "stopping", "joining", "stopped"}
    /\ constructed \in BOOLEAN
    /\ d_stopRequested \in BOOLEAN
    /\ mpc \in {"polling", "reading", "deciding", "rechecking", "callback",
               "returned", "failed", "terminated", "undefined"}
    /\ fdpos \in 0 .. MaxFile
    /\ d_read_buffer_offset \in 0 .. BufferSize - 1
    /\ bytesRead \in 0 .. BufferSize
    /\ last_write \in BOOLEAN
    /\ delivered \in 0 .. MaxFile

Init ==
    /\ written \in 0 .. MaxFile
    /\ closed = FALSE
    /\ cpc = "constructing"
    /\ constructed = FALSE
    /\ d_stopRequested = FALSE
    /\ mpc = "polling"
    /\ fdpos = 0
    /\ d_read_buffer_offset = 0
    /\ bytesRead = 0
    /\ last_write = FALSE
    /\ delivered = 0

(***************************************************************************)
(* The process whose output is redirected to the file.                     *)
(***************************************************************************)
Append(n) ==
    /\ ~ closed
    /\ written + n <= MaxFile
    /\ written' = written + n
    /\ UNCHANGED <<closed, ownervars, d_stopRequested, threadvars>>

Close ==
    /\ ~ closed
    /\ closed' = TRUE
    /\ UNCHANGED <<written, ownervars, d_stopRequested, threadvars>>

Alive == mpc \notin {"terminated", "undefined"}

(***************************************************************************)
(* The owner: the rest of the constructor, and stop().                     *)
(***************************************************************************)
FinishConstruction ==
    /\ Alive
    /\ cpc = "constructing"
    /\ cpc' = "running"
    /\ constructed' = TRUE
    /\ UNCHANGED <<filevars, d_stopRequested, threadvars>>

\* stop(): does nothing if somebody asked before ...
StopCheck ==
    /\ Alive
    /\ cpc = "running"
    /\ cpc' = IF d_stopRequested THEN "stopped" ELSE "stopping"
    /\ UNCHANGED <<filevars, constructed, d_stopRequested, threadvars>>

\* ... else raises the flag and joins the thread.
StopSet ==
    /\ Alive
    /\ cpc = "stopping"
    /\ cpc' = "joining"
    /\ d_stopRequested' = TRUE
    /\ UNCHANGED <<filevars, constructed, threadvars>>

Join ==
    /\ cpc = "joining"
    /\ mpc \in {"returned", "failed"}
    /\ cpc' = "stopped"
    /\ UNCHANGED <<filevars, constructed, d_stopRequested, threadvars>>

(***************************************************************************)
(* The monitoring thread.                                                  *)
(***************************************************************************)
\* waitForInitialFileWrite(): asked to stop, the thread does not look again.
GiveUpWaiting ==
    /\ mpc = "polling"
    /\ d_stopRequested
    /\ mpc' = "returned"
    /\ UNCHANGED <<filevars, ownervars, d_stopRequested, fdpos, d_read_buffer_offset,
                   bytesRead, last_write, delivered>>

FstatFails ==
    /\ mpc = "polling"
    /\ ~ d_stopRequested
    /\ mpc' = "failed"
    /\ UNCHANGED <<filevars, ownervars, d_stopRequested, fdpos, d_read_buffer_offset,
                   bytesRead, last_write, delivered>>

\* fstat() finds data; while it finds none the thread sleeps and polls again.
SeeData ==
    /\ mpc = "polling"
    /\ ~ d_stopRequested
    /\ written > 0
    /\ mpc' = "reading"
    /\ UNCHANGED <<filevars, ownervars, d_stopRequested, fdpos, d_read_buffer_offset,
                   bytesRead, last_write, delivered>>

BufferFreeBytes == BufferSize - d_read_buffer_offset - 1
Available == written - fdpos

\* read() of what there is, as far as the buffer has room.
Read ==
    LET n == IF Available <= BufferFreeBytes THEN Available ELSE BufferFreeBytes
    IN  /\ mpc = "reading"
        /\ constructed
        /\ mpc' = "deciding"
        /\ fdpos' = fdpos + n
        /\ d_read_buffer_offset' = d_read_buffer_offset + n
        /\ bytesRead' = n
        /\ UNCHANGED <<filevars, ownervars, d_stopRequested, last_write, delivered>>

\* read() failed: a system_error that nobody catches.
ReadFails ==
    /\ mpc = "reading"
    /\ constructed
    /\ mpc' = "terminated"
    /\ UNCHANGED <<filevars, ownervars, d_stopRequested, fdpos, d_read_buffer_offset,
                   bytesRead, last_write, delivered>>

\* read() into a buffer that the constructor has yet to allocate.
ReadBeforeConstruction ==
    /\ mpc = "reading"
    /\ ~ constructed
    /\ mpc' = "undefined"
    /\ UNCHANGED <<filevars, ownervars, d_stopRequested, fdpos, d_read_buffer_offset,
                   bytesRead, last_write, delivered>>

\* batch_larger_than_min || last_write, with the first look at the flag.
Decide ==
    /\ mpc = "deciding"
    /\ last_write' = (d_read_buffer_offset > 0 /\ d_stopRequested)
    /\ IF d_read_buffer_offset > MinBatch \/ last_write'
       THEN mpc' = "callback" /\ delivered' = delivered + d_read_buffer_offset
       ELSE mpc' = "rechecking" /\ UNCHANGED delivered
    /\ UNCHANGED <<filevars, ownervars, d_stopRequested, fdpos, d_read_buffer_offset, bytesRead>>

\* Mutant: the end of the file ends the thread.
Recheck_EndsAtEof ==
    /\ mpc = "rechecking"
    /\ mpc' = IF bytesRead = 0 THEN "returned" ELSE "reading"
    /\ UNCHANGED <<filevars, ownervars, d_stopRequested, fdpos, d_read_buffer_offset,
                   bytesRead, last_write, delivered>>

\* The else branches, with a second look at the flag.
Recheck ==
    /\ mpc = "rechecking"
    /\ mpc' = IF bytesRead = 0 /\ d_stopRequested THEN "returned" ELSE "reading"
    /\ UNCHANGED <<filevars, ownervars, d_stopRequested, fdpos, d_read_buffer_offset,
                   bytesRead, last_write, delivered>>

\* Mutant: the buffer is not emptied.
CallbackReturns_NoReset ==
    /\ mpc = "callback"
    /\ mpc' = IF last_write THEN "returned" ELSE "reading"
    /\ UNCHANGED <<filevars, ownervars, d_stopRequested, fdpos, d_read_buffer_offset,
                   bytesRead, last_write, delivered>>

CallbackReturns ==
    /\ mpc = "callback"
    /\ mpc' = IF last_write THEN "returned" ELSE "reading"
    /\ d_read_buffer_offset' = 0
    /\ UNCHANGED <<filevars, ownervars, d_stopRequested, fdpos, bytesRead, last_write, delivered>>

Process == (\E n \in 1 .. MaxFile : Append(n)) \/ Close
Owner == FinishConstruction \/ StopCheck \/ StopSet \/ Join
ThreadButCallback ==
    \/ GiveUpWaiting \/ FstatFails \/ SeeData
    \/ Read \/ ReadFails \/ ReadBeforeConstruction
    \/ Decide \/ Recheck
Thread == ThreadButCallback \/ CallbackReturns

Next == Process \/ Owner \/ Thread

\* The thread is scheduled, the callback returns, and a constructor or a
\* stop() that was begun goes on.  Nobody has to call stop().
Fairness ==
    /\ WF_vars(Thread)
    /\ WF_vars(FinishConstruction)
    /\ WF_vars(StopSet \/ Join)

Spec == Init /\ [][Next]_vars /\ Fairness

(***************************************************************************)
(* Properties.                                                             *)
(***************************************************************************)
\* Nothing that was read is dropped or passed on twice: at all times the bytes
\* taken from the file are those delivered and those still in the buffer.
NothingLostOnTheWay ==
    Alive =>
        delivered + (IF mpc = "callback" THEN 0 ELSE d_read_buffer_offset) = fdpos

\* Data beyond the minimum batch does not wait for more: the callback gets it
\* unless the monitor is stopped first.
BatchIsDelivered ==
    \A k \in 0 .. MaxFile :
        written > k + MinBatch ~> delivered > k \/ d_stopRequested \/ mpc = "failed" \/ ~ Alive
=============================================================================
