-------------------------- MODULE InotifyFileMonitor --------------------------
(***************************************************************************)
(* StreamingStandardOutputInotifyFileMonitor, which Linux builds use in    *)
(* place of StatFileMonitor: the thread sleeps in poll() until the kernel  *)
(* reports a write to the file or its closing.  The process, stop() and    *)
(* the shared members are those of StatFileMonitor, as is the meaning of   *)
(* mpc; this module adds the kernel's queue, the rest of the constructor   *)
(* and the thread.                                                         *)
(*                                                                         *)
(* The kernel merges an event with an equal one at the end of its queue,   *)
(* and the file is closed once, after all writes: the queue holds at most  *)
(* one event of each kind, which are the two that one read() looks at.     *)
(***************************************************************************)
EXTENDS Integers

CONSTANTS
    BufferSize,  \* d_read_buffer_size
    MaxFile      \* bound: bytes the process writes

VARIABLES
    written, closed, cpc, constructed, d_stopRequested,
    mpc, fdpos, d_read_buffer_offset, bytesRead, last_write, delivered,
    instance,   \* inotify_init() has set d_inotifyInstanceFd
    events,     \* the kernel's queue
    mask,       \* inotifyeventsMask
    cycles      \* timeoutCyclesAfterStop

ownvars == <<instance, events, mask, cycles>>
filevars == <<written, closed>>
statvars == <<d_read_buffer_offset, last_write>>

Kinds == {"modify", "close"}
CyclesAfterStop == 3

InotifyTypeOK ==
    /\ instance \in BOOLEAN
    /\ events \subseteq Kinds /\ mask \subseteq Kinds
    /\ cycles \in 0 .. CyclesAfterStop

Init ==
    /\ instance = FALSE
    /\ events = {} /\ mask = {}
    /\ cycles = CyclesAfterStop

\* The kernel's part in a step of the process: nothing is queued before the watch
\* is set.
Notify ==
    /\ events' = IF ~ constructed THEN events
                 ELSE events \union (IF closed' = closed THEN {"modify"} ELSE {"close"})
    /\ UNCHANGED <<instance, mask, cycles>>

(***************************************************************************)
(* The owner: the rest of the constructor.                                 *)
(***************************************************************************)
InitInstance ==
    /\ cpc = "constructing" /\ ~ instance
    /\ instance' = TRUE
    /\ UNCHANGED <<filevars, cpc, constructed, d_stopRequested, mpc, fdpos, statvars, bytesRead,
                   delivered, events, mask, cycles>>

AddWatch ==
    /\ cpc = "constructing" /\ instance
    /\ cpc' = "running"
    /\ constructed' = TRUE
    /\ UNCHANGED <<filevars, d_stopRequested, mpc, fdpos, statvars, bytesRead, delivered, ownvars>>

\* An exception leaves the constructor, and with it a thread that was not joined:
\* std::terminate().
ConstructorThrows ==
    /\ cpc = "constructing"
    /\ mpc' = "terminated"
    /\ UNCHANGED <<filevars, cpc, constructed, d_stopRequested, fdpos, statvars, bytesRead,
                   delivered, ownvars>>

(***************************************************************************)
(* The monitoring thread.                                                  *)
(***************************************************************************)
ThreadGoes(label) ==
    /\ mpc' = label
    /\ UNCHANGED <<filevars, cpc, constructed, d_stopRequested, fdpos, statvars, bytesRead,
                   delivered, ownvars>>

\* waitForInotify() of a descriptor that the constructor has yet to set.  A
\* negative number times out, and the thread polls again; one that is not open
\* is POLLNVAL three times, which ends the thread; one that is open is any file.
PollBeforeConstruction ==
    /\ mpc = "polling" /\ ~ instance
    /\ ThreadGoes("failed") \/ ThreadGoes("undefined")

\* poll() fails, as it does when a signal interrupts it, or read() of the events.
PollFails ==
    /\ mpc = "polling" /\ instance
    /\ ThreadGoes("failed")

\* A time-out without a request to stop changes nothing.
PollTimesOut ==
    /\ mpc = "polling" /\ instance
    /\ events = {}
    /\ d_stopRequested \/ cycles = 0
    /\ IF cycles = 0
       THEN mpc' = "returned" /\ UNCHANGED cycles
       ELSE cycles' = cycles - 1 /\ UNCHANGED mpc
    /\ UNCHANGED <<filevars, cpc, constructed, d_stopRequested, fdpos, statvars, bytesRead,
                   delivered, instance, events, mask>>

ReadInotifyEvents ==
    /\ mpc = "polling" /\ instance
    /\ events # {}
    /\ mpc' = "reading"
    /\ mask' = events
    /\ events' = {}
    /\ UNCHANGED <<filevars, cpc, constructed, d_stopRequested, fdpos, statvars, bytesRead,
                   delivered, instance, cycles>>

\* readFileAndStream(): what was read goes to the callback at once.
Read ==
    LET available == written - fdpos
        n == IF available <= BufferSize THEN available ELSE BufferSize
    IN  /\ mpc = "reading" /\ n > 0
        /\ mpc' = "callback"
        /\ fdpos' = fdpos + n
        /\ bytesRead' = n
        /\ delivered' = delivered + n
        /\ UNCHANGED <<filevars, cpc, constructed, d_stopRequested, statvars, ownvars>>

ReadFails ==
    /\ mpc = "reading"
    /\ ThreadGoes("failed")

\* The end of the file, for now or for good.
ReadsNothing ==
    /\ mpc = "reading" /\ written = fdpos
    /\ ThreadGoes(IF "close" \in mask THEN "returned" ELSE "polling")

\* Mutant: one read() for each event.
CallbackReturns_ReadsOnce ==
    /\ mpc = "callback"
    /\ ThreadGoes(IF "close" \in mask THEN "returned" ELSE "polling")

\* ... until there is no more.
CallbackReturns ==
    /\ mpc = "callback"
    /\ ThreadGoes("reading")

Owner == InitInstance \/ AddWatch \/ ConstructorThrows
ThreadButCallback ==
    \/ PollBeforeConstruction \/ PollFails \/ PollTimesOut \/ ReadInotifyEvents
    \/ Read \/ ReadFails \/ ReadsNothing

(***************************************************************************)
(* Properties.                                                             *)
(***************************************************************************)
\* "To not lose any data, the caller should make sure that the reader has stopped
\* writing to and closed the file" (stop()).  Of a write or a closing that the
\* kernel has queued nothing is lost, whenever stop() is called: all that is in
\* the file by then goes to the callback.
NotifiedIsDelivered ==
    \A k \in 0 .. MaxFile :
        events # {} /\ mpc # "returned" /\ written > k
            ~> delivered > k \/ mpc \in {"failed", "terminated", "undefined"}
=============================================================================
