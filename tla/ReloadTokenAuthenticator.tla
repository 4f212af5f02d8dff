----------------------- MODULE ReloadTokenAuthenticator -----------------------
(***************************************************************************)
(* ReloadTokenAuthenticator: every gRPC call asks GetMetadata() for the    *)
(* access token, from its own thread; when the refresh time has come, one  *)
(* of the threads reads the token's file again.  Tokens are numbered in    *)
(* the order in which they are written to the file.                        *)
(*                                                                         *)
(* Of the times only the outcome of current_time >= next_refresh_time is   *)
(* kept.  A thread takes the current time before it reads the refresh      *)
(* time, so a refresh time set in between is always the later one.         *)
(***************************************************************************)
EXTENDS Naturals, FiniteSets

CONSTANTS Threads,
          MaxToken,      \* bound: the last token written to the file
          NoThread

ASSUME TokenAssumption == MaxToken \in Nat /\ NoThread \notin Threads

VARIABLES file,          \* the token in the file
          readable,      \* the file can be read
          skipRefresh,   \* d_skip_refresh
          token,         \* d_token_string
          elapsed,       \* it is d_next_refresh_time or later
          reloadLock,    \* the holder of d_reload_lock
          tokenLock,     \* the one that holds d_token_string_lock exclusively
          pc,            \* where each thread is in GetMetadata()
          late,          \* the thread's current_time is at or after d_next_refresh_time
          read           \* what the thread read from the file

vars == <<file, readable, skipRefresh, token, elapsed, reloadLock, tokenLock, pc, late, read>>
locks == <<reloadLock, tokenLock>>
disk == <<file, readable>>

\* The constructor read the file; without an interval there is no refresh.
Init ==
    /\ file = 0 /\ readable = TRUE
    /\ skipRefresh \in BOOLEAN
    /\ token = 0
    /\ elapsed = FALSE
    /\ reloadLock = NoThread /\ tokenLock = NoThread
    /\ pc = [t \in Threads |-> "idle"]
    /\ late = [t \in Threads |-> FALSE]
    /\ read = [t \in Threads |-> 0]

Goto(t, label) == pc' = [pc EXCEPT ![t] = label]

\* The file is replaced, or cannot be read for a while.
WriteFile == file < MaxToken /\ file' = file + 1 /\ UNCHANGED <<readable, skipRefresh, token, elapsed, locks, pc, late, read>>
HideFile == readable' = ~ readable /\ UNCHANGED <<file, skipRefresh, token, elapsed, locks, pc, late, read>>
TimePasses == ~ elapsed /\ elapsed' = TRUE /\ UNCHANGED <<disk, skipRefresh, token, locks, pc, late, read>>

-----------------------------------------------------------------------------
\* RefreshTokenIfNeeded() takes the time first.
GetMetadata(t) ==
    /\ pc[t] = "idle"
    /\ late' = [late EXCEPT ![t] = elapsed]
    /\ Goto(t, IF skipRefresh THEN "get" ELSE "check")
    /\ UNCHANGED <<disk, skipRefresh, token, elapsed, locks, read>>

GetNextRefreshTime(t) ==
    /\ pc[t] = "check"
    /\ Goto(t, IF late[t] THEN "try_lock" ELSE "get")
    /\ UNCHANGED <<disk, skipRefresh, token, elapsed, locks, late, read>>

\* Mutant: the lock is not taken.
TryLock_NoLock(t) ==
    /\ pc[t] = "try_lock"
    /\ Goto(t, "read")
    /\ UNCHANGED <<disk, skipRefresh, token, elapsed, locks, late, read>>

TryLock(t) ==
    /\ pc[t] = "try_lock"
    /\ reloadLock = NoThread
    /\ reloadLock' = t
    /\ Goto(t, "read")
    /\ UNCHANGED <<disk, skipRefresh, token, elapsed, tokenLock, late, read>>

\* try_lock() fails when another thread reloads, and may fail for no reason: the
\* thread goes on with the token there is.
TryLockFails(t) ==
    /\ pc[t] = "try_lock"
    /\ Goto(t, "get")
    /\ UNCHANGED <<disk, skipRefresh, token, elapsed, locks, late, read>>

\* TrimAndSetToken(): the file is read before the token's lock is taken.
ReadFile(t) ==
    /\ pc[t] = "read" /\ readable
    /\ read' = [read EXCEPT ![t] = file]
    /\ Goto(t, "set_token")
    /\ UNCHANGED <<disk, skipRefresh, token, elapsed, locks, late>>

\* Mutant: the lock is left locked.
ReadFileFails_KeepsLock(t) ==
    /\ pc[t] = "read" /\ ~ readable
    /\ Goto(t, "idle")
    /\ UNCHANGED <<disk, skipRefresh, token, elapsed, locks, late, read>>

\* getFileContents() throws out of GetMetadata(); the guard unlocks, the token and
\* the refresh time stay, and the next call tries again.
ReadFileFails(t) ==
    /\ pc[t] = "read" /\ ~ readable
    /\ reloadLock' = NoThread
    /\ Goto(t, "idle")
    /\ UNCHANGED <<disk, skipRefresh, token, elapsed, tokenLock, late, read>>

SetToken(t) ==
    /\ pc[t] = "set_token"
    /\ tokenLock = NoThread
    /\ tokenLock' = t
    /\ token' = read[t]
    /\ Goto(t, "set_time")
    /\ UNCHANGED <<disk, skipRefresh, elapsed, reloadLock, late, read>>

\* With the token still locked; every time taken before is earlier than the new one.
SetNextRefreshTimeFromNow(t) ==
    /\ pc[t] = "set_time"
    /\ elapsed' = FALSE
    /\ late' = [u \in Threads |-> FALSE]
    /\ reloadLock' = NoThread
    /\ tokenLock' = NoThread
    /\ Goto(t, "get")
    /\ UNCHANGED <<disk, skipRefresh, token, read>>

GetTokenString(t) ==
    /\ pc[t] = "get"
    /\ tokenLock = NoThread
    /\ Goto(t, "idle")
    /\ UNCHANGED <<disk, skipRefresh, token, elapsed, locks, late, read>>

Step(t) ==
    \/ GetMetadata(t) \/ GetNextRefreshTime(t) \/ TryLock(t) \/ TryLockFails(t)
    \/ ReadFile(t) \/ ReadFileFails(t) \/ SetToken(t) \/ SetNextRefreshTimeFromNow(t)
    \/ GetTokenString(t)

Next == WriteFile \/ HideFile \/ TimePasses \/ \E t \in Threads : Step(t)

\* Calls go on being made and finish, time passes, and a thread that finds the
\* lock free again and again locks it in the end.
Fairness ==
    /\ WF_vars(TimePasses)
    /\ \A t \in Threads : WF_vars(Step(t)) /\ SF_vars(TryLock(t))

Spec == Init /\ [][Next]_vars /\ Fairness

-----------------------------------------------------------------------------
\* A token is never replaced by one that was written to the file before it: two
\* threads that both found the time past reload one after the other.
TokenNeverGoesBack == [][token' >= token]_token

\* A token written to the file is in the end the one sent, or a later one is,
\* unless no interval was given: neither reloads that throw, nor threads that
\* find the lock taken, stop the refreshing, provided that the file can be read
\* from some time on.
NewTokenIsUsed ==
    <>[]readable =>
        \A n \in 1..MaxToken : (file = n /\ ~ skipRefresh) ~> (token >= n)

=============================================================================
