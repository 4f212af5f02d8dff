-------------------------- MODULE ReloadTokenProofs --------------------------
(* Proofs about ReloadTokenAuthenticator, for any number of threads.         *)
EXTENDS ReloadTokenAuthenticator, TLAPS

Labels == {"idle", "check", "try_lock", "read", "set_token", "set_time", "get"}

TypeOK ==
    /\ file \in Nat
    /\ token \in Nat
    /\ reloadLock \in Threads \cup {NoThread}
    /\ tokenLock \in Threads \cup {NoThread}
    /\ pc \in [Threads -> Labels]
    /\ read \in [Threads -> Nat]

\* Where a thread holds d_reload_lock, and d_token_string_lock exclusively.
Reloading(t) == pc[t] \in {"read", "set_token", "set_time"}

\* The locks are held by a thread that is at a place where it unlocks them: they
\* exclude the others, and an exception does not leave one locked.
LocksAreHeldWhereReleased ==
    /\ \A t \in Threads : Reloading(t) <=> reloadLock = t
    /\ \A t \in Threads : pc[t] = "set_time" <=> tokenLock = t

\* What the reloading thread has read is the file's token or an older one, but
\* not older than the token in use.
ReadIsNotOlder ==
    /\ token <= file
    /\ \A t \in Threads : pc[t] = "set_token" => token <= read[t] /\ read[t] <= file

IInv == TypeOK /\ LocksAreHeldWhereReleased /\ ReadIsNotOlder

LEMMA InitIInv == Init => IInv
BY TokenAssumption
DEF Init, IInv, TypeOK, Labels, LocksAreHeldWhereReleased, Reloading, ReadIsNotOlder

LEMMA EnvironmentStep ==
    ASSUME IInv, WriteFile \/ HideFile \/ TimePasses
    PROVE  IInv'
<1>. USE DEF IInv, TypeOK, LocksAreHeldWhereReleased, Reloading, ReadIsNotOlder, disk, locks
<1>1. CASE WriteFile
      BY <1>1 DEF WriteFile
<1>2. CASE HideFile
      BY <1>2 DEF HideFile
<1>3. CASE TimePasses
      BY <1>3 DEF TimePasses
<1>. QED  BY <1>1, <1>2, <1>3

\* One lemma for all of GetMetadata(): the thread alone moves.
LEMMA ThreadStep ==
    ASSUME IInv, NEW t \in Threads, Step(t)
    PROVE  IInv'
<1>. USE TokenAssumption
     DEF IInv, TypeOK, Labels, LocksAreHeldWhereReleased, Reloading, ReadIsNotOlder,
         Goto, disk, locks
<1>1. CASE GetMetadata(t)
      BY <1>1 DEF GetMetadata
<1>2. CASE GetNextRefreshTime(t)
      BY <1>2 DEF GetNextRefreshTime
<1>3. CASE TryLock(t)
      BY <1>3 DEF TryLock
<1>4. CASE TryLockFails(t)
      BY <1>4 DEF TryLockFails
<1>5. CASE ReadFile(t)
      BY <1>5 DEF ReadFile
<1>6. CASE ReadFileFails(t)
      BY <1>6 DEF ReadFileFails
<1>7. CASE SetToken(t)
      BY <1>7 DEF SetToken
<1>8. CASE SetNextRefreshTimeFromNow(t)
      BY <1>8 DEF SetNextRefreshTimeFromNow
<1>9. CASE GetTokenString(t)
      BY <1>9 DEF GetTokenString
<1>. QED  BY <1>1, <1>2, <1>3, <1>4, <1>5, <1>6, <1>7, <1>8, <1>9 DEF Step

\* The inductive invariant holds throughout.
LEMMA Invariance == Spec => []IInv
<1>1. IInv /\ [Next]_vars => IInv'
  <2>. SUFFICES ASSUME IInv, [Next]_vars PROVE IInv'
       OBVIOUS
  <2>1. CASE WriteFile \/ HideFile \/ TimePasses
        BY <2>1, EnvironmentStep
  <2>2. CASE \E t \in Threads : Step(t)
        BY <2>2, ThreadStep
  <2>3. CASE UNCHANGED vars
        BY <2>3
        DEF vars, IInv, TypeOK, LocksAreHeldWhereReleased, Reloading, ReadIsNotOlder
  <2>. QED  BY <2>1, <2>2, <2>3 DEF Next
<1>. QED  BY <1>1, InitIInv, PTL DEF Spec

\* try_lock() lets one thread reload at a time, and every way out of
\* RefreshTokenIfNeeded() and TrimAndSetToken() unlocks what it locked.
THEOREM LockDiscipline == Spec => []LocksAreHeldWhereReleased
<1>1. IInv => LocksAreHeldWhereReleased
      BY DEF IInv
<1>. QED  BY <1>1, Invariance, PTL

\* However the threads' reloads and the writing of the file interleave, the token
\* that GetMetadata() uses is never replaced by an older one.
THEOREM TokensAdvance == Spec => TokenNeverGoesBack
<1>1. IInv /\ [Next]_vars => [token' >= token]_token
  <2>. SUFFICES ASSUME IInv, [Next]_vars, UNCHANGED token \/ \E t \in Threads : SetToken(t)
                PROVE  [token' >= token]_token
       BY DEF Next, vars, WriteFile, HideFile, TimePasses, Step, GetMetadata,
              GetNextRefreshTime, TryLock, TryLockFails, ReadFile, ReadFileFails,
              SetNextRefreshTimeFromNow, GetTokenString
  <2>1. ASSUME NEW t \in Threads, SetToken(t)
        PROVE  token' >= token
        BY <2>1 DEF IInv, TypeOK, ReadIsNotOlder, SetToken
  <2>. QED  BY <2>1
<1>. QED  BY <1>1, Invariance, PTL DEF Spec, TokenNeverGoesBack
=============================================================================
