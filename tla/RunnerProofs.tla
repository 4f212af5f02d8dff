---------------------------- MODULE RunnerProofs ----------------------------
(* Proofs about Runner, for any exit codes, any signal and any number of it. *)
EXTENDS Runner, TLAPS

\* Where the child is, by where the runner is.
ChildInv ==
    /\ pc \in {"reading", "registering", "connecting", "fetching", "checking", "staging",
               "forking"} => child = "none"
    /\ pc \in {"testing", "entering", "waiting", "killing", "reaping"} =>
         child \in {"forked", "running", "unwinding", "zombie"}
    /\ pc \in {"uploading", "capturing", "writing"} => child = "reaped"
    /\ pc = "exited" => child \in {"none", "reaped"}

\* Only a runner that leaves the loop because of a signal kills.
KillInv ==
    /\ killSent => pc \in {"reaping", "capturing", "writing", "exited"}
    /\ pc \in {"killing", "reaping"} => d_signal_status = Signal
    /\ pc = "reaping" => killSent

\* The exit code is taken from a child that ended by itself, and only an
\* interrupted run goes on without one.
ResultInv ==
    /\ pc \notin {"capturing", "writing", "exited"} => exit_code = Unset
    /\ ExitCodeIsNotOfTheKill
    /\ pc \in {"capturing", "writing"} /\ exit_code = Unset =>
         d_signal_status = Signal
    /\ actionResult => pc = "exited"
    /\ IncompleteResultIsFlagged

\* A child that can be reaped has a status.
StatusInv == child \in {"zombie", "reaped"} => childStatus # Unset

IInv == TypeOK /\ ChildInv /\ KillInv /\ ResultInv /\ StatusInv /\ DigestsAreUploaded

\* uploadOutputs() leaves no digest of a blob that the CAS does not have, even if
\* both blobs are one: with one failure reported it clears the right one.
LEMMA ClearedAreStored ==
    ASSUME sameOutputs \in BOOLEAN, NEW failed \in FailedLists
    PROVE  /\ ClearFailed(failed) \subseteq StoredBut(failed)
           /\ StoredBut(failed) \subseteq Outputs
<1>1. CASE failed = << >>
      BY <1>1 DEF ClearFailed, StoredBut, Outputs
<1>2. CASE failed = <<"stdout">>
      BY <1>2 DEF ClearFailed, StoredBut, Outputs
<1>3. CASE failed = <<"stderr">>
      BY <1>3 DEF ClearFailed, StoredBut, Outputs
<1>4. CASE failed = <<"stdout", "stderr">>
      BY <1>4 DEF ClearFailed, StoredBut, Outputs
<1>5. CASE failed = <<"stderr", "stdout">>
      BY <1>5 DEF ClearFailed, StoredBut, Outputs
<1>. QED  BY <1>1, <1>2, <1>3, <1>4, <1>5 DEF FailedLists

LEMMA InitIInv == Init => IInv
<1>. SUFFICES ASSUME Init PROVE IInv
     OBVIOUS
<1>1. /\ eintr \in BOOLEAN /\ killSent \in BOOLEAN /\ tempFiles \in BOOLEAN
      /\ actionResult \in BOOLEAN /\ errorStatus \in BOOLEAN
      BY DEF Init
<1>2. TypeOK
      BY <1>1, RunnerAssumption DEF Init, TypeOK, Unset, Outputs
<1>. QED  BY <1>2
          DEF Init, IInv, ChildInv, KillInv, ResultInv, StatusInv, DigestsAreUploaded,
              ExitCodeIsNotOfTheKill, IncompleteResultIsFlagged

\* The steps of the runner that go on to its next place.
LEMMA RunnerGoesOn ==
    ASSUME IInv,
           \/ ReadAction \/ RegisterSignals \/ InitializeCasClient \/ FetchCommand
           \/ CallExecute \/ Stage \/ Fork \/ TestSignal \/ EnterWaitPid \/ WaitInterrupted
           \/ CommandExited \/ UploadOutputsFails \/ Kill \/ Reap \/ Capture
    PROVE  IInv'
<1>. USE RunnerAssumption
     DEF IInv, TypeOK, ChildInv, KillInv, ResultInv, StatusInv, DigestsAreUploaded,
         ExitCodeIsNotOfTheKill, IncompleteResultIsFlagged,
         config, childvars, resultvars, signalvars, filevars, Goto
<1>1. CASE ReadAction
      BY <1>1 DEF ReadAction
<1>2. CASE RegisterSignals
      BY <1>2 DEF RegisterSignals
<1>3. CASE InitializeCasClient
      BY <1>3 DEF InitializeCasClient
<1>4. CASE FetchCommand
      BY <1>4 DEF FetchCommand
<1>5. CASE CallExecute
      BY <1>5 DEF CallExecute
<1>6. CASE Stage
      BY <1>6 DEF Stage
<1>7. CASE Fork
      BY <1>7 DEF Fork
<1>8. CASE TestSignal
      BY <1>8 DEF TestSignal
<1>9. CASE EnterWaitPid
  <2>1. eintr' \in BOOLEAN
        BY <1>9 DEF EnterWaitPid
  <2>. QED  BY <1>9, <2>1 DEF EnterWaitPid
<1>10. CASE WaitInterrupted
      BY <1>10 DEF WaitInterrupted
<1>11. CASE CommandExited
      BY <1>11 DEF CommandExited
<1>12. CASE UploadOutputsFails
  <2>1. tempFiles' \in BOOLEAN
        BY <1>12 DEF UploadOutputsFails
  <2>. QED  BY <1>12, <2>1 DEF UploadOutputsFails
<1>13. CASE Kill
      BY <1>13 DEF Kill
<1>14. CASE Reap
  <2>1. tempFiles' \in BOOLEAN
        BY <1>14 DEF Reap
  <2>. QED  BY <1>14, <2>1 DEF Reap
<1>15. CASE Capture
      BY <1>15 DEF Capture
<1>. QED  BY <1>1, <1>2, <1>3, <1>4, <1>5, <1>6, <1>7, <1>8, <1>9, <1>10, <1>11, <1>12, <1>13, <1>14, <1>15

\* uploadOutputs(), whatever uploadBlobs() reports.
LEMMA UploadOutputsStep ==
    ASSUME IInv, NEW failed \in FailedLists, UploadOutputs(failed)
    PROVE  IInv'
<1>. USE RunnerAssumption
     DEF IInv, TypeOK, ChildInv, KillInv, ResultInv, StatusInv, DigestsAreUploaded,
         ExitCodeIsNotOfTheKill, IncompleteResultIsFlagged,
         config, childvars, resultvars, signalvars, filevars, Goto
<1>1. tempFiles' \in BOOLEAN
      BY DEF UploadOutputs
<1>2. digests' \subseteq stored' /\ stored' \subseteq Outputs
      BY ClearedAreStored DEF UploadOutputs
<1>3. exit_code' = childStatus /\ UNCHANGED childStatus
      BY DEF UploadOutputs
<1>. QED  BY <1>1, <1>2, <1>3 DEF UploadOutputs

\* The runner ends.  Only WriteActionResult leaves an ActionResult, and its exit
\* status is then the number of the signal.
LEMMA RunnerExits ==
    ASSUME IInv,
           \/ RegisterSignalsFails \/ InitializeCasClientFails \/ SignalledBeforeExecute
           \/ WriteActionResult \/ WriteActionResultFails \/ SignalKillsRunner
    PROVE  IInv'
<1>. USE RunnerAssumption
     DEF IInv, TypeOK, ChildInv, KillInv, ResultInv, StatusInv, DigestsAreUploaded,
         ExitCodeIsNotOfTheKill, IncompleteResultIsFlagged,
         config, childvars, resultvars, signalvars, filevars, Exit
<1>1. CASE RegisterSignalsFails
      BY <1>1 DEF RegisterSignalsFails, EXIT_FAILURE
<1>2. CASE InitializeCasClientFails
      BY <1>2 DEF InitializeCasClientFails, EXIT_FAILURE
<1>3. CASE SignalledBeforeExecute
      BY <1>3 DEF SignalledBeforeExecute, EXIT_FAILURE
<1>4. CASE WriteActionResult
      BY <1>4 DEF WriteActionResult, EXIT_FAILURE
<1>5. CASE WriteActionResultFails
      BY <1>5 DEF WriteActionResultFails, EXIT_FAILURE
<1>6. CASE SignalKillsRunner
      BY <1>6 DEF SignalKillsRunner, EXIT_FAILURE
<1>. QED  BY <1>1, <1>2, <1>3, <1>4, <1>5, <1>6

\* The runner ends with an error status; execute() only throws where there is no
\* child, or a reaped one.
LEMMA RunnerFails ==
    ASSUME IInv, NEW written \in BOOLEAN,
           \/ ReadActionFails(written) \/ FetchCommandFails(written) \/ StageFails(written)
           \/ ForkFails(written) \/ HashFileFails(written) \/ CaptureFails(written)
    PROVE  IInv'
<1>. USE RunnerAssumption
     DEF IInv, TypeOK, ChildInv, KillInv, ResultInv, StatusInv, DigestsAreUploaded,
         ExitCodeIsNotOfTheKill, IncompleteResultIsFlagged,
         config, childvars, resultvars, signalvars, filevars, Exit
<1>1. errorStatus' \in BOOLEAN /\ UNCHANGED actionResult
      BY DEF ReadActionFails, FetchCommandFails, StageFails, ForkFails, HashFileFails,
             CaptureFails, ExecuteThrows, WriteErrorStatus
<1>2. tempFiles' \in BOOLEAN
      BY DEF ReadActionFails, FetchCommandFails, StageFails, ForkFails, HashFileFails,
             CaptureFails, ExecuteThrows
<1>3. CASE ReadActionFails(written) \/ FetchCommandFails(written)
      BY <1>1, <1>2, <1>3 DEF ReadActionFails, FetchCommandFails, EXIT_FAILURE
<1>4. CASE StageFails(written) \/ ForkFails(written) \/ HashFileFails(written)
           \/ CaptureFails(written)
      BY <1>1, <1>2, <1>4
      DEF StageFails, ForkFails, HashFileFails, CaptureFails, ExecuteThrows
<1>. QED  BY <1>3, <1>4

\* The child's steps: it is there only while the runner has not reaped it.
LEMMA ChildStep ==
    ASSUME IInv, ChildSteps \/ Killed
    PROVE  IInv'
<1>. USE RunnerAssumption
     DEF IInv, TypeOK, ChildInv, KillInv, ResultInv, StatusInv, DigestsAreUploaded,
         ExitCodeIsNotOfTheKill, IncompleteResultIsFlagged,
         config, childvars, resultvars, signalvars, filevars
<1>1. pc \in {"testing", "entering", "waiting", "killing", "reaping"} /\ UNCHANGED pc
      BY DEF ChildSteps, Killed, Exec, RedirectFails, SecondRunnerExits, CommandEnds, ChildVanishes
<1>2. CASE Exec
      BY <1>1, <1>2 DEF Exec
<1>3. CASE RedirectFails
  <2>1. tempFiles' \in BOOLEAN
        BY <1>3 DEF RedirectFails
  <2>. QED  BY <1>1, <1>3, <2>1 DEF RedirectFails
<1>4. ASSUME NEW written \in BOOLEAN, SecondRunnerExits(written)
      PROVE  IInv'
  <2>1. errorStatus' \in BOOLEAN
        BY <1>4 DEF SecondRunnerExits
  <2>. QED  BY <1>1, <1>4, <2>1 DEF SecondRunnerExits, ChildVanishes, EXIT_FAILURE, Unset
<1>5. ASSUME NEW code \in Codes, CommandEnds(code)
      PROVE  IInv'
      BY <1>1, <1>5 DEF CommandEnds, ChildVanishes, Unset
<1>6. CASE Killed
      BY <1>1, <1>6 DEF Killed, ChildVanishes, SIGKILLED, Unset
<1>. QED  BY <1>2, <1>3, <1>4, <1>5, <1>6 DEF ChildSteps

LEMMA SignalStep ==
    ASSUME IInv, handleSignal
    PROVE  IInv'
<1>. USE RunnerAssumption
     DEF IInv, TypeOK, ChildInv, KillInv, ResultInv, StatusInv, DigestsAreUploaded,
         ExitCodeIsNotOfTheKill, IncompleteResultIsFlagged,
         config, childvars, resultvars, signalvars, filevars
<1>1. eintr' \in BOOLEAN
      BY DEF handleSignal
<1>. QED  BY <1>1 DEF handleSignal

\* The inductive invariant holds throughout.
LEMMA Invariance == Spec => []IInv
<1>1. IInv /\ [Next]_vars => IInv'
  <2>. SUFFICES ASSUME IInv, [Next]_vars PROVE IInv'
       OBVIOUS
  <2>1. CASE RunnerSteps
        BY <2>1, RunnerGoesOn, RunnerExits, RunnerFails, UploadOutputsStep DEF RunnerSteps
  <2>2. CASE ChildSteps \/ Killed
        BY <2>2, ChildStep
  <2>3. CASE SignalKillsRunner
        BY <2>3, RunnerExits
  <2>4. CASE handleSignal
        BY <2>4, SignalStep
  <2>5. CASE UNCHANGED vars
        BY <2>5
        DEF vars, config, childvars, resultvars, signalvars, filevars, IInv, TypeOK, ChildInv,
            KillInv, ResultInv, StatusInv, DigestsAreUploaded, ExitCodeIsNotOfTheKill,
            IncompleteResultIsFlagged
  <2>. QED  BY <2>1, <2>2, <2>3, <2>4, <2>5 DEF Next
<1>. QED  BY <1>1, InitIInv, PTL DEF Spec

\* main() keeps its variables within their types.
THEOREM TypeCorrect == Spec => []TypeOK
<1>1. IInv => TypeOK
      BY DEF IInv
<1>. QED  BY <1>1, Invariance, PTL

\* An ActionResult without exit code comes from a runner that exits with the
\* number of the signal, wherever in main() the signal arrived.
THEOREM IncompleteResults == Spec => []IncompleteResultIsFlagged
<1>1. IInv => IncompleteResultIsFlagged
      BY DEF IInv, ResultInv
<1>. QED  BY <1>1, Invariance, PTL

\* executeAndStore() stores the exit code of a child that it has reaped and has
\* not killed.
THEOREM ExitCodes == Spec => []ExitCodeIsNotOfTheKill
<1>1. IInv => ExitCodeIsNotOfTheKill
      BY DEF IInv, ResultInv
<1>. QED  BY <1>1, Invariance, PTL

\* Every way out of main() is taken before fork() or after waitpid().
THEOREM NoOrphans == Spec => []NoChildIsLeftBehind
<1>1. IInv => NoChildIsLeftBehind
      BY DEF IInv, ChildInv, NoChildIsLeftBehind
<1>. QED  BY <1>1, Invariance, PTL

\* A digest of a standard output in the ActionResult is that of a blob that
\* uploadOutputs() stored.
THEOREM Uploaded == Spec => []DigestsAreUploaded
<1>1. IInv => DigestsAreUploaded
      BY DEF IInv
<1>. QED  BY <1>1, Invariance, PTL
=============================================================================
