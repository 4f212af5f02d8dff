------------------------------- MODULE Runner -------------------------------
(***************************************************************************)
(* Runner::main(), from the point where the arguments were accepted: reads *)
(* the Action, fetches the Command, runs it in a child process, uploads    *)
(* its standard outputs and writes the ActionResult.                       *)
(*                                                                         *)
(* Three actors: the runner, the child process that it forks, and whoever  *)
(* sends SIGINT or SIGTERM.  execute() is the subclass's: it is external,  *)
(* and taken to stage the input root, call executeAndStore(), and capture  *)
(* the outputs.                                                            *)
(***************************************************************************)
EXTENDS Integers, Sequences

CONSTANTS
    Codes,       \* exit codes of the command
    Signal,      \* the number of the signal that is sent
    MaxSignals   \* bound: how often it is sent

SIGKILLED == 128 + 9
EXIT_FAILURE == 1

ASSUME RunnerAssumption ==
    /\ Codes \subseteq Nat
    /\ Signal \in Nat \ {0}
    /\ MaxSignals \in Nat

Unset == -1

VARIABLES
    \* the command line
    capture,         \* standard outputs: "none" (skip_capture), "temp", "custom"
    outputPath,      \* d_outputPath is not empty
    \* the runner
    pc,
    exitStatus,      \* of the runner; Unset while it runs
    d_signal_status,
    eintr,           \* a signal arrived during waitpid()
    signals,         \* how many were sent
    exit_code,       \* of the ActionResult
    digests,         \* outputs whose digest is in the ActionResult
    \* the child
    child,
    childStatus,
    killSent,
    \* the outside
    sameOutputs,     \* stdout and stderr have the same digest
    tempFiles,       \* the temporary files are there
    stored,          \* outputs that the CAS has
    actionResult,    \* the file was written
    errorStatus      \* the file was written

config == <<capture, outputPath, sameOutputs>>
childvars == <<child, childStatus, killSent, tempFiles>>
resultvars == <<exit_code, digests, stored>>
signalvars == <<d_signal_status, eintr, signals>>
filevars == <<actionResult, errorStatus>>
vars == <<config, pc, exitStatus, signalvars, resultvars, childvars, filevars>>

Outputs == {"stdout", "stderr"}

TypeOK ==
    /\ capture \in {"none", "temp", "custom"}
    /\ outputPath \in BOOLEAN
    /\ sameOutputs \in BOOLEAN
    /\ pc \in {"reading", "registering", "connecting", "fetching", "checking", "staging",
               "forking", "testing", "entering", "waiting", "uploading", "killing", "reaping",
               "capturing", "writing", "exited"}
    /\ exitStatus \in {Unset, 0, EXIT_FAILURE, Signal, 128 + Signal}
    /\ d_signal_status \in {0, Signal}
    /\ eintr \in BOOLEAN
    /\ signals \in 0 .. MaxSignals
    /\ exit_code \in {Unset, EXIT_FAILURE, SIGKILLED} \cup Codes
    /\ digests \subseteq Outputs
    /\ stored \subseteq Outputs
    /\ child \in {"none", "forked", "running", "unwinding", "zombie", "reaped"}
    /\ childStatus \in {Unset, EXIT_FAILURE, SIGKILLED} \cup Codes
    /\ killSent \in BOOLEAN
    /\ tempFiles \in BOOLEAN
    /\ actionResult \in BOOLEAN
    /\ errorStatus \in BOOLEAN

Init ==
    /\ capture \in {"none", "temp", "custom"}
    /\ outputPath \in BOOLEAN
    /\ sameOutputs \in BOOLEAN
    /\ pc = "reading"
    /\ exitStatus = Unset
    /\ d_signal_status = 0 /\ eintr = FALSE /\ signals = 0
    /\ exit_code = Unset /\ digests = {} /\ stored = {}
    /\ child = "none" /\ childStatus = Unset /\ killSent = FALSE
    /\ tempFiles = FALSE
    /\ actionResult = FALSE /\ errorStatus = FALSE

(***************************************************************************)
(* Ways out.                                                               *)
(***************************************************************************)
Exit(status) ==
    /\ pc' = "exited"
    /\ exitStatus' = status
    /\ UNCHANGED signalvars

\* writeErrorStatusFile(): tries, if it knows where; an error is only logged.
WriteErrorStatus(written) ==
    /\ errorStatus' = (errorStatus \/ (outputPath /\ written))
    /\ UNCHANGED actionResult

\* catch (std::exception) in main(); unwinding removes the temporary files.
ExecuteThrows(written) ==
    /\ WriteErrorStatus(written)
    /\ Exit(EXIT_FAILURE)
    /\ tempFiles' = FALSE
    /\ UNCHANGED <<config, resultvars, child, childStatus, killSent>>

Goto(from, to) ==
    /\ pc = from
    /\ pc' = to
    /\ UNCHANGED exitStatus

(***************************************************************************)
(* main(), before execute().                                               *)
(***************************************************************************)
ReadAction ==
    /\ Goto("reading", "registering")
    /\ UNCHANGED <<config, signalvars, resultvars, childvars, filevars>>

ReadActionFails(written) ==
    /\ pc = "reading"
    /\ WriteErrorStatus(written)
    /\ Exit(1)
    /\ UNCHANGED <<config, resultvars, childvars>>

RegisterSignals ==
    /\ Goto("registering", "connecting")
    /\ UNCHANGED <<config, signalvars, resultvars, childvars, filevars>>

InitializeCasClient ==
    /\ Goto("connecting", "fetching")
    /\ UNCHANGED <<config, signalvars, resultvars, childvars, filevars>>

\* Neither of these leaves an error status.
RegisterSignalsFails ==
    /\ pc = "registering"
    /\ Exit(1)
    /\ UNCHANGED <<config, resultvars, childvars, filevars>>

InitializeCasClientFails ==
    /\ pc = "connecting"
    /\ Exit(1)
    /\ UNCHANGED <<config, resultvars, childvars, filevars>>

FetchCommand ==
    /\ Goto("fetching", "checking")
    /\ UNCHANGED <<config, signalvars, resultvars, childvars, filevars>>

FetchCommandFails(written) ==
    /\ pc = "fetching"
    /\ WriteErrorStatus(written)
    /\ Exit(1)
    /\ UNCHANGED <<config, resultvars, childvars>>

\* "If signal is set here, then no clean up necessary"
SignalledBeforeExecute ==
    /\ pc = "checking"
    /\ d_signal_status # 0
    /\ Exit(d_signal_status)
    /\ UNCHANGED <<config, resultvars, childvars, filevars>>

CallExecute ==
    /\ d_signal_status = 0
    /\ Goto("checking", "staging")
    /\ UNCHANGED <<config, signalvars, resultvars, childvars, filevars>>

(***************************************************************************)
(* execute(), with stage(), createOutputDirectories() and executeAndStore().*)
(***************************************************************************)
\* Then executeAndStore() creates its temporary files.
Stage ==
    /\ Goto("staging", "forking")
    /\ tempFiles' = (capture = "temp")
    /\ UNCHANGED <<config, signalvars, resultvars, child, childStatus, killSent, filevars>>

StageFails(written) ==
    /\ pc = "staging"
    /\ ExecuteThrows(written)

Fork ==
    /\ Goto("forking", "testing")
    /\ child' = "forked"
    /\ UNCHANGED <<config, signalvars, resultvars, childStatus, killSent, tempFiles, filevars>>

ForkFails(written) ==
    /\ pc = "forking"
    /\ ExecuteThrows(written)

\* while (!getSignalStatus())
TestSignal ==
    /\ pc = "testing"
    /\ pc' = IF d_signal_status = 0 THEN "entering" ELSE "killing"
    /\ UNCHANGED <<config, exitStatus, signalvars, resultvars, childvars, filevars>>

\* From here on a signal interrupts waitpid().
EnterWaitPid ==
    /\ pc = "entering"
    /\ pc' = "waiting"
    /\ eintr' = FALSE
    /\ UNCHANGED <<config, exitStatus, d_signal_status, signals, resultvars, childvars, filevars>>

\* waitPidOrSignal() returns -EINTR.
WaitInterrupted ==
    /\ eintr
    /\ Goto("waiting", "testing")
    /\ UNCHANGED <<config, signalvars, resultvars, childvars, filevars>>

\* waitPidOrSignal() returns the exit code.
CommandExited ==
    /\ pc = "waiting"
    /\ child = "zombie"
    /\ child' = "reaped"
    /\ IF capture = "none"
       THEN pc' = "capturing" /\ exit_code' = childStatus
       ELSE pc' = "uploading" /\ UNCHANGED exit_code
    /\ UNCHANGED <<config, exitStatus, signalvars, digests, stored, childStatus,
                   killSent, tempFiles, filevars>>

\* Mutant: compares with the digest that stdout had at first.
ClearFailed_FirstDigest(failed) ==
    LET hit(x) == IF x = "stdout" \/ sameOutputs THEN "stdout" ELSE "stderr"
    IN  Outputs \ {hit(failed[k]) : k \in DOMAIN failed}

\* uploadOutputs(): clears the digest of each blob that was not uploaded.  A
\* failed blob that is not stdout, as stdout_digest is now, is stderr.
ClearFailed(failed) ==
    LET isStdout(x) == x = "stdout" \/ sameOutputs
        first == IF isStdout(failed[1]) THEN "stdout" ELSE "stderr"
        second == IF first = "stdout" THEN "stderr"
                  ELSE IF isStdout(failed[2]) THEN "stdout" ELSE "stderr"
        cleared == IF Len(failed) = 0 THEN {}
                   ELSE IF Len(failed) = 1 THEN {first} ELSE {first, second}
    IN  Outputs \ cleared

FailedLists == { << >>, <<"stdout">>, <<"stderr">>, <<"stdout", "stderr">>, <<"stderr", "stdout">> }

\* What uploadBlobs() does not report is stored; with it, what is the same.
StoredBut(failed) ==
    LET ok == {x \in Outputs : \A k \in DOMAIN failed : failed[k] # x}
    IN  IF sameOutputs /\ ok # {} THEN Outputs ELSE ok

UploadOutputs(failed) ==
    /\ Goto("uploading", "capturing")
    /\ capture = "temp" => tempFiles
    /\ digests' = ClearFailed(failed)
    /\ stored' = StoredBut(failed)
    /\ exit_code' = childStatus
    /\ tempFiles' = FALSE
    /\ UNCHANGED <<config, signalvars, child, childStatus, killSent, filevars>>

\* uploadBlobs() threw: both digests are left empty.
UploadOutputsFails ==
    /\ Goto("uploading", "capturing")
    /\ capture = "temp" => tempFiles
    /\ exit_code' = childStatus
    /\ tempFiles' = FALSE
    /\ UNCHANGED <<config, signalvars, digests, stored, child, childStatus, killSent, filevars>>

\* CASHash::hashFile() cannot open a file.
HashFileFails(written) ==
    /\ pc = "uploading"
    /\ ExecuteThrows(written)

\* Mutant: does not wait for the child that it kills.
Kill_NoWait ==
    /\ Goto("killing", "capturing")
    /\ killSent' = TRUE
    /\ UNCHANGED <<config, signalvars, resultvars, child, childStatus, tempFiles, filevars>>

\* Mutant: a signal that the command may ignore.
Kill_Ignored ==
    /\ Goto("killing", "reaping")
    /\ UNCHANGED <<config, signalvars, resultvars, childvars, filevars>>

\* "Immediately terminate action command."
Kill ==
    /\ Goto("killing", "reaping")
    /\ killSent' = TRUE
    /\ UNCHANGED <<config, signalvars, resultvars, child, childStatus, tempFiles, filevars>>

\* Mutant: takes the status of the killed child for an exit code.
Reap_StoresExitCode ==
    /\ child = "zombie"
    /\ Goto("reaping", "capturing")
    /\ child' = "reaped"
    /\ exit_code' = childStatus
    /\ tempFiles' = FALSE
    /\ UNCHANGED <<config, signalvars, digests, stored, childStatus, killSent, filevars>>

\* waitPid(), which goes on after a signal.
Reap ==
    /\ child = "zombie"
    /\ Goto("reaping", "capturing")
    /\ child' = "reaped"
    /\ tempFiles' = FALSE
    /\ UNCHANGED <<config, signalvars, resultvars, childStatus, killSent, filevars>>

\* External: the rest of the subclass's execute().
Capture ==
    /\ Goto("capturing", "writing")
    /\ UNCHANGED <<config, signalvars, resultvars, childvars, filevars>>

CaptureFails(written) ==
    /\ pc = "capturing"
    /\ ExecuteThrows(written)

(***************************************************************************)
(* main(), after execute().                                                *)
(***************************************************************************)
\* Mutant: forgets the signal.
WriteActionResult_NoSignal ==
    /\ pc = "writing"
    /\ actionResult' = outputPath
    /\ Exit(0)
    /\ UNCHANGED <<config, resultvars, childvars, errorStatus>>

WriteActionResult ==
    /\ pc = "writing"
    /\ actionResult' = outputPath
    /\ Exit(d_signal_status)
    /\ UNCHANGED <<config, resultvars, childvars, errorStatus>>

WriteActionResultFails ==
    /\ pc = "writing"
    /\ outputPath
    /\ Exit(1)
    /\ UNCHANGED <<config, resultvars, childvars, filevars>>

(***************************************************************************)
(* The child.                                                              *)
(***************************************************************************)
ChildVanishes(status) ==
    /\ child' = "zombie"
    /\ childStatus' = status
    /\ UNCHANGED <<config, pc, exitStatus, signalvars, resultvars, killSent, actionResult>>

\* Redirects its outputs; a failed exec() is the code 126 or 127.
Exec ==
    /\ child = "forked"
    /\ child' = "running"
    /\ UNCHANGED <<config, pc, exitStatus, signalvars, resultvars, childStatus, killSent,
                   tempFiles, filevars>>

\* redirectStandardOutputToFile() throws, in the child: it goes on as a second
\* runner, unwinds executeAndStore() and execute(), ...
RedirectFails ==
    /\ child = "forked"
    /\ capture # "none"
    /\ child' = "unwinding"
    /\ tempFiles' = FALSE
    /\ UNCHANGED <<config, pc, exitStatus, signalvars, resultvars, childStatus, killSent,
                   filevars>>

\* ... and leaves main() through its catch block.
SecondRunnerExits(written) ==
    /\ child = "unwinding"
    /\ errorStatus' = (errorStatus \/ (outputPath /\ written))
    /\ ChildVanishes(EXIT_FAILURE)
    /\ UNCHANGED <<tempFiles>>

CommandEnds(code) ==
    /\ child = "running"
    /\ ChildVanishes(code)
    /\ UNCHANGED <<tempFiles, errorStatus>>

\* External: SIGKILL takes effect.
Killed ==
    /\ killSent
    /\ child \in {"forked", "running", "unwinding"}
    /\ ChildVanishes(SIGKILLED)
    /\ UNCHANGED <<tempFiles, errorStatus>>

(***************************************************************************)
(* Signals.                                                                *)
(***************************************************************************)
\* No handler yet: the signal ends the runner.
SignalKillsRunner ==
    /\ pc \in {"reading", "registering"}
    /\ pc' = "exited"
    /\ exitStatus' = 128 + Signal
    /\ UNCHANGED <<config, signalvars, resultvars, childvars, filevars>>

handleSignal ==
    /\ pc \notin {"reading", "registering", "exited"}
    /\ signals < MaxSignals
    /\ signals' = signals + 1
    /\ d_signal_status' = Signal
    /\ eintr' = (eintr \/ pc = "waiting")
    /\ UNCHANGED <<config, pc, exitStatus, resultvars, childvars, filevars>>

RunnerSteps ==
    \/ ReadAction \/ RegisterSignals \/ RegisterSignalsFails
    \/ InitializeCasClient \/ InitializeCasClientFails
    \/ FetchCommand \/ SignalledBeforeExecute \/ CallExecute
    \/ Stage \/ Fork \/ TestSignal \/ EnterWaitPid \/ WaitInterrupted \/ CommandExited
    \/ \E failed \in FailedLists : UploadOutputs(failed)
    \/ UploadOutputsFails
    \/ Kill \/ Reap \/ Capture \/ WriteActionResult \/ WriteActionResultFails
    \/ \E written \in BOOLEAN :
         \/ ReadActionFails(written) \/ FetchCommandFails(written) \/ StageFails(written)
         \/ ForkFails(written) \/ HashFileFails(written) \/ CaptureFails(written)

ChildSteps ==
    \/ Exec \/ RedirectFails
    \/ \E written \in BOOLEAN : SecondRunnerExits(written)
    \/ \E code \in Codes : CommandEnds(code)

Next == RunnerSteps \/ ChildSteps \/ Killed \/ SignalKillsRunner \/ handleSignal

\* The runner is scheduled, its RPCs are answered, and the kernel delivers
\* SIGKILL.  The command may run for ever.
Spec == Init /\ [][Next]_vars /\ WF_vars(RunnerSteps) /\ WF_vars(Killed)

(***************************************************************************)
(* Properties.                                                             *)
(***************************************************************************)
\* An ActionResult that lacks the exit code, which a reader takes for a 0, was
\* interrupted: the runner itself then exits with the number of the signal.
IncompleteResultIsFlagged ==
    pc = "exited" /\ actionResult /\ exit_code = Unset => exitStatus = Signal

\* The exit code in the ActionResult is the child's own, never the one of a
\* child that the runner has killed.
ExitCodeIsNotOfTheKill ==
    exit_code # Unset => child = "reaped" /\ exit_code = childStatus /\ ~ killSent

\* The runner leaves no child behind, running or unreaped, whenever the
\* signal came.
NoChildIsLeftBehind ==
    pc = "exited" => child \in {"none", "reaped"}

\* "If an entry fails to be uploaded, its corresponding position in the result
\* will contain an empty `Digest` object" (uploadOutputs(), runner.h): a digest
\* in the ActionResult is that of a blob in the CAS, also when stdout and
\* stderr are the same blob.
DigestsAreUploaded == digests \subseteq stored

\* Once the command has ended, or the runner has noticed the signal, the
\* runner exits.
RunnerEnds ==
    /\ child = "zombie" ~> pc = "exited"
    /\ pc = "killing" ~> pc = "exited"
=============================================================================
