---------------------------- MODULE GrpcRetrier ----------------------------
(***************************************************************************)
(* GrpcRetrier::issueRequest(): invokes a gRPC request until it succeeds,  *)
(* fails with a status that is not retryable, or runs out of retries.      *)
(*                                                                         *)
(* The invocation itself (the lambda that the caller passes in) is the     *)
(* environment: one InvocationReturns step, with whatever status it gave.  *)
(* Modules that model such a lambda instantiate this one and put their own *)
(* steps between two of its actions.                                       *)
(***************************************************************************)
EXTENDS Integers, Sequences

CONSTANTS
    RetryLimit,      \* d_retryLimit: retries allowed after the first call
    ErrorCodes,      \* gRPC status codes other than OK a call may end with
    ExtraRetryable,  \* retryableStatusCodes passed to the constructor
    DelayBase,       \* the retryDelayBase passed to the constructor, in ms
    ServerDelays     \* delays (ms) a RetryInfo may carry; 0 stands for "none"

OK == "OK"
UNAVAILABLE == "UNAVAILABLE"

ASSUME RetrierAssumption ==
    /\ RetryLimit \in Nat
    /\ OK \notin ErrorCodes
    /\ UNAVAILABLE \in ErrorCodes
    /\ ExtraRetryable \subseteq ErrorCodes
    /\ DelayBase \in Nat
    /\ ServerDelays \subseteq Nat

VARIABLES
    pc,                \* where issueRequest() is
    d_retryAttempts,
    d_status,          \* status returned by the last invocation
    d_retryDelayBase,
    statuses,          \* history: what the invocations of this request gave
    sleeps             \* history: <<base, exponent>> of each back-off delay

vars == <<pc, d_retryAttempts, d_status, d_retryDelayBase, statuses, sleeps>>

Statuses == {OK} \cup ErrorCodes
RetryableStatusCodes == ExtraRetryable \cup {UNAVAILABLE}

statusIsRetryable(s) == s \in RetryableStatusCodes

\* "true" and "false" are the two return values; "threw" an exception that
\* the invocation raised and issueRequest() lets through.
Returned == {"true", "false", "threw"}

TypeOK ==
    /\ pc \in {"idle", "invoking", "sleeping"} \cup Returned
    /\ d_retryAttempts \in 0 .. RetryLimit
    /\ d_status \in Statuses
    /\ d_retryDelayBase \in Nat
    /\ statuses \in Seq(Statuses)
    /\ sleeps \in Seq(Nat \X Nat)

Init ==
    /\ pc = "idle"
    /\ d_retryAttempts = 0
    /\ d_status = OK
    /\ d_retryDelayBase = DelayBase
    /\ statuses = << >>
    /\ sleeps = << >>

(***************************************************************************)
(* The steps of issueRequest().  The same object may issue several         *)
(* requests, one after the other.                                          *)
(***************************************************************************)
Start ==
    /\ pc \in {"idle"} \cup Returned
    /\ pc' = "invoking"
    /\ d_retryAttempts' = 0
    /\ statuses' = << >>
    /\ sleeps' = << >>
    /\ UNCHANGED <<d_status, d_retryDelayBase>>

\* The invocation gave s: record it.
Answer(s) ==
    /\ pc = "invoking"
    /\ d_status' = s
    /\ statuses' = Append(statuses, s)

\* Success or a final error: issueRequest() returns true.
FinalAnswer(s) ==
    /\ ~ statusIsRetryable(s)
    /\ Answer(s)
    /\ pc' = "true"
    /\ UNCHANGED <<d_retryAttempts, d_retryDelayBase, sleeps>>

\* Mutant: every error may replace the base.
OverriddenBase_EveryTime(delay) ==
    IF delay > 0 THEN delay ELSE d_retryDelayBase

\* The server's RetryInfo, if any, replaces the base, on the first error only.
OverriddenBase(delay) ==
    IF d_retryAttempts = 0 /\ delay > 0 THEN delay ELSE d_retryDelayBase

\* Mutant: one retry too few.
LimitExceeded_Early(s, delay) ==
    /\ statusIsRetryable(s)
    /\ d_retryAttempts + 1 >= RetryLimit
    /\ Answer(s)
    /\ d_retryDelayBase' = OverriddenBase(delay)
    /\ pc' = "false"
    /\ UNCHANGED <<d_retryAttempts, sleeps>>

LimitExceeded(s, delay) ==
    /\ statusIsRetryable(s)
    /\ d_retryAttempts >= RetryLimit
    /\ Answer(s)
    /\ d_retryDelayBase' = OverriddenBase(delay)
    /\ pc' = "false"
    /\ UNCHANGED <<d_retryAttempts, sleeps>>

\* The delay slept is base * 1.6 ^ exponent.
Backoff(s, delay) ==
    /\ statusIsRetryable(s)
    /\ d_retryAttempts < RetryLimit
    /\ Answer(s)
    /\ d_retryDelayBase' = OverriddenBase(delay)
    /\ sleeps' = Append(sleeps, <<OverriddenBase(delay), d_retryAttempts>>)
    /\ pc' = "sleeping"
    /\ UNCHANGED d_retryAttempts

InvocationReturns(s, delay) ==
    \/ FinalAnswer(s)
    \/ LimitExceeded(s, delay)
    \/ Backoff(s, delay)

InvocationThrows ==
    /\ pc = "invoking"
    /\ pc' = "threw"
    /\ UNCHANGED <<d_retryAttempts, d_status, d_retryDelayBase, statuses, sleeps>>

\* Mutant: the retry is not counted.
Wake_NotCounted ==
    /\ pc = "sleeping"
    /\ pc' = "invoking"
    /\ UNCHANGED <<d_retryAttempts, d_status, d_retryDelayBase, statuses, sleeps>>

Wake ==
    /\ pc = "sleeping"
    /\ pc' = "invoking"
    /\ d_retryAttempts' = d_retryAttempts + 1
    /\ UNCHANGED <<d_status, d_retryDelayBase, statuses, sleeps>>

Next ==
    \/ Start
    \/ \E s \in Statuses, delay \in ServerDelays : InvocationReturns(s, delay)
    \/ InvocationThrows
    \/ Wake

\* Every invocation comes back, and a sleep ends; nobody has to call again.
Fairness ==
    /\ WF_vars(\E s \in Statuses, delay \in ServerDelays : InvocationReturns(s, delay))
    /\ WF_vars(Wake)

Spec == Init /\ [][Next]_vars /\ Fairness

(***************************************************************************)
(* Properties.                                                             *)
(***************************************************************************)
Calls == Len(statuses)

\* Every status but the last one of a request was retryable: a success or a
\* final error is never followed by another invocation, and the number of
\* invocations is the number of retries plus one, at most RetryLimit + 1.
OnlyRetryableIsRetried ==
    /\ \A i \in 1 .. Calls : i < Calls => statusIsRetryable(statuses[i])
    /\ pc \in {"invoking", "threw"} => Calls = d_retryAttempts
    /\ pc \in {"sleeping", "true", "false"} => Calls = d_retryAttempts + 1
    /\ pc = "invoking" => \A i \in 1 .. Calls : statusIsRetryable(statuses[i])

\* What the caller may conclude from the return value (grpcretrier.h, sample
\* usage): false exactly when all RetryLimit + 1 invocations failed with a
\* retryable status; true exactly when the last status is final.
ReturnValueIsTheVerdict ==
    /\ pc = "false" =>
         /\ Calls = RetryLimit + 1
         /\ \A i \in 1 .. Calls : statusIsRetryable(statuses[i])
    /\ pc = "true" => Calls >= 1 /\ ~ statusIsRetryable(statuses[Calls])
    /\ pc \in {"true", "false"} => d_status = statuses[Calls]

\* The back-off is exponential: within a request, the n-th sleep has exponent
\* n - 1 and the base is the one of the first sleep, whatever delays later
\* answers of the server carry.
BackoffIsExponential ==
    \A i \in 1 .. Len(sleeps) :
        /\ sleeps[i][2] = i - 1
        /\ sleeps[i][1] = sleeps[1][1]
=============================================================================
