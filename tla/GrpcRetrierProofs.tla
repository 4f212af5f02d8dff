------------------------- MODULE GrpcRetrierProofs -------------------------
(***************************************************************************)
(* Proofs, for every retry limit and every set of status codes, of the     *)
(* safety properties of GrpcRetrier.  The invariants the runs check are    *)
(* not inductive: the number of retries has to be tied to the lengths of   *)
(* the two histories, and the base of the delays to d_retryDelayBase.      *)
(***************************************************************************)
EXTENDS GrpcRetrier, TLAPS

\* Ties d_retryAttempts to what has happened in the request.
CountInv ==
    /\ pc \in {"invoking", "threw"} =>
         Len(statuses) = d_retryAttempts /\ Len(sleeps) = d_retryAttempts
    /\ pc = "sleeping" =>
         /\ d_retryAttempts < RetryLimit
         /\ Len(statuses) = d_retryAttempts + 1
         /\ Len(sleeps) = d_retryAttempts + 1
    /\ pc \in {"true", "false"} => Len(statuses) = d_retryAttempts + 1

\* While the request goes on, every status so far was retryable.
RetryableInv ==
    /\ pc \in {"invoking", "sleeping", "false"} =>
         \A i \in 1 .. Len(statuses) : statusIsRetryable(statuses[i])
    /\ \A i \in 1 .. Len(statuses) :
         i < Len(statuses) => statusIsRetryable(statuses[i])

\* What a returned request looks like.
VerdictInv ==
    /\ pc = "false" => d_retryAttempts = RetryLimit
    /\ pc = "true" => ~ statusIsRetryable(statuses[Len(statuses)])
    /\ pc \in {"true", "false"} => d_status = statuses[Len(statuses)]

\* The delays slept so far, and the base the next one will use.
SleepInv ==
    /\ \A i \in 1 .. Len(sleeps) : sleeps[i][2] = i - 1 /\ sleeps[i][1] = sleeps[1][1]
    /\ pc \in {"invoking", "sleeping"} /\ Len(sleeps) > 0 => sleeps[1][1] = d_retryDelayBase

IInv == TypeOK /\ CountInv /\ RetryableInv /\ VerdictInv /\ SleepInv

\* Every constant the code can be configured with gives a well-typed start.
LEMMA InitIInv == Init => IInv
  BY RetrierAssumption
  DEF Init, IInv, TypeOK, CountInv, RetryableInv, VerdictInv, SleepInv, Statuses, Returned

\* Starting a request resets what CountInv counts.
LEMMA StartStep == IInv /\ Start => IInv'
  BY RetrierAssumption
  DEF IInv, TypeOK, CountInv, RetryableInv, VerdictInv, SleepInv, Start, Statuses, Returned

\* An answer that ends the request.
LEMMA FinalAnswerStep ==
  ASSUME NEW s \in Statuses, IInv, FinalAnswer(s)
  PROVE  IInv'
  <1>1. TypeOK'
    BY DEF IInv, TypeOK, FinalAnswer, Answer, Returned
  <1>2. CountInv' /\ RetryableInv' /\ VerdictInv'
    BY DEF IInv, TypeOK, CountInv, RetryableInv, VerdictInv, FinalAnswer, Answer, statusIsRetryable
  <1>3. SleepInv'
    BY DEF IInv, SleepInv, FinalAnswer
  <1> QED BY <1>1, <1>2, <1>3 DEF IInv

\* A retryable answer once the retries are used up.
LEMMA LimitExceededStep ==
  ASSUME NEW s \in Statuses, NEW delay \in ServerDelays, IInv, LimitExceeded(s, delay)
  PROVE  IInv'
  <1>1. TypeOK'
    BY RetrierAssumption DEF IInv, TypeOK, LimitExceeded, OverriddenBase, Answer, Returned
  <1>2. CountInv' /\ RetryableInv' /\ VerdictInv'
    BY RetrierAssumption
    DEF IInv, TypeOK, CountInv, RetryableInv, VerdictInv, LimitExceeded, Answer, statusIsRetryable
  <1>3. SleepInv'
    BY DEF IInv, SleepInv, LimitExceeded
  <1> QED BY <1>1, <1>2, <1>3 DEF IInv

\* A retryable answer that is followed by a delay: the only step that adds to
\* sleeps, and the only one where the base in use may change.
LEMMA BackoffStep ==
  ASSUME NEW s \in Statuses, NEW delay \in ServerDelays, IInv, Backoff(s, delay)
  PROVE  IInv'
  <1> DEFINE base == OverriddenBase(delay)
  <1>0. base \in Nat
    BY RetrierAssumption DEF IInv, TypeOK, OverriddenBase
  <1>1. TypeOK'
    BY <1>0, RetrierAssumption DEF IInv, TypeOK, Backoff, Answer, Returned
  <1>2. CountInv' /\ RetryableInv' /\ VerdictInv'
    BY <1>0, RetrierAssumption
    DEF IInv, TypeOK, CountInv, RetryableInv, VerdictInv, Backoff, Answer, statusIsRetryable
  <1>3. SleepInv'
    <2>1. /\ sleeps' = Append(sleeps, <<base, d_retryAttempts>>)
          /\ sleeps \in Seq(Nat \X Nat)
          /\ Len(sleeps) = d_retryAttempts
          /\ d_retryDelayBase' = base
      BY DEF IInv, TypeOK, CountInv, Backoff, Answer
    <2>2. Len(sleeps) > 0 => base = d_retryDelayBase /\ sleeps[1][1] = base
      BY <2>1 DEF IInv, SleepInv, OverriddenBase, Backoff, Answer
    <2>3. \A i \in 1 .. Len(sleeps') :
            sleeps'[i][2] = i - 1 /\ sleeps'[i][1] = base
      BY <1>0, <2>1, <2>2 DEF IInv, SleepInv, TypeOK
    <2> HIDE DEF base
    <2> QED BY <1>0, <2>1, <2>3 DEF SleepInv
  <1> QED BY <1>1, <1>2, <1>3 DEF IInv

\* The two steps in which the invocation gives no status.
LEMMA ThrowsStep == IInv /\ InvocationThrows => IInv'
  BY DEF IInv, TypeOK, CountInv, RetryableInv, VerdictInv, SleepInv, InvocationThrows, Returned

LEMMA WakeStep == IInv /\ Wake => IInv'
  BY RetrierAssumption
  DEF IInv, TypeOK, CountInv, RetryableInv, VerdictInv, SleepInv, Wake

\* IInv holds in every state of issueRequest(), for every configuration.
THEOREM Invariance == Spec => []IInv
  <1>1. Init => IInv
    BY InitIInv
  <1>2. IInv /\ [Next]_vars => IInv'
    <2> SUFFICES ASSUME IInv, [Next]_vars PROVE IInv'
      OBVIOUS
    <2>1. CASE Start
      BY <2>1, StartStep
    <2>2. CASE \E s \in Statuses, delay \in ServerDelays : InvocationReturns(s, delay)
      BY <2>2, FinalAnswerStep, LimitExceededStep, BackoffStep DEF InvocationReturns
    <2>3. CASE InvocationThrows
      BY <2>3, ThrowsStep
    <2>4. CASE Wake
      BY <2>4, WakeStep
    <2>5. CASE UNCHANGED vars
      BY <2>5
      DEF vars, IInv, TypeOK, CountInv, RetryableInv, VerdictInv, SleepInv
    <2> QED BY <2>1, <2>2, <2>3, <2>4, <2>5 DEF Next
  <1> QED BY <1>1, <1>2, PTL DEF Spec

\* issueRequest() keeps its counters within the configured limit.
THEOREM TypeCorrect == Spec => []TypeOK
  <1>1. IInv => TypeOK
    BY DEF IInv
  <1> QED BY <1>1, Invariance, PTL

\* Only a retryable status is followed by another invocation, and there are
\* never more than RetryLimit + 1 of them.
THEOREM RetriesOnlyRetryable == Spec => []OnlyRetryableIsRetried
  <1>1. IInv => OnlyRetryableIsRetried
    BY DEF IInv, CountInv, RetryableInv, OnlyRetryableIsRetried, Calls
  <1> QED BY <1>1, Invariance, PTL

\* The value issueRequest() returns tells exhausted retries from an answer.
THEOREM Verdict == Spec => []ReturnValueIsTheVerdict
  <1>1. IInv => ReturnValueIsTheVerdict
    BY RetrierAssumption
    DEF IInv, TypeOK, CountInv, RetryableInv, VerdictInv, ReturnValueIsTheVerdict, Calls
  <1> QED BY <1>1, Invariance, PTL

\* The delays of a request grow exponentially from one base.
THEOREM Exponential == Spec => []BackoffIsExponential
  <1>1. IInv => BackoffIsExponential
    BY DEF IInv, SleepInv, BackoffIsExponential
  <1> QED BY <1>1, Invariance, PTL
=============================================================================
