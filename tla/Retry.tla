--------------------------------- MODULE Retry ---------------------------------
(***************************************************************************)
(* gretry/retry.go, Do: one call of Do against a context that may be done  *)
(* at any moment (the caller's cancellation, or options.Timeout, which is  *)
(* a deadline on a derived context).  runAttempt runs fn on a goroutine of *)
(* its own and stops waiting for it when the context is done, so a call of *)
(* fn may outlive the attempt, and Do itself.  How long a delay lasts is   *)
(* the subject of module Backoff; here a timer fires at any moment.        *)
(***************************************************************************)
EXTENDS Backoff, FiniteSets

CONSTANTS Limits,      \* the values of options.MaxRetries
          FnErrors,    \* the errors fn returns
          ctxErr,      \* ctx.Err() of a context that is done
          retryFailed, \* fmt.Errorf("retry failed")
          ok,          \* a nil error
          Retryable    \* the errors for which options.ShouldRetry is true

Errors == FnErrors \cup {ctxErr}

ASSUME RetryConstants ==
    /\ Limits \subseteq Int
    /\ Retryable \subseteq Errors
    /\ ok \notin Errors \cup {retryFailed}
    /\ ctxErr \notin FnErrors
    /\ retryFailed \notin Errors

VARIABLES maxRetries, \* options.MaxRetries of this call
          pc,        \* where Do is
          attempt,   \* the loop variable
          attempts,  \* the number of attempts begun
          err,       \* the result of the attempt being judged, later lastErr
          ctxDone,   \* ctx.Done() is closed
          running,   \* the calls of fn that have not returned
          outcome,   \* call of fn -> what it returned
          result,    \* the RetryResult: [success, attempts, error]
          onRetry,   \* history: how often options.OnRetry was called
          onEnd      \* history: the calls of OnSuccess and OnFailed

vars == <<maxRetries, pc, attempt, attempts, err, ctxDone, running, outcome, result,
          onRetry, onEnd>>

Init ==
    /\ maxRetries \in Limits
    /\ pc = "check"
    /\ attempt = 0
    /\ attempts = 0
    /\ err = ok
    /\ ctxDone = FALSE
    /\ running = {}
    /\ outcome = [i \in {} |-> ok]
    /\ result = [success |-> FALSE, attempts |-> 0, error |-> ok]
    /\ onRetry = 0
    /\ onEnd = [success |-> 0, failed |-> 0]

\* Do returns, having called OnFailed or OnSuccess.
Fail(n, e) ==
    /\ pc' = "done"
    /\ result' = [success |-> FALSE, attempts |-> n, error |-> e]
    /\ onEnd' = [onEnd EXCEPT !.failed = @ + 1]

Succeed(n) ==
    /\ pc' = "done"
    /\ result' = [success |-> TRUE, attempts |-> n, error |-> ok]
    /\ onEnd' = [onEnd EXCEPT !.success = @ + 1]

-------------------------------------------------------------------------------
\* The loop condition and the check of the context before an attempt.
CheckDone ==
    /\ pc = "check" /\ attempt <= maxRetries /\ ctxDone
    /\ Fail(attempt, ctxErr)
    /\ UNCHANGED <<maxRetries, attempt, attempts, err, ctxDone, running,
                   outcome, onRetry>>

\* Mutant: the context is not looked at before an attempt.
StartAttempt_Unchecked ==
    /\ pc = "check" /\ attempt <= maxRetries
    /\ attempts' = attempts + 1
    /\ running' = running \cup {attempts + 1}
    /\ pc' = "run"
    /\ UNCHANGED <<maxRetries, attempt, err, ctxDone, outcome, result, onRetry,
                   onEnd>>

StartAttempt ==
    /\ pc = "check" /\ attempt <= maxRetries /\ ~ctxDone
    /\ attempts' = attempts + 1
    /\ running' = running \cup {attempts + 1}
    /\ pc' = "run"
    /\ UNCHANGED <<maxRetries, attempt, err, ctxDone, outcome, result, onRetry,
                   onEnd>>

LoopOver ==
    /\ pc = "check" /\ attempt > maxRetries
    /\ pc' = "final"
    /\ UNCHANGED <<maxRetries, attempt, attempts, err, ctxDone, running,
                   outcome, result, onRetry, onEnd>>

\* runAttempt: fn's goroutine sends what fn returned to a channel of one ...
FnReturns(i, e) ==
    /\ i \in running
    /\ running' = running \ {i}
    /\ outcome' = [j \in DOMAIN outcome \cup {i} |-> IF j = i THEN e ELSE outcome[j]]
    /\ UNCHANGED <<maxRetries, pc, attempt, attempts, err, ctxDone, result,
                   onRetry, onEnd>>

\* Mutant: the error of the first attempt is never overwritten.
AttemptReturned_KeepsFirst ==
    /\ pc = "run" /\ attempts \in DOMAIN outcome
    /\ err' = outcome[1]
    /\ pc' = "judge"
    /\ UNCHANGED <<maxRetries, attempt, attempts, ctxDone, running, outcome,
                   result, onRetry, onEnd>>

\* ... and Do takes it, or gives up waiting when the context is done.
AttemptReturned ==
    /\ pc = "run" /\ attempts \in DOMAIN outcome
    /\ err' = outcome[attempts]
    /\ pc' = "judge"
    /\ UNCHANGED <<maxRetries, attempt, attempts, ctxDone, running, outcome,
                   result, onRetry, onEnd>>

\* Mutant: the attempt is waited for although the context is done.
AttemptCancelled_Waits ==
    /\ pc = "run" /\ ctxDone /\ attempts \in DOMAIN outcome
    /\ err' = ctxErr
    /\ pc' = "judge"
    /\ UNCHANGED <<maxRetries, attempt, attempts, ctxDone, running, outcome,
                   result, onRetry, onEnd>>

AttemptCancelled ==
    /\ pc = "run" /\ ctxDone
    /\ err' = ctxErr
    /\ pc' = "judge"
    /\ UNCHANGED <<maxRetries, attempt, attempts, ctxDone, running, outcome,
                   result, onRetry, onEnd>>

\* A nil error is a success unless the context is done by now.
JudgeSuccess ==
    /\ pc = "judge" /\ err = ok /\ ~ctxDone
    /\ Succeed(attempts)
    /\ UNCHANGED <<maxRetries, attempt, attempts, err, ctxDone, running,
                   outcome, onRetry>>

failure == IF err = ok THEN ctxErr ELSE err

giveUp == attempt = maxRetries \/ failure \notin Retryable

\* Mutant: OnRetry is called before it is known that there will be a retry.
JudgeFailure_AlwaysNotifies ==
    /\ pc = "judge" /\ (err # ok \/ ctxDone)
    /\ err' = failure
    /\ onRetry' = onRetry + 1
    /\ pc' = IF giveUp THEN "final" ELSE "wait"
    /\ UNCHANGED <<maxRetries, attempt, attempts, ctxDone, running, outcome,
                   result, onEnd>>

JudgeFailure ==
    /\ pc = "judge" /\ (err # ok \/ ctxDone)
    /\ err' = failure
    /\ IF giveUp
       THEN pc' = "final" /\ UNCHANGED onRetry
       ELSE pc' = "wait" /\ onRetry' = onRetry + 1
    /\ UNCHANGED <<maxRetries, attempt, attempts, ctxDone, running, outcome,
                   result, onEnd>>

\* The delay: the timer or the context, whichever select takes.
TimerFires ==
    /\ pc = "wait"
    /\ attempt' = attempt + 1
    /\ pc' = "check"
    /\ UNCHANGED <<maxRetries, attempts, err, ctxDone, running, outcome,
                   result, onRetry, onEnd>>

WaitCancelled ==
    /\ pc = "wait" /\ ctxDone
    /\ Fail(attempts, ctxErr)
    /\ UNCHANGED <<maxRetries, attempt, attempts, err, ctxDone, running,
                   outcome, onRetry>>

\* Out of the loop: the context's error, the last attempt's, or "retry failed".
Final ==
    /\ pc = "final"
    /\ Fail(attempts, IF ctxDone THEN ctxErr
                      ELSE IF err # ok THEN err ELSE retryFailed)
    /\ UNCHANGED <<maxRetries, attempt, attempts, err, ctxDone, running,
                   outcome, onRetry>>

\* The caller cancels, or the deadline passes.
Cancel ==
    /\ ~ctxDone
    /\ ctxDone' = TRUE
    /\ UNCHANGED <<maxRetries, pc, attempt, attempts, err, running, outcome,
                   result, onRetry, onEnd>>

DoStep ==
    \/ CheckDone \/ StartAttempt \/ LoopOver \/ AttemptReturned \/ AttemptCancelled
    \/ JudgeSuccess \/ JudgeFailure \/ TimerFires \/ WaitCancelled \/ Final

Next ==
    \/ CheckDone \/ StartAttempt \/ LoopOver \/ AttemptReturned \/ AttemptCancelled
    \/ JudgeSuccess \/ JudgeFailure \/ TimerFires \/ WaitCancelled \/ Final
    \/ Cancel
    \/ \E i \in running, e \in FnErrors \cup {ok} : FnReturns(i, e)

\* Do goes on while it can; nothing is asked of fn, of the caller or of the
\* deadline.
Spec == Init /\ [][Next]_vars /\ WF_vars(DoStep)

-------------------------------------------------------------------------------
TypeOK ==
    /\ maxRetries \in Limits
    /\ pc \in {"check", "run", "judge", "wait", "final", "done"}
    /\ attempt \in Nat /\ attempts \in Nat /\ onRetry \in Nat
    /\ err \in Errors \cup {ok}
    /\ ctxDone \in BOOLEAN
    /\ running \in SUBSET (1..attempts)
    /\ DOMAIN outcome = 1..attempts \ running
    /\ \A i \in DOMAIN outcome : outcome[i] \in FnErrors \cup {ok}
    /\ result \in [success : BOOLEAN, attempts : Nat,
                   error : Errors \cup {ok, retryFailed}]
    /\ onEnd \in [success : Nat, failed : Nat]

\* No two calls of fn ever run at once: an attempt is begun only after the one
\* before it has returned, since Do abandons an attempt only when the context
\* is done and begins none from then on.
NeverTwoAtOnce == \A i, j \in running : i = j

\* fn is called at most 1 + MaxRetries times, never if MaxRetries is negative.
AttemptsBounded ==
    attempts <= IF maxRetries < 0 THEN 0 ELSE maxRetries + 1

\* The result tells the truth about fn: a success means that the last call of
\* fn succeeded and every call before it had failed; a failure means that the context
\* is done, which is its error, or that every call of fn failed, and its error is the
\* last one's (or says that there was none).
ResultTruthful ==
    pc = "done" =>
        IF result.success
        THEN /\ result.attempts \in DOMAIN outcome /\ result.error = ok
             /\ \A i \in DOMAIN outcome : outcome[i] = ok <=> i = result.attempts
        ELSE \/ ctxDone /\ result.error = ctxErr
             \/ /\ \A i \in DOMAIN outcome : outcome[i] # ok
                /\ IF attempts = 0 THEN result.error = retryFailed
                   ELSE attempts \in DOMAIN outcome /\ result.error = outcome[attempts]

\* The callbacks agree with the result: exactly one of OnSuccess and OnFailed,
\* once; result.Attempts counts the calls of fn, and OnRetry was called between
\* each two of them, and at most once more, by a wait that was cancelled.
CallbacksAgree ==
    pc = "done" =>
        /\ onEnd = [success |-> IF result.success THEN 1 ELSE 0,
                    failed  |-> IF result.success THEN 0 ELSE 1]
        /\ result.attempts = attempts
        /\ IF result.success \/ (~ctxDone /\ attempts > 0)
           THEN onRetry = attempts - 1
           ELSE onRetry \in {attempts - 1, attempts}

\* Whenever Do waits, its delay and those of the other packages after as many
\* attempts keep to their maximum and back off, whatever the strategy, the jitter and
\* an overflow make of them (calculateDelay, applyJitter, ExponentialBackoff).
DelaysSound ==
    pc = "wait" =>
        /\ \A o \in Options :
              CapWithJitter(attempt, o) /\ BacksOff(attempt, o) /\ RegistryWaits(attempt, o)
        /\ \A base \in RetryDelays : ClientBacksOff(attempt, base)

\* A call whose context is done returns, whatever fn does: an fn that never
\* returns is abandoned.
CancelReturns == ctxDone ~> pc = "done"

===============================================================================
