------------------------------ MODULE RetryProofs ------------------------------
(***************************************************************************)
(* What module Retry promises, proved for every set of limits, errors and  *)
(* predicate ShouldRetry.  The safety properties are not inductive: what   *)
(* the result says of the attempts depends on how the loop variable, the   *)
(* number of attempts, the calls of fn still running and OnRetry's count   *)
(* are related at every place of the loop.  Progress, Calls, History and   *)
(* Ended say how, and together with TypeOK they are inductive.             *)
(* DelaysSound is about each delay by itself: it rests on what mathPow     *)
(* computes and on the range in which no conversion changes a number.      *)
(***************************************************************************)
EXTENDS Retry, NaturalsInduction, WellFoundedInduction, TLAPS

\* The loop variable, the attempts begun and the calls of OnRetry, place by
\* place.  (CallbacksAgree covers the place "done".)
Progress ==
    /\ pc = "check" => attempts = attempt /\ onRetry = attempts
    /\ pc \in {"run", "judge", "wait"} => attempts = attempt + 1 /\ attempt <= maxRetries
    /\ pc \in {"run", "judge"} => onRetry = attempts - 1
    /\ pc = "wait" => onRetry = attempts /\ attempt < maxRetries
    /\ pc = "final" => \/ attempts > 0 /\ onRetry = attempts - 1
                       \/ attempts = 0 /\ onRetry = 0
    /\ pc = "check" => attempt <= maxRetries \/ attempt = 0
    /\ AttemptsBounded

\* As long as the context is not done, fn runs only while Do waits for it.
Calls ==
    /\ NeverTwoAtOnce
    /\ ~ctxDone => running \subseteq (IF pc = "run" THEN {attempts} ELSE {})

\* As long as the context is not done, every attempt but the one being made
\* or judged has failed, and the one being judged is judged by its own result.
History ==
    ~ctxDone =>
        /\ pc \in {"check", "wait", "final"} => \A i \in DOMAIN outcome : outcome[i] # ok
        /\ pc \in {"run", "judge"} =>
              \A i \in DOMAIN outcome : i # attempts => outcome[i] # ok
        /\ pc = "judge" => attempts \in DOMAIN outcome /\ err = outcome[attempts]
        /\ pc \in {"check", "final"} /\ attempts = 0 => err = ok
        /\ pc = "final" /\ attempts > 0 => attempts \in DOMAIN outcome /\ err = outcome[attempts]

\* The callbacks that end the call are not made before, and a call of Do that the
\* context did not end leaves no call of fn behind.
Ended ==
    /\ pc # "done" => onEnd = [success |-> 0, failed |-> 0]
    /\ pc = "done" /\ result.error # ctxErr => running = {}
    /\ ResultTruthful
    /\ CallbacksAgree

IInv == TypeOK /\ Progress /\ Calls /\ History /\ Ended

\* The inductive invariant holds when Do is called.
LEMMA InitInv == Init => IInv
<1> SUFFICES ASSUME Init PROVE IInv
  OBVIOUS
<1> USE RetryConstants DEF Init
<1>1. TypeOK
  <2>1. DOMAIN outcome = {} /\ 1..attempts = {}
    OBVIOUS
  <2>2. running \in SUBSET (1..attempts) /\ DOMAIN outcome = 1..attempts \ running
    BY <2>1
  <2>3. \A i \in DOMAIN outcome : outcome[i] \in FnErrors \cup {ok}
    BY <2>1
  <2>4. result \in [success : BOOLEAN, attempts : Nat, error : Errors \cup {ok, retryFailed}]
    OBVIOUS
  <2> QED
    BY <2>2, <2>3, <2>4 DEF TypeOK
<1>2. Progress
  BY DEF Progress, AttemptsBounded
<1>3. Calls /\ History
  BY DEF Calls, History, NeverTwoAtOnce
<1>4. Ended
  BY DEF Ended, ResultTruthful, CallbacksAgree
<1> QED
  BY <1>1, <1>2, <1>3, <1>4 DEF IInv

\* Each step keeps the inductive invariant: one case per action.
LEMMA StepInv == IInv /\ [Next]_vars => IInv'
<1> SUFFICES ASSUME IInv, [Next]_vars PROVE IInv'
  OBVIOUS
<1> USE RetryConstants DEF IInv
<1>1. CASE CheckDone
  <2>1. TypeOK'
    BY <1>1 DEF CheckDone, Fail, TypeOK, Errors
  <2>2. Progress'
    BY <1>1 DEF CheckDone, Fail, TypeOK, Progress, AttemptsBounded
  <2>3. Calls'
    BY <1>1 DEF CheckDone, Fail, TypeOK, Progress, Calls, NeverTwoAtOnce
  <2>4. History'
    BY <1>1 DEF CheckDone, Fail, TypeOK, Progress, Calls, History
  <2>5. Ended'
    BY <1>1 DEF CheckDone, Fail, TypeOK, Progress, Calls, History, Ended, ResultTruthful,
       CallbacksAgree, Errors
  <2> QED
    BY <2>1, <2>2, <2>3, <2>4, <2>5
<1>2. CASE StartAttempt
  <2>1. TypeOK'
    <3>1. attempts \in Nat /\ attempts' = attempts + 1 /\ running' = running \cup {attempts + 1}
      BY <1>2 DEF StartAttempt, TypeOK
    <3>2. running \in SUBSET (1..attempts) /\ DOMAIN outcome = 1..attempts \ running
      BY DEF TypeOK
    <3>3. 1..attempts' = 1..attempts \cup {attempts + 1} /\ attempts + 1 \notin 1..attempts
      BY <3>1
    <3>4. running' \in SUBSET (1..attempts') /\ 1..attempts' \ running' = 1..attempts \ running
      BY <3>1, <3>2, <3>3
    <3>5. outcome' = outcome /\ attempts' \in Nat
      BY <1>2, <3>1 DEF StartAttempt
    <3> QED
      BY <1>2, <3>2, <3>4, <3>5 DEF StartAttempt, TypeOK
  <2>2. Progress'
    BY <1>2 DEF StartAttempt, TypeOK, Progress, AttemptsBounded
  <2>3. Calls'
    BY <1>2 DEF StartAttempt, TypeOK, Progress, Calls, NeverTwoAtOnce
  <2>4. History'
    BY <1>2 DEF StartAttempt, TypeOK, Progress, Calls, History
  <2>5. Ended'
    BY <1>2 DEF StartAttempt, TypeOK, Progress, Calls, History, Ended, ResultTruthful,
       CallbacksAgree, Errors
  <2> QED
    BY <2>1, <2>2, <2>3, <2>4, <2>5
<1>3. CASE LoopOver
  <2>1. TypeOK'
    BY <1>3 DEF LoopOver, TypeOK, Errors
  <2>2. Progress'
    BY <1>3 DEF LoopOver, TypeOK, Progress, AttemptsBounded
  <2>3. Calls'
    BY <1>3 DEF LoopOver, TypeOK, Progress, Calls, NeverTwoAtOnce
  <2>4. History'
    BY <1>3 DEF LoopOver, TypeOK, Progress, Calls, History
  <2>5. Ended'
    BY <1>3 DEF LoopOver, TypeOK, Progress, Calls, History, Ended, ResultTruthful,
       CallbacksAgree, Errors
  <2> QED
    BY <2>1, <2>2, <2>3, <2>4, <2>5
<1>4. CASE AttemptReturned
  <2>1. TypeOK'
    BY <1>4 DEF AttemptReturned, TypeOK, Errors
  <2>2. Progress'
    BY <1>4 DEF AttemptReturned, TypeOK, Progress, AttemptsBounded
  <2>3. Calls'
    BY <1>4 DEF AttemptReturned, TypeOK, Progress, Calls, NeverTwoAtOnce
  <2>4. History'
    BY <1>4 DEF AttemptReturned, TypeOK, Progress, Calls, History
  <2>5. Ended'
    BY <1>4 DEF AttemptReturned, TypeOK, Progress, Calls, History, Ended, ResultTruthful,
       CallbacksAgree, Errors
  <2> QED
    BY <2>1, <2>2, <2>3, <2>4, <2>5
<1>5. CASE AttemptCancelled
  <2>1. TypeOK'
    BY <1>5 DEF AttemptCancelled, TypeOK, Errors
  <2>2. Progress'
    BY <1>5 DEF AttemptCancelled, TypeOK, Progress, AttemptsBounded
  <2>3. Calls'
    BY <1>5 DEF AttemptCancelled, TypeOK, Progress, Calls, NeverTwoAtOnce
  <2>4. History'
    BY <1>5 DEF AttemptCancelled, TypeOK, Progress, Calls, History
  <2>5. Ended'
    BY <1>5 DEF AttemptCancelled, TypeOK, Progress, Calls, History, Ended, ResultTruthful,
       CallbacksAgree, Errors
  <2> QED
    BY <2>1, <2>2, <2>3, <2>4, <2>5
<1>6. CASE JudgeSuccess
  <2>1. TypeOK'
    BY <1>6 DEF JudgeSuccess, Succeed, TypeOK, Errors
  <2>2. Progress'
    BY <1>6 DEF JudgeSuccess, Succeed, TypeOK, Progress, AttemptsBounded
  <2>3. Calls'
    BY <1>6 DEF JudgeSuccess, Succeed, TypeOK, Progress, Calls, NeverTwoAtOnce
  <2>4. History'
    BY <1>6 DEF JudgeSuccess, Succeed, TypeOK, Progress, Calls, History
  <2>5. Ended'
    BY <1>6 DEF JudgeSuccess, Succeed, TypeOK, Progress, Calls, History, Ended, ResultTruthful,
       CallbacksAgree, Errors
  <2> QED
    BY <2>1, <2>2, <2>3, <2>4, <2>5
<1>7. CASE JudgeFailure
  <2>1. TypeOK'
    BY <1>7 DEF JudgeFailure, giveUp, failure, TypeOK, Errors
  <2>2. Progress'
    BY <1>7 DEF JudgeFailure, giveUp, failure, TypeOK, Progress, AttemptsBounded
  <2>3. Calls'
    BY <1>7 DEF JudgeFailure, giveUp, failure, TypeOK, Progress, Calls, NeverTwoAtOnce
  <2>4. History'
    BY <1>7 DEF JudgeFailure, giveUp, failure, TypeOK, Progress, Calls, History
  <2>5. Ended'
    BY <1>7 DEF JudgeFailure, giveUp, failure, TypeOK, Progress, Calls, History, Ended, ResultTruthful,
       CallbacksAgree, Errors
  <2> QED
    BY <2>1, <2>2, <2>3, <2>4, <2>5
<1>8. CASE TimerFires
  <2>1. TypeOK'
    BY <1>8 DEF TimerFires, TypeOK, Errors
  <2>2. Progress'
    BY <1>8 DEF TimerFires, TypeOK, Progress, AttemptsBounded
  <2>3. Calls'
    BY <1>8 DEF TimerFires, TypeOK, Progress, Calls, NeverTwoAtOnce
  <2>4. History'
    BY <1>8 DEF TimerFires, TypeOK, Progress, Calls, History
  <2>5. Ended'
    BY <1>8 DEF TimerFires, TypeOK, Progress, Calls, History, Ended, ResultTruthful,
       CallbacksAgree, Errors
  <2> QED
    BY <2>1, <2>2, <2>3, <2>4, <2>5
<1>9. CASE WaitCancelled
  <2>1. TypeOK'
    BY <1>9 DEF WaitCancelled, Fail, TypeOK, Errors
  <2>2. Progress'
    BY <1>9 DEF WaitCancelled, Fail, TypeOK, Progress, AttemptsBounded
  <2>3. Calls'
    BY <1>9 DEF WaitCancelled, Fail, TypeOK, Progress, Calls, NeverTwoAtOnce
  <2>4. History'
    BY <1>9 DEF WaitCancelled, Fail, TypeOK, Progress, Calls, History
  <2>5. Ended'
    BY <1>9 DEF WaitCancelled, Fail, TypeOK, Progress, Calls, History, Ended, ResultTruthful,
       CallbacksAgree, Errors
  <2> QED
    BY <2>1, <2>2, <2>3, <2>4, <2>5
<1>10. CASE Final
  <2>1. TypeOK'
    BY <1>10 DEF Final, Fail, TypeOK, Errors
  <2>2. Progress'
    BY <1>10 DEF Final, Fail, TypeOK, Progress, AttemptsBounded
  <2>3. Calls'
    BY <1>10 DEF Final, Fail, TypeOK, Progress, Calls, NeverTwoAtOnce
  <2>4. History'
    BY <1>10 DEF Final, Fail, TypeOK, Progress, Calls, History
  <2>5. Ended'
    BY <1>10 DEF Final, Fail, TypeOK, Progress, Calls, History, Ended, ResultTruthful,
       CallbacksAgree, Errors
  <2> QED
    BY <2>1, <2>2, <2>3, <2>4, <2>5
<1>11. CASE Cancel
  <2>1. TypeOK'
    BY <1>11 DEF Cancel, TypeOK, Errors
  <2>2. Progress'
    BY <1>11 DEF Cancel, TypeOK, Progress, AttemptsBounded
  <2>3. Calls'
    BY <1>11 DEF Cancel, TypeOK, Progress, Calls, NeverTwoAtOnce
  <2>4. History'
    BY <1>11 DEF Cancel, TypeOK, Progress, Calls, History
  <2>5. Ended'
    BY <1>11 DEF Cancel, TypeOK, Progress, Calls, History, Ended, ResultTruthful,
       CallbacksAgree, Errors
  <2> QED
    BY <2>1, <2>2, <2>3, <2>4, <2>5
<1>12. CASE \E i \in running, e \in FnErrors \cup {ok} : FnReturns(i, e)
  <2> PICK i \in running, e \in FnErrors \cup {ok} : FnReturns(i, e)
    BY <1>12
  <2> USE DEF FnReturns
  <2>1. TypeOK'
    BY DEF TypeOK, Errors
  <2>2. Progress'
    BY DEF TypeOK, Progress, AttemptsBounded
  <2>3. Calls'
    BY DEF TypeOK, Progress, Calls, NeverTwoAtOnce
  <2>4. History'
    BY DEF TypeOK, Progress, Calls, History
  <2>5. Ended'
    <3>1. \A j \in DOMAIN outcome : j # i /\ j \in DOMAIN outcome' /\ outcome'[j] = outcome[j]
      BY DEF TypeOK
    <3>2. pc = "done" => result.error = ctxErr
      BY DEF Ended
    <3>3. pc = "done" => ~result.success /\ ctxDone
      <4>1. attempts \in DOMAIN outcome => outcome[attempts] # ctxErr
        BY DEF TypeOK, Errors
      <4>2. ok # ctxErr /\ retryFailed # ctxErr
        BY DEF Errors
      <4> QED
        BY <3>2, <4>1, <4>2 DEF Ended, ResultTruthful
    <3>4. ResultTruthful'
      BY <3>2, <3>3 DEF ResultTruthful
    <3>5. CallbacksAgree'
      BY DEF Ended, CallbacksAgree
    <3> QED
      BY <3>2, <3>4, <3>5 DEF Ended
  <2> QED
    BY <2>1, <2>2, <2>3, <2>4, <2>5
<1>13. CASE UNCHANGED vars
  BY <1>13 DEF vars, TypeOK, Progress, Calls, History, Ended, NeverTwoAtOnce,
     AttemptsBounded, ResultTruthful, CallbacksAgree
<1> QED
  BY <1>1, <1>2, <1>3, <1>4, <1>5, <1>6, <1>7, <1>8, <1>9, <1>10, <1>11, <1>12, <1>13 DEF Next

\* Hence it always holds.
LEMMA Invariant == Spec => []IInv
BY InitInv, StepInv, PTL DEF Spec

-------------------------------------------------------------------------------
(***************************************************************************)
(* The delays.  The powers come first: mathPow multiplies once for every   *)
(* attempt, so each power is the base times the one before.                *)
(***************************************************************************)

\* A set of naturals that is not empty has a least member.
LEMMA Least ==
    ASSUME NEW T, T \subseteq Nat, T # {}
    PROVE  \E m \in T : \A k \in T : m <= k
<1>1. PICK R : R = {ss \in Nat \X Nat : ss[1] < ss[2]}
  OBVIOUS
<1>2. IsWellFoundedOn(R, Nat)
  BY <1>1, NatLessThanWellFounded DEF OpToRel
<1>3. PICK m \in T : \A k \in T : <<k, m>> \notin R
  BY <1>2, WFMin
<1>4. \A k \in T : ~ (k < m)
  BY <1>1, <1>3
<1> QED
  BY <1>4

\* The loop of mathPow, as far as its n-th round.
Rounds(f, base, n) == f = [i \in 0..n |-> IF i = 0 THEN 1 ELSE base * f[i - 1]]

\* One more round goes on from where the loop is.
LEMMA OneMoreRound ==
    ASSUME NEW base, NEW n \in Nat, NEW f, Rounds(f, base, n)
    PROVE  \E g : Rounds(g, base, n + 1) /\ g[n + 1] = base * f[n]
<1>1. PICK g : g = [i \in 0..(n + 1) |-> IF i = n + 1 THEN base * f[n] ELSE f[i]]
  OBVIOUS
<1>2. \A i \in 0..n : i \in 0..(n + 1) /\ i # n + 1 /\ g[i] = f[i]
  BY <1>1
<1>3. \A i \in 0..n : f[i] = IF i = 0 THEN 1 ELSE base * f[i - 1]
  BY DEF Rounds
<1>4. n + 1 \in 0..(n + 1) /\ n + 1 # 0 /\ (n + 1) - 1 = n /\ n \in 0..n
  OBVIOUS
<1>5. g[n + 1] = base * f[n]
  BY <1>1, <1>4
<1>6. ASSUME NEW i \in 0..(n + 1)
      PROVE  g[i] = IF i = 0 THEN 1 ELSE base * g[i - 1]
  <2>1. CASE i = n + 1
    BY <1>2, <1>4, <1>5, <2>1
  <2>2. CASE i # n + 1
    <3>1. i \in 0..n /\ (i # 0 => i - 1 \in 0..n)
      BY <2>2
    <3> QED
      BY <1>2, <1>3, <3>1
  <2> QED
    BY <2>1, <2>2
<1>7. g = [i \in 0..(n + 1) |-> g[i]]
  BY <1>1
<1>8. Rounds(g, base, n + 1)
  BY ONLY <1>6, <1>7 DEF Rounds
<1> QED
  BY <1>5, <1>8

\* The loop is defined for every number of rounds.
LEMMA RoundsExist == ASSUME NEW base, NEW n \in Nat PROVE \E f : Rounds(f, base, n)
<1> DEFINE T == {j \in Nat : ~ \E f : Rounds(f, base, j)}
<1> SUFFICES ASSUME T # {} PROVE FALSE
  OBVIOUS
<1>1. PICK m \in T : \A k \in T : m <= k
  <2>1. T \subseteq Nat
    OBVIOUS
  <2> HIDE DEF T
  <2> QED
    BY <2>1, Least
<1>2. CASE m = 0
  <2>1. PICK f : f = [i \in 0..0 |-> 1]
    OBVIOUS
  <2>2. Rounds(f, base, 0)
    BY <2>1 DEF Rounds
  <2> QED
    BY <1>2, <2>2
<1>3. CASE m # 0
  <2>1. m - 1 \in Nat /\ m - 1 \notin T /\ (m - 1) + 1 = m
    BY <1>1, <1>3
  <2>2. PICK f : Rounds(f, base, m - 1)
    BY <2>1
  <2>3. \E g : Rounds(g, base, m)
    BY <2>1, <2>2, OneMoreRound
  <2> QED
    BY <2>3
<1> QED
  BY <1>2, <1>3

\* It has one result.
LEMMA RoundsAgree ==
    ASSUME NEW base, NEW n \in Nat, NEW f, NEW g, Rounds(f, base, n), Rounds(g, base, n)
    PROVE  f[n] = g[n]
<1> DEFINE T == {i \in 0..n : f[i] # g[i]}
<1> SUFFICES ASSUME T # {} PROVE FALSE
  OBVIOUS
<1>1. PICK m \in T : \A k \in T : m <= k
  <2>1. T \subseteq Nat
    OBVIOUS
  <2> HIDE DEF T
  <2> QED
    BY <2>1, Least
<1>2. m \in 0..n /\ f[m] # g[m]
  OBVIOUS
<1>3. /\ f[m] = IF m = 0 THEN 1 ELSE base * f[m - 1]
      /\ g[m] = IF m = 0 THEN 1 ELSE base * g[m - 1]
  BY <1>2 DEF Rounds
<1>4. m # 0
  BY <1>2, <1>3
<1>5. m - 1 \in 0..n /\ ~(m <= m - 1)
  BY <1>2, <1>4
<1>6. f[m - 1] = g[m - 1]
  BY <1>1, <1>5
<1> QED
  BY <1>2, <1>3, <1>4, <1>6

LEMMA PowIsRounds ==
    ASSUME NEW base, NEW n \in Nat
    PROVE  \E f : Rounds(f, base, n) /\ mathPow(base, n) = f[n]
<1> DEFINE f == CHOOSE f : f = [i \in 0..n |-> IF i = 0 THEN 1 ELSE base * f[i - 1]]
<1>1. f = [i \in 0..n |-> IF i = 0 THEN 1 ELSE base * f[i - 1]]
  BY RoundsExist DEF Rounds
<1>2. mathPow(base, n) = f[n]
  BY DEF mathPow
<1> HIDE DEF f
<1> QED
  BY <1>1, <1>2 DEF Rounds

\* A power is the base times the power before.
LEMMA PowerNext ==
    ASSUME NEW base, NEW n \in Nat
    PROVE  mathPow(base, 0) = 1 /\ mathPow(base, n + 1) = base * mathPow(base, n)
<1>1. mathPow(base, 0) = 1
  <2>1. PICK f : Rounds(f, base, 0) /\ mathPow(base, 0) = f[0]
    BY PowIsRounds
  <2> QED
    BY <2>1 DEF Rounds
<1>2. PICK f : Rounds(f, base, n) /\ mathPow(base, n) = f[n]
  BY PowIsRounds
<1>3. n + 1 \in Nat
  OBVIOUS
<1>4. PICK h : Rounds(h, base, n + 1) /\ mathPow(base, n + 1) = h[n + 1]
  BY <1>3, PowIsRounds
<1>5. PICK g : Rounds(g, base, n + 1) /\ g[n + 1] = base * f[n]
  BY <1>2, OneMoreRound
<1>6. g[n + 1] = h[n + 1]
  BY <1>3, <1>4, <1>5, RoundsAgree
<1> QED
  BY <1>1, <1>2, <1>4, <1>5, <1>6

\* Powers of a positive base are positive.
LEMMA PowerPositive ==
    ASSUME NEW base \in Nat \ {0}, NEW n \in Nat
    PROVE  mathPow(base, n) \in Nat \ {0}
<1> DEFINE T == {j \in Nat : mathPow(base, j) \notin Nat \ {0}}
<1> SUFFICES ASSUME T # {} PROVE FALSE
  OBVIOUS
<1>1. PICK m \in T : \A k \in T : m <= k
  <2>1. T \subseteq Nat
    OBVIOUS
  <2> HIDE DEF T
  <2> QED
    BY <2>1, Least
<1>2. m # 0
  BY PowerNext
<1>3. m - 1 \in Nat /\ m - 1 \notin T /\ (m - 1) + 1 = m
  BY <1>1, <1>2
<1>4. PICK p \in Nat \ {0} : p = mathPow(base, m - 1)
  BY <1>3
<1>5. mathPow(base, m) = base * p
  BY <1>3, <1>4, PowerNext
<1>6. base * p \in Nat \ {0}
  BY <1>4
<1> QED
  BY <1>5, <1>6

\* The range of a time.Duration, in terms of its greatest value.
LEMMA WidthIs ==
    /\ Highest \in Nat
    /\ Lowest = -Highest - 1
    /\ mathPow(2, Width) = 2 * Highest + 2
<1>1. Width - 1 \in Nat /\ (Width - 1) + 1 = Width
  BY BackoffConstants
<1>2. PICK p \in Nat \ {0} : p = mathPow(2, Width - 1)
  BY <1>1, PowerPositive
<1>3. mathPow(2, Width) = 2 * p
  BY <1>1, <1>2, PowerNext
<1>4. Highest = p - 1 /\ Lowest = -p
  BY <1>2 DEF Highest, Lowest
<1> QED
  BY <1>2, <1>3, <1>4

LEMMA InRange ==
    ASSUME NEW x \in Int
    PROVE  /\ FromFloat(x) \in Int /\ (FromFloat(x) = x \/ FromFloat(x) < 0)
           /\ Wrapped(x) \in Int
           /\ 0 <= x /\ x <= Highest => FromFloat(x) = x /\ Wrapped(x) = x
<1>1. PICK H \in Nat : H = Highest
  BY WidthIs
<1>2. Lowest = -H - 1 /\ Highest = H /\ mathPow(2, Width) = 2 * H + 2
  BY <1>1, WidthIs
<1>3. FromFloat(x) = IF x \in (-H - 1)..H THEN x ELSE -H - 1
  BY <1>2 DEF FromFloat
<1>4. PICK y \in Int : y = x + H + 1
  OBVIOUS
<1>5. PICK M \in Nat \ {0} : M = 2 * H + 2
  OBVIOUS
<1>6. Wrapped(x) = (y % M) - H - 1
  <2>1. x - (-H - 1) = y
    BY <1>4
  <2>2. Wrapped(x) = (y % M) + (-H - 1)
    BY <1>2, <1>5, <2>1 DEF Wrapped
  <2>3. y % M \in Int
    OBVIOUS
  <2> QED
    BY <2>2, <2>3
<1>7. y % M \in 0..(M - 1) /\ y \div M \in Int /\ y = M * (y \div M) + (y % M)
  OBVIOUS
<1>8. 0 <= y /\ y < M => y % M = y
  BY <1>7
<1> QED
  BY <1>2, <1>3, <1>4, <1>5, <1>6, <1>7, <1>8

\* Products of naturals grow with their factors.
LEMMA ProductGrows ==
    ASSUME NEW a \in Nat, NEW b \in Nat, NEW c \in Nat, b <= c
    PROVE  a * b \in Nat /\ a * c \in Nat /\ a * b <= a * c
<1>1. PICK d \in Nat : c = b + d
  <2>1. c - b \in Nat /\ c = b + (c - b)
    OBVIOUS
  <2> QED
    BY <2>1
<1>2. a * c = a * b + a * d /\ a * d \in Nat /\ a * b \in Nat
  BY <1>1
<1> QED
  BY <1>2

\* What an option is.
LEMMA OptionIs ==
    ASSUME NEW o \in Options
    PROVE  o.cap \in Nat /\ o.retryDelay \in Nat /\ o.multiplier \in Nat \ {0}
BY BackoffConstants DEF Options

\* The delay of a strategy before it is capped is a number.
LEMMA BaseIsNumber ==
    ASSUME NEW n \in Nat, NEW o \in Options
    PROVE  /\ baseDelay(n, o) \subseteq Int
           /\ o.retryDelay * mathPow(o.multiplier, n) \in Nat
           /\ o.retryDelay * (n + 1) \in Nat
<1>1. PICK r \in Nat, c \in Nat, p \in Nat :
          r = o.retryDelay /\ c = o.cap /\ p = mathPow(o.multiplier, n)
  BY OptionIs, PowerPositive
<1>2. r * p \in Nat /\ r * (n + 1) \in Nat
  OBVIOUS
<1>3. FromFloat(r * p) \in Int /\ Wrapped(r * (n + 1)) \in Int
  BY <1>2, InRange
<1>4. \A lo \in Nat, hi \in Nat : Between(lo, hi) \subseteq Int
  BY DEF Between
<1>5. r * 5 \in Nat
  OBVIOUS
<1>6. \A hi \in Nat : {FromFloat(x) : x \in Between(r, hi)} \subseteq Int
  BY <1>4, InRange
<1>7. CASE o.strategy = "random"
  <2>1. PICK hi \in Nat : hi = IF c <= r THEN r * 5 ELSE c
    BY <1>5
  <2>2. baseDelay(n, o) = {FromFloat(x) : x \in Between(r, hi)}
    BY <1>1, <1>7, <2>1 DEF baseDelay
  <2> QED
    BY <1>1, <1>2, <1>6, <2>2
<1>8. CASE o.strategy # "random"
  BY <1>1, <1>2, <1>3, <1>8 DEF baseDelay
<1> QED
  BY <1>7, <1>8

\* The maximum holds for every attempt, strategy and jitter.
LEMMA Capped == ASSUME NEW n \in Nat, NEW o \in Options PROVE CapWithJitter(n, o)
<1> SUFFICES ASSUME NEW d \in calculateDelay(n, o), o.cap > 0
             PROVE  d <= IF o.jitter = "decorrelated" THEN 3 * o.cap ELSE o.cap
  BY DEF CapWithJitter
<1>1. PICK b \in Int : b \in baseDelay(n, o) /\ d \in applyJitter(capped(b, o), o)
  BY BaseIsNumber DEF calculateDelay
<1>2. PICK c \in Nat : c = o.cap /\ c > 0
  BY OptionIs
<1>3. PICK e \in Int : e = capped(b, o) /\ e <= c
  BY <1>2 DEF capped
<1>4. CASE o.jitter = "full"
  BY <1>1, <1>2, <1>3, <1>4 DEF applyJitter, Between
<1>5. CASE o.jitter = "equal"
  <2>1. PICK h \in Int : h = e \div 2 /\ (e >= 0 => h <= e) /\ (e < 0 => h < 0)
    OBVIOUS
  <2>2. d \in Between(h, e)
    BY <1>1, <1>3, <1>5, <2>1 DEF applyJitter
  <2> QED
    BY <1>2, <1>3, <1>5, <2>1, <2>2 DEF Between
<1>6. CASE o.jitter = "decorrelated"
  <2>1. PICK x \in Between(e, 3 * e) : d = FromFloat(x)
    BY <1>1, <1>3, <1>6 DEF applyJitter
  <2>2. x \in Int /\ x <= 3 * c
    BY <1>2, <1>3 DEF Between
  <2>3. d <= 3 * c
    BY <1>2, <2>1, <2>2, InRange
  <2> QED
    BY <1>2, <1>6, <2>3
<1>7. CASE o.jitter \notin {"full", "equal", "decorrelated"}
  BY <1>1, <1>2, <1>3, <1>7 DEF applyJitter
<1> QED
  BY <1>4, <1>5, <1>6, <1>7

\* Without an overflow the delay of a strategy is what it says, and no shorter than
\* the one before.
LEMMA StrategyGrows ==
    ASSUME NEW n \in Nat, NEW o \in Options, FitsDuration(n + 1, o)
    PROVE  /\ FitsDuration(n, o)
           /\ o.retryDelay * mathPow(o.multiplier, n) <= o.retryDelay * mathPow(o.multiplier, n + 1)
           /\ o.retryDelay * (n + 1) <= o.retryDelay * (n + 2)
<1>1. PICK r \in Nat, m \in Nat \ {0}, p \in Nat \ {0}, H \in Nat :
          /\ r = o.retryDelay /\ m = o.multiplier /\ p = mathPow(o.multiplier, n)
          /\ H = Highest
  BY OptionIs, PowerPositive, WidthIs
<1>2. mathPow(o.multiplier, n + 1) = m * p
  BY <1>1, PowerNext
<1>3. p * 1 <= p * m /\ p * 1 = p /\ p * m = m * p /\ m * p \in Nat
  BY <1>1, ProductGrows
<1>4. r * p <= r * (m * p) /\ r * p \in Nat /\ r * (m * p) \in Nat
  BY <1>3, ProductGrows
<1>5. r * (n + 1) <= r * (n + 2) /\ r * (n + 1) \in Nat /\ r * (n + 2) \in Nat
  <2>1. n + 1 \in Nat /\ n + 2 \in Nat /\ n + 1 <= n + 2
    OBVIOUS
  <2> QED
    BY <2>1, ProductGrows
<1>6. r * (m * p) <= H /\ r * (n + 2) <= H
  <2>1. (n + 1) + 1 = n + 2
    OBVIOUS
  <2> QED
    BY <1>1, <1>2, <2>1 DEF FitsDuration
<1>7. r * p <= H /\ r * (n + 1) <= H
  BY ONLY <1>4, <1>5, <1>6, H \in Nat
<1> QED
  BY <1>1, <1>2, <1>4, <1>5, <1>7 DEF FitsDuration

\* The one delay of a strategy that leaves nothing to chance.
Plain(n, o) ==
    CASE o.strategy = "exponential" -> o.retryDelay * mathPow(o.multiplier, n)
      [] o.strategy = "linear"      -> o.retryDelay * (n + 1)
      [] OTHER                      -> o.retryDelay

LEMMA PlainIs ==
    ASSUME NEW n \in Nat, NEW o \in Options, FitsDuration(n, o)
    PROVE  /\ Plain(n, o) \in Nat
           /\ o.strategy # "random" => baseDelay(n, o) = {Plain(n, o)}
           /\ registryBase(n, o) = Plain(n, o)
           /\ o.retryDelay <= Plain(n, o)
           /\ o.strategy \in {"exponential", "linear"} => Plain(n, o) <= Highest
<1>1. PICK r \in Nat, p \in Nat \ {0} : r = o.retryDelay /\ p = mathPow(o.multiplier, n)
  BY OptionIs, PowerPositive
<1>2. r * p \in Nat /\ r * (n + 1) \in Nat /\ r <= r * p /\ r <= r * (n + 1)
  <2>1. r * 1 = r /\ 1 <= p /\ 1 <= n + 1 /\ n + 1 \in Nat
    OBVIOUS
  <2> QED
    BY <2>1, ProductGrows
<1>3. r * p <= Highest /\ r * (n + 1) <= Highest
  BY <1>1 DEF FitsDuration
<1>4. FromFloat(r * p) = r * p /\ Wrapped(r * (n + 1)) = r * (n + 1)
  <2>1. 0 <= r * p /\ 0 <= r * (n + 1)
    BY <1>2
  <2> QED
    BY <1>2, <1>3, <2>1, InRange
<1>5. CASE o.strategy = "exponential"
  <2>1. Plain(n, o) = r * p
    BY <1>1, <1>5 DEF Plain
  <2>2. baseDelay(n, o) = {FromFloat(r * p)} /\ registryBase(n, o) = FromFloat(r * p)
    BY <1>1, <1>5 DEF baseDelay, registryBase
  <2> QED
    BY <1>1, <1>2, <1>3, <1>4, <1>5, <2>1, <2>2
<1>6. CASE o.strategy = "linear"
  <2>1. Plain(n, o) = r * (n + 1)
    BY <1>1, <1>6 DEF Plain
  <2>2. baseDelay(n, o) = {Wrapped(r * (n + 1))} /\ registryBase(n, o) = Wrapped(r * (n + 1))
    BY <1>1, <1>6 DEF baseDelay, registryBase
  <2> QED
    BY <1>1, <1>2, <1>3, <1>4, <1>6, <2>1, <2>2
<1>7. CASE o.strategy \notin {"exponential", "linear"}
  BY <1>1, <1>7 DEF Plain, baseDelay, registryBase
<1> QED
  BY <1>5, <1>6, <1>7

LEMMA Backs == ASSUME NEW n \in Nat, NEW o \in Options PROVE BacksOff(n, o)
<1> SUFFICES ASSUME n > 0, o.jitter = "none", o.strategy # "random", FitsDuration(n, o),
                    NEW before \in calculateDelay(n - 1, o), NEW d \in calculateDelay(n, o)
             PROVE  d >= before
  BY DEF BacksOff
<1>1. PICK k \in Nat : k = n - 1 /\ n = k + 1 /\ n + 1 = k + 2
  OBVIOUS
<1>2. FitsDuration(k, o)
  BY <1>1, StrategyGrows
<1>3. \A x : applyJitter(x, o) = {x}
  BY DEF applyJitter
<1>4. before = capped(Plain(k, o), o) /\ d = capped(Plain(n, o), o)
  BY <1>1, <1>2, <1>3, PlainIs DEF calculateDelay
<1>5. Plain(k, o) \in Nat /\ Plain(n, o) \in Nat
  BY <1>2, PlainIs
<1>6. Plain(k, o) <= Plain(n, o)
  <2>1. /\ o.retryDelay * mathPow(o.multiplier, k) <= o.retryDelay * mathPow(o.multiplier, n)
        /\ o.retryDelay * (k + 1) <= o.retryDelay * (n + 1)
    BY <1>1, StrategyGrows
  <2>2. o.retryDelay \in Nat
    BY OptionIs
  <2> QED
    BY <2>1, <2>2 DEF Plain
<1>7. o.cap \in Nat
  BY OptionIs
<1> QED
  BY <1>4, <1>5, <1>6, <1>7 DEF capped

LEMMA Registry == ASSUME NEW n \in Nat, NEW o \in Options PROVE RegistryWaits(n, o)
<1> SUFFICES ASSUME o.retryDelay >= 2, o.cap >= 2, 3 * o.cap <= 2 * Highest, FitsDuration(n, o)
             PROVE  /\ registryDelay(n, o) # {}
                    /\ \A d \in registryDelay(n, o) : 1 < d /\ 2 * d <= 3 * o.cap
  BY DEF RegistryWaits
<1>1. PICK r \in Nat, c \in Nat, H \in Nat, b \in Nat :
          r = o.retryDelay /\ c = o.cap /\ H = Highest /\ b = registryBase(n, o) /\ r <= b
  BY OptionIs, WidthIs, PlainIs
<1>2. PICK e \in Nat : e = IF b > c THEN c ELSE b
  OBVIOUS
<1>3. 2 <= e /\ e <= c /\ 3 * c <= 2 * H
  BY <1>1, <1>2
<1>4. PICK h \in Nat : h = e \div 2 /\ 1 <= h /\ 2 * h <= e
  BY <1>3
<1>5. registryDelay(n, o) = {Wrapped(e + jitter) : jitter \in 0..(h - 1)}
  BY <1>1, <1>2, <1>4 DEF registryDelay, Int63n
<1>6. 0 \in 0..(h - 1)
  BY <1>4
<1>7. ASSUME NEW jitter \in 0..(h - 1)
      PROVE  1 < Wrapped(e + jitter) /\ 2 * Wrapped(e + jitter) <= 3 * c
  <2>1. PICK s \in Nat : s = e + jitter
    OBVIOUS
  <2>2. 1 < s /\ 2 * s <= 3 * c /\ s <= H
    BY <1>3, <1>4, <2>1
  <2>3. Wrapped(s) = s
    BY <1>1, <2>2, InRange
  <2> QED
    BY <2>1, <2>2, <2>3
<1> QED
  BY <1>1, <1>5, <1>6, <1>7

\* What gclient waits after an attempt whose base fits twice.
LEMMA ClientDelay ==
    ASSUME NEW n \in Nat, NEW base \in Nat, base >= 2, 2 * (base * mathPow(2, n)) <= Highest
    PROVE  /\ base * mathPow(2, n) \in Nat
           /\ ExponentialBackoff(n, base) # {}
           /\ \A d \in ExponentialBackoff(n, base) :
                 d \in Nat /\ base * mathPow(2, n) <= d /\ d < 2 * (base * mathPow(2, n))
<1>1. PICK p \in Nat \ {0}, H \in Nat : p = mathPow(2, n) /\ H = Highest
  BY PowerPositive, WidthIs
<1>2. PICK q \in Nat : q = base * p
  OBVIOUS
<1>3. 2 <= q /\ p <= q /\ 2 * q <= H
  <2>1. base * 1 <= base * p /\ p * 1 <= p * base /\ p * base = base * p
    <3>1. 1 <= p /\ 1 <= base
      OBVIOUS
    <3> QED
      BY <3>1, ProductGrows
  <2> QED
    BY <1>1, <1>2, <2>1
<1>4. Wrapped(p) = p /\ Wrapped(q) = q
  <2>1. 0 <= p /\ p <= H /\ 0 <= q /\ q <= H
    BY <1>3
  <2> QED
    BY <1>1, <2>1, InRange
<1>5. clientBase(n, base) = q
  BY <1>1, <1>2, <1>4 DEF clientBase
<1>6. PICK h \in Nat : h = q \div 2 /\ 1 <= h /\ 2 * h <= q
  BY <1>3
<1>7. ExponentialBackoff(n, base) = {Wrapped(q + jitter) : jitter \in 0..(h - 1)}
  BY <1>5, <1>6 DEF ExponentialBackoff, Int63n
<1>8. 0 \in 0..(h - 1)
  BY <1>6
<1>9. ASSUME NEW jitter \in 0..(h - 1)
      PROVE  Wrapped(q + jitter) \in Nat /\ q <= Wrapped(q + jitter) /\ Wrapped(q + jitter) < 2 * q
  <2>1. PICK s \in Nat : s = q + jitter
    OBVIOUS
  <2>2. q <= s /\ s < 2 * q /\ s <= H
    BY <1>3, <1>6, <2>1
  <2>3. Wrapped(s) = s
    BY <1>1, <2>2, InRange
  <2> QED
    BY <2>1, <2>2, <2>3
<1> QED
  BY <1>1, <1>2, <1>7, <1>8, <1>9

LEMMA Client == ASSUME NEW n \in Nat, NEW base \in Nat PROVE ClientBacksOff(n, base)
<1> SUFFICES ASSUME base >= 2, 2 * (base * mathPow(2, n)) <= Highest
             PROVE  /\ ExponentialBackoff(n, base) # {}
                    /\ n > 0 => \A before \in ExponentialBackoff(n - 1, base),
                                   d \in ExponentialBackoff(n, base) : d > before
  BY DEF ClientBacksOff
<1>1. ExponentialBackoff(n, base) # {}
  BY ClientDelay
<1>2. ASSUME n > 0, NEW before \in ExponentialBackoff(n - 1, base),
             NEW d \in ExponentialBackoff(n, base)
      PROVE  d > before
  <2>1. PICK k \in Nat : k = n - 1 /\ n = k + 1
    BY <1>2
  <2>2. PICK p \in Nat \ {0}, H \in Nat : p = mathPow(2, k) /\ H = Highest
    BY PowerPositive, WidthIs
  <2>3. mathPow(2, n) = 2 * p
    BY <2>1, <2>2, PowerNext
  <2>4. PICK q \in Nat : q = base * p
    OBVIOUS
  <2>5. base * mathPow(2, n) = 2 * q
    BY <2>3, <2>4
  <2>6. 2 * (base * mathPow(2, k)) <= Highest
    <3>1. 2 * (2 * q) <= H
      BY <2>2, <2>5
    <3> QED
      BY <2>2, <2>4, <3>1
  <2>7. before \in Nat /\ before < 2 * q
    BY <1>2, <2>1, <2>2, <2>4, <2>6, ClientDelay
  <2>8. d \in Nat /\ 2 * q <= d
    BY <1>2, <2>5, ClientDelay
  <2> QED
    BY <2>7, <2>8
<1> QED
  BY <1>1, <1>2

-------------------------------------------------------------------------------
\* Every variable of Do keeps its type; in particular only attempts that were
\* begun have outcomes or are running.
THEOREM TypeCorrect == Spec => []TypeOK
BY Invariant, PTL DEF IInv

\* No two calls of fn ever run at once, although Do abandons a call when the
\* context is done.
THEOREM OneAtATime == Spec => []NeverTwoAtOnce
BY Invariant, PTL DEF IInv, Calls

\* fn is called at most 1 + MaxRetries times.
THEOREM Bounded == Spec => []AttemptsBounded
BY Invariant, PTL DEF IInv, Progress

\* The RetryResult tells the truth about what the calls of fn returned.
THEOREM Truthful == Spec => []ResultTruthful
BY Invariant, PTL DEF IInv, Ended

\* The callbacks agree with the result.
THEOREM Callbacks == Spec => []CallbacksAgree
BY Invariant, PTL DEF IInv, Ended

\* Whenever Do waits, its delay and those of the other packages keep to their maximum
\* and back off, for every width of a time.Duration and all options (calculateDelay,
\* applyJitter, ExponentialBackoff).
THEOREM Delays == Spec => []DelaysSound
<1>1. TypeOK => DelaysSound
  <2> SUFFICES ASSUME TypeOK PROVE DelaysSound
    OBVIOUS
  <2>1. attempt \in Nat /\ RetryDelays \subseteq Nat
    BY BackoffConstants DEF TypeOK
  <2> QED
    BY <2>1, Capped, Backs, Registry, Client DEF DelaysSound
<1> QED
  BY <1>1, TypeCorrect, PTL

===============================================================================
