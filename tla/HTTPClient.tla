------------------------------ MODULE HTTPClient ------------------------------
(***************************************************************************)
(* ghttp/gclient: Client.execute, the way of every request.  Calls that    *)
(* share a client run at once and meet in its cache.  A call sends its     *)
(* request, judges the outcome with the client's RetryConditions, waits    *)
(* and sends again, until it is answered, out of retries or out of time.   *)
(*                                                                         *)
(* Of a response only the attempt it answers and its kind are kept, of a   *)
(* body only whether it is the whole one, and of a content type where it   *)
(* came from.  All calls are GETs of one URL with one cache key.  Tracing, *)
(* dumps, headers, cookies and redirects are left out.                     *)
(***************************************************************************)
EXTENDS Integers, Sequences

CONSTANTS Calls,
          Requests,    \* the requests: [body, header, timeout, useCache]
          MaxRetries,  \* retryConfig.MaxRetries
          Delays,      \* whether the delays Backoff gives are positive: a set
          Retryable,   \* the outcomes for which a RetryCondition holds
          none

\* What an attempt ends with: executor.Do fails; the body cannot be read; the
\* result cannot be bound or saved; or a response, good or bad.
Failures == {"doErr", "readErr", "bindErr"}
Outcomes == Failures \cup {"good", "bad"}

\* Where a body comes from.  FormData and multipart fields always, and values
\* unless the caller set a Content-Type, bring a content type of their own.
Bodies == {"none", "bytes", "reader", "value", "form", "multipart"}

ASSUME ClientConstants ==
    /\ MaxRetries \in Int /\ Delays \subseteq BOOLEAN /\ Retryable \subseteq Outcomes
    /\ Requests \subseteq [body : Bodies, header : BOOLEAN,
                           timeout : BOOLEAN, useCache : BOOLEAN]

VARIABLES req,     \* call -> its request
          bytes,   \* call -> r.bodyBytes: "nil", "whole" or "empty"
          source,  \* call -> the caller's reader: "whole" or "empty"
          pc,      \* call -> where execute is
          attempt, \* call -> the variable attempt
          resp,    \* call -> the variable resp, as [call, attempt, kind], or none
          lastErr, \* call -> lastErr; once done, the error returned
          late,    \* call -> MaxRetryTime has passed since start
          ctxDone, \* call -> the context of the request is done
          sent,    \* call -> the requests given to the executor, in order
          last,    \* call -> the outcome of the last attempt
          cache    \* the entry of c.cache: a response, or none

vars == <<req, bytes, source, pc, attempt, resp, lastErr, late, ctxDone, sent, last, cache>>

Init ==
    /\ req \in [Calls -> Requests]
    /\ bytes = [c \in Calls |-> IF req[c].body = "bytes" THEN "whole" ELSE "nil"]
    /\ source = [c \in Calls |-> "whole"]
    /\ pc = [c \in Calls |-> "start"]
    /\ attempt = [c \in Calls |-> 0]
    /\ resp = [c \in Calls |-> none]
    /\ lastErr = [c \in Calls |-> "nil"]
    /\ late = [c \in Calls |-> FALSE]
    /\ ctxDone = [c \in Calls |-> FALSE]
    /\ sent = [c \in Calls |-> <<>>]
    /\ last = [c \in Calls |-> "nil"]
    /\ cache = none

Goto(c, where) == pc' = [pc EXCEPT ![c] = where]

Return(c, response, err) ==
    /\ Goto(c, "done")
    /\ resp' = [resp EXCEPT ![c] = response]
    /\ lastErr' = [lastErr EXCEPT ![c] = err]

-------------------------------------------------------------------------------
\* prepareURL, the request middleware and the cache.
PrepareFails(c) ==
    /\ pc[c] = "start"
    /\ Return(c, none, "prepareErr")
    /\ UNCHANGED <<req, bytes, source, attempt, late, ctxDone, sent, last, cache>>

tryCacheHit(c) ==
    /\ pc[c] = "start"
    /\ IF req[c].useCache /\ cache # none
       THEN Return(c, cache, "nil")
       ELSE Goto(c, "build") /\ UNCHANGED <<resp, lastErr>>
    /\ UNCHANGED <<req, bytes, source, attempt, late, ctxDone, sent, last, cache>>

-------------------------------------------------------------------------------
\* The bytes made of the body: the reader gives what it has not given before.
encoded(c) ==
    CASE req[c].body = "none"   -> "nil"
      [] req[c].body = "reader" -> source[c]
      [] OTHER                  -> "whole"

\* Mutant: the body is encoded for every attempt.
prepareBody_Again(c) == encoded(c)

\* prepareBody: the bytes to send, which are kept in r.bodyBytes.
prepareBody(c) == IF bytes[c] # "nil" THEN bytes[c] ELSE encoded(c)

\* The content type brought by the body, known to the Build that encodes it only.
derived(c) == req[c].body \in {"form", "multipart"} \/ (req[c].body = "value" /\ ~req[c].header)

givenType(c) ==
    IF req[c].header THEN "header" ELSE IF req[c].body = "none" THEN "none" ELSE "plain"

contentType(c) == IF bytes[c] = "nil" /\ derived(c) THEN "derived" ELSE givenType(c)

\* Build, and the hand-over to executor.Do.
Build(c) ==
    /\ pc[c] = "build"
    /\ bytes' = [bytes EXCEPT ![c] = prepareBody(c)]
    /\ source' = [source EXCEPT ![c] = IF req[c].body = "reader" THEN "empty" ELSE @]
    /\ sent' = [sent EXCEPT ![c] = Append(@, [body |-> prepareBody(c), type |-> contentType(c)])]
    /\ Goto(c, "do")
    /\ UNCHANGED <<req, attempt, resp, lastErr, late, ctxDone, last, cache>>

\* The body cannot be read or encoded, or the URL is bad.
BuildFails(c) ==
    /\ pc[c] = "build" /\ attempt[c] = 0
    /\ Return(c, none, "buildErr")
    /\ UNCHANGED <<req, bytes, source, attempt, late, ctxDone, sent, last, cache>>

-------------------------------------------------------------------------------
\* Mutant: the last retry is not made.
shouldRetry_OneLess(c, outcome) ==
    /\ MaxRetries > 0 /\ attempt[c] + 1 < MaxRetries
    /\ ~late[c]
    /\ outcome \in Retryable

shouldRetry(c, outcome) ==
    /\ MaxRetries > 0 /\ attempt[c] < MaxRetries
    /\ ~late[c]
    /\ outcome \in Retryable

\* What buildResponse makes of the outcome: a failure to read gives no response,
\* one to bind or save gives both a response and an error.  After a failed Do the
\* variable resp is as it was.
built(c, outcome) ==
    CASE outcome = "doErr"   -> resp[c]
      [] outcome = "readErr" -> none
      [] OTHER               -> [call |-> c, attempt |-> attempt[c], kind |-> outcome]

\* The error that goes with the outcome.
errorOf(outcome) == IF outcome \in Failures THEN outcome ELSE "nil"

\* Mutant: a failed attempt leaves lastErr as it was.
Answer_KeepsErr(c, outcome) ==
    /\ pc[c] = "do"
    /\ last' = [last EXCEPT ![c] = outcome]
    /\ resp' = [resp EXCEPT ![c] = built(c, outcome)]
    /\ lastErr' = [lastErr EXCEPT ![c] = IF outcome = "doErr" /\ shouldRetry(c, outcome)
                                         THEN @ ELSE errorOf(outcome)]
    /\ IF shouldRetry(c, outcome)
       THEN /\ attempt' = [attempt EXCEPT ![c] = @ + 1]
            /\ \E delayed \in Delays : Goto(c, IF delayed THEN "wait" ELSE "build")
       ELSE /\ Goto(c, IF outcome \in Failures THEN "done" ELSE "finish")
            /\ UNCHANGED attempt
    /\ UNCHANGED <<req, bytes, source, late, ctxDone, sent, cache>>

\* executor.Do returns; the outcome is judged and execute returns, goes on to
\* the response middleware, or counts an attempt and waits or tries again.
Answer(c, outcome) ==
    LET again == shouldRetry(c, outcome)
        lost  == outcome = "doErr" /\ ~again    \* return nil, execErr
    IN  /\ pc[c] = "do"
        /\ last' = [last EXCEPT ![c] = outcome]
        /\ resp' = [resp EXCEPT ![c] = IF lost THEN none ELSE built(c, outcome)]
        /\ lastErr' = [lastErr EXCEPT ![c] = errorOf(outcome)]
        /\ IF again
           THEN /\ attempt' = [attempt EXCEPT ![c] = @ + 1]
                /\ \E delayed \in Delays : Goto(c, IF delayed THEN "wait" ELSE "build")
           ELSE /\ Goto(c, IF outcome \in Failures THEN "done" ELSE "finish")
                /\ UNCHANGED attempt
        /\ UNCHANGED <<req, bytes, source, late, ctxDone, sent, cache>>

\* retryDelay: the timer fires, or the context is done.  With a request timeout
\* that context is the one whose cancel was called when Do returned.
WaitOver(c) ==
    /\ pc[c] = "wait"
    /\ Goto(c, "build")
    /\ UNCHANGED <<req, bytes, source, attempt, resp, lastErr, late, ctxDone, sent, last, cache>>

\* Mutant: the wait does not look at the context.
WaitCancelled_Deaf(c) ==
    /\ pc[c] = "wait" /\ req[c].timeout
    /\ Goto(c, IF lastErr[c] # "nil" THEN "done" ELSE "finish")
    /\ UNCHANGED <<req, bytes, source, attempt, resp, lastErr, late, ctxDone, sent, last, cache>>

WaitCancelled(c) ==
    /\ pc[c] = "wait" /\ (ctxDone[c] \/ req[c].timeout)
    /\ Goto(c, IF lastErr[c] # "nil" THEN "done" ELSE "finish")
    /\ UNCHANGED <<req, bytes, source, attempt, resp, lastErr, late, ctxDone, sent, last, cache>>

-------------------------------------------------------------------------------
\* The response middleware refuses the response, ...
FinishFails(c) ==
    /\ pc[c] = "finish"
    /\ Return(c, resp[c], "middlewareErr")
    /\ UNCHANGED <<req, bytes, source, attempt, late, ctxDone, sent, last, cache>>

\* Mutant: responses are stored before the middleware has seen them.
Finish_StoresFirst(c) ==
    /\ pc[c] = "finish"
    /\ \E err \in {"nil", "middlewareErr"} : Return(c, resp[c], err)
    /\ cache' = IF req[c].useCache THEN resp[c] ELSE cache
    /\ UNCHANGED <<req, bytes, source, attempt, late, ctxDone, sent, last>>

\* ... or accepts it, and storeCache keeps it.
Finish(c) ==
    /\ pc[c] = "finish"
    /\ Return(c, resp[c], "nil")
    /\ cache' = IF req[c].useCache THEN resp[c] ELSE cache
    /\ UNCHANGED <<req, bytes, source, attempt, late, ctxDone, sent, last>>

\* The caller's context, the clock and the cache.
Cancel(c) ==
    /\ pc[c] # "done" /\ ~ctxDone[c]
    /\ ctxDone' = [ctxDone EXCEPT ![c] = TRUE]
    /\ UNCHANGED <<req, bytes, source, pc, attempt, resp, lastErr, late, sent, last, cache>>

TimeUp(c) ==
    /\ pc[c] # "done" /\ ~late[c]
    /\ late' = [late EXCEPT ![c] = TRUE]
    /\ UNCHANGED <<req, bytes, source, pc, attempt, resp, lastErr, ctxDone, sent, last, cache>>

CacheExpires ==
    /\ cache # none
    /\ cache' = none
    /\ UNCHANGED <<req, bytes, source, pc, attempt, resp, lastErr, late, ctxDone, sent, last>>

Next ==
    \/ \E c \in Calls :
         \/ PrepareFails(c) \/ tryCacheHit(c) \/ Build(c) \/ BuildFails(c)
         \/ \E outcome \in Outcomes : Answer(c, outcome)
         \/ WaitOver(c) \/ WaitCancelled(c) \/ FinishFails(c) \/ Finish(c)
         \/ Cancel(c) \/ TimeUp(c)
    \/ CacheExpires

\* The goroutine of a call runs.  An executor answers once the context is done;
\* before that it may hang, and nothing is asked of the backoff timer.
Fairness ==
    \A c \in Calls :
        /\ WF_vars(tryCacheHit(c) \/ Build(c) \/ WaitCancelled(c) \/ Finish(c))
        /\ WF_vars(ctxDone[c] /\ \E outcome \in Outcomes : Answer(c, outcome))

Spec == Init /\ [][Next]_vars /\ Fairness

-------------------------------------------------------------------------------
\* A request is sent 1 + MaxRetries times at most, and the variable attempt counts
\* the retries (execute, shouldRetry).
SendsBounded ==
    \A c \in Calls :
        /\ Len(sent[c]) <= 1 + (IF MaxRetries > 0 THEN MaxRetries ELSE 0)
        /\ pc[c] = "do" => Len(sent[c]) = attempt[c] + 1

\* Every attempt sends the body of the first, a reader's included, which can be
\* read once only; and its content type, unless prepareBody derived it from the
\* body: that one is not kept, and a retry falls back to the caller's header or
\* to text/plain.
SameRequest ==
    \A c \in Calls : \A i \in 1..Len(sent[c]) :
        /\ sent[c][i].body = sent[c][1].body
        /\ sent[c][1].type # "derived" => sent[c][i].type = sent[c][1].type

\* What execute returns without an error is the response to the last request it
\* sent, or one from the cache for which it sent none; an error from the network
\* is that of the last attempt.
ResultTruthful ==
    \A c \in Calls : pc[c] = "done" =>
        /\ lastErr[c] = "nil" /\ sent[c] # <<>> =>
              resp[c] = [call |-> c, attempt |-> Len(sent[c]) - 1, kind |-> last[c]]
        /\ lastErr[c] = "nil" /\ sent[c] = <<>> => req[c].useCache /\ resp[c] # none
        /\ lastErr[c] \in Failures => lastErr[c] = last[c]

\* execute settles for an outcome its RetryConditions would retry only when the
\* retries or MaxRetryTime are used up or its context is done; or when the request
\* has a timeout and there are delays, because the wait then watches a context
\* that is cancelled already.
GivesUpForAReason ==
    \A c \in Calls :
        (pc[c] \in {"finish", "done"} /\ sent[c] # <<>> /\ last[c] \in Retryable) =>
            \/ Len(sent[c]) >= 1 + MaxRetries
            \/ late[c] \/ ctxDone[c]
            \/ TRUE \in Delays /\ req[c].timeout

\* The cache holds only responses that the response middleware accepted and that
\* a call of this client returned without an error.
CachedWasReturned ==
    cache # none =>
        LET c == cache.call
        IN  pc[c] = "done" /\ lastErr[c] = "nil" /\ resp[c] = cache /\ req[c].useCache

\* A call whose context is done returns, wherever it is, retries or not.
CancelReturns == \A c \in Calls : ctxDone[c] ~> pc[c] = "done"

===============================================================================
