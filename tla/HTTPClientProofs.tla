--------------------------- MODULE HTTPClientProofs ---------------------------
(***************************************************************************)
(* What execute promises, proved for any number of calls that share a      *)
(* client, every kind of request, every MaxRetries and all RetryConditions. *)
(* The invariant says of each call how its variables hang together at every *)
(* place of execute: Counting ties the requests sent to the loop variable, *)
(* Sending says what was sent and from what the next one will be built, and *)
(* Holding says which attempt resp and lastErr belong to.                  *)
(***************************************************************************)
EXTENDS HTTPClient, TLAPS

Places    == {"start", "build", "do", "wait", "finish", "done"}
Errors    == Failures \cup {"nil", "prepareErr", "buildErr", "middlewareErr"}
Responses == [call : Calls, attempt : Nat, kind : Outcomes]
Sent      == [body : {"nil", "whole", "empty"},
              type : {"derived", "header", "none", "plain"}]

TypeOK ==
    /\ req \in [Calls -> Requests]
    /\ bytes \in [Calls -> {"nil", "whole", "empty"}]
    /\ source \in [Calls -> {"whole", "empty"}]
    /\ pc \in [Calls -> Places]
    /\ attempt \in [Calls -> Nat]
    /\ resp \in [Calls -> Responses \cup {none}]
    /\ lastErr \in [Calls -> Errors]
    /\ late \in [Calls -> BOOLEAN]
    /\ ctxDone \in [Calls -> BOOLEAN]
    /\ sent \in [Calls -> Seq(Sent)]
    /\ last \in [Calls -> Outcomes \cup {"nil"}]
    /\ cache \in Responses \cup {none}

\* The most requests a call sends are one more than this.
Limit == IF MaxRetries > 0 THEN MaxRetries ELSE 0

Counting(c) ==
    /\ attempt[c] <= Limit /\ Len(sent[c]) <= 1 + Limit
    /\ pc[c] = "start" => sent[c] = <<>> /\ attempt[c] = 0
    /\ pc[c] \in {"build", "wait"} => Len(sent[c]) = attempt[c]
    /\ pc[c] = "do" => Len(sent[c]) = attempt[c] + 1
    /\ pc[c] = "wait" => attempt[c] > 0 /\ TRUE \in Delays
    /\ pc[c] = "finish" => Len(sent[c]) > 0

WholeBody(c) == IF req[c].body = "none" THEN "nil" ELSE "whole"

Sending(c) ==
    /\ sent[c] = <<>> => source[c] = "whole"
    /\ bytes[c] = IF req[c].body # "none" /\ (sent[c] # <<>> \/ req[c].body = "bytes")
                  THEN "whole" ELSE "nil"
    /\ \A i \in 1..Len(sent[c]) :
          /\ sent[c][i].body = WholeBody(c)
          /\ i = 1 => sent[c][i].type = IF derived(c) THEN "derived" ELSE givenType(c)
          /\ i > 1 => sent[c][i].type = givenType(c)

Holding(c) ==
    LET ofLast == [call |-> c, attempt |-> Len(sent[c]) - 1, kind |-> last[c]]
    IN  /\ (pc[c] = "wait" \/ (pc[c] = "build" /\ attempt[c] > 0)) =>
              /\ last[c] \in Outcomes
              /\ lastErr[c] = errorOf(last[c])
              /\ last[c] \notin Failures => resp[c] = ofLast
        /\ pc[c] = "finish" => last[c] \in Outcomes \ Failures /\ resp[c] = ofLast
        /\ pc[c] = "done" =>
              /\ lastErr[c] = "nil" /\ sent[c] # <<>> => resp[c] = ofLast
              /\ lastErr[c] = "nil" /\ sent[c] = <<>> => req[c].useCache /\ resp[c] # none
              /\ lastErr[c] \in Failures => lastErr[c] = last[c]
        /\ (pc[c] \in {"finish", "done"} /\ sent[c] # <<>> /\ last[c] \in Retryable) =>
              \/ Len(sent[c]) >= 1 + MaxRetries
              \/ late[c] \/ ctxDone[c]
              \/ TRUE \in Delays /\ req[c].timeout

CallInv(c) == Counting(c) /\ Sending(c) /\ Holding(c)

IInv == TypeOK /\ (\A c \in Calls : CallInv(c)) /\ CachedWasReturned

-------------------------------------------------------------------------------
\* The invariant holds when the calls begin.
LEMMA InitInv == Init => IInv
<1> SUFFICES ASSUME Init PROVE IInv
  OBVIOUS
<1>1. TypeOK
  BY ClientConstants DEF Init, TypeOK, Places, Errors
<1>2. ASSUME NEW c \in Calls PROVE CallInv(c)
  <2>1. Counting(c)
    BY ClientConstants DEF Init, Counting, Limit
  <2>2. Sending(c)
    BY ClientConstants DEF Init, Sending
  <2>3. Holding(c)
    BY DEF Init, Holding
  <2> QED
    BY <2>1, <2>2, <2>3 DEF CallInv
<1>3. CachedWasReturned
  BY DEF Init, CachedWasReturned
<1> QED
  BY <1>1, <1>2, <1>3 DEF IInv

\* A step of the environment or of another call leaves a call's part alone.
LEMMA Untouched ==
    ASSUME NEW d \in Calls, CallInv(d),
           req'[d] = req[d], bytes'[d] = bytes[d], source'[d] = source[d],
           pc'[d] = pc[d], attempt'[d] = attempt[d], resp'[d] = resp[d],
           lastErr'[d] = lastErr[d], late'[d] = late[d], ctxDone'[d] = ctxDone[d],
           sent'[d] = sent[d], last'[d] = last[d]
    PROVE  CallInv(d)'
<1>1. Counting(d)'
  BY DEF CallInv, Counting
<1>2. Sending(d)'
  BY DEF CallInv, Sending, givenType, WholeBody, derived
<1>3. Holding(d)'
  BY DEF CallInv, Holding
<1> QED
  BY <1>1, <1>2, <1>3 DEF CallInv

\* The invariant is kept by a failing URL or request middleware.
LEMMA PrepareFailsInv ==
    ASSUME IInv, NEW c \in Calls, PrepareFails(c) PROVE IInv'
<1>0. TypeOK /\ CallInv(c) /\ (\A d \in Calls : CallInv(d)) /\ CachedWasReturned
  BY DEF IInv
<1>1. TypeOK'
  BY <1>0, ClientConstants DEF TypeOK, PrepareFails, Goto, Return, Places, Errors
<1>2. Counting(c)'
  BY <1>0, ClientConstants
     DEF TypeOK, PrepareFails, Goto, Return, CallInv, Counting, Limit
<1>3. Sending(c)'
  BY <1>0, ClientConstants
     DEF TypeOK, PrepareFails, Goto, Return, CallInv, Counting, Sending, givenType,
         WholeBody, derived
<1>4. Holding(c)'
  BY <1>0, ClientConstants
     DEF TypeOK, PrepareFails, Goto, Return, CallInv, Counting, Holding, errorOf,
         Failures
<1>5. \A d \in Calls \ {c} : CallInv(d)'
  BY <1>0, Untouched DEF TypeOK, PrepareFails, Goto, Return
<1>6. CachedWasReturned'
  BY <1>0
     DEF TypeOK, PrepareFails, Goto, Return, CachedWasReturned, CallInv, Holding,
         Responses
<1> QED
  BY <1>1, <1>2, <1>3, <1>4, <1>5, <1>6 DEF IInv, CallInv

\* The invariant is kept by the look at the cache.
LEMMA tryCacheHitInv ==
    ASSUME IInv, NEW c \in Calls, tryCacheHit(c) PROVE IInv'
<1>0. TypeOK /\ CallInv(c) /\ (\A d \in Calls : CallInv(d)) /\ CachedWasReturned
  BY DEF IInv
<1>1. TypeOK'
  <2>1. CASE req[c].useCache /\ cache # none
    <3>1. /\ Return(c, cache, "nil")
          /\ UNCHANGED <<req, bytes, source, attempt, late, ctxDone, sent, last, cache>>
      BY <2>1 DEF tryCacheHit
    <3> QED
      BY <1>0, <3>1 DEF TypeOK, Goto, Return, Places, Errors
  <2>2. CASE ~(req[c].useCache /\ cache # none)
    BY <1>0, <2>2 DEF TypeOK, tryCacheHit, Goto, Places
  <2> QED
    BY <2>1, <2>2
<1>2. Counting(c)'
  BY <1>0, ClientConstants DEF TypeOK, tryCacheHit, Goto, Return, CallInv, Counting, Limit
<1>3. Sending(c)'
  BY <1>0, ClientConstants
     DEF TypeOK, tryCacheHit, Goto, Return, CallInv, Counting, Sending, givenType,
         WholeBody, derived
<1>4. Holding(c)'
  BY <1>0, ClientConstants
     DEF TypeOK, tryCacheHit, Goto, Return, CallInv, Counting, Holding, errorOf,
         Failures
<1>5. \A d \in Calls \ {c} : CallInv(d)'
  BY <1>0, Untouched DEF TypeOK, tryCacheHit, Goto, Return
<1>6. CachedWasReturned'
  BY <1>0
     DEF TypeOK, tryCacheHit, Goto, Return, CachedWasReturned, CallInv, Holding,
         Responses
<1> QED
  BY <1>1, <1>2, <1>3, <1>4, <1>5, <1>6 DEF IInv, CallInv

\* The invariant is kept by the building and sending of a request: the new one is like those before.
LEMMA BuildInv ==
    ASSUME IInv, NEW c \in Calls, Build(c) PROVE IInv'
<1>0. TypeOK /\ CallInv(c) /\ (\A d \in Calls : CallInv(d)) /\ CachedWasReturned
  BY DEF IInv
<1>1. TypeOK'
  BY <1>0, ClientConstants
     DEF TypeOK, Build, Goto, Places, prepareBody, encoded, contentType, givenType,
         Sent
<1>2. Counting(c)'
  BY <1>0, ClientConstants DEF TypeOK, Build, Goto, CallInv, Counting, Limit
<1>3. Sending(c)'
  <2> DEFINE new == [body |-> prepareBody(c), type |-> contentType(c)]
  <2>1. /\ req'[c] = req[c]
        /\ sent'[c] = Append(sent[c], new)
        /\ bytes'[c] = prepareBody(c)
    BY <1>0 DEF TypeOK, Build
  <2>2. /\ bytes[c] = IF req[c].body # "none" /\ (sent[c] # <<>> \/ req[c].body = "bytes")
                       THEN "whole" ELSE "nil"
        /\ sent[c] = <<>> => source[c] = "whole"
    BY <1>0 DEF CallInv, Sending
  <2>3. prepareBody(c) = WholeBody(c)
    BY <2>2 DEF prepareBody, encoded, WholeBody
  <2>4. derived(c) => req[c].body \notin {"none", "bytes"}
    BY DEF derived
  <2>5. contentType(c) = IF sent[c] = <<>> /\ derived(c) THEN "derived" ELSE givenType(c)
    BY <2>2, <2>4 DEF contentType
  <2>6. sent[c] \in Seq(Sent) /\ (sent[c] = <<>> <=> Len(sent[c]) = 0)
    BY <1>0 DEF TypeOK
  <2>7. /\ Len(sent'[c]) = Len(sent[c]) + 1
        /\ sent'[c][Len(sent[c]) + 1] = new
        /\ \A i \in 1..Len(sent[c]) : sent'[c][i] = sent[c][i]
    BY <2>1, <2>6
  <2>8. derived(c)' = derived(c) /\ givenType(c)' = givenType(c) /\ WholeBody(c)' = WholeBody(c)
    BY <2>1 DEF derived, givenType, WholeBody
  <2>9. /\ new.body = WholeBody(c)
        /\ new.type = IF sent[c] = <<>> /\ derived(c) THEN "derived" ELSE givenType(c)
    BY <2>3, <2>5
  <2>10. sent'[c] # <<>> /\ bytes'[c] = IF req[c].body # "none" THEN "whole" ELSE "nil"
    BY <2>1, <2>3, <2>6, <2>7 DEF WholeBody
  <2> HIDE DEF new
  <2>11. \A i \in 1..Len(sent[c]) :
            /\ sent[c][i].body = WholeBody(c)
            /\ i = 1 => sent[c][i].type = IF derived(c) THEN "derived" ELSE givenType(c)
            /\ i > 1 => sent[c][i].type = givenType(c)
    BY <1>0 DEF CallInv, Sending
  <2>12. \A i \in 1..Len(sent'[c]) :
            /\ sent'[c][i].body = WholeBody(c)
            /\ i = 1 => sent'[c][i].type = IF derived(c) THEN "derived" ELSE givenType(c)
            /\ i > 1 => sent'[c][i].type = givenType(c)
    <3> TAKE i \in 1..Len(sent'[c])
    <3>1. CASE i \in 1..Len(sent[c])
      BY <2>7, <2>11, <3>1
    <3>2. CASE i = Len(sent[c]) + 1
      BY <2>6, <2>7, <2>9, <3>2
    <3> QED
      BY <2>6, <2>7, <3>1, <3>2
  <2> QED
    BY <2>1, <2>8, <2>10, <2>12 DEF Sending
<1>4. Holding(c)'
  BY <1>0, ClientConstants
     DEF TypeOK, Build, Goto, CallInv, Counting, Holding, errorOf, Sent
<1>5. \A d \in Calls \ {c} : CallInv(d)'
  BY <1>0, Untouched DEF TypeOK, Build, Goto
<1>6. CachedWasReturned'
  BY <1>0 DEF TypeOK, Build, Goto, CachedWasReturned, CallInv, Holding, Responses
<1> QED
  BY <1>1, <1>2, <1>3, <1>4, <1>5, <1>6 DEF IInv, CallInv

\* The invariant is kept by a request that cannot be built.
LEMMA BuildFailsInv ==
    ASSUME IInv, NEW c \in Calls, BuildFails(c) PROVE IInv'
<1>0. TypeOK /\ CallInv(c) /\ (\A d \in Calls : CallInv(d)) /\ CachedWasReturned
  BY DEF IInv
<1>1. TypeOK'
  BY <1>0, ClientConstants DEF TypeOK, BuildFails, Goto, Return, Places, Errors
<1>2. Counting(c)'
  BY <1>0, ClientConstants DEF TypeOK, BuildFails, Goto, Return, CallInv, Counting, Limit
<1>3. Sending(c)'
  BY <1>0, ClientConstants
     DEF TypeOK, BuildFails, Goto, Return, CallInv, Counting, Sending, givenType,
         WholeBody, derived
<1>4. Holding(c)'
  BY <1>0, ClientConstants
     DEF TypeOK, BuildFails, Goto, Return, CallInv, Counting, Holding, errorOf,
         Failures
<1>5. \A d \in Calls \ {c} : CallInv(d)'
  BY <1>0, Untouched DEF TypeOK, BuildFails, Goto, Return
<1>6. CachedWasReturned'
  BY <1>0
     DEF TypeOK, BuildFails, Goto, Return, CachedWasReturned, CallInv, Holding,
         Responses
<1> QED
  BY <1>1, <1>2, <1>3, <1>4, <1>5, <1>6 DEF IInv, CallInv

\* The invariant is kept by the outcome of an attempt, judged.
LEMMA AnswerInv ==
    ASSUME IInv, NEW c \in Calls, NEW o \in Outcomes, Answer(c, o) PROVE IInv'
<1>0. TypeOK /\ CallInv(c) /\ (\A d \in Calls : CallInv(d)) /\ CachedWasReturned
  BY DEF IInv
<1> DEFINE again == shouldRetry(c, o)
           lost  == o = "doErr" /\ ~again
           held  == IF lost THEN none ELSE built(c, o)
<1>1. /\ pc[c] = "do"
      /\ last' = [last EXCEPT ![c] = o]
      /\ resp' = [resp EXCEPT ![c] = held]
      /\ lastErr' = [lastErr EXCEPT ![c] = errorOf(o)]
      /\ UNCHANGED <<req, bytes, source, late, ctxDone, sent, cache>>
  BY DEF Answer
<1>2. /\ again => /\ attempt' = [attempt EXCEPT ![c] = @ + 1]
                  /\ \E delayed \in Delays :
                        pc' = [pc EXCEPT ![c] = IF delayed THEN "wait" ELSE "build"]
      /\ ~again => /\ pc' = [pc EXCEPT ![c] = IF o \in Failures THEN "done" ELSE "finish"]
                   /\ attempt' = attempt
  BY DEF Answer, Goto
<1>3. again => 0 < MaxRetries /\ attempt[c] < MaxRetries
  BY DEF shouldRetry
<1>4. o \in Retryable /\ ~again => attempt[c] >= MaxRetries \/ late[c]
  BY <1>0, ClientConstants DEF shouldRetry, TypeOK
<1>5. held \in Responses \cup {none}
  BY <1>0 DEF built, TypeOK, Responses
<1>6. errorOf(o) \in Errors /\ (errorOf(o) = "nil" <=> o \notin Failures)
  BY DEF errorOf, Errors, Failures
<1>7. o \notin Failures => held = [call |-> c, attempt |-> attempt[c], kind |-> o]
  BY DEF built, Failures
<1>8. sent[c] \in Seq(Sent) /\ Len(sent[c]) = attempt[c] + 1 /\ sent[c] # <<>>
  BY <1>0, <1>1 DEF TypeOK, CallInv, Counting
<1>9. again => /\ attempt'[c] = attempt[c] + 1
               /\ pc'[c] \in {"wait", "build"}
               /\ pc'[c] = "wait" => TRUE \in Delays
  BY <1>0, <1>2, ClientConstants DEF TypeOK
<1>10. ~again => pc'[c] = IF o \in Failures THEN "done" ELSE "finish"
  BY <1>0, <1>2 DEF TypeOK
<1>11. /\ pc' \in [Calls -> Places] /\ attempt' \in [Calls -> Nat]
       /\ \A d \in Calls \ {c} : pc'[d] = pc[d] /\ attempt'[d] = attempt[d]
  <2>1. \E there \in Places : pc' = [pc EXCEPT ![c] = there]
    BY <1>2 DEF Places
  <2>2. attempt' = attempt \/ attempt' = [attempt EXCEPT ![c] = @ + 1]
    BY <1>2
  <2> QED
    BY <1>0, <2>1, <2>2 DEF TypeOK
<1> HIDE DEF again, held
<1>12. TypeOK'
  BY <1>0, <1>1, <1>5, <1>6, <1>11 DEF TypeOK
<1>13. Counting(c)'
  <2>1. /\ sent'[c] = sent[c] /\ Len(sent[c]) = attempt[c] + 1
        /\ attempt[c] \in Nat /\ attempt[c] <= Limit
        /\ MaxRetries \in Int
    BY <1>0, <1>1, <1>8, ClientConstants DEF TypeOK, CallInv, Counting
  <2>2. CASE again
    <3>1. attempt'[c] <= Limit /\ Len(sent'[c]) <= 1 + Limit
      BY <1>3, <1>9, <2>1, <2>2 DEF Limit
    <3>2. Limit' = Limit
      BY DEF Limit
    <3> QED
      <4>1. (pc[c] = "start" => sent[c] = <<>> /\ attempt[c] = 0)'
        BY <1>9, <2>2
      <4>2. (pc[c] \in {"build", "wait"} => Len(sent[c]) = attempt[c])'
        BY <1>9, <2>1, <2>2
      <4>3. (pc[c] = "do" => Len(sent[c]) = attempt[c] + 1)'
        BY <1>9, <2>2
      <4>4. (pc[c] = "wait" => attempt[c] > 0 /\ TRUE \in Delays)'
        <5>1. attempt'[c] > 0
          BY <1>9, <2>1, <2>2
        <5>2. pc'[c] = "wait" => TRUE \in Delays
          BY <1>9, <2>2, Zenon
        <5> QED
          BY <5>1, <5>2, Zenon
      <4>5. (pc[c] = "finish" => Len(sent[c]) > 0)'
        BY <1>9, <2>2
      <4> QED
        BY <3>1, <3>2, <4>1, <4>2, <4>3, <4>4, <4>5 DEF Counting
  <2>3. CASE ~again
    <3>1. attempt'[c] = attempt[c] /\ pc'[c] \in {"done", "finish"}
      BY <1>2, <1>10, <2>3
    <3>2. attempt'[c] <= Limit /\ Len(sent'[c]) <= 1 + Limit
      BY <2>1, <3>1 DEF Limit
    <3>3. Limit' = Limit
      BY DEF Limit
    <3> QED
      <4>1. (pc[c] = "start" => sent[c] = <<>> /\ attempt[c] = 0)'
        BY <3>1
      <4>2. (pc[c] \in {"build", "wait"} => Len(sent[c]) = attempt[c])'
        BY <3>1
      <4>3. (pc[c] = "do" => Len(sent[c]) = attempt[c] + 1)'
        BY <3>1
      <4>4. (pc[c] = "wait" => attempt[c] > 0 /\ TRUE \in Delays)'
        BY <3>1
      <4>5. (pc[c] = "finish" => Len(sent[c]) > 0)'
        BY <2>1, <3>1
      <4> QED
        BY <3>2, <3>3, <4>1, <4>2, <4>3, <4>4, <4>5 DEF Counting
  <2> QED
    BY <2>2, <2>3
<1>14. Sending(c)'
  BY <1>0, <1>1 DEF CallInv, Sending, givenType, WholeBody, derived
<1>15. Holding(c)'
  <2>1. /\ resp'[c] = held /\ last'[c] = o /\ lastErr'[c] = errorOf(o)
        /\ sent'[c] = sent[c] /\ Len(sent[c]) - 1 = attempt[c] /\ attempt[c] \in Nat
    BY <1>0, <1>1, <1>8 DEF TypeOK
  <2>2. late'[c] = late[c]
    BY <1>1
  <2>3. CASE again
    BY <1>7, <1>9, <2>1, <2>3 DEF Holding
  <2>4. CASE ~again
    <3>1. o \in Failures => errorOf(o) = o
      BY DEF errorOf
    <3>2. o \in Retryable => Len(sent[c]) >= 1 + MaxRetries \/ late'[c]
      BY <1>4, <2>1, <2>2, <2>4, ClientConstants
    <3> QED
      BY <1>6, <1>7, <1>8, <1>10, <2>1, <2>4, <3>1, <3>2 DEF Holding
  <2> QED
    BY <2>3, <2>4
<1>16. \A d \in Calls \ {c} : CallInv(d)'
  BY <1>0, <1>1, <1>11, Untouched DEF TypeOK
<1>17. CachedWasReturned'
  BY <1>0, <1>1, <1>11 DEF TypeOK, CachedWasReturned, Responses
<1> QED
  BY <1>12, <1>13, <1>14, <1>15, <1>16, <1>17 DEF IInv, CallInv

\* The invariant is kept by the end of a wait.
LEMMA WaitOverInv ==
    ASSUME IInv, NEW c \in Calls, WaitOver(c) PROVE IInv'
<1>0. TypeOK /\ CallInv(c) /\ (\A d \in Calls : CallInv(d)) /\ CachedWasReturned
  BY DEF IInv
<1>1. TypeOK'
  BY <1>0, ClientConstants DEF TypeOK, WaitOver, Goto, Places, Errors
<1>2. Counting(c)'
  BY <1>0, ClientConstants DEF TypeOK, WaitOver, Goto, CallInv, Counting, Limit
<1>3. Sending(c)'
  BY <1>0, ClientConstants
     DEF TypeOK, WaitOver, Goto, CallInv, Counting, Sending, givenType, WholeBody,
         derived
<1>4. Holding(c)'
  BY <1>0, ClientConstants DEF TypeOK, WaitOver, Goto, CallInv, Counting, Holding, errorOf
<1>5. \A d \in Calls \ {c} : CallInv(d)'
  BY <1>0, Untouched DEF TypeOK, WaitOver, Goto
<1>6. CachedWasReturned'
  BY <1>0 DEF TypeOK, WaitOver, Goto, CachedWasReturned, CallInv, Holding, Responses
<1> QED
  BY <1>1, <1>2, <1>3, <1>4, <1>5, <1>6 DEF IInv, CallInv

\* The invariant is kept by a wait that is cut short.
LEMMA WaitCancelledInv ==
    ASSUME IInv, NEW c \in Calls, WaitCancelled(c) PROVE IInv'
<1>0. TypeOK /\ CallInv(c) /\ (\A d \in Calls : CallInv(d)) /\ CachedWasReturned
  BY DEF IInv
<1>1. TypeOK'
  BY <1>0, ClientConstants DEF TypeOK, WaitCancelled, Goto, Places, Errors
<1>2. Counting(c)'
  BY <1>0, ClientConstants DEF TypeOK, WaitCancelled, Goto, CallInv, Counting, Limit
<1>3. Sending(c)'
  BY <1>0, ClientConstants
     DEF TypeOK, WaitCancelled, Goto, CallInv, Counting, Sending, givenType,
         WholeBody, derived
<1>4. Holding(c)'
  BY <1>0, ClientConstants
     DEF TypeOK, WaitCancelled, Goto, CallInv, Counting, Holding, errorOf, Failures,
         Outcomes
<1>5. \A d \in Calls \ {c} : CallInv(d)'
  BY <1>0, Untouched DEF TypeOK, WaitCancelled, Goto
<1>6. CachedWasReturned'
  BY <1>0 DEF TypeOK, WaitCancelled, Goto, CachedWasReturned, CallInv, Holding, Responses
<1> QED
  BY <1>1, <1>2, <1>3, <1>4, <1>5, <1>6 DEF IInv, CallInv

\* The invariant is kept by a response the middleware refuses.
LEMMA FinishFailsInv ==
    ASSUME IInv, NEW c \in Calls, FinishFails(c) PROVE IInv'
<1>0. TypeOK /\ CallInv(c) /\ (\A d \in Calls : CallInv(d)) /\ CachedWasReturned
  BY DEF IInv
<1>1. TypeOK'
  BY <1>0, ClientConstants DEF TypeOK, FinishFails, Goto, Return, Places, Errors
<1>2. Counting(c)'
  BY <1>0, ClientConstants DEF TypeOK, FinishFails, Goto, Return, CallInv, Counting, Limit
<1>3. Sending(c)'
  BY <1>0, ClientConstants
     DEF TypeOK, FinishFails, Goto, Return, CallInv, Counting, Sending, givenType,
         WholeBody, derived
<1>4. Holding(c)'
  BY <1>0, ClientConstants
     DEF TypeOK, FinishFails, Goto, Return, CallInv, Counting, Holding, errorOf,
         Failures
<1>5. \A d \in Calls \ {c} : CallInv(d)'
  BY <1>0, Untouched DEF TypeOK, FinishFails, Goto, Return
<1>6. CachedWasReturned'
  BY <1>0
     DEF TypeOK, FinishFails, Goto, Return, CachedWasReturned, CallInv, Holding,
         Responses
<1> QED
  BY <1>1, <1>2, <1>3, <1>4, <1>5, <1>6 DEF IInv, CallInv

\* The invariant is kept by the return and caching of a response.
LEMMA FinishInv ==
    ASSUME IInv, NEW c \in Calls, Finish(c) PROVE IInv'
<1>0. TypeOK /\ CallInv(c) /\ (\A d \in Calls : CallInv(d)) /\ CachedWasReturned
  BY DEF IInv
<1>1. TypeOK'
  BY <1>0, ClientConstants DEF TypeOK, Finish, Goto, Return, Places, Errors
<1>2. Counting(c)'
  BY <1>0, ClientConstants DEF TypeOK, Finish, Goto, Return, CallInv, Counting, Limit
<1>3. Sending(c)'
  BY <1>0, ClientConstants
     DEF TypeOK, Finish, Goto, Return, CallInv, Counting, Sending, givenType,
         WholeBody, derived
<1>4. Holding(c)'
  <2>1. /\ pc[c] = "finish" /\ pc'[c] = "done" /\ resp'[c] = resp[c] /\ lastErr'[c] = "nil"
        /\ sent'[c] = sent[c] /\ last'[c] = last[c] /\ req'[c] = req[c]
    BY <1>0 DEF TypeOK, Finish, Return, Goto
  <2>2. late'[c] = late[c] /\ ctxDone'[c] = ctxDone[c]
    BY DEF Finish
  <2>3. sent[c] # <<>>
    BY <1>0, <2>1 DEF TypeOK, CallInv, Counting
  <2> QED
    BY <1>0, <2>1, <2>2, <2>3 DEF CallInv, Holding, Failures
<1>5. \A d \in Calls \ {c} : CallInv(d)'
  BY <1>0, Untouched DEF TypeOK, Finish, Goto, Return
<1>6. CachedWasReturned'
  BY <1>0 DEF TypeOK, Finish, Goto, Return, CachedWasReturned, CallInv, Holding, Responses
<1> QED
  BY <1>1, <1>2, <1>3, <1>4, <1>5, <1>6 DEF IInv, CallInv

\* The invariant is kept by the end of a call's context.
LEMMA CancelInv ==
    ASSUME IInv, NEW c \in Calls, Cancel(c) PROVE IInv'
<1>0. TypeOK /\ CallInv(c) /\ (\A d \in Calls : CallInv(d)) /\ CachedWasReturned
  BY DEF IInv
<1>1. TypeOK'
  BY <1>0, ClientConstants DEF TypeOK, Cancel, Places, Errors
<1>2. Counting(c)'
  BY <1>0, ClientConstants DEF TypeOK, Cancel, CallInv, Counting, Limit
<1>3. Sending(c)'
  BY <1>0, ClientConstants
     DEF TypeOK, Cancel, CallInv, Counting, Sending, givenType, WholeBody, derived
<1>4. Holding(c)'
  BY <1>0, ClientConstants DEF TypeOK, Cancel, CallInv, Counting, Holding, errorOf
<1>5. \A d \in Calls \ {c} : CallInv(d)'
  BY <1>0, Untouched DEF TypeOK, Cancel
<1>6. CachedWasReturned'
  BY <1>0 DEF TypeOK, Cancel, CachedWasReturned, CallInv, Holding, Responses
<1> QED
  BY <1>1, <1>2, <1>3, <1>4, <1>5, <1>6 DEF IInv, CallInv

\* The invariant is kept by the end of MaxRetryTime.
LEMMA TimeUpInv ==
    ASSUME IInv, NEW c \in Calls, TimeUp(c) PROVE IInv'
<1>0. TypeOK /\ CallInv(c) /\ (\A d \in Calls : CallInv(d)) /\ CachedWasReturned
  BY DEF IInv
<1>1. TypeOK'
  BY <1>0, ClientConstants DEF TypeOK, TimeUp, Places, Errors
<1>2. Counting(c)'
  BY <1>0, ClientConstants DEF TypeOK, TimeUp, CallInv, Counting, Limit
<1>3. Sending(c)'
  BY <1>0, ClientConstants
     DEF TypeOK, TimeUp, CallInv, Counting, Sending, givenType, WholeBody, derived
<1>4. Holding(c)'
  BY <1>0, ClientConstants DEF TypeOK, TimeUp, CallInv, Counting, Holding, errorOf
<1>5. \A d \in Calls \ {c} : CallInv(d)'
  BY <1>0, Untouched DEF TypeOK, TimeUp
<1>6. CachedWasReturned'
  BY <1>0 DEF TypeOK, TimeUp, CachedWasReturned, CallInv, Holding, Responses
<1> QED
  BY <1>1, <1>2, <1>3, <1>4, <1>5, <1>6 DEF IInv, CallInv

\* Every step of the calls, and of what is around them, keeps the invariant.
LEMMA StepInv == IInv /\ [Next]_vars => IInv'
<1> SUFFICES ASSUME IInv, [Next]_vars PROVE IInv'
  OBVIOUS
<1>1. ASSUME NEW c \in Calls,
             \/ PrepareFails(c) \/ tryCacheHit(c) \/ Build(c) \/ BuildFails(c)
             \/ \E outcome \in Outcomes : Answer(c, outcome)
             \/ WaitOver(c) \/ WaitCancelled(c) \/ FinishFails(c) \/ Finish(c)
             \/ Cancel(c) \/ TimeUp(c)
      PROVE  IInv'
  BY <1>1, PrepareFailsInv, tryCacheHitInv, BuildInv, BuildFailsInv, AnswerInv, WaitOverInv,
     WaitCancelledInv, FinishFailsInv, FinishInv, CancelInv, TimeUpInv
<1>2. CASE CacheExpires
  <2>1. TypeOK' /\ CachedWasReturned'
    BY <1>2 DEF IInv, TypeOK, CachedWasReturned, CacheExpires
  <2>2. \A d \in Calls : CallInv(d)'
    BY <1>2, Untouched DEF IInv, CacheExpires
  <2> QED
    BY <2>1, <2>2 DEF IInv
<1>3. CASE UNCHANGED vars
  <2>1. TypeOK' /\ CachedWasReturned'
    BY <1>3 DEF IInv, TypeOK, CachedWasReturned, vars
  <2>2. \A d \in Calls : CallInv(d)'
    BY <1>3, Untouched DEF IInv, vars
  <2> QED
    BY <2>1, <2>2 DEF IInv
<1> QED
  BY <1>1, <1>2, <1>3 DEF Next

\* The invariant holds at all times.
LEMMA Invariant == Spec => []IInv
BY InitInv, StepInv, PTL DEF Spec

-------------------------------------------------------------------------------
\* execute sends a request at most 1 + MaxRetries times, whatever the outcomes and
\* RetryConditions are.
THEOREM BoundedSends == Spec => []SendsBounded
<1>1. IInv => SendsBounded
  BY DEF IInv, CallInv, Counting, Limit, SendsBounded
<1> QED
  BY <1>1, Invariant, PTL

\* Every attempt of execute sends the body of the first one, and its content type
\* unless prepareBody derived it.
THEOREM Alike == Spec => []SameRequest
<1>1. IInv => SameRequest
  <2> SUFFICES ASSUME IInv, NEW c \in Calls, NEW i \in 1..Len(sent[c])
               PROVE  /\ sent[c][i].body = sent[c][1].body
                      /\ sent[c][1].type # "derived" => sent[c][i].type = sent[c][1].type
    BY DEF SameRequest
  <2>1. Len(sent[c]) \in Nat
    BY DEF IInv, TypeOK
  <2>2. 1 \in 1..Len(sent[c]) /\ (i = 1 \/ i > 1)
    BY <2>1
  <2>3. \A j \in 1..Len(sent[c]) :
           /\ sent[c][j].body = WholeBody(c)
           /\ j = 1 => sent[c][j].type = IF derived(c) THEN "derived" ELSE givenType(c)
           /\ j > 1 => sent[c][j].type = givenType(c)
    BY DEF IInv, CallInv, Sending
  <2> QED
    BY <2>2, <2>3
<1> QED
  BY <1>1, Invariant, PTL

\* What execute returns without an error is the response to its last request or
\* a cached one, and a network error is that of the last attempt.
THEOREM Truthful == Spec => []ResultTruthful
<1>1. IInv => ResultTruthful
  BY DEF IInv, CallInv, Holding, ResultTruthful
<1> QED
  BY <1>1, Invariant, PTL

\* execute gives up on a retryable outcome only out of retries, out of time, or
\* with a context that is done.
THEOREM Reasoned == Spec => []GivesUpForAReason
<1>1. IInv => GivesUpForAReason
  BY DEF IInv, CallInv, Holding, GivesUpForAReason
<1> QED
  BY <1>1, Invariant, PTL

\* Every entry that storeCache makes is a response execute returned without error.
THEOREM CacheTruthful == Spec => []CachedWasReturned
<1>1. IInv => CachedWasReturned
  BY DEF IInv
<1> QED
  BY <1>1, Invariant, PTL

===============================================================================
