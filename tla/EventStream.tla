------------------------------ MODULE EventStream ------------------------------
(***************************************************************************)
(* gclient/sse.go and gclient/stream.go: one SSERequest.Stream, with a     *)
(* handler of the caller's or the one of StreamChannels.                   *)
(*                                                                         *)
(* The server is external: it has the events 1..Events, each of the lines  *)
(* "id", "data" and a blank one, and sends those after the Last-Event-ID   *)
(* it is asked for.  A connection can fail, and break or end at any place, *)
(* in the middle of a line too: bufio.Scanner hands out what there is of   *)
(* it as a line.  An event as the client assembles it is [id, data]: the   *)
(* id it saw last, and the events whose data lines it put together.        *)
(***************************************************************************)
EXTENDS Integers, Sequences, FiniteSets

CONSTANTS Events,        \* number of events the server has
          CutIds,        \* event -> what its id is when it is cut short: 0 if empty, or the
                         \* id of another event (if above Events, of one the server has not)
          MaxRetries,    \* the values of maxRetries
          MaxReconnects, \* bound: reconnections, where maxRetries does not limit them
          Buffer         \* capacity of the channel of StreamChannels

VARIABLES how,         \* settings: [channel, reconnect, timeout, maxRetries]
          phase,       \* "top", "reading", "torn", "flush", "last flush", "end flush",
                       \* "sleeping", "returned"
          retries, lastEventID,
          line,        \* the next line of the connection: [event, kind]
          currentEvent,
          bodies,      \* responses whose body was not closed
          channel,     \* what StreamChannels has sent and nobody received
          cancelled,   \* the caller's context
          result,      \* what Stream returned: "none" before, then "nil", "canceled", "error"
          delivered,   \* history: the events given to the handler that it took
          cut,         \* history: the event a connection was in when it broke, or the handler refused
          since        \* history: the last id cut short, and the number of events delivered
                       \* before it: [at, id]

streamVars == <<how, phase, retries, lastEventID, line, currentEvent, bodies, channel,
                cancelled, result, delivered, cut, since>>
request == <<how, retries, lastEventID>>
history == <<delivered, cut, since>>

noEvent == [id |-> 0, data |-> {}]
Torn(n) == 0 - n   \* in data: a data line of event n that was cut short

StreamInit ==
    /\ how \in [channel : BOOLEAN, reconnect : BOOLEAN, timeout : BOOLEAN, maxRetries : MaxRetries]
    /\ phase = "top" /\ retries = 0 /\ lastEventID = 0
    /\ line = [event |-> 1, kind |-> "id"] /\ currentEvent = noEvent
    /\ bodies = 0 /\ channel = <<>> /\ cancelled = FALSE /\ result = "none"
    /\ delivered = <<>> /\ cut = {} /\ since = [at |-> 0, id |-> 0]

\* External: the caller, and whoever receives from the channel.
StreamCancel ==
    /\ ~cancelled /\ phase # "returned"
    /\ cancelled' = TRUE
    /\ UNCHANGED <<request, phase, line, currentEvent, bodies, channel, result, history>>

Receive ==
    /\ channel # <<>>
    /\ channel' = Tail(channel)
    /\ UNCHANGED <<request, phase, line, currentEvent, bodies, cancelled, result, history>>

-------------------------------------------------------------------------------
shouldReconnect == how.reconnect /\ (how.maxRetries <= 0 \/ retries < how.maxRetries)

\* The ways an attempt ends: Stream returns, or it sleeps and tries again.
Return(what) == phase' = "returned" /\ result' = what /\ UNCHANGED request
Failed ==
    IF shouldReconnect
    THEN phase' = "sleeping" /\ retries' = retries + 1 /\ UNCHANGED <<how, lastEventID, result>>
    ELSE Return("error")

\* The top of the loop, and the request itself (stream).  A status other than
\* 200 closes the body; so does an OnConnect hook that refuses, which is final.
\* Bound: after MaxReconnects reconnections nothing is tried any more.
Try == phase = "top" /\ ~cancelled /\ retries <= MaxReconnects

\* Mutant: the body of a bad status stays open.
Attempt_KeepsBody ==
    /\ Try
    /\ Failed /\ bodies' = bodies + 1
    /\ UNCHANGED <<line, currentEvent, channel, cancelled, history>>

Attempt ==
    /\ Try
    /\ \/ Failed
       \/ Return("error")
    /\ UNCHANGED <<line, currentEvent, bodies, channel, cancelled, history>>

Connected ==
    /\ Try
    /\ phase' = "reading" /\ bodies' = bodies + 1
    /\ line' = [event |-> lastEventID + 1, kind |-> "id"] /\ currentEvent' = noEvent
    /\ UNCHANGED <<request, channel, cancelled, result, history>>

TopCancelled ==
    /\ phase = "top" /\ cancelled
    /\ Return("canceled")
    /\ UNCHANGED <<line, currentEvent, bodies, channel, cancelled, history>>

\* sleepWithContext.  Without a delay it is the top of the loop that looks.
Sleep ==
    /\ phase = "sleeping"
    /\ \/ phase' = "top" /\ UNCHANGED <<request, result>>
       \/ cancelled /\ Return("canceled")
    /\ UNCHANGED <<line, currentEvent, bodies, channel, cancelled, history>>

-------------------------------------------------------------------------------
NextLine ==
    CASE line.kind = "id"    -> [line EXCEPT !.kind = "data"]
      [] line.kind = "data"  -> [line EXCEPT !.kind = "blank"]
      [] line.kind = "blank" -> [event |-> line.event + 1, kind |-> "id"]

\* A line with a field.  The id counts from here on, before the event is whole.
\* Mutants: what a broken connection left of an event is kept; the id of the
\* last event is taken from the request.
Field_Merges(kind) ==
    /\ phase = "reading" /\ ~cancelled /\ line.event <= Events /\ line.kind = kind
    /\ currentEvent' = IF kind = "id" THEN [currentEvent EXCEPT !.id = line.event]
                       ELSE [currentEvent EXCEPT !.data = cut \cup {line.event}]
    /\ lastEventID' = IF kind = "id" THEN line.event ELSE lastEventID
    /\ line' = NextLine
    /\ UNCHANGED <<how, retries, phase, bodies, channel, cancelled, result, history>>

Field_Forgets(kind) ==
    /\ phase = "reading" /\ ~cancelled /\ line.event <= Events /\ line.kind = kind
    /\ currentEvent' = IF kind = "id" THEN [currentEvent EXCEPT !.id = line.event]
                       ELSE [currentEvent EXCEPT !.data = @ \cup {line.event}]
    /\ line' = NextLine
    /\ UNCHANGED <<request, phase, bodies, channel, cancelled, result, history>>

Field(kind) ==
    /\ phase = "reading" /\ ~cancelled /\ line.event <= Events /\ line.kind = kind
    /\ currentEvent' = IF kind = "id" THEN [currentEvent EXCEPT !.id = line.event]
                       ELSE [currentEvent EXCEPT !.data = @ \cup {line.event}]
    /\ lastEventID' = IF kind = "id" THEN line.event ELSE lastEventID
    /\ line' = NextLine
    /\ UNCHANGED <<how, retries, phase, bodies, channel, cancelled, result, history>>

\* What there is of an event is flushed at a blank line, at a line that finds the
\* context done, and at the end of the body.
Blank ==
    /\ phase = "reading" /\ line.event <= Events /\ (line.kind = "blank" \/ cancelled)
    /\ phase' = IF cancelled THEN "last flush" ELSE "flush"
    /\ UNCHANGED <<request, line, currentEvent, bodies, channel, cancelled, result, history>>

StreamEnds ==
    /\ phase = "reading"
    /\ phase' = "end flush"
    /\ UNCHANGED <<request, line, currentEvent, bodies, channel, cancelled, result, history>>

\* The connection breaks or ends in the middle of a line, and what there is of it is a
\* line like any other: no field the client knows, an id or data cut short.
CutLine ==
    /\ phase = "reading" /\ ~cancelled /\ line.event <= Events /\ line.kind # "blank"
    /\ phase' \in {"torn", "end flush"}
    /\ \/ UNCHANGED <<lastEventID, currentEvent, since>>
       \/ /\ line.kind = "id" /\ lastEventID' \in CutIds[line.event]
          /\ currentEvent' = [currentEvent EXCEPT !.id = lastEventID']
          /\ since' = [at |-> Len(delivered), id |-> lastEventID']
       \/ /\ line.kind = "data" /\ currentEvent' = [currentEvent EXCEPT !.data = @ \cup {Torn(line.event)}]
          /\ UNCHANGED <<lastEventID, since>>
    /\ UNCHANGED <<how, retries, line, bodies, channel, cancelled, result, delivered, cut>>

\* handleSSEStream ends with an error or nil, and the body is closed.
Ended(err) ==
    /\ bodies' = bodies - 1 /\ currentEvent' = noEvent /\ UNCHANGED <<line, cancelled, since>>
    /\ cut' = IF err = "nil" THEN cut ELSE cut \cup {line.event}
    /\ IF err = "error" THEN Failed ELSE Return(err)

\* The handler takes the event, refuses it, or (that of StreamChannels) waits for
\* room in the channel or for the end of the context.
\* Mutant: it does not wait for the context.
Refuses_Deaf(err) == ~how.channel /\ err = "error"
Refuses(err) == IF how.channel THEN cancelled /\ err = "canceled" ELSE err = "error"

Takes ==
    /\ how.channel => Len(channel) < Buffer
    /\ delivered' = Append(delivered, currentEvent)
    /\ channel' = IF how.channel THEN Append(channel, currentEvent) ELSE channel

Flush ==
    /\ phase \in {"flush", "last flush", "end flush"}
    /\ \/ /\ IF currentEvent = noEvent THEN UNCHANGED <<channel, delivered>> ELSE Takes
          /\ CASE phase = "last flush" -> Ended("canceled")
               [] phase = "end flush"  -> Ended("nil")
               [] phase = "flush"      -> /\ phase' = "reading" /\ line' = NextLine /\ currentEvent' = noEvent
                                          /\ UNCHANGED <<request, bodies, cancelled, result, cut, since>>
       \/ /\ currentEvent # noEvent /\ \E err \in {"canceled", "error"} : Refuses(err) /\ Ended(err)
          /\ UNCHANGED <<channel, delivered>>

\* The body breaks; that is the context's error when the context is over.  stream()
\* has cancelled the context of a request with a timeout once the response was there.
\* Where a line was handed out since, the caller's context came later than the error.
StreamBreaks ==
    /\ phase \in {"reading", "torn"}
    /\ Ended(IF (cancelled /\ phase = "reading") \/ how.timeout THEN "canceled" ELSE "error")
    /\ UNCHANGED <<channel, delivered>>

StreamStep ==
    \/ Attempt \/ Connected \/ TopCancelled \/ Sleep
    \/ Field("id") \/ Field("data") \/ Blank \/ StreamEnds \/ CutLine \/ Flush \/ StreamBreaks

StreamNext == StreamStep \/ StreamCancel \/ Receive

\* The goroutine of Stream runs; a body whose context is done ends its Read.
StreamFairness ==
    /\ WF_streamVars(Attempt \/ Connected \/ TopCancelled \/ Sleep)
    /\ WF_streamVars(Flush)
    /\ WF_streamVars(cancelled /\ StreamBreaks)

-------------------------------------------------------------------------------
\* Across breaks and reconnections the handler gets every event at most once and
\* in order, and misses one only when a connection broke in the middle of it or
\* the handler had refused it, until a connection breaks in an id: the id that is
\* left of it is what the next request asks from, and it all begins anew after that
\* id (handleSSEStream, prepareRequest).
Anew == (since.at + 1)..Len(delivered)
EventsInOrder ==
    /\ \A i, j \in Anew : i < j => delivered[i].id < delivered[j].id
    /\ \A i \in Anew : delivered[i].id > since.id \/ delivered[i].data = {}
    /\ \A i \in Anew : \A n \in (since.id + 1)..(delivered[i].id - 1) :
          n \in cut \/ \E j \in Anew : j < i /\ delivered[j].id = n

\* An event that was cut short reaches the handler only as the last one, and what
\* is left of it never becomes part of another (currentEvent).
WholeEvents ==
    \A i \in DOMAIN delivered :
        \/ delivered[i].data = {delivered[i].id}
        \/ i = Len(delivered) /\ delivered[i].data \subseteq {Torn(delivered[i].id)} /\ phase = "returned"

\* Every body is closed before the next attempt and when Stream returns.
BodiesClosed == bodies = IF phase \in {"top", "sleeping", "returned"} THEN 0 ELSE 1

\* Whatever Stream is doing, a connection, a wait, a channel nobody reads, it
\* returns once the caller's context is cancelled.
StreamCancelReturns == cancelled ~> phase = "returned"

===============================================================================
