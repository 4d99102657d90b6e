----------------------------- MODULE StreamsProofs -----------------------------
(***************************************************************************)
(* What the connections that live long promise, proved for any number of   *)
(* senders, retries, events and frames.                                    *)
(***************************************************************************)
EXTENDS MCStreams, SequencesExt, SequenceTheorems, TLAPS

-------------------------------------------------------------------------------
(***************************************************************************)
(* WebSocket.  That a write is not disturbed depends on who holds the lock, *)
(* on which connection it is and on what Connect can do meanwhile.         *)
(***************************************************************************)
SocketTypes ==
    /\ phase \in {"top", "connected", "refused", "reading", "left", "unset", "sleeping",
                  "returned"}
    /\ dialled \in Nat
    /\ open \subseteq {dialled} /\ conn \in {0, dialled}
    /\ sending \in [Senders -> Nat]

\* What is open at each place of Connect.
SocketPlaces ==
    /\ phase \in {"top", "sleeping", "returned"} => open = {} /\ conn = 0
    /\ phase = "unset" => conn = 0
    /\ phase = "refused" => refused /\ open = {}
    /\ phase \in {"connected", "reading", "left"} /\ conn # 0 => conn \in open

\* Who writes holds the lock, and writes on w.conn.
SocketLock == \A s \in Senders : sending[s] # 0 => connMu = s /\ sending[s] = conn

SocketInv == SocketTypes /\ SocketPlaces /\ SocketLock

\* A step of Connect, of a heartbeat, of a sender or of the caller keeps it.
LEMMA SocketStep == SocketInv /\ [Socket!SocketNext]_socketVars => SocketInv'
<1> SUFFICES ASSUME SocketInv, [Socket!SocketNext]_socketVars PROVE SocketInv'
  OBVIOUS
<1> USE StreamsConstants DEF SocketInv, SocketTypes, SocketPlaces, SocketLock, Socket!config,
        Socket!sender
<1>1. CASE Socket!SocketTop
  BY <1>1 DEF Socket!SocketTop, Socket!Again
<1>2. CASE Socket!Dial
  BY <1>2 DEF Socket!Dial
<1>3. CASE Socket!Hooks
  BY <1>3 DEF Socket!Hooks
<1>4. CASE Socket!Forget
  BY <1>4 DEF Socket!Forget, Socket!Again
<1>5. CASE Socket!Deadline \/ Socket!ReadFails \/ Socket!Message
  BY <1>5 DEF Socket!Deadline, Socket!ReadFails, Socket!Message, Socket!Leave
<1>6. CASE Socket!Unset
  BY <1>6 DEF Socket!Unset
<1>7. CASE Socket!CloseConn
  BY <1>7 DEF Socket!CloseConn, Socket!Again
<1>8. CASE Socket!SocketSleep
  BY <1>8 DEF Socket!SocketSleep
<1>9. CASE Socket!SocketCancel
  BY <1>9 DEF Socket!SocketCancel
<1>10. CASE Socket!Close
  BY <1>10 DEF Socket!Close
<1>11. ASSUME NEW c \in 1..dialled, Socket!HeartStops(c) PROVE SocketInv'
  BY <1>11 DEF Socket!HeartStops
<1>12. ASSUME NEW s \in Senders, Socket!StartSend(s) PROVE SocketInv'
  BY <1>12 DEF Socket!StartSend
<1>13. ASSUME NEW s \in Senders, Socket!EndSend(s) PROVE SocketInv'
  BY <1>13 DEF Socket!EndSend
<1>14. CASE UNCHANGED socketVars
  BY <1>14 DEF socketVars
<1> QED
  BY <1>1, <1>2, <1>3, <1>4, <1>5, <1>6, <1>7, <1>8, <1>9, <1>10, <1>11, <1>12, <1>13, <1>14
  DEF Socket!SocketNext, Socket!ConnectStep

\* WebSocketRequest.Connect, SendMessage and Close, in whatever order their steps
\* come: there is never more than one open connection, w.conn is none other, none is
\* left when Connect has returned, and none is closed under a message that is being
\* written but when OnConnect had refused it.
THEOREM SocketSafe == Spec => []SocketSound
<1>1. Init => SocketInv
  BY StreamsConstants DEF Init, Socket!SocketInit, SocketInv, SocketTypes, SocketPlaces, SocketLock
<1>2. SocketInv /\ [Next]_vars => SocketInv'
  BY SocketStep DEF Next, vars, socketVars
<1>3. SocketInv => SocketSound
  BY DEF SocketInv, SocketTypes, SocketPlaces, SocketLock, SocketSound, Socket!OneConnection,
     Socket!WritesUndisturbed
<1> QED
  BY <1>1, <1>2, <1>3, PTL DEF Spec

-------------------------------------------------------------------------------
(***************************************************************************)
(* EventStream.  Why no event comes twice is a matter of how the id that   *)
(* the next request asks from, the line the connection is at and the event *)
(* being put together are related: Past is the last event that the client  *)
(* has done with.  All of it is about what came after the last id that was *)
(* cut short.                                                              *)
(***************************************************************************)
Reads  == {"reading", "torn", "flush", "last flush", "end flush"}
Event  == [id : Nat, data : SUBSET Int]
Past   == IF streaming \in Reads /\ line.kind # "id" THEN lastEventID - 1 ELSE lastEventID

StreamTypes ==
    /\ streaming \in Reads \cup {"top", "sleeping", "returned"}
    /\ lastEventID \in Nat
    /\ line \in [event : Nat, kind : {"id", "data", "blank"}]
    /\ currentEvent \in Event
    /\ delivered \in Seq(Event)
    /\ since \in [at : Nat, id : Nat]

\* The line handed out last was cut short, and it was an id.
TornId ==
    /\ streaming \in {"torn", "end flush"} /\ currentEvent = [id |-> lastEventID, data |-> {}]
    /\ since = [at |-> Len(delivered), id |-> lastEventID]

\* What has been put together of an event, line by line.
AtId    == line.kind = "id" => \/ line.event = lastEventID + 1 /\ currentEvent = Stream!noEvent
                               \/ TornId
AtField == line.kind # "id" => line.event = lastEventID /\ lastEventID > 0 /\ currentEvent.id = lastEventID
AtData  == line.kind = "data" => \/ currentEvent.data = {}
                                 \/ /\ streaming \in {"torn", "end flush"}
                                    /\ currentEvent.data = {Stream!Torn(lastEventID)}
AtBlank == line.kind = "blank" => currentEvent.data = {lastEventID}

StreamLine ==
    streaming \in Reads => /\ AtId /\ AtField /\ AtData /\ AtBlank
                           /\ streaming = "flush" => line.kind = "blank"

StreamHistory ==
    /\ since.at <= Len(delivered) /\ since.id <= Past
    /\ \A i \in Stream!Anew : delivered[i].id <= Past
    /\ \A n \in (since.id + 1)..Past : n \in cut \/ \E j \in Stream!Anew : delivered[j].id = n

StreamInv ==
    /\ StreamTypes /\ StreamLine /\ StreamHistory
    /\ Stream!EventsInOrder /\ Stream!WholeEvents /\ Stream!BodiesClosed

\* A step in which nothing is delivered: the events done with are the same, or one
\* more that was cut short.
LEMMA NothingDelivered ==
    ASSUME StreamInv, UNCHANGED <<delivered, since>>, cut \subseteq cut', streaming # "returned",
           Past' = Past \/ (Past' = Past + 1 /\ Past' \in cut')
    PROVE  StreamHistory' /\ Stream!EventsInOrder' /\ Stream!WholeEvents'
<1> USE DEF StreamInv, StreamTypes
<1>1. /\ Past \in Int /\ \A i \in DOMAIN delivered : delivered[i].id \in Nat
      /\ Stream!Anew' = Stream!Anew /\ Stream!Anew \subseteq DOMAIN delivered
      /\ since.at \in Nat /\ since.id \in Nat
  <2>1. \A i \in 1..Len(delivered) : delivered[i] \in Event
    BY ElementOfSeq
  <2> QED
    BY <2>1, LenProperties DEF Past, Event, Stream!Anew
<1>2. StreamHistory'
  BY <1>1 DEF StreamHistory
<1>3. Stream!EventsInOrder'
  BY <1>1 DEF Stream!EventsInOrder
<1>4. Stream!WholeEvents'
  BY DEF Stream!WholeEvents
<1> QED
  BY <1>2, <1>3, <1>4

\* A step in which what there is of the current event is delivered: the next event,
\* or the id that is left of one.
LEMMA OneDelivered ==
    ASSUME StreamInv, streaming \in Reads, currentEvent # Stream!noEvent,
           delivered' = Append(delivered, currentEvent), UNCHANGED since, cut \subseteq cut',
           Past' = lastEventID, line.kind = "blank" \/ streaming' = "returned"
    PROVE  delivered' \in Seq(Event) /\ StreamHistory' /\ Stream!EventsInOrder' /\ Stream!WholeEvents'
<1> DEFINE k == Len(delivered) + 1
<1>1. /\ delivered \in Seq(Event) /\ currentEvent \in Event /\ lastEventID \in Nat
      /\ streaming # "returned" /\ since.at \in Nat /\ since.id \in Nat
  BY DEF StreamInv, StreamTypes, Reads
<1>2. /\ delivered' \in Seq(Event) /\ Len(delivered') = k /\ DOMAIN delivered' = 1..k /\ k \in Nat
      /\ DOMAIN delivered = 1..(k - 1)
      /\ \A i \in 1..(k - 1) : delivered'[i] = delivered[i] /\ delivered[i].id \in Nat
      /\ delivered'[k] = currentEvent
  <2>1. delivered \in Seq(Event) /\ currentEvent \in Event
    BY <1>1
  <2>2. \A i \in 1..Len(delivered) : delivered[i] \in Event
    BY <2>1, ElementOfSeq
  <2> QED
    BY <2>1, <2>2, AppendProperties, LenProperties DEF Event
<1>3. /\ currentEvent.id = lastEventID
      /\ \/ line.kind # "id" /\ Past = lastEventID - 1 /\ lastEventID > since.id
         \/ /\ line.kind = "id" /\ since.at = k - 1 /\ since.id = lastEventID
            /\ currentEvent.data = {}
      /\ \/ currentEvent.data = {lastEventID}
         \/ currentEvent.data \subseteq {Stream!Torn(lastEventID)} /\ streaming' = "returned"
  <2>1. CASE line.kind = "id"
    <3>1. currentEvent = [id |-> lastEventID, data |-> {}]
          /\ since = [at |-> Len(delivered), id |-> lastEventID]
      BY <2>1 DEF StreamInv, StreamLine, AtId, TornId
    <3> QED
      BY <2>1, <3>1, <1>2
  <2>2. CASE line.kind # "id"
    <3>1. Past = lastEventID - 1 /\ since.id <= Past
      BY <2>2 DEF Past, StreamInv, StreamHistory
    <3>2. /\ currentEvent.id = lastEventID
          /\ line.kind \in {"data", "blank"}
          /\ line.kind = "data" => currentEvent.data = {} \/ currentEvent.data = {Stream!Torn(lastEventID)}
          /\ line.kind = "blank" => currentEvent.data = {lastEventID}
      BY <2>2 DEF StreamInv, StreamTypes, StreamLine, AtField, AtData, AtBlank
    <3> QED
      BY <2>2, <3>1, <3>2, <1>1
  <2> QED
    BY <2>1, <2>2
<1>4. /\ Stream!Anew = (since.at + 1)..(k - 1) /\ Stream!Anew' = (since.at + 1)..k
      /\ since.at <= k - 1
  BY <1>1, <1>2 DEF Stream!Anew, StreamInv, StreamHistory
<1>5. \A i \in (since.at + 1)..(k - 1) : delivered[i].id < lastEventID
  BY <1>1, <1>2, <1>3, <1>4 DEF StreamInv, StreamHistory
<1>a. \A n \in (since.id + 1)..(lastEventID - 1) :
         n \in cut' \/ \E j \in (since.at + 1)..(k - 1) : delivered'[j].id = n
  <2> SUFFICES ASSUME NEW n \in (since.id + 1)..(lastEventID - 1)
               PROVE  n \in cut' \/ \E j \in (since.at + 1)..(k - 1) : delivered'[j].id = n
    OBVIOUS
  <2>1. Past = lastEventID - 1
    BY <1>1, <1>3
  <2>2. n \in cut \/ \E j \in (since.at + 1)..(k - 1) : delivered[j].id = n
    BY <2>1, <1>4 DEF StreamInv, StreamHistory
  <2>3. \A j \in (since.at + 1)..(k - 1) : j \in 1..(k - 1)
    BY <1>1, <1>2
  <2> QED
    BY <2>2, <2>3, <1>2
<1>6. StreamHistory'
  <2>1. \A i \in Stream!Anew' : delivered'[i].id <= Past'
    BY <1>1, <1>2, <1>3, <1>4, <1>5
  <2>2. ASSUME NEW n \in (since.id + 1)..Past'
        PROVE  n \in cut' \/ \E j \in Stream!Anew' : delivered'[j].id = n
    <3>1. CASE n = lastEventID
      BY <3>1, <1>1, <1>2, <1>3, <1>4
    <3>2. CASE n # lastEventID
      BY <3>2, <1>1, <1>2, <1>4, <1>a
    <3> QED
      BY <3>1, <3>2
  <2>3. since.id <= lastEventID
    BY <1>1, <1>3
  <2> QED
    BY <2>1, <2>2, <2>3, <1>1, <1>2, <1>4 DEF StreamHistory
<1>7. Stream!EventsInOrder'
  <2>1. \A i, j \in Stream!Anew' : i < j => delivered'[i].id < delivered'[j].id
    BY <1>1, <1>2, <1>3, <1>4, <1>5 DEF StreamInv, Stream!EventsInOrder
  <2>2. \A i \in Stream!Anew' : delivered'[i].id > since.id \/ delivered'[i].data = {}
    BY <1>1, <1>2, <1>3, <1>4 DEF StreamInv, Stream!EventsInOrder
  <2>3. ASSUME NEW i \in Stream!Anew', NEW n \in (since.id + 1)..(delivered'[i].id - 1)
        PROVE  n \in cut' \/ \E j \in Stream!Anew' : j < i /\ delivered'[j].id = n
    <3>1. CASE i = k
      <4>1. n \in (since.id + 1)..(lastEventID - 1)
        BY <3>1, <1>2, <1>3
      <4>2. n \in cut' \/ \E j \in (since.at + 1)..(k - 1) : delivered'[j].id = n
        BY <4>1, <1>a
      <4>3. \A j \in (since.at + 1)..(k - 1) : j < i /\ j \in (since.at + 1)..k
        BY <3>1, <1>1, <1>2
      <4> QED
        BY <4>2, <4>3, <1>4
    <3>2. CASE i # k
      <4>1. i \in (since.at + 1)..(k - 1) /\ i \in 1..(k - 1) /\ delivered'[i] = delivered[i]
        BY <3>2, <1>1, <1>2, <1>4
      <4>2. n \in cut \/ \E j \in (since.at + 1)..(k - 1) : j < i /\ delivered[j].id = n
        BY <4>1, <1>4 DEF StreamInv, Stream!EventsInOrder
      <4>3. \A j \in (since.at + 1)..(k - 1) : j \in 1..(k - 1) /\ j \in (since.at + 1)..k
        BY <1>1, <1>2
      <4> QED
        BY <4>2, <4>3, <1>2, <1>4
    <3> QED
      BY <3>1, <3>2
  <2> QED
    BY <2>1, <2>2, <2>3 DEF Stream!EventsInOrder
<1>8. Stream!WholeEvents'
  BY <1>1, <1>2, <1>3 DEF StreamInv, Stream!WholeEvents
<1> QED
  BY <1>2, <1>6, <1>7, <1>8

\* The ways an attempt ends leave the request's id and the settings alone.
LEMMA StreamEnded ==
    ASSUME NEW err, Stream!Ended(err)
    PROVE  /\ UNCHANGED <<lastEventID, since>> /\ line' = line /\ bodies' = bodies - 1
           /\ currentEvent' = Stream!noEvent /\ cut \subseteq cut'
           /\ err # "nil" => line.event \in cut'
           /\ streaming' \in {"sleeping", "returned"}
           /\ err # "error" => streaming' = "returned"
  BY DEF Stream!Ended, Stream!Failed, Stream!Return, Stream!request

\* An event that is being put together has an id, for lastEventID is not zero then.
LEMMA LineOfEvent ==
    ASSUME StreamTypes, StreamLine, streaming \in Reads, currentEvent = Stream!noEvent
    PROVE  line.kind = "id"
<1>1. line.kind # "id" => currentEvent.id = lastEventID /\ lastEventID # 0
  BY DEF StreamTypes, StreamLine, AtField
<1> QED
  BY <1>1 DEF Stream!noEvent

\* What the client has done with before and after it leaves a connection.
LEMMA PastWhenLeft ==
    ASSUME StreamTypes, StreamLine, streaming \in Reads,
           lastEventID' = lastEventID, streaming' \in {"sleeping", "returned"}
    PROVE  /\ lastEventID \in Nat /\ Past' = lastEventID
           /\ line.kind = "id" => Past = lastEventID
           /\ line.kind # "id" => Past + 1 = lastEventID /\ line.event = lastEventID
<1>1. lastEventID \in Nat /\ Past' = lastEventID
  BY DEF Past, StreamTypes, Reads
<1>2. line.kind = "id" => Past = lastEventID
  BY DEF Past
<1>3. ASSUME line.kind # "id" PROVE Past = lastEventID - 1
  BY <1>3 DEF Past
<1>4. line.kind # "id" => line.event = lastEventID
  BY DEF StreamLine, AtField
<1> QED
  BY <1>1, <1>2, <1>3, <1>4

\* The rest of the state when it leaves a connection.
LEMMA ShapeWhenLeft ==
    ASSUME StreamTypes, Stream!BodiesClosed, streaming \in Reads, delivered' \in Seq(Event),
           UNCHANGED <<lastEventID, since>>, line' = line, bodies' = bodies - 1,
           currentEvent' = Stream!noEvent, streaming' \in {"sleeping", "returned"}
    PROVE  StreamTypes' /\ StreamLine' /\ Stream!BodiesClosed'
<1>1. Stream!noEvent \in Event
  BY DEF Stream!noEvent, Event
<1>2. StreamTypes'
  BY <1>1 DEF StreamTypes
<1>3. StreamLine'
  BY DEF StreamLine, Reads
<1>4. bodies = 1
  BY DEF Stream!BodiesClosed, Reads
<1>5. Stream!BodiesClosed'
  BY <1>4 DEF Stream!BodiesClosed
<1> QED
  BY <1>2, <1>3, <1>5

\* A step of Stream, of the caller or of who receives keeps the invariant.
LEMMA StreamStep == StreamInv /\ [Stream!StreamNext]_streamVars => StreamInv'
<1> SUFFICES ASSUME StreamInv, [Stream!StreamNext]_streamVars PROVE StreamInv'
  OBVIOUS
<1> USE DEF Reads, Stream!request, Stream!history
<1> DEFINE Kept == StreamHistory' /\ Stream!EventsInOrder' /\ Stream!WholeEvents'
<1>0. StreamTypes /\ StreamLine /\ Stream!BodiesClosed
  BY DEF StreamInv
<1>1. CASE Stream!Attempt \/ Stream!TopCancelled \/ Stream!Sleep
  <2>1. /\ UNCHANGED <<lastEventID, line, currentEvent, bodies, delivered, cut, since>>
        /\ streaming \in {"top", "sleeping"} /\ streaming' \in {"top", "sleeping", "returned"}
    BY <1>1 DEF Stream!Attempt, Stream!TopCancelled, Stream!Sleep, Stream!Failed, Stream!Return, Stream!Try
  <2>2. Kept
    BY <2>1, NothingDelivered DEF Past
  <2>3. StreamTypes' /\ StreamLine'
    BY <1>0, <2>1 DEF StreamTypes, StreamLine
  <2> QED
    BY <1>0, <2>1, <2>2, <2>3 DEF StreamInv, Stream!BodiesClosed
<1>2. CASE Stream!Connected
  <2>0. /\ streaming = "top" /\ streaming' = "reading" /\ bodies' = bodies + 1
        /\ line' = [event |-> lastEventID + 1, kind |-> "id"] /\ currentEvent' = Stream!noEvent
        /\ UNCHANGED <<lastEventID, delivered, cut, since>>
    BY <1>2 DEF Stream!Connected, Stream!Try
  <2>1. Kept
    BY <2>0, NothingDelivered DEF Past
  <2>2. StreamTypes'
    BY <1>0, <2>0 DEF StreamTypes, Stream!noEvent, Event
  <2>3. StreamLine'
    BY <2>0 DEF StreamLine, AtId, AtField, AtData, AtBlank
  <2> QED
    BY <1>0, <2>0, <2>1, <2>2, <2>3 DEF StreamInv, Stream!BodiesClosed
<1>3. ASSUME NEW kind \in {"id", "data"}, Stream!Field(kind) PROVE StreamInv'
  <2>1. /\ UNCHANGED <<streaming, delivered, cut, since, bodies>> /\ streaming = "reading" /\ line.kind = kind
        /\ line' = Stream!NextLine
        /\ currentEvent' = IF kind = "id" THEN [currentEvent EXCEPT !.id = line.event]
                           ELSE [currentEvent EXCEPT !.data = @ \cup {line.event}]
        /\ lastEventID' = IF kind = "id" THEN line.event ELSE lastEventID
    BY <1>3 DEF Stream!Field
  <2>0. /\ line.kind = "id" => line.event = lastEventID + 1 /\ currentEvent = [id |-> 0, data |-> {}]
        /\ line.kind = "data" => /\ line.event = lastEventID /\ lastEventID > 0
                                 /\ currentEvent.id = lastEventID /\ currentEvent.data = {}
        /\ line \in [event : Nat, kind : {"id", "data", "blank"}] /\ lastEventID \in Nat
        /\ currentEvent \in [id : Nat, data : SUBSET Int]
    <3>1. ~TornId
      BY <2>1 DEF TornId
    <3> QED
      BY <1>0, <2>1, <3>1 DEF StreamTypes, StreamLine, AtId, AtField, AtData, Stream!noEvent, Event
  <2>2. /\ line'.kind = (IF kind = "id" THEN "data" ELSE "blank") /\ line'.event = lastEventID'
        /\ line' \in [event : Nat, kind : {"id", "data", "blank"}]
        /\ lastEventID' \in Nat /\ lastEventID' > 0
        /\ currentEvent' = [id |-> lastEventID', data |-> IF kind = "id" THEN {} ELSE {lastEventID'}]
    BY <2>0, <2>1 DEF Stream!NextLine
  <2>3. Past' = Past
    BY <2>0, <2>1, <2>2 DEF Past
  <2>4. Kept
    BY <2>1, <2>3, NothingDelivered
  <2>5. StreamTypes'
    BY <1>0, <2>1, <2>2 DEF StreamTypes, Event
  <2>6. StreamLine'
    BY <2>1, <2>2 DEF StreamLine, AtId, AtField, AtData, AtBlank
  <2> QED
    BY <1>0, <2>1, <2>4, <2>5, <2>6 DEF StreamInv, Stream!BodiesClosed
<1>4. CASE Stream!Blank \/ Stream!StreamEnds \/ Stream!StreamCancel \/ Stream!Receive \/ UNCHANGED streamVars
  <2>1. /\ UNCHANGED <<lastEventID, line, currentEvent, bodies, delivered, cut, since>>
        /\ \/ UNCHANGED streaming
           \/ /\ streaming = "reading" /\ streaming' \in {"flush", "last flush", "end flush"}
              /\ streaming' = "flush" => line.kind = "blank"
    BY <1>4 DEF Stream!Blank, Stream!StreamEnds, Stream!StreamCancel, Stream!Receive, streamVars
  <2>2. Kept
    <3>1. CASE streaming = "returned"
      BY <2>1, <3>1 DEF StreamInv, StreamHistory, Past, Stream!Anew, Stream!EventsInOrder, Stream!WholeEvents
    <3>2. CASE streaming # "returned"
      BY <2>1, <3>2, NothingDelivered DEF Past
    <3> QED
      BY <3>1, <3>2
  <2>3. StreamTypes'
    BY <1>0, <2>1 DEF StreamTypes
  <2>4. StreamLine'
    <3>1. (AtId /\ AtField /\ AtData /\ AtBlank) => (AtId /\ AtField /\ AtData /\ AtBlank)'
      BY <2>1 DEF AtId, TornId, AtField, AtData, AtBlank
    <3> QED
      BY <1>0, <2>1, <3>1 DEF StreamLine
  <2> QED
    BY <1>0, <2>1, <2>2, <2>3, <2>4 DEF StreamInv, Stream!BodiesClosed
<1>5. CASE Stream!StreamBreaks
  <2>1. PICK err \in {"canceled", "error"} : Stream!Ended(err)
    BY <1>5 DEF Stream!StreamBreaks
  <2>2. streaming \in {"reading", "torn"} /\ UNCHANGED delivered
    BY <1>5 DEF Stream!StreamBreaks
  <2>3. /\ UNCHANGED <<lastEventID, since>> /\ line' = line /\ bodies' = bodies - 1
        /\ currentEvent' = Stream!noEvent /\ cut \subseteq cut' /\ line.event \in cut'
        /\ streaming' \in {"sleeping", "returned"}
    BY <2>1, StreamEnded
  <2>4. Past' = Past \/ (Past' = Past + 1 /\ Past' \in cut')
    BY <1>0, <2>2, <2>3, PastWhenLeft
  <2>5. Kept
    BY <2>2, <2>3, <2>4, NothingDelivered
  <2>6. delivered' \in Seq(Event)
    BY <1>0, <2>2 DEF StreamTypes
  <2> QED
    BY <1>0, <2>2, <2>3, <2>5, <2>6, ShapeWhenLeft DEF StreamInv
<1>6. CASE Stream!Flush
  <2>0. streaming \in {"flush", "last flush", "end flush"}
    BY <1>6 DEF Stream!Flush
  <2>1. ASSUME NEW err \in {"nil", "canceled", "error"}, Stream!Ended(err), UNCHANGED delivered,
               err = "nil" => currentEvent = Stream!noEvent
        PROVE  StreamInv'
    <3>1. /\ UNCHANGED <<lastEventID, since>> /\ line' = line /\ bodies' = bodies - 1
          /\ currentEvent' = Stream!noEvent /\ cut \subseteq cut'
          /\ err # "nil" => line.event \in cut'
          /\ streaming' \in {"sleeping", "returned"}
      BY <2>1, StreamEnded
    <3>2. err = "nil" => line.kind = "id"
      BY <1>0, <2>0, <2>1, LineOfEvent
    <3>3. Past' = Past \/ (Past' = Past + 1 /\ Past' \in cut')
      BY <1>0, <2>0, <3>1, <3>2, PastWhenLeft
    <3>4. Kept
      BY <2>0, <2>1, <3>1, <3>3, NothingDelivered
    <3>5. delivered' \in Seq(Event)
      BY <1>0, <2>1 DEF StreamTypes
    <3> QED
      BY <1>0, <2>0, <3>1, <3>4, <3>5, ShapeWhenLeft DEF StreamInv
  <2>2. ASSUME NEW err \in {"nil", "canceled"}, Stream!Ended(err), currentEvent # Stream!noEvent, Stream!Takes
        PROVE  StreamInv'
    <3>1. /\ UNCHANGED <<lastEventID, since>> /\ line' = line /\ bodies' = bodies - 1
          /\ currentEvent' = Stream!noEvent /\ cut \subseteq cut' /\ streaming' = "returned"
      BY <2>2, StreamEnded
    <3>2. delivered' \in Seq(Event) /\ Kept
      BY <2>0, <2>2, <3>1, OneDelivered DEF Stream!Takes, Past
    <3> QED
      BY <1>0, <2>0, <3>1, <3>2, ShapeWhenLeft DEF StreamInv
  <2>3. ASSUME streaming = "flush", streaming' = "reading", line' = Stream!NextLine,
               currentEvent' = Stream!noEvent, UNCHANGED <<lastEventID, bodies, cut, since>>, Stream!Takes
        PROVE  StreamInv'
    <3>1. /\ line.kind = "blank" /\ line.event = lastEventID /\ lastEventID > 0
          /\ currentEvent # Stream!noEvent /\ line' = [event |-> lastEventID + 1, kind |-> "id"]
      BY <1>0, <2>3 DEF StreamLine, AtField, Stream!NextLine, Stream!noEvent
    <3>2. delivered' \in Seq(Event) /\ Kept
      BY <2>0, <2>3, <3>1, OneDelivered DEF Stream!Takes, Past
    <3>3. StreamTypes'
      BY <1>0, <2>3, <3>1, <3>2 DEF StreamTypes, Stream!noEvent, Event, Stream!Takes
    <3>4. StreamLine'
      BY <2>3, <3>1 DEF StreamLine, AtId, AtField, AtData, AtBlank
    <3> QED
      BY <1>0, <2>3, <3>2, <3>3, <3>4 DEF StreamInv, Stream!BodiesClosed
  <2>4. streaming = "flush" => currentEvent # Stream!noEvent
    BY <1>0, LineOfEvent DEF StreamLine
  <2> QED
    BY <1>6, <2>1, <2>2, <2>3, <2>4 DEF Stream!Flush, Stream!Refuses
<1>7. CASE Stream!CutLine
  <2>1. /\ streaming = "reading" /\ streaming' \in {"torn", "end flush"} /\ line.kind # "blank"
        /\ line.event <= Events /\ UNCHANGED <<line, bodies, delivered, cut>>
    BY <1>7 DEF Stream!CutLine
  <2>2. ~TornId /\ Stream!BodiesClosed' /\ AtId /\ AtField /\ AtData /\ AtBlank
    BY <1>0, <2>1 DEF TornId, Stream!BodiesClosed, StreamLine
  <2>3. CASE UNCHANGED <<lastEventID, currentEvent, since>>
    <3>1. Kept
      BY <2>1, <2>3, NothingDelivered DEF Past
    <3>2. StreamTypes'
      BY <1>0, <2>1, <2>3 DEF StreamTypes
    <3>3. StreamLine'
      BY <2>1, <2>2, <2>3 DEF StreamLine, AtId, AtField, AtData, AtBlank
    <3> QED
      BY <2>2, <3>1, <3>2, <3>3 DEF StreamInv
  <2>4. CASE /\ line.kind = "id" /\ lastEventID' \in CutIds[line.event]
             /\ currentEvent' = [currentEvent EXCEPT !.id = lastEventID']
             /\ since' = [at |-> Len(delivered), id |-> lastEventID']
    <3>1. lastEventID' \in Nat
      <4>1. line.event = lastEventID + 1 /\ lastEventID \in Nat
        BY <1>0, <2>2, <2>4 DEF AtId, StreamTypes
      <4>2. Events \in Nat /\ CutIds \in [1..Events -> SUBSET Nat]
        BY StreamsConstants
      <4>3. line.event \in 1..Events
        <5>1. line.event = lastEventID + 1 /\ lastEventID \in Nat /\ Events \in Nat /\ line.event <= Events
          BY <2>1, <4>1, <4>2
        <5> QED
          BY ONLY <5>1
      <4> QED
        BY <4>2, <4>3, <2>4
    <3>2. currentEvent' = [id |-> lastEventID', data |-> {}]
      BY <2>2, <2>4 DEF AtId, Stream!noEvent
    <3>3. Len(delivered) \in Nat
      BY <1>0, LenProperties DEF StreamTypes
    <3>4. since'.at = Len(delivered) /\ since'.id = lastEventID' /\ Past' = lastEventID'
      BY <2>1, <2>4 DEF Past
    <3>5. Stream!Anew' = {} /\ (since'.id + 1)..Past' = {}
      <4>1. Stream!Anew' = (Len(delivered) + 1)..Len(delivered)
        BY <2>1, <3>4 DEF Stream!Anew
      <4>2. (since'.id + 1)..Past' = (lastEventID' + 1)..lastEventID'
        BY <3>4
      <4>3. \A m \in Nat : (m + 1)..m = {}
        OBVIOUS
      <4> QED
        BY <4>1, <4>2, <4>3, <3>1, <3>3
    <3>6. Kept
      <4>1. Stream!WholeEvents'
        BY <2>1 DEF StreamInv, Stream!WholeEvents
      <4>2. StreamHistory'
        <5>1. Len(delivered') = Len(delivered)
          BY <2>1
        <5>2. since'.at <= Len(delivered') /\ since'.id <= Past'
          BY ONLY <5>1, <3>1, <3>3, <3>4
        <5> QED
          BY <3>5, <5>2 DEF StreamHistory
      <4>3. Stream!EventsInOrder'
        BY <3>5 DEF Stream!EventsInOrder
      <4> QED
        BY <4>1, <4>2, <4>3
    <3>7. StreamTypes'
      BY <1>0, <2>1, <2>4, <3>1, <3>2, <3>3 DEF StreamTypes, Event
    <3>8. StreamLine'
      BY <2>1, <2>4, <3>2 DEF StreamLine, AtId, TornId, AtField, AtData, AtBlank
    <3> QED
      BY <2>2, <3>6, <3>7, <3>8 DEF StreamInv
  <2>5. CASE /\ line.kind = "data" /\ UNCHANGED <<lastEventID, since>>
             /\ currentEvent' = [currentEvent EXCEPT !.data = @ \cup {Stream!Torn(line.event)}]
    <3>1. Kept
      BY <2>1, <2>5, NothingDelivered DEF Past
    <3>2. /\ line.event = lastEventID /\ lastEventID > 0 /\ lastEventID \in Nat
          /\ currentEvent.id = lastEventID /\ currentEvent.data = {}
      BY <1>0, <2>1, <2>2, <2>5 DEF AtField, AtData, StreamTypes
    <3>3. currentEvent' = [id |-> lastEventID, data |-> {Stream!Torn(lastEventID)}]
      BY <1>0, <2>5, <3>2 DEF StreamTypes, Event
    <3>4. Stream!Torn(lastEventID) \in Int
      BY <3>2 DEF Stream!Torn
    <3>5. StreamTypes'
      <4>1. currentEvent' \in Event
        BY <3>2, <3>3, <3>4 DEF Event
      <4> QED
        BY <1>0, <2>1, <2>5, <4>1 DEF StreamTypes
    <3>6. StreamLine'
      BY <2>1, <2>5, <3>2, <3>3 DEF StreamLine, AtId, AtField, AtData, AtBlank
    <3> QED
      BY <2>2, <3>1, <3>5, <3>6 DEF StreamInv
  <2> QED
    BY <1>7, <2>3, <2>4, <2>5 DEF Stream!CutLine
<1> QED
  BY <1>1, <1>2, <1>3, <1>4, <1>5, <1>6, <1>7 DEF Stream!StreamNext, Stream!StreamStep

\* SSERequest.Stream, across breaks, reconnections and refusals: the handler gets each
\* event once, in order and whole, misses one only when a connection broke in it or
\* the handler had refused it, begins anew only after what a break has left of an id,
\* and every body is closed.
THEOREM EventsSafe == Spec => []EventsWhole
<1>1. Init => StreamInv
  <2> SUFFICES ASSUME Init PROVE StreamInv
    OBVIOUS
  <2>1. /\ streaming = "top" /\ lastEventID = 0 /\ line = [event |-> 1, kind |-> "id"]
        /\ currentEvent = Stream!noEvent /\ bodies = 0 /\ delivered = <<>> /\ since = [at |-> 0, id |-> 0]
    BY DEF Init, Stream!StreamInit
  <2> QED
    BY <2>1, EmptySeq DEF StreamInv, StreamTypes, StreamLine, StreamHistory, Past, Reads, Event, Stream!noEvent,
       Stream!Anew, Stream!EventsInOrder, Stream!WholeEvents, Stream!BodiesClosed
<1>2. StreamInv /\ [Next]_vars => StreamInv'
  BY StreamStep DEF Next, vars, streamVars
<1>3. StreamInv => EventsWhole
  BY DEF StreamInv, EventsWhole
<1> QED
  BY <1>1, <1>2, <1>3, PTL DEF Spec

-------------------------------------------------------------------------------
(***************************************************************************)
(* TCPBridge.  Until its loop is done, what was written in a direction,    *)
(* what the loop has in its hands and what is on the wire are together     *)
(* what was sent; a loop that is done may have lost what it had in hands,  *)
(* and it writes nothing any more.                                         *)
(***************************************************************************)
Unit    == [frame : Nat, part : {"head", "body"}]
Forms   == [frame : Nat, part : {"head", "body"}, form : {"converted", "same", "garbled"}]
Places  == {"check", "read", "write", "done"}

TCPTypes ==
    /\ sent \in [TCP!Directions -> Seq(Unit)] /\ wire \in [TCP!Directions -> Seq(Unit)]
    /\ out \in [TCP!Directions -> Seq(Forms)]
    /\ loop \in [TCP!Directions -> [at : Places, data : Seq(Unit)]]

\* s is what was sent, o was written, h is in the loop's hands, w on the wire.
Written(o, s)       == Len(o) <= Len(s) /\ \A i \in 1..Len(o) : TCP!Bare(o[i]) = s[i]
Pending(o, h, w, s) == /\ Len(s) = Len(o) + Len(h) + Len(w)
                       /\ \A i \in 1..Len(h) : h[i] = s[Len(o) + i]
                       /\ \A i \in 1..Len(w) : w[i] = s[Len(o) + Len(h) + i]

\* Each head that was sent is followed by its body.
Framed(s) == \A i \in 1..Len(s) : s[i].part = "head" => i < Len(s) /\ s[i + 1].part = "body"

\* The heads are converted and nothing else is; the loop holds one whole frame.
Converted(o) == \A i \in 1..Len(o) : o[i].form = IF o[i].part = "head" THEN "converted" ELSE "same"
OneFrame(h)  == Len(h) = 2 /\ h[1].part = "head"

TCPDirection(d) ==
    /\ Written(out[d], sent[d]) /\ Framed(sent[d])
    /\ loop[d].at # "done" => Pending(out[d], loop[d].data, wire[d], sent[d])
    /\ loop[d].at # "write" => loop[d].data = <<>>
    /\ d \in aligned => Converted(out[d]) /\ (loop[d].at = "write" => OneFrame(loop[d].data))

TCPInv == TCPTypes /\ \A d \in TCP!Directions : TCPDirection(d)

\* ProcessData makes as many units as it is given, of the same content and order, and
\* converts the head of a whole frame and nothing else.
LEMMA ConvertsWhole ==
    ASSUME NEW h \in Seq(Unit)
    PROVE  /\ TCP!convertByteOrder(h) \in Seq(Forms)
           /\ Len(TCP!convertByteOrder(h)) = Len(h)
           /\ \A i \in 1..Len(h) : TCP!Bare(TCP!convertByteOrder(h)[i]) = h[i]
           /\ OneFrame(h) /\ h[2].part = "body" => Converted(TCP!convertByteOrder(h))
<1> DEFINE c == TCP!convertByteOrder(h)
<1>1. \A i \in 1..Len(h) : h[i] \in Unit
  BY ElementOfSeq
<1>2. DOMAIN h = 1..Len(h) /\ Len(h) \in Nat
  BY LenProperties
<1>3. /\ DOMAIN c = 1..Len(h)
      /\ \A i \in 1..Len(h) : \E form \in {"converted", "same", "garbled"} :
            c[i] = [frame |-> h[i].frame, part |-> h[i].part, form |-> form]
  BY <1>2 DEF TCP!convertByteOrder, TCP!Written
<1>4. \A i \in 1..Len(h) : c[i] \in Forms /\ TCP!Bare(c[i]) = h[i] /\ c[i].part = h[i].part
  BY <1>1, <1>3 DEF Unit, Forms, TCP!Bare
<1>5. c = [i \in 1..Len(h) |-> c[i]]
  BY <1>2 DEF TCP!convertByteOrder
<1>6. c \in Seq(Forms) /\ Len(c) = Len(h)
  BY <1>2, <1>4, <1>5, IsASeq
<1>7. ASSUME OneFrame(h), h[2].part = "body" PROVE Converted(c)
  <2>1. c[1].form = "converted" /\ c[2].form = "same"
    BY <1>2, <1>7 DEF OneFrame, TCP!convertByteOrder, TCP!ShouldProcess, TCP!Written
  <2> QED
    BY <1>2, <1>4, <1>6, <1>7, <2>1 DEF Converted, OneFrame
<1> QED
  BY <1>4, <1>6, <1>7

\* A peer sends one more frame.
LEMMA SendsFrame ==
    ASSUME NEW o \in Seq(Forms), NEW h \in Seq(Unit), NEW w \in Seq(Unit), NEW s \in Seq(Unit),
           NEW n \in Nat
    PROVE  /\ w \o TCP!Frame(n) \in Seq(Unit) /\ s \o TCP!Frame(n) \in Seq(Unit)
           /\ Written(o, s) => Written(o, s \o TCP!Frame(n))
           /\ Framed(s) => Framed(s \o TCP!Frame(n))
           /\ Pending(o, h, w, s) => Pending(o, h, w \o TCP!Frame(n), s \o TCP!Frame(n))
<1> DEFINE f == TCP!Frame(n)
<1>1. f \in Seq(Unit) /\ Len(f) = 2 /\ f[1].part = "head" /\ f[2].part = "body"
  BY DEF TCP!Frame, Unit
<1>2. Len(o) \in Nat /\ Len(h) \in Nat /\ Len(w) \in Nat /\ Len(s) \in Nat
  BY LenProperties
<1> HIDE DEF f
<1>3. /\ w \o f \in Seq(Unit) /\ Len(w \o f) = Len(w) + Len(f)
      /\ \A i \in 1..Len(w) + Len(f) : (w \o f)[i] = IF i <= Len(w) THEN w[i] ELSE f[i - Len(w)]
  BY <1>1, ConcatProperties
<1>4. /\ s \o f \in Seq(Unit) /\ Len(s \o f) = Len(s) + Len(f)
      /\ \A i \in 1..Len(s) + Len(f) : (s \o f)[i] = IF i <= Len(s) THEN s[i] ELSE f[i - Len(s)]
  BY <1>1, ConcatProperties
<1>5. Written(o, s) => Written(o, s \o f)
  BY <1>2, <1>4 DEF Written
<1>6. Framed(s) => Framed(s \o f)
  BY <1>1, <1>2, <1>4 DEF Framed
<1>7. ASSUME Pending(o, h, w, s) PROVE Pending(o, h, w \o f, s \o f)
  <2>1. Len(s) = Len(o) + Len(h) + Len(w)
    BY <1>7 DEF Pending
  <2>2. \A i \in 1..Len(h) : h[i] = (s \o f)[Len(o) + i]
    BY <1>2, <1>4, <1>7, <2>1 DEF Pending
  <2>3. ASSUME NEW i \in 1..Len(w \o f) PROVE (w \o f)[i] = (s \o f)[Len(o) + Len(h) + i]
    <3>0. i \in 1..Len(w) + 2 /\ Len(o) + Len(h) + i \in 1..Len(s) + 2
      BY <1>1, <1>2, <1>3, <2>1
    <3>1. CASE i <= Len(w)
      <4>1. (w \o f)[i] = w[i] /\ w[i] = s[Len(o) + Len(h) + i]
        BY <1>1, <1>2, <1>3, <1>7, <3>0, <3>1 DEF Pending
      <4>2. Len(o) + Len(h) + i <= Len(s)
        BY <1>2, <2>1, <3>1
      <4> QED
        BY <1>1, <1>4, <3>0, <4>1, <4>2
    <3>2. CASE ~(i <= Len(w))
      <4>1. (w \o f)[i] = f[i - Len(w)]
        BY <1>1, <1>2, <1>3, <3>0, <3>2
      <4> DEFINE k == Len(o) + Len(h) + i
      <4>2. k \in 1..(Len(s) + Len(f)) /\ ~(k <= Len(s)) /\ k - Len(s) = i - Len(w)
        BY <1>1, <1>2, <2>1, <3>0, <3>2
      <4> HIDE DEF k
      <4>3. (s \o f)[k] = f[i - Len(w)]
        BY <1>4, <4>2
      <4> QED
        BY <4>1, <4>3 DEF k
    <3> QED
      BY <3>1, <3>2
  <2> QED
    BY <1>1, <1>2, <1>3, <1>4, <2>1, <2>2, <2>3 DEF Pending
<1> QED
  BY <1>3, <1>4, <1>5, <1>6, <1>7 DEF f

\* A read takes some of what is on the wire, a write what the loop has read.
LEMMA ReadsSome ==
    ASSUME NEW o \in Seq(Forms), NEW w \in Seq(Unit), NEW s \in Seq(Unit), NEW n \in 1..Len(w),
           Pending(o, <<>>, w, s)
    PROVE  /\ SubSeq(w, 1, n) \in Seq(Unit) /\ SubSeq(w, n + 1, Len(w)) \in Seq(Unit)
           /\ Len(SubSeq(w, 1, n)) = n
           /\ Pending(o, SubSeq(w, 1, n), SubSeq(w, n + 1, Len(w)), s)
<1> DEFINE h == SubSeq(w, 1, n)
<1> DEFINE v == SubSeq(w, n + 1, Len(w))
<1>1. Len(o) \in Nat /\ Len(w) \in Nat /\ n \in Nat /\ n <= Len(w) /\ \A i \in 1..Len(w) : w[i] \in Unit
  BY LenProperties, ElementOfSeq
<1>2. h \in Seq(Unit) /\ Len(h) = n /\ \A i \in 1..n : h[i] = w[i]
  BY <1>1, SubSeqProperties
<1>3. v \in Seq(Unit) /\ Len(v) = Len(w) - n /\ \A i \in 1..(Len(w) - n) : v[i] = w[n + i]
  BY <1>1, SubSeqProperties
<1>4. Len(s) = Len(o) + Len(w) /\ \A i \in 1..Len(w) : w[i] = s[Len(o) + i]
  BY <1>1 DEF Pending
<1> HIDE DEF h, v
<1>5. Pending(o, h, v, s)
  <2>1. Len(s) = Len(o) + Len(h) + Len(v) /\ \A i \in 1..Len(h) : h[i] = s[Len(o) + i]
    BY <1>1, <1>2, <1>3, <1>4
  <2>2. ASSUME NEW i \in 1..Len(v) PROVE v[i] = s[Len(o) + Len(h) + i]
    <3>1. n + i \in 1..Len(w) /\ v[i] = w[n + i]
      BY <1>1, <1>3
    <3> QED
      BY <1>1, <1>2, <1>4, <3>1
  <2> QED
    BY <2>1, <2>2 DEF Pending
<1> QED
  BY <1>2, <1>3, <1>5 DEF h, v

LEMMA WritesAll ==
    ASSUME NEW o \in Seq(Forms), NEW h \in Seq(Unit), NEW w \in Seq(Unit), NEW s \in Seq(Unit),
           Written(o, s), Pending(o, h, w, s)
    PROVE  LET p == o \o TCP!convertByteOrder(h)
           IN  /\ p \in Seq(Forms) /\ Written(p, s) /\ Pending(p, <<>>, w, s)
               /\ Converted(o) /\ OneFrame(h) /\ Framed(s) => Converted(p)
<1> DEFINE c == TCP!convertByteOrder(h)
<1> DEFINE p == o \o c
<1>1. /\ c \in Seq(Forms) /\ Len(c) = Len(h)
      /\ \A i \in 1..Len(h) : TCP!Bare(c[i]) = h[i]
      /\ OneFrame(h) /\ h[2].part = "body" => Converted(c)
  BY ConvertsWhole
<1>2. Len(o) \in Nat /\ Len(h) \in Nat /\ Len(w) \in Nat /\ Len(s) \in Nat
  BY LenProperties
<1> HIDE DEF c
<1>30. /\ o \o c \in Seq(Forms) /\ Len(o \o c) = Len(o) + Len(c)
      /\ \A i \in 1..Len(o) + Len(c) : (o \o c)[i] = IF i <= Len(o) THEN o[i] ELSE c[i - Len(o)]
  BY <1>1, ConcatProperties
<1>3. /\ p \in Seq(Forms) /\ Len(p) = Len(o) + Len(h)
      /\ \A i \in 1..Len(o) + Len(h) : p[i] = IF i <= Len(o) THEN o[i] ELSE c[i - Len(o)]
  BY <1>1, <1>30
<1> HIDE DEF p
<1>4. Written(p, s)
  <2>1. Len(p) <= Len(s)
    BY <1>2, <1>3 DEF Pending
  <2>2. ASSUME NEW i \in 1..Len(p) PROVE TCP!Bare(p[i]) = s[i]
    <3>1. CASE i <= Len(o)
      <4>1. p[i] = o[i] /\ i \in 1..Len(o)
        BY <1>2, <1>3, <3>1
      <4> QED
        BY <4>1 DEF Written
    <3>2. CASE i > Len(o)
      <4>1. i - Len(o) \in 1..Len(h) /\ i = Len(o) + (i - Len(o))
        BY <1>2, <1>3, <3>2
      <4>2. p[i] = c[i - Len(o)]
        BY <1>2, <1>3, <3>2
      <4>3. h[i - Len(o)] = s[Len(o) + (i - Len(o))]
        BY <4>1 DEF Pending
      <4> QED
        BY <1>1, <4>1, <4>2, <4>3
    <3> QED
      BY <1>2, <1>3, <3>1, <3>2
  <2> QED
    BY <2>1, <2>2 DEF Written
<1>5. Pending(p, <<>>, w, s)
  BY <1>2, <1>3 DEF Pending
<1>6. ASSUME Converted(o), OneFrame(h), Framed(s) PROVE Converted(p)
  <2>1. s[Len(o) + 1] = h[1] /\ s[Len(o) + 2] = h[2] /\ Len(o) + 1 <= Len(s) /\ Len(h) = 2
    BY <1>2, <1>6 DEF OneFrame, Pending
  <2>2. h[2].part = "body"
    BY <1>2, <1>6, <2>1 DEF Framed, OneFrame
  <2>3. Converted(c)
    BY <1>1, <1>6, <2>2
  <2>4. ASSUME NEW i \in 1..Len(p)
        PROVE  p[i].form = IF p[i].part = "head" THEN "converted" ELSE "same"
    <3>1. CASE i <= Len(o)
      <4>1. p[i] = o[i] /\ i \in 1..Len(o)
        BY <1>2, <1>3, <3>1
      <4> QED
        BY <1>6, <4>1 DEF Converted
    <3>2. CASE i > Len(o)
      <4>1. p[i] = c[i - Len(o)] /\ i - Len(o) \in 1..Len(c)
        BY <1>1, <1>2, <1>3, <3>2
      <4> QED
        BY <2>3, <4>1 DEF Converted
    <3> QED
      BY <1>2, <1>3, <3>1, <3>2
  <2> QED
    BY <2>4 DEF Converted
<1> QED
  BY <1>3, <1>4, <1>5, <1>6 DEF p, c

\* A step of one direction leaves the other as it is.
LEMMA OneDirection ==
    ASSUME TCPInv, TCPTypes', NEW d \in TCP!Directions, TCPDirection(d)',
           \A e \in TCP!Directions : e # d =>
              /\ out'[e] = out[e] /\ sent'[e] = sent[e] /\ wire'[e] = wire[e] /\ loop'[e] = loop[e]
              /\ e \in aligned' => e \in aligned
    PROVE  TCPInv'
<1> SUFFICES ASSUME NEW e \in TCP!Directions, e # d PROVE TCPDirection(e)'
  BY DEF TCPInv
<1> QED
  BY DEF TCPInv, TCPDirection

\* A step of Start, Close, a peer or a loop keeps the invariant.
LEMMA TCPStep == TCPInv /\ [TCP!TCPNext]_tcpVars => TCPInv'
<1> SUFFICES ASSUME TCPInv, [TCP!TCPNext]_tcpVars PROVE TCPInv'
  OBVIOUS
<1> USE DEF TCP!loopVars
<1>0. TCPTypes
  BY DEF TCPInv
<1>1. CASE TCP!Start \/ TCP!Close \/ TCP!StartReturns \/ UNCHANGED tcpVars
  <2>1. UNCHANGED <<out, sent, wire, loop, aligned>>
    BY <1>1 DEF TCP!Start, TCP!Close, TCP!StartReturns, tcpVars
  <2> QED
    BY <2>1 DEF TCPInv, TCPTypes, TCPDirection
<1>2. ASSUME NEW d \in TCP!Directions, TCP!PeerClose(d) PROVE TCPInv'
  <2>1. UNCHANGED <<out, sent, wire, loop, aligned>>
    BY <1>2 DEF TCP!PeerClose
  <2> QED
    BY <2>1 DEF TCPInv, TCPTypes, TCPDirection
<1>3. ASSUME NEW d \in TCP!Directions, TCP!Send(d) PROVE TCPInv'
  <2>1. PICK n \in Nat : /\ wire' = [wire EXCEPT ![d] = @ \o TCP!Frame(n)]
                         /\ sent' = [sent EXCEPT ![d] = @ \o TCP!Frame(n)]
    <3>1. sent[d] \in Seq(Unit) /\ Len(sent[d]) \in Nat
      BY <1>0, LenProperties DEF TCPTypes
    <3>2. \A m \in Nat : (m \div 2) + 1 \in Nat
      OBVIOUS
    <3>3. (Len(sent[d]) \div 2) + 1 \in Nat
      BY <3>1, <3>2
    <3> QED
      BY <1>3, <3>3 DEF TCP!Send
  <2>2. UNCHANGED <<out, loop, aligned>>
    BY <1>3 DEF TCP!Send
  <2>3. /\ out[d] \in Seq(Forms) /\ loop[d].data \in Seq(Unit) /\ wire[d] \in Seq(Unit)
        /\ sent[d] \in Seq(Unit)
    BY <1>0 DEF TCPTypes
  <2>4. /\ wire[d] \o TCP!Frame(n) \in Seq(Unit) /\ sent[d] \o TCP!Frame(n) \in Seq(Unit)
        /\ Written(out[d], sent[d]) => Written(out[d], sent[d] \o TCP!Frame(n))
        /\ Framed(sent[d]) => Framed(sent[d] \o TCP!Frame(n))
        /\ Pending(out[d], loop[d].data, wire[d], sent[d]) =>
              Pending(out[d], loop[d].data, wire[d] \o TCP!Frame(n), sent[d] \o TCP!Frame(n))
    BY <2>3, SendsFrame
  <2>5. /\ wire'[d] = wire[d] \o TCP!Frame(n) /\ sent'[d] = sent[d] \o TCP!Frame(n)
        /\ \A e \in TCP!Directions : e # d => sent'[e] = sent[e] /\ wire'[e] = wire[e]
    BY <1>0, <2>1 DEF TCPTypes
  <2>6. TCPTypes'
    BY <1>0, <2>1, <2>2, <2>4 DEF TCPTypes
  <2>7. TCPDirection(d)'
    BY <2>2, <2>4, <2>5 DEF TCPInv, TCPDirection
  <2> QED
    BY <2>2, <2>5, <2>6, <2>7, OneDirection
<1>4. ASSUME NEW d \in TCP!Directions, TCP!Check(d) \/ TCP!ReadTimeout(d) \/ TCP!ReadEnds(d) \/ TCP!WriteFails(d)
      PROVE  TCPInv'
  <2>1. PICK place \in Places :
           /\ loop' = [loop EXCEPT ![d] = [at |-> place, data |-> <<>>]] /\ place # "write"
           /\ loop[d].at \in {"check", "read"} \/ (place = "done" /\ loop[d].at = "write")
    BY <1>4 DEF TCP!Check, TCP!ReadTimeout, TCP!ReadEnds, TCP!WriteFails, TCP!Goto, Places
  <2>2. UNCHANGED <<out, sent, wire, aligned>>
    BY <1>4 DEF TCP!Check, TCP!ReadTimeout, TCP!ReadEnds, TCP!WriteFails
  <2>3. /\ loop'[d].at = place /\ loop'[d].data = <<>>
        /\ \A e \in TCP!Directions : e # d => loop'[e] = loop[e]
    BY <1>0, <2>1 DEF TCPTypes
  <2>4. TCPTypes'
    BY <1>0, <2>1, <2>2, EmptySeq DEF TCPTypes
  <2>5. TCPDirection(d)'
    BY <2>1, <2>2, <2>3 DEF TCPInv, TCPDirection
  <2> QED
    BY <2>2, <2>3, <2>4, <2>5, OneDirection
<1>5. ASSUME NEW d \in TCP!Directions, TCP!Read(d) PROVE TCPInv'
  <2>1. PICK n \in 1..BufferSize :
           /\ n <= Len(wire[d])
           /\ loop' = [loop EXCEPT ![d] = [at |-> "write", data |-> SubSeq(wire[d], 1, n)]]
           /\ aligned' = IF n = 2 /\ SubSeq(wire[d], 1, n)[1].part = "head" THEN aligned ELSE aligned \ {d}
           /\ wire' = [wire EXCEPT ![d] = SubSeq(@, n + 1, Len(@))]
    BY <1>5 DEF TCP!Read
  <2>2. UNCHANGED <<out, sent>> /\ loop[d].at = "read"
    BY <1>5 DEF TCP!Read
  <2>3. /\ out[d] \in Seq(Forms) /\ wire[d] \in Seq(Unit) /\ sent[d] \in Seq(Unit)
        /\ n \in 1..Len(wire[d])
    <3>1. out[d] \in Seq(Forms) /\ wire[d] \in Seq(Unit) /\ sent[d] \in Seq(Unit)
      BY <1>0 DEF TCPTypes
    <3>2. Len(wire[d]) \in Nat
      BY <3>1, LenProperties
    <3> QED
      BY <2>1, <3>1, <3>2, StreamsConstants
  <2>4. Pending(out[d], <<>>, wire[d], sent[d])
    BY <2>2 DEF TCPInv, TCPDirection
  <2>5. /\ SubSeq(wire[d], 1, n) \in Seq(Unit) /\ SubSeq(wire[d], n + 1, Len(wire[d])) \in Seq(Unit)
        /\ Len(SubSeq(wire[d], 1, n)) = n
        /\ Pending(out[d], SubSeq(wire[d], 1, n), SubSeq(wire[d], n + 1, Len(wire[d])), sent[d])
    BY <2>3, <2>4, ReadsSome
  <2>6. /\ loop'[d].at = "write" /\ loop'[d].data = SubSeq(wire[d], 1, n)
        /\ wire'[d] = SubSeq(wire[d], n + 1, Len(wire[d]))
        /\ \A e \in TCP!Directions : e # d => loop'[e] = loop[e] /\ wire'[e] = wire[e]
    BY <1>0, <2>1 DEF TCPTypes
  <2>7. TCPTypes'
    BY <1>0, <2>1, <2>2, <2>5 DEF TCPTypes, Places
  <2>8. TCPDirection(d)'
    <3>1. d \in aligned' => d \in aligned /\ OneFrame(SubSeq(wire[d], 1, n))
      BY <2>1, <2>5 DEF OneFrame
    <3> QED
      BY <2>2, <2>5, <2>6, <3>1 DEF TCPInv, TCPDirection
  <2> QED
    BY <2>1, <2>2, <2>6, <2>7, <2>8, OneDirection
<1>6. ASSUME NEW d \in TCP!Directions, TCP!Write(d) PROVE TCPInv'
  <2> DEFINE p == out[d] \o TCP!convertByteOrder(loop[d].data)
  <2>1. /\ out' = [out EXCEPT ![d] = p] /\ loop' = [loop EXCEPT ![d] = [at |-> "check", data |-> <<>>]]
        /\ UNCHANGED <<sent, wire, aligned>> /\ loop[d].at = "write"
    BY <1>6 DEF TCP!Write, TCP!Goto
  <2>2. /\ out[d] \in Seq(Forms) /\ loop[d].data \in Seq(Unit) /\ wire[d] \in Seq(Unit)
        /\ sent[d] \in Seq(Unit)
    BY <1>0 DEF TCPTypes
  <2>3. /\ Written(out[d], sent[d]) /\ Pending(out[d], loop[d].data, wire[d], sent[d]) /\ Framed(sent[d])
        /\ d \in aligned => Converted(out[d]) /\ OneFrame(loop[d].data)
    BY <2>1 DEF TCPInv, TCPDirection
  <2>4. /\ p \in Seq(Forms) /\ Written(p, sent[d]) /\ Pending(p, <<>>, wire[d], sent[d])
        /\ d \in aligned => Converted(p)
    BY <2>2, <2>3, WritesAll
  <2> HIDE DEF p
  <2>5. /\ loop'[d].at = "check" /\ loop'[d].data = <<>> /\ out'[d] = p
        /\ \A e \in TCP!Directions : e # d => loop'[e] = loop[e] /\ out'[e] = out[e]
    BY <1>0, <2>1 DEF TCPTypes
  <2>6. TCPTypes'
    BY <1>0, <2>1, <2>4, EmptySeq DEF TCPTypes, Places
  <2>7. TCPDirection(d)'
    BY <2>1, <2>3, <2>4, <2>5 DEF TCPDirection
  <2> QED
    BY <2>1, <2>5, <2>6, <2>7, OneDirection
<1> QED
  BY <1>1, <1>2, <1>3, <1>4, <1>5, <1>6 DEF TCP!TCPNext, TCP!Loop

\* ProtocolAwareBridge, whatever its reads, writes and peers do and whenever it is
\* closed: what is written in a direction is a prefix of what was sent in it, and
\* where reads are of whole frames the heads are converted and nothing else is.
THEOREM TCPSafe == Spec => []ForwardedInOrder
<1>1. Init => TCPInv
  <2> SUFFICES ASSUME Init PROVE TCPInv
    OBVIOUS
  <2>1. /\ wire = [d \in TCP!Directions |-> <<>>] /\ out = [d \in TCP!Directions |-> <<>>]
        /\ sent = [d \in TCP!Directions |-> <<>>]
        /\ loop = [d \in TCP!Directions |-> [at |-> "check", data |-> <<>>]]
    BY DEF Init, TCP!TCPInit
  <2>2. TCPTypes
    BY <2>1, EmptySeq DEF TCPTypes, Places
  <2>3. ASSUME NEW d \in TCP!Directions PROVE TCPDirection(d)
    BY <2>1 DEF TCPDirection, Written, Framed, Pending, Converted
  <2> QED
    BY <2>2, <2>3 DEF TCPInv
<1>2. TCPInv /\ [Next]_vars => TCPInv'
  BY TCPStep DEF Next, vars, tcpVars
<1>3. TCPInv => ForwardedInOrder
  <2> SUFFICES ASSUME TCPInv, NEW d \in TCP!Directions
               PROVE  /\ TCP!IsPrefix([i \in DOMAIN out[d] |-> TCP!Bare(out[d][i])], sent[d])
                      /\ d \in aligned => \A i \in DOMAIN out[d] :
                            out[d][i].form = IF out[d][i].part = "head" THEN "converted" ELSE "same"
    BY DEF ForwardedInOrder, TCP!ForwardedInOrder
  <2> DEFINE b == [i \in DOMAIN out[d] |-> TCP!Bare(out[d][i])]
  <2>1. /\ DOMAIN out[d] = 1..Len(out[d]) /\ Len(out[d]) \in Nat /\ Len(sent[d]) \in Nat
        /\ sent[d] \in Seq(Unit) /\ \A i \in 1..Len(sent[d]) : sent[d][i] \in Unit
    <3>1. out[d] \in Seq(Forms) /\ sent[d] \in Seq(Unit)
      BY DEF TCPInv, TCPTypes
    <3> QED
      BY <3>1, LenProperties, ElementOfSeq
  <2>2. Written(out[d], sent[d]) /\ (d \in aligned => Converted(out[d]))
    BY DEF TCPInv, TCPDirection
  <2>3. b \in Seq(Unit) /\ Len(b) = Len(out[d]) /\ \A i \in 1..Len(out[d]) : b[i] = sent[d][i]
    <3>1. \A i \in 1..Len(out[d]) : TCP!Bare(out[d][i]) = sent[d][i] /\ i \in 1..Len(sent[d])
      BY <2>1, <2>2 DEF Written
    <3>2. b = [i \in 1..Len(out[d]) |-> TCP!Bare(out[d][i])]
      BY <2>1
    <3>3. \A i \in 1..Len(out[d]) : TCP!Bare(out[d][i]) \in Unit
      BY <2>1, <3>1
    <3> HIDE DEF b
    <3>4. b \in Seq(Unit) /\ Len(b) = Len(out[d])
      BY <2>1, <3>2, <3>3, IsASeq
    <3> QED
      BY <3>1, <3>2, <3>4
  <2> HIDE DEF b
  <2>4. Len(b) <= Len(sent[d])
    BY <2>2, <2>3 DEF Written
  <2>5. SubSeq(b, 1, Len(b)) = SubSeq(sent[d], 1, Len(b))
    <3>1. \A i \in 1..Len(b) : b[i] \in Unit /\ sent[d][i] \in Unit /\ b[i] = sent[d][i]
      BY <2>1, <2>3, <2>4
    <3>2. /\ SubSeq(b, 1, Len(b)) \in Seq(Unit) /\ Len(SubSeq(b, 1, Len(b))) = Len(b)
          /\ \A i \in 1..Len(b) : SubSeq(b, 1, Len(b))[i] = b[i]
      BY <2>1, <2>3, <3>1, SubSeqProperties
    <3>3. /\ SubSeq(sent[d], 1, Len(b)) \in Seq(Unit) /\ Len(SubSeq(sent[d], 1, Len(b))) = Len(b)
          /\ \A i \in 1..Len(b) : SubSeq(sent[d], 1, Len(b))[i] = sent[d][i]
      BY <2>1, <2>3, <3>1, SubSeqProperties
    <3> QED
      BY <3>1, <3>2, <3>3, SeqEqual
  <2> QED
    BY <2>1, <2>2, <2>4, <2>5 DEF b, TCP!IsPrefix, Converted
<1> QED
  BY <1>1, <1>2, <1>3, PTL DEF Spec

===============================================================================
