------------------------------ MODULE MCStreams -------------------------------
(***************************************************************************)
(* The connections that live long, for TLC: the TCP bridge of gnet/forward *)
(* and the event streams and WebSockets of gclient.  They share no state:  *)
(* the initial state picks the one that runs, part, and the others stay as *)
(* they were made.                                                         *)
(***************************************************************************)
EXTENDS Integers, Sequences, FiniteSets

CONSTANTS MaxFrames, BufferSize,  \* TCPBridge
          Events, CutIds, Buffer, \* EventStream
          Senders,                \* WebSocket
          MaxRetries, MaxReconnects  \* EventStream and WebSocket

\* Zero stands for no connection and for no sender.
ASSUME StreamsConstants ==
    /\ MaxFrames \in Nat /\ BufferSize \in Nat /\ Events \in Nat /\ Buffer \in Nat
    /\ CutIds \in [1..Events -> SUBSET Nat]
    /\ MaxRetries \subseteq Int /\ MaxReconnects \in Nat
    /\ 0 \notin Senders

VARIABLES part,
          started, closed, conns, timeout, wire, gone, loop, out, sent, aligned,
          how, streaming, retries, lastEventID, line, currentEvent, bodies, channel,
          cancelled, result, delivered, cut, since,
          pingInterval, reconnect, maxRetries, phase, redials, dialled, open, conn, connMu, sending,
          hearts, done, over, refused

tcpVars    == <<started, closed, conns, timeout, wire, gone, loop, out, sent, aligned>>
streamVars == <<how, streaming, retries, lastEventID, line, currentEvent, bodies, channel,
                cancelled, result, delivered, cut, since>>
socketVars == <<pingInterval, reconnect, maxRetries, phase, redials, dialled, open, conn,
                connMu, sending, hearts, done, over, refused>>
vars       == <<part, tcpVars, streamVars, socketVars>>

\* The ids of the three events are 1, 11 and 12.
MCCutIds == <<{0}, {0, 1}, {0, 1}>>

TCP    == INSTANCE TCPBridge
Stream == INSTANCE EventStream WITH phase <- streaming
Socket == INSTANCE WebSocket WITH retries <- redials, cancelled <- over

Init ==
    /\ part \in {"tcp", "stream", "socket"}
    /\ TCP!TCPInit /\ (part # "tcp" => ~timeout)
    /\ Stream!StreamInit
    /\ part # "stream" => how = [channel |-> FALSE, reconnect |-> FALSE, timeout |-> FALSE,
                                 maxRetries |-> CHOOSE n \in MaxRetries : TRUE]
    /\ Socket!SocketInit
    /\ part # "socket" => ~pingInterval /\ ~reconnect /\ maxRetries = CHOOSE n \in MaxRetries : TRUE

Next ==
    \/ part = "tcp" /\ TCP!TCPNext /\ UNCHANGED <<part, streamVars, socketVars>>
    \/ part = "stream" /\ Stream!StreamNext /\ UNCHANGED <<part, tcpVars, socketVars>>
    \/ part = "socket" /\ Socket!SocketNext /\ UNCHANGED <<part, tcpVars, streamVars>>

\* The fairness of the three modules, each for the behaviours that use it.
Fairness ==
    /\ \A d \in TCP!Directions : WF_tcpVars(part = "tcp" /\ TCP!Loop(d))
    /\ WF_tcpVars(part = "tcp" /\ TCP!StartReturns)
    /\ WF_streamVars(/\ part = "stream"
                     /\ Stream!Attempt \/ Stream!Connected \/ Stream!TopCancelled \/ Stream!Sleep)
    /\ WF_streamVars(part = "stream" /\ Stream!Flush)
    /\ WF_streamVars(part = "stream" /\ cancelled /\ Stream!StreamBreaks)
    /\ SF_socketVars(part = "socket" /\ Socket!ConnectStep)
    /\ \A s \in Senders : WF_socketVars(part = "socket" /\ Socket!EndSend(s))
    /\ \A c \in 1..(MaxReconnects + 1) : WF_socketVars(part = "socket" /\ Socket!HeartStops(c))

Spec == Init /\ [][Next]_vars /\ Fairness

-------------------------------------------------------------------------------
\* TCPBridge (forwardWithProtocol): what is written in a direction is what was sent,
\* in its order and without a gap, whatever failed; and where reads are of whole
\* frames, the heads are converted and nothing else is.
ForwardedInOrder == TCP!ForwardedInOrder

\* EventStream (handleSSEStream, prepareRequest): across breaks and reconnections the
\* handler gets each event once and in order, whole and of one event only, and misses
\* one only when a connection broke in it or the handler had refused it; a connection
\* that breaks in an id has it all begin anew after what is left of that id, and nothing
\* else does; every body is closed before the next attempt and when Stream returns.
EventsWhole == Stream!EventsInOrder /\ Stream!WholeEvents /\ Stream!BodiesClosed

\* WebSocket (Connect, SendMessage, Close): never more than one connection is open,
\* w.conn is none other, none is left when Connect has returned; and no connection is
\* closed under a message that is being written, but when OnConnect refused it.
SocketSound == Socket!OneConnection /\ Socket!WritesUndisturbed

\* What is told to end ends: Start of a bridge that is closed, or whose peers have
\* both closed, returns with nothing open; Stream returns after its context is over,
\* even while it waits to reconnect or for a channel nobody reads; and so does
\* Connect, whose heartbeat stops first so that the read of a silent peer ends.
ReturnsWhenTold ==
    /\ TCP!ClosedBridgeReturns
    /\ Stream!StreamCancelReturns
    /\ Socket!ConnectReturns

===============================================================================
