------------------------------- MODULE WebSocket -------------------------------
(***************************************************************************)
(* gclient/websocket.go: WebSocketRequest.Connect, the heartbeat of each   *)
(* connection, and goroutines that send, ping or close meanwhile.          *)
(* Connections are numbered as they are dialled; the peer and the network  *)
(* are external: a connection can break, and a Read that hears nothing     *)
(* ends at its deadline, which the answers to the heartbeat put off.       *)
(***************************************************************************)
EXTENDS Integers

CONSTANTS Senders,       \* goroutines that call SendMessage, Ping or Close
          MaxRetries,    \* the values of maxRetries
          MaxReconnects  \* bound: reconnections, where maxRetries does not limit them

VARIABLES pingInterval, \* SetPingInterval was given a positive one
          reconnect, maxRetries,
          phase,     \* of Connect: "top", "connected", "refused", "reading",
                     \* "left", "unset", "sleeping", "returned"
          retries,
          dialled,   \* number of connections; the last one is Connect's
          open,      \* the connections that are open
          conn,      \* w.conn, 0 for nil
          connMu,    \* the sender that holds the lock, 0 for none
          sending,   \* the connection each sender writes on, 0 for none
          hearts,    \* the connections whose heartbeat goroutine runs
          done,      \* the connections whose done channel is closed
          cancelled, \* the context given to Connect
          refused    \* history: errors of hooks and handlers were reported

socketVars == <<pingInterval, reconnect, maxRetries, phase, retries, dialled, open, conn, connMu, sending,
                hearts, done, cancelled, refused>>
config == <<pingInterval, reconnect, maxRetries>>
sender == <<connMu, sending>>

SocketInit ==
    /\ pingInterval \in BOOLEAN /\ reconnect \in BOOLEAN /\ maxRetries \in MaxRetries
    /\ phase = "top" /\ retries = 0 /\ dialled = 0 /\ open = {} /\ conn = 0
    /\ connMu = 0 /\ sending = [s \in Senders |-> 0]
    /\ hearts = {} /\ done = {} /\ cancelled = FALSE /\ refused = FALSE

SocketCancel ==
    /\ ~cancelled /\ phase # "returned" /\ cancelled' = TRUE
    /\ UNCHANGED <<config, phase, retries, dialled, open, conn, sender, hearts, done, refused>>

-------------------------------------------------------------------------------
shouldReconnect == reconnect /\ (maxRetries <= 0 \/ retries < maxRetries)

\* The hooks and the error are done: sleep and dial again, or return.
Again ==
    IF shouldReconnect THEN phase' = "sleeping" /\ retries' = retries + 1
    ELSE phase' = "returned" /\ UNCHANGED retries

\* Bound: after MaxReconnects reconnections nothing is dialled any more.
Try == ~cancelled /\ retries <= MaxReconnects

SocketTop ==
    /\ phase = "top" /\ (cancelled \/ Try)
    /\ IF cancelled THEN phase' = "returned" /\ UNCHANGED retries ELSE Again   \* DialContext fails
    /\ UNCHANGED <<config, dialled, open, conn, sender, hearts, done, cancelled, refused>>

\* DialContext answers, and setConn takes the lock.
Dial ==
    /\ phase = "top" /\ Try /\ connMu = 0
    /\ dialled' = dialled + 1 /\ open' = open \cup {dialled'} /\ conn' = dialled'
    /\ phase' = "connected"
    /\ UNCHANGED <<config, retries, sender, hearts, done, cancelled, refused>>

\* The hooks OnConnect: one that refuses has the connection closed, and then
\* forgotten under the lock.  Mutant: it is only forgotten.
Hooks_Forget ==
    /\ phase = "connected"
    /\ \/ /\ phase' = "reading" /\ UNCHANGED refused
          /\ hearts' = IF pingInterval THEN hearts \cup {dialled} ELSE hearts
       \/ phase' = "refused" /\ refused' = TRUE /\ UNCHANGED hearts
    /\ UNCHANGED <<config, retries, dialled, open, conn, sender, done, cancelled>>

Hooks ==
    /\ phase = "connected"
    /\ \/ /\ phase' = "reading" /\ UNCHANGED <<open, refused>>
          /\ hearts' = IF pingInterval THEN hearts \cup {dialled} ELSE hearts
       \/ phase' = "refused" /\ open' = open \ {dialled} /\ refused' = TRUE /\ UNCHANGED hearts
    /\ UNCHANGED <<config, retries, dialled, conn, sender, done, cancelled>>

Forget ==
    /\ phase = "refused" /\ connMu = 0
    /\ conn' = 0 /\ Again
    /\ UNCHANGED <<config, dialled, open, sender, hearts, done, cancelled, refused>>

\* handleWebSocketConnection leaves its loop: the read failed or hit its deadline,
\* the handler returned an error, or a message came and the context is over.
Leave ==
    /\ phase' = "left" /\ done' = done \cup {dialled}
    /\ UNCHANGED <<config, retries, dialled, open, conn, sender, hearts, cancelled, refused>>

ReadFails == phase = "reading" /\ Leave
Deadline  == phase = "reading" /\ dialled \notin hearts /\ Leave
Message   == phase = "reading" /\ cancelled /\ Leave

\* Connect: setConn(nil), Close, the hooks, and what follows from the error.  The
\* error of a context ends Connect, any other may be tried again.
Unset ==
    /\ phase = "left" /\ connMu = 0
    /\ conn' = 0 /\ phase' = "unset"
    /\ UNCHANGED <<config, retries, dialled, open, sender, hearts, done, cancelled, refused>>

CloseConn ==
    /\ phase = "unset"
    /\ open' = open \ {dialled}
    /\ \/ Again
       \/ cancelled /\ phase' = "returned" /\ UNCHANGED retries
    /\ UNCHANGED <<config, dialled, conn, sender, hearts, done, cancelled, refused>>

SocketSleep ==
    /\ phase = "sleeping"
    /\ phase' = IF cancelled THEN "returned" ELSE "top"
    /\ UNCHANGED <<config, retries, dialled, open, conn, sender, hearts, done, cancelled, refused>>

-------------------------------------------------------------------------------
\* startHeartbeat: it pings until the context is over or done is closed.
\* Mutant: it only watches done.
HeartStops_AtDone(c) ==
    /\ c \in hearts /\ c \in done
    /\ hearts' = hearts \ {c}
    /\ UNCHANGED <<config, phase, retries, dialled, open, conn, sender, done, cancelled, refused>>

HeartStops(c) ==
    /\ c \in hearts /\ (cancelled \/ c \in done)
    /\ hearts' = hearts \ {c}
    /\ UNCHANGED <<config, phase, retries, dialled, open, conn, sender, done, cancelled, refused>>

\* SendMessage, WriteJSON, Ping and WritePong hold the lock while they write on
\* the connection of the moment; Close closes and forgets it.
\* Mutant: the lock is let go before the write.
StartSend_Unlocked(s) ==
    /\ sending[s] = 0 /\ connMu = 0 /\ conn # 0
    /\ connMu' = 0 /\ sending' = [sending EXCEPT ![s] = conn]
    /\ UNCHANGED <<config, phase, retries, dialled, open, conn, hearts, done, cancelled, refused>>

StartSend(s) ==
    /\ sending[s] = 0 /\ connMu = 0 /\ conn # 0
    /\ connMu' = s /\ sending' = [sending EXCEPT ![s] = conn]
    /\ UNCHANGED <<config, phase, retries, dialled, open, conn, hearts, done, cancelled, refused>>

EndSend(s) ==
    /\ sending[s] # 0
    /\ connMu' = 0 /\ sending' = [sending EXCEPT ![s] = 0]
    /\ UNCHANGED <<config, phase, retries, dialled, open, conn, hearts, done, cancelled, refused>>

Close ==
    /\ connMu = 0 /\ conn # 0
    /\ open' = open \ {conn} /\ conn' = 0
    /\ UNCHANGED <<config, phase, retries, dialled, sender, hearts, done, cancelled, refused>>

ConnectStep == SocketTop \/ Dial \/ Hooks \/ Forget \/ Deadline \/ Unset \/ CloseConn \/ SocketSleep

SocketNext ==
    \/ ConnectStep \/ ReadFails \/ Message \/ SocketCancel \/ Close
    \/ \E c \in 1..dialled : HeartStops(c)
    \/ \E s \in Senders : StartSend(s) \/ EndSend(s)

\* Connect and its heartbeats run, and a write ends (it has a deadline).  setConn
\* takes a sync.Mutex that others also want: it gets it in the end.
SocketFairness ==
    /\ SF_socketVars(ConnectStep)
    /\ \A s \in Senders : WF_socketVars(EndSend(s))
    /\ \A c \in 1..(MaxReconnects + 1) : WF_socketVars(HeartStops(c))

-------------------------------------------------------------------------------
\* There is never more than one open connection, w.conn is none other, and none is
\* left open when Connect has returned, whatever the hooks answer and whenever
\* Close is called.
OneConnection ==
    /\ open \subseteq {dialled} /\ conn \in {0, dialled}
    /\ phase \in {"top", "sleeping", "returned"} => open = {} /\ conn = 0

\* A connection is not closed while a message is being written on it, but by
\* Connect when the OnConnect hook refused it (SendMessage holds connMu).
WritesUndisturbed == \A s \in Senders : sending[s] # 0 => sending[s] \in open \/ refused

\* Connect returns once its context is over: the heartbeat stops first, so the
\* read of a silent peer meets its deadline.
ConnectReturns == cancelled ~> phase = "returned"

===============================================================================
