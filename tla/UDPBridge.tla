------------------------------- MODULE UDPBridge -------------------------------
(***************************************************************************)
(* gnet/forward/udp.go: a UDP socket whose packets are forwarded to one    *)
(* remote address, with a session per sender.  Start reads the socket and  *)
(* hands every packet to a goroutine of its own (handleIncomingData); each *)
(* session has a receiver goroutine (startRemoteReceiver) that forwards    *)
(* what is queued on the session and ends it when it is idle; a cleaner    *)
(* goroutine ends idle sessions too; Close ends them all.                  *)
(*                                                                         *)
(* A packet is known by its number, and a session by the packet that created *)
(* it.  Of lastActive only whether the session has been idle for longer    *)
(* than sessionTTL is kept.  Closing a closed channel panics, which ends   *)
(* the process: nothing happens afterwards.                                *)
(***************************************************************************)
EXTENDS Integers, Sequences, FiniteSets, Functions

CONSTANTS Packets,   \* 1..n, numbered as Start reads them
          Clients,
          remote,    \* the remote address, a possible sender of packets too
          ChanSize,  \* the capacity of dataChan, 100 in the code
          none

\* What the constants must be.
UDPConstants ==
    Packets \subseteq Nat /\ ChanSize \in Nat \ {0} /\ remote \notin Clients

Senders == Clients \cup {remote}

VARIABLES packet,    \* packet -> [from, at, session]
          sessions,  \* b.sessions: sender -> session
          session,   \* session -> [from, idle, dataChan, closed, receiver, holds]
          out,       \* packet -> how often it was written to the remote
          closed,    \* b.closed; the socket is closed in the same step
          start,     \* Start: "running" or "done"
          cleaner,   \* sessionCleaner: "running" or "done"
          panicked   \* a goroutine has panicked

vars == <<packet, sessions, session, out, closed, start, cleaner, panicked>>

Unborn == [from |-> none, idle |-> FALSE, dataChan |-> <<>>, closed |-> FALSE,
           receiver |-> "none", holds |-> none]

Init ==
    /\ packet = [p \in Packets |-> [from |-> none, at |-> "unsent", session |-> none]]
    /\ sessions = [c \in {} |-> none]
    /\ session = [s \in Packets |-> Unborn]
    /\ out = [p \in Packets |-> 0]
    /\ closed = FALSE
    /\ start = "running"
    /\ cleaner = "running"
    /\ panicked = FALSE

\* close(s.closeChan) of the sessions ss.
Panics(ss) == \E s \in ss : session[s].closed
CloseChans(ss) ==
    /\ session' = [s \in Packets |->
                      IF s \in ss THEN [session[s] EXCEPT !.closed = TRUE]
                      ELSE session[s]]
    /\ ~panicked /\ panicked' = Panics(ss)

\* delete(b.sessions, key)
Forget(keys) == sessions' = [c \in DOMAIN sessions \ keys |-> sessions[c]]

\* The process runs, and this step does not end it.
Alive == ~panicked /\ panicked' = FALSE

-------------------------------------------------------------------------------
\* The network: a packet arrives at the socket and Start reads it.  The remote
\* only answers.
Arrive(p, from) ==
    /\ start = "running" /\ ~closed
    /\ packet[p].at = "unsent" /\ \A q \in Packets : q < p => packet[q].at # "unsent"
    /\ from = remote => \E q \in Packets : out[q] > 0
    /\ packet' = [packet EXCEPT ![p] = [@ EXCEPT !.from = from, !.at = "handler"]]
    /\ UNCHANGED <<sessions, session, out, closed, start, cleaner>>
    /\ Alive

\* The read fails on a closed socket and Start returns.
StartReturns ==
    /\ start = "running" /\ closed
    /\ start' = "done"
    /\ UNCHANGED <<packet, sessions, session, out, closed, cleaner>>
    /\ Alive

\* Mutant: the first packet is queued on its session as well.
NewSession_QueuesToo(p) ==
    LET from == packet[p].from
    IN  /\ packet[p].at = "handler" /\ from \notin DOMAIN sessions
        /\ sessions' = [c \in DOMAIN sessions \cup {from} |->
                           IF c = from THEN p ELSE sessions[c]]
        /\ session' = [session EXCEPT ![p] = [Unborn EXCEPT !.from = from,
                                                            !.receiver = "select",
                                                            !.dataChan = <<p>>]]
        /\ packet' = [packet EXCEPT ![p].at = "direct"]
        /\ UNCHANGED <<out, closed, start, cleaner>>
        /\ Alive

\* handleIncomingData, first packet of a sender: a session and its receiver are
\* made, and the packet goes to a goroutine that forwards it.
NewSession(p) ==
    LET from == packet[p].from
    IN  /\ packet[p].at = "handler" /\ from \notin DOMAIN sessions
        /\ sessions' = [c \in DOMAIN sessions \cup {from} |->
                           IF c = from THEN p ELSE sessions[c]]
        /\ session' = [session EXCEPT ![p] = [Unborn EXCEPT !.from = from,
                                                            !.receiver = "select"]]
        /\ packet' = [packet EXCEPT ![p].at = "direct"]
        /\ UNCHANGED <<out, closed, start, cleaner>>
        /\ Alive

\* handleIncomingData, a later packet: the session is looked up and refreshed
\* under the lock, ...
FindSession(p) ==
    LET s == sessions[packet[p].from]
    IN  /\ packet[p].at = "handler" /\ packet[p].from \in DOMAIN sessions
        /\ session' = [session EXCEPT ![s].idle = FALSE]
        /\ packet' = [packet EXCEPT ![p] = [@ EXCEPT !.at = "offer", !.session = s]]
        /\ UNCHANGED <<sessions, out, closed, start, cleaner>>
        /\ Alive

\* ... and the packet is queued on it without the lock, or dropped.
Offer(p) ==
    LET s == packet[p].session
    IN  /\ packet[p].at = "offer"
        /\ IF Len(session[s].dataChan) < ChanSize
           THEN /\ session' = [session EXCEPT ![s].dataChan = Append(@, p)]
                /\ packet' = [packet EXCEPT ![p] =
                                  [@ EXCEPT !.at = "queued", !.session = none]]
           ELSE /\ packet' = [packet EXCEPT ![p] =
                                  [@ EXCEPT !.at = "dropped", !.session = none]]
                /\ UNCHANGED session
        /\ UNCHANGED <<sessions, out, closed, start, cleaner>>
        /\ Alive

\* forwardToRemote: the write may fail, and always does once the socket is closed.
forwardToRemote(p) ==
    \/ /\ packet' = [packet EXCEPT ![p].at = "dropped"]
       /\ UNCHANGED out
    \/ /\ ~closed
       /\ packet' = [packet EXCEPT ![p].at = "out"]
       /\ out' = [out EXCEPT ![p] = @ + 1]

ForwardFirst(p) ==
    /\ packet[p].at = "direct"
    /\ forwardToRemote(p)
    /\ UNCHANGED <<sessions, session, closed, start, cleaner>>
    /\ Alive

-------------------------------------------------------------------------------
\* startRemoteReceiver of session s: the select ...
Receive(s) ==
    /\ session[s].receiver = "select" /\ session[s].dataChan # <<>>
    /\ session' = [session EXCEPT ![s].receiver = "forward",
                                  ![s].holds = Head(session[s].dataChan),
                                  ![s].dataChan = Tail(@)]
    /\ UNCHANGED <<packet, sessions, out, closed, start, cleaner>>
    /\ Alive

ReceiveTick(s) ==
    /\ session[s].receiver = "select"
    /\ session' = [session EXCEPT ![s].receiver = "tick"]
    /\ UNCHANGED <<packet, sessions, out, closed, start, cleaner>>
    /\ Alive

ReceiveClosed(s) ==
    /\ session[s].receiver = "select" /\ session[s].closed
    /\ session' = [session EXCEPT ![s].receiver = "done"]
    /\ UNCHANGED <<packet, sessions, out, closed, start, cleaner>>
    /\ Alive

\* ... forwards the packet it took and notes the activity, ...
ForwardQueued(s) ==
    /\ session[s].receiver = "forward"
    /\ forwardToRemote(session[s].holds)
    /\ session' = [session EXCEPT ![s] = [@ EXCEPT !.receiver = "select",
                                                   !.holds = none, !.idle = FALSE]]
    /\ UNCHANGED <<sessions, closed, start, cleaner>>
    /\ Alive

\* ... or, on a tick, takes the lock and goes on unless the session is idle, ...
TickActive(s) ==
    /\ session[s].receiver = "tick" /\ ~session[s].idle
    /\ session' = [session EXCEPT ![s].receiver = "select"]
    /\ UNCHANGED <<packet, sessions, out, closed, start, cleaner>>
    /\ Alive

\* Mutant: the session is closed but stays in the map.
TickExpired_KeepsEntry(s) ==
    /\ session[s].receiver = "tick" /\ session[s].idle
    /\ session' = [session EXCEPT ![s] = [@ EXCEPT !.closed = TRUE, !.receiver = "done"]]
    /\ ~panicked /\ panicked' = Panics({s})
    /\ UNCHANGED <<packet, sessions, out, closed, start, cleaner>>

\* Mutant: an idle session is never ended by its receiver.
TickExpired_Never(s) ==
    /\ session[s].receiver = "tick" /\ session[s].idle
    /\ session' = [session EXCEPT ![s].receiver = "select"]
    /\ UNCHANGED <<packet, sessions, out, closed, start, cleaner>>
    /\ Alive

\* ... which ends it: the map entry of its sender is deleted, whichever session
\* it leads to, and closeChan is closed, whoever may have closed it before.
TickExpired(s) ==
    /\ session[s].receiver = "tick" /\ session[s].idle
    /\ Forget({session[s].from})
    /\ session' = [session EXCEPT ![s] = [@ EXCEPT !.closed = TRUE, !.receiver = "done"]]
    /\ ~panicked /\ panicked' = Panics({s})
    /\ UNCHANGED <<packet, out, closed, start, cleaner>>

\* sessionCleaner, on its tick.
Sweep ==
    LET expired == {c \in DOMAIN sessions : session[sessions[c]].idle}
    IN  /\ cleaner = "running" /\ ~closed
        /\ expired # {}
        /\ CloseChans({sessions[c] : c \in expired})
        /\ Forget(expired)
        /\ UNCHANGED <<packet, out, closed, start, cleaner>>

CleanerReturns ==
    /\ cleaner = "running" /\ closed
    /\ cleaner' = "done"
    /\ UNCHANGED <<packet, sessions, session, out, closed, start>>
    /\ Alive

Close ==
    /\ ~closed
    /\ closed' = TRUE
    /\ CloseChans(Range(sessions))
    /\ Forget(DOMAIN sessions)
    /\ UNCHANGED <<packet, out, start, cleaner>>

\* sessionTTL passes since the last activity of s.
Idle(s) ==
    /\ session[s].receiver \notin {"none", "done"} /\ ~session[s].idle
    /\ session' = [session EXCEPT ![s].idle = TRUE]
    /\ UNCHANGED <<packet, sessions, out, closed, start, cleaner>>
    /\ Alive

Next ==
    \/ \E p \in Packets, from \in Senders : Arrive(p, from)
    \/ \E p \in Packets : \/ NewSession(p) \/ FindSession(p) \/ Offer(p)
                          \/ ForwardFirst(p)
    \/ \E s \in Packets : \/ Receive(s) \/ ReceiveTick(s) \/ ReceiveClosed(s)
                          \/ ForwardQueued(s) \/ TickActive(s) \/ TickExpired(s)
                          \/ Idle(s)
    \/ Sweep \/ Close \/ StartReturns \/ CleanerReturns

Working(s) == ForwardQueued(s) \/ TickActive(s) \/ TickExpired(s)

\* A receiver's ticker fires and its select, coming round again and again, takes
\* the tick at some time; a receiver out of its select goes on; time passes.
\* Nothing is asked of the handlers, nor of the other cases of the select.
Fairness ==
    /\ \A s \in Packets : WF_vars(Working(s)) /\ SF_vars(ReceiveTick(s)) /\ WF_vars(Idle(s))
    /\ WF_vars(StartReturns)
    /\ WF_vars(CleanerReturns)

Spec == Init /\ [][Next]_vars /\ Fairness

-------------------------------------------------------------------------------
\* A session in the map is served: its closeChan is open and its receiver has
\* not ended, however the receivers of earlier sessions of the same sender, the
\* cleaner and Close come in between.  Only a served session may be in the map,
\* because later packets are queued on the session found there.
MappedIsServed ==
    ~panicked =>
        \A c \in DOMAIN sessions :
           LET s == sessions[c]
           IN  /\ session[s].from = c /\ ~session[s].closed
               /\ session[s].receiver \notin {"none", "done"}

\* No packet is forwarded twice or out of nothing, whichever of the two ways it
\* goes and however sessions of its sender come and go.
ForwardedOnce ==
    \A p \in Packets : out[p] = IF packet[p].at = "out" THEN 1 ELSE 0

\* After Close no goroutine of the bridge lives for ever: Start and the cleaner
\* return, and so does the receiver of a session Close did not see, because it
\* had been pushed out of the map or was made later.
CloseDrains ==
    closed ~> \/ panicked
              \/ /\ start = "done" /\ cleaner = "done"
                 /\ \A s \in Packets : session[s].receiver \in {"none", "done"}

\* "sessionCleaner cleans up expired sessions" (udp.go:206): doing so leaves the
\* process running.
NeverPanics == ~panicked

===============================================================================
