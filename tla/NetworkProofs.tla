----------------------------- MODULE NetworkProofs -----------------------------
(***************************************************************************)
(* What the packet paths promise, proved for any number of packets and     *)
(* senders, every capacity of a session's channel and every number of      *)
(* packets captured.                                                       *)
(***************************************************************************)
EXTENDS MCNetwork, SequenceTheorems, TLAPS

-------------------------------------------------------------------------------
(***************************************************************************)
(* UDPBridge.  A session leaves the map together with the entry of its     *)
(* sender only because no session is in the map under two senders, and     *)
(* none that is being made was there before; a packet is forwarded once    *)
(* because it waits in one channel or in the hands of one receiver.        *)
(***************************************************************************)
Ats       == {"unsent", "handler", "direct", "offer", "queued", "dropped", "out"}
Receivers == {"none", "select", "forward", "tick", "done"}

Packet  == [from : UDP!Senders \cup {none}, at : Ats, session : Packets \cup {none}]
Session == [from : UDP!Senders \cup {none}, idle : BOOLEAN, dataChan : Seq(Packets),
            closed : BOOLEAN, receiver : Receivers, holds : Packets \cup {none}]

UDPTypes ==
    /\ \A p \in Packets : packet[p].at = "offer" => packet[p].session \in Packets
    /\ packet \in [Packets -> Packet] /\ session \in [Packets -> Session]
    /\ sessions \in [DOMAIN sessions -> Packets]
    /\ out \in [Packets -> Nat]

\* A packet that has not been handled has made no session.
NotMadeBefore == \A p \in Packets : packet[p].at \in {"unsent", "handler"} => session[p].receiver = "none"

Mapped ==
    ~panicked => \A c \in DOMAIN sessions :
        /\ session[sessions[c]].from = c /\ ~session[sessions[c]].closed
        /\ session[sessions[c]].receiver \notin {"none", "done"}

Channel(s) == session[s].dataChan
Holds(s)   == session[s].receiver = "forward"

\* Where the packets wait that were queued, and that each does so in one place.
Queued        == \A s \in Packets : \A i \in 1..Len(Channel(s)) : packet[Channel(s)[i]].at = "queued"
QueuedOnce    == \A s, t \in Packets : \A i \in 1..Len(Channel(s)), j \in 1..Len(Channel(t)) :
                    Channel(s)[i] = Channel(t)[j] => s = t /\ i = j
Held          == \A s \in Packets : Holds(s) => /\ session[s].holds \in Packets
                                                 /\ packet[session[s].holds].at = "queued"
HeldNotQueued == \A s, t \in Packets : \A i \in 1..Len(Channel(t)) :
                    Holds(s) => Channel(t)[i] # session[s].holds
HeldOnce      == \A s, t \in Packets : Holds(s) /\ Holds(t) /\ session[s].holds = session[t].holds => s = t
Waiting       == Queued /\ QueuedOnce /\ Held /\ HeldNotQueued /\ HeldOnce

UDPInv == UDPTypes /\ NotMadeBefore /\ Mapped /\ Waiting /\ UDP!ForwardedOnce

\* Where no packet begins to wait, those that wait still do at most once.
LEMMA WaitingKept ==
    ASSUME Waiting,
           \A s \in Packets : Channel(s)' = Channel(s) \/ Channel(s)' = <<>>,
           \A s \in Packets : Holds(s)' => Holds(s) /\ session'[s].holds = session[s].holds,
           \A p \in Packets : packet[p].at = "queued" => packet'[p].at = "queued",
           \A s \in Packets : \A i \in 1..Len(Channel(s)) : Channel(s)[i] \in Packets
    PROVE  Waiting'
<1>1. \A s \in Packets : \A i \in 1..Len(Channel(s)') : i \in 1..Len(Channel(s)) /\ Channel(s)'[i] = Channel(s)[i]
  <2> SUFFICES ASSUME NEW s \in Packets, NEW i \in 1..Len(Channel(s)')
               PROVE  i \in 1..Len(Channel(s)) /\ Channel(s)'[i] = Channel(s)[i]
    OBVIOUS
  <2>1. CASE Channel(s)' = Channel(s)
    BY <2>1
  <2>2. CASE Channel(s)' = <<>>
    BY <2>2
  <2> QED
    BY <2>1, <2>2
<1>2. Queued' /\ QueuedOnce'
  BY <1>1 DEF Waiting, Queued, QueuedOnce
<1>3. Held' /\ HeldOnce'
  BY DEF Waiting, Held, HeldOnce
<1>4. HeldNotQueued'
  BY <1>1 DEF Waiting, HeldNotQueued
<1> QED
  BY <1>2, <1>3, <1>4 DEF Waiting

\* The channels hold packets.
LEMMA ChannelsHoldPackets ==
    ASSUME UDPTypes, NEW s \in Packets
    PROVE  /\ Channel(s) \in Seq(Packets) /\ Len(Channel(s)) \in Nat
           /\ \A i \in 1..Len(Channel(s)) : Channel(s)[i] \in Packets
<1>1. session[s] \in Session
  BY DEF UDPTypes
<1>2. Channel(s) \in Seq(Packets)
  BY <1>1 DEF Session, Channel
<1> QED
  BY <1>2, LenProperties, ElementOfSeq

\* A write to the remote: the packet was counted as often as its state says.
LEMMA ForwardsOnce ==
    ASSUME UDPTypes, UDP!ForwardedOnce, NEW p \in Packets, packet[p].at # "out", UDP!forwardToRemote(p)
    PROVE  /\ UDP!ForwardedOnce' /\ out' \in [Packets -> Nat]
           /\ packet' \in [Packets -> Packet]
           /\ packet'[p].at \in {"dropped", "out"}
           /\ \A q \in Packets : q # p => packet'[q] = packet[q]
<1>1. PICK at1 \in {"dropped", "out"} :
         /\ packet' = [packet EXCEPT ![p].at = at1]
         /\ IF at1 = "out" THEN out' = [out EXCEPT ![p] = @ + 1] ELSE UNCHANGED out
  BY DEF UDP!forwardToRemote
<1>2. packet[p] \in Packet /\ out[p] = 0
  BY DEF UDPTypes, UDP!ForwardedOnce
<1>3. [packet[p] EXCEPT !.at = at1] \in Packet
  BY <1>2 DEF Packet, Ats
<1>4. packet' = [packet EXCEPT ![p] = [packet[p] EXCEPT !.at = at1]]
  BY <1>1
<1>5. packet' \in [Packets -> Packet] /\ out' \in [Packets -> Nat]
  BY <1>1, <1>2, <1>3, <1>4 DEF UDPTypes
<1>6. packet'[p].at = at1 /\ \A q \in Packets : q # p => packet'[q] = packet[q]
  BY <1>2, <1>4 DEF UDPTypes, Packet
<1>7. UDP!ForwardedOnce'
  BY <1>1, <1>2, <1>6 DEF UDPTypes, UDP!ForwardedOnce
<1> QED
  BY <1>5, <1>6, <1>7

\* Steps that change no packet, and of the sessions only receivers, their idleness
\* and whether they are closed.
LEMMA SessionStep ==
    ASSUME UDPInv, UNCHANGED <<packet, out>>, UDPTypes',
           \A s \in Packets : Channel(s)' = Channel(s) /\ (session'[s].receiver = "none" <=> session[s].receiver = "none"),
           \A s \in Packets : Holds(s)' => Holds(s) /\ session'[s].holds = session[s].holds
    PROVE  NotMadeBefore' /\ Waiting' /\ UDP!ForwardedOnce'
<1>1. NotMadeBefore'
  BY DEF UDPInv, NotMadeBefore
<1>2. Waiting'
  BY WaitingKept, ChannelsHoldPackets DEF UDPInv
<1>3. UDP!ForwardedOnce'
  BY DEF UDPInv, UDP!ForwardedOnce
<1> QED
  BY <1>1, <1>2, <1>3

\* A step of the socket, a handler, a receiver, the cleaner or Close keeps the invariant.
LEMMA UDPStep == UDPInv /\ [UDP!Next]_udpVars => UDPInv'
<1> SUFFICES ASSUME UDPInv, [UDP!Next]_udpVars PROVE UDPInv'
  OBVIOUS
<1> USE NetworkConstants DEF UDP!UDPConstants
<1>0. UDPTypes /\ NotMadeBefore /\ Mapped /\ Waiting /\ UDP!ForwardedOnce
  BY DEF UDPInv
<1>a. \A p \in Packets : packet[p] \in Packet /\ session[p] \in Session
  BY <1>0 DEF UDPTypes
<1>1. ASSUME NEW p \in Packets, NEW from \in UDP!Senders, UDP!Arrive(p, from) PROVE UDPInv'
  <2>1. /\ packet' = [packet EXCEPT ![p] = [@ EXCEPT !.from = from, !.at = "handler"]]
        /\ UNCHANGED <<sessions, session, out>> /\ ~panicked /\ ~panicked' /\ packet[p].at = "unsent"
    BY <1>1 DEF UDP!Arrive, UDP!Alive
  <2>2. UDPTypes'
    <3>1. [packet[p] EXCEPT !.from = from, !.at = "handler"] \in Packet
      BY <1>a DEF Packet, Ats
    <3>2. packet' \in [Packets -> Packet]
      BY <1>0, <2>1, <3>1 DEF UDPTypes
    <3>3. \A q \in Packets : packet'[q].at = "offer" => packet'[q] = packet[q]
      <4>1. packet'[p].at = "handler" /\ \A q \in Packets : q # p => packet'[q] = packet[q]
        BY <1>0, <1>a, <2>1 DEF UDPTypes, Packet
      <4> QED
        BY <4>1
    <3> QED
      BY <1>0, <2>1, <3>2, <3>3 DEF UDPTypes
  <2>3. NotMadeBefore' /\ Mapped'
    BY <1>0, <2>1 DEF NotMadeBefore, Mapped, UDPTypes
  <2>4. Waiting'
    BY <1>0, <2>1, WaitingKept, ChannelsHoldPackets DEF UDPTypes, Channel, Holds
  <2>5. UDP!ForwardedOnce'
    BY <1>0, <2>1 DEF UDP!ForwardedOnce, UDPTypes
  <2> QED
    BY <2>2, <2>3, <2>4, <2>5 DEF UDPInv
<1>2. CASE UDP!StartReturns \/ UDP!CleanerReturns \/ UNCHANGED udpVars
  <2>1. UNCHANGED <<packet, sessions, session, out>> /\ (~panicked' => ~panicked)
    BY <1>2 DEF UDP!StartReturns, UDP!CleanerReturns, UDP!Alive, udpVars
  <2> QED
    BY <1>0, <2>1 DEF UDPInv, UDPTypes, NotMadeBefore, Mapped, Waiting, Queued, QueuedOnce,
    Held, HeldNotQueued, HeldOnce, UDP!ForwardedOnce, Channel, Holds
<1>3. ASSUME NEW p \in Packets, UDP!NewSession(p) PROVE UDPInv'
  <2> DEFINE from == packet[p].from
  <2> DEFINE new == [UDP!Unborn EXCEPT !.from = from, !.receiver = "select"]
  <2>1. /\ packet[p].at = "handler" /\ from \notin DOMAIN sessions
        /\ sessions' = [c \in DOMAIN sessions \cup {from} |-> IF c = from THEN p ELSE sessions[c]]
        /\ session' = [session EXCEPT ![p] = new] /\ packet' = [packet EXCEPT ![p].at = "direct"]
        /\ UNCHANGED out /\ ~panicked /\ panicked' = FALSE
    BY <1>3 DEF UDP!NewSession, UDP!Alive
  <2>2. /\ new.from = from /\ ~new.idle /\ new.dataChan = <<>> /\ ~new.closed
        /\ new.receiver = "select" /\ new.holds = none /\ from \in UDP!Senders \cup {none}
    <3>1. packet[p] \in Packet
      BY <1>a
    <3>2. from \in UDP!Senders \cup {none}
      BY <3>1 DEF Packet
    <3> HIDE DEF from
    <3>3. new.from = from /\ ~new.idle /\ new.dataChan = <<>> /\ ~new.closed /\ new.receiver = "select" /\ new.holds = none
      BY DEF UDP!Unborn
    <3> QED
      BY <3>2, <3>3
  <2> HIDE DEF new, from
  <2>3. UDPTypes'
    <3>1. sessions' \in [DOMAIN sessions' -> Packets]
      BY <1>0, <2>1 DEF UDPTypes
    <3>2. new \in Session
      BY <2>2, EmptySeq DEF Session, Receivers, new, UDP!Unborn
    <3>3. session' \in [Packets -> Session]
      BY <1>0, <2>1, <3>2 DEF UDPTypes
    <3>4. [packet[p] EXCEPT !.at = "direct"] \in Packet
      BY <1>a DEF Packet, Ats
    <3>5. packet' \in [Packets -> Packet]
      BY <1>0, <2>1, <3>4 DEF UDPTypes
    <3>6. \A q \in Packets : packet'[q].at = "offer" => packet'[q] = packet[q]
      <4>1. packet'[p].at = "direct" /\ \A q \in Packets : q # p => packet'[q] = packet[q]
        BY <1>0, <1>a, <2>1 DEF UDPTypes, Packet
      <4> QED
        BY <4>1
    <3> QED
      BY <1>0, <2>1, <3>1, <3>3, <3>5, <3>6 DEF UDPTypes
  <2>4. NotMadeBefore'
    BY <1>0, <2>1 DEF NotMadeBefore, UDPTypes
  <2>5. Mapped'
    <3>1. session[p].receiver = "none"
      BY <1>0, <2>1 DEF NotMadeBefore
    <3>2. \A c \in DOMAIN sessions : sessions[c] \in Packets /\ sessions[c] # p
      BY <1>0, <2>1, <3>1 DEF Mapped, UDPTypes
    <3>3. session'[p] = new /\ \A s \in Packets : s # p => session'[s] = session[s]
      BY <1>0, <2>1 DEF UDPTypes
    <3>4. DOMAIN sessions' = DOMAIN sessions \cup {from} /\ sessions'[from] = p
      BY <2>1
    <3>5. \A c \in DOMAIN sessions : sessions'[c] = sessions[c]
      BY <2>1
    <3>6. new.from = from /\ ~new.closed /\ new.receiver = "select"
      BY <2>2
    <3> QED
      BY <1>0, <2>1, <3>2, <3>3, <3>4, <3>5, <3>6 DEF Mapped
  <2>6. Waiting'
    <3>1. session'[p] = new /\ \A s \in Packets : s # p => session'[s] = session[s]
      BY <1>0, <2>1 DEF UDPTypes
    <3>2. new.dataChan = <<>> /\ new.receiver = "select"
      BY <2>2
    <3>3. \A q \in Packets : packet[q].at = "queued" => packet'[q].at = "queued"
      BY <1>0, <2>1 DEF UDPTypes
    <3> QED
      BY <1>0, <3>1, <3>2, <3>3, WaitingKept, ChannelsHoldPackets DEF Channel, Holds
  <2>7. UDP!ForwardedOnce'
    BY <1>0, <2>1 DEF UDP!ForwardedOnce, UDPTypes
  <2> QED
    BY <2>3, <2>4, <2>5, <2>6, <2>7 DEF UDPInv
<1>4. ASSUME NEW p \in Packets, UDP!FindSession(p) PROVE UDPInv'
  <2> DEFINE s == sessions[packet[p].from]
  <2>1. /\ packet[p].at = "handler" /\ packet[p].from \in DOMAIN sessions
        /\ session' = [session EXCEPT ![s].idle = FALSE]
        /\ packet' = [packet EXCEPT ![p] = [@ EXCEPT !.at = "offer", !.session = s]]
        /\ UNCHANGED <<sessions, out>> /\ ~panicked /\ panicked' = FALSE
    BY <1>4 DEF UDP!FindSession, UDP!Alive
  <2>2. s \in Packets
    BY <1>0, <2>1 DEF UDPTypes
  <2> HIDE DEF s
  <2>3. UDPTypes'
    <3>1. [packet[p] EXCEPT !.at = "offer", !.session = s] \in Packet
      BY <1>a, <2>2 DEF Packet, Ats
    <3>2. packet' \in [Packets -> Packet]
      BY <1>0, <2>1, <3>1 DEF UDPTypes
    <3>3. [session[s] EXCEPT !.idle = FALSE] \in Session
      BY <1>a, <2>2 DEF Session
    <3>4. session' \in [Packets -> Session]
      BY <1>0, <2>1, <3>3 DEF UDPTypes
    <3>5. \A q \in Packets : packet'[q].at = "offer" => packet'[q].session \in Packets
      <4>1. packet'[p].session = s /\ \A q \in Packets : q # p => packet'[q] = packet[q]
        BY <1>0, <1>a, <2>1 DEF UDPTypes, Packet
      <4> QED
        BY <1>0, <2>2, <4>1 DEF UDPTypes
    <3> QED
      BY <1>0, <2>1, <3>2, <3>4, <3>5 DEF UDPTypes
  <2>4. \A t \in Packets : /\ session'[t].from = session[t].from /\ session'[t].closed = session[t].closed
                            /\ session'[t].receiver = session[t].receiver /\ session'[t].holds = session[t].holds
                            /\ session'[t].dataChan = session[t].dataChan
    BY <1>0, <2>1, <2>2 DEF UDPTypes
  <2>5. NotMadeBefore' /\ Mapped'
    BY <1>0, <2>1, <2>4 DEF NotMadeBefore, Mapped, UDPTypes
  <2>6. Waiting'
    <3>1. \A q \in Packets : packet[q].at = "queued" => packet'[q].at = "queued"
      BY <1>0, <2>1 DEF UDPTypes
    <3> QED
      BY <1>0, <2>4, <3>1, WaitingKept, ChannelsHoldPackets DEF Channel, Holds
  <2>7. UDP!ForwardedOnce'
    BY <1>0, <2>1 DEF UDP!ForwardedOnce, UDPTypes
  <2> QED
    BY <2>3, <2>5, <2>6, <2>7 DEF UDPInv
<1>5. ASSUME NEW p \in Packets, UDP!Offer(p) PROVE UDPInv'
  <2>1. /\ packet[p].session \in Packets /\ packet[p].at = "offer" /\ UNCHANGED <<sessions, out>>
        /\ ~panicked /\ panicked' = FALSE
    BY <1>0, <1>5 DEF UDP!Offer, UDP!Alive, UDPTypes
  <2>s. PICK s \in Packets : s = packet[p].session
    BY <2>1
  <2>2. PICK at1 \in {"queued", "dropped"} :
           /\ packet' = [packet EXCEPT ![p] = [@ EXCEPT !.at = at1, !.session = none]]
           /\ IF at1 = "queued" THEN session' = [session EXCEPT ![s].dataChan = Append(@, p)]
                                ELSE UNCHANGED session
    BY <1>5, <2>s DEF UDP!Offer
  <2>3. /\ packet'[p].at = at1 /\ \A q \in Packets : q # p => packet'[q] = packet[q]
        /\ packet' \in [Packets -> Packet]
    <3>1. [packet[p] EXCEPT !.at = at1, !.session = none] \in Packet
      BY <1>a DEF Packet, Ats
    <3>2. [packet[p] EXCEPT !.at = at1, !.session = none].at = at1
      BY <1>a DEF Packet
    <3> QED
      BY <1>0, <2>2, <3>1, <3>2 DEF UDPTypes
  <2>4. \A t \in Packets : /\ session'[t].from = session[t].from /\ session'[t].closed = session[t].closed
                            /\ session'[t].receiver = session[t].receiver /\ session'[t].holds = session[t].holds
    <3>1. CASE at1 = "queued"
      <4>1. session' = [session EXCEPT ![s] = [session[s] EXCEPT !.dataChan = Append(session[s].dataChan, p)]]
        BY <2>2, <3>1
      <4> DEFINE new == [session[s] EXCEPT !.dataChan = Append(session[s].dataChan, p)]
      <4>2. /\ new.from = session[s].from /\ new.closed = session[s].closed
            /\ new.receiver = session[s].receiver /\ new.holds = session[s].holds
        BY <1>a DEF Session
      <4> HIDE DEF new
      <4>3. session'[s] = new /\ \A t \in Packets : t # s => session'[t] = session[t]
        BY <1>0, <4>1 DEF UDPTypes, new
      <4> QED
        BY <4>2, <4>3
    <3> QED
      BY <2>2, <3>1
  <2>5. /\ at1 = "queued" => Channel(s)' = Append(Channel(s), p)
        /\ at1 = "dropped" => Channel(s)' = Channel(s)
        /\ \A t \in Packets : t # s => Channel(t)' = Channel(t)
    <3>1. CASE at1 = "queued"
      <4>1. session' = [session EXCEPT ![s] = [session[s] EXCEPT !.dataChan = Append(Channel(s), p)]]
        BY <2>2, <3>1 DEF Channel
      <4>2. /\ session'[s] = [session[s] EXCEPT !.dataChan = Append(Channel(s), p)]
            /\ \A t \in Packets : t # s => session'[t] = session[t]
        BY <1>0, <2>1, <4>1 DEF UDPTypes
      <4>3. [session[s] EXCEPT !.dataChan = Append(Channel(s), p)].dataChan = Append(Channel(s), p)
        BY <1>a, <2>1 DEF Session
      <4> QED
        BY <3>1, <4>2, <4>3 DEF Channel
    <3>2. CASE at1 = "dropped"
      BY <2>2, <3>2 DEF Channel
    <3> QED
      BY <3>1, <3>2
  <2>6. UDPTypes'
    <3>1. Channel(s) \in Seq(Packets)
      BY <1>0, <2>1, ChannelsHoldPackets
    <3> DEFINE more == Append(Channel(s), p)
    <3>2. more \in Seq(Packets)
      BY <3>1, AppendProperties
    <3> HIDE DEF more
    <3>a. [session[s] EXCEPT !.dataChan = more] \in Session
      BY <1>a, <2>1, <3>2 DEF Session
    <3>b. at1 = "queued" => session' = [session EXCEPT ![s] = [session[s] EXCEPT !.dataChan = more]]
      BY <2>2 DEF Channel, more
    <3>3. session' \in [Packets -> Session]
      BY <1>0, <2>1, <2>2, <3>a, <3>b DEF UDPTypes
    <3>4. \A q \in Packets : packet'[q].at = "offer" => packet'[q].session \in Packets
      BY <1>0, <2>3 DEF UDPTypes
    <3> QED
      BY <1>0, <2>1, <2>3, <3>3, <3>4 DEF UDPTypes
  <2>7. NotMadeBefore' /\ Mapped'
    BY <1>0, <2>1, <2>3, <2>4 DEF NotMadeBefore, Mapped, UDPTypes
  <2>8. Waiting'
    <3>1. CASE at1 = "dropped"
      <4>1. \A t \in Packets : Channel(t)' = Channel(t)
        BY <2>5, <3>1
      <4>2. \A q \in Packets : packet[q].at = "queued" => packet'[q].at = "queued"
        BY <2>1, <2>3
      <4>3. \A t \in Packets : Holds(t)' => Holds(t) /\ session'[t].holds = session[t].holds
        BY <2>4 DEF Holds
      <4> QED
        BY <1>0, <4>1, <4>2, <4>3, WaitingKept, ChannelsHoldPackets
    <3>2. CASE at1 = "queued"
      <4> DEFINE k == Len(Channel(s)) + 1
      <4>1. Channel(s) \in Seq(Packets) /\ Len(Channel(s)) \in Nat
        BY <1>0, <2>1, ChannelsHoldPackets
      <4>2. /\ Len(Channel(s)') = k /\ Channel(s)'[k] = p
            /\ \A i \in 1..Len(Channel(s)') : i # k => i \in 1..Len(Channel(s)) /\ Channel(s)'[i] = Channel(s)[i]
        BY <2>5, <3>2, <4>1, AppendProperties
      <4> HIDE DEF k
      <4>3. \A t \in Packets : t # s => Channel(t)' = Channel(t)
        BY <2>5
      <4>4. \A t \in Packets : \A i \in 1..Len(Channel(t)) : Channel(t)[i] \in Packets /\ Channel(t)[i] # p
        BY <1>0, <2>1, ChannelsHoldPackets DEF Waiting, Queued
      <4>5. \A t \in Packets : \A i \in 1..Len(Channel(t)') :
               \/ t = s /\ i = k /\ Channel(t)'[i] = p
               \/ i \in 1..Len(Channel(t)) /\ Channel(t)'[i] = Channel(t)[i] /\ Channel(t)'[i] # p
        <5> SUFFICES ASSUME NEW t \in Packets, NEW i \in 1..Len(Channel(t)')
                     PROVE  \/ t = s /\ i = k /\ Channel(t)'[i] = p
                            \/ i \in 1..Len(Channel(t)) /\ Channel(t)'[i] = Channel(t)[i] /\ Channel(t)'[i] # p
          OBVIOUS
        <5>1. CASE t = s
          BY <2>1, <4>2, <4>4, <5>1
        <5>2. CASE t # s
          <6>1. Channel(t)' = Channel(t)
            BY <4>3, <5>2
          <6> QED
            BY <4>4, <6>1
        <5> QED
          BY <5>1, <5>2
      <4>6. \A q \in Packets : packet[q].at = "queued" => packet'[q].at = "queued"
        BY <2>1, <2>3
      <4>7. \A t \in Packets : Holds(t)' <=> Holds(t)
        BY <2>4 DEF Holds
      <4>8. \A t \in Packets : Holds(t) => session[t].holds # p
        BY <1>0, <2>1 DEF Waiting, Held
      <4>9. packet'[p].at = "queued"
        BY <2>3, <3>2
      <4>10. Queued'
        <5>1. \A t \in Packets : \A i \in 1..Len(Channel(t)) : packet'[Channel(t)[i]].at = "queued"
          BY <1>0, <4>4, <4>6 DEF Waiting, Queued
        <5> QED
          BY <4>5, <4>9, <5>1 DEF Queued
      <4>11. QueuedOnce'
        BY <1>0, <4>5 DEF Waiting, QueuedOnce
      <4>12. Held'
        BY <1>0, <2>4, <4>6, <4>7 DEF Waiting, Held
      <4>13. HeldNotQueued'
        BY <1>0, <2>4, <4>5, <4>7, <4>8 DEF Waiting, HeldNotQueued
      <4>14. HeldOnce'
        BY <1>0, <2>4, <4>7 DEF Waiting, HeldOnce
      <4> QED
        BY <4>10, <4>11, <4>12, <4>13, <4>14 DEF Waiting
    <3> QED
      BY <3>1, <3>2
  <2>9. UDP!ForwardedOnce'
    BY <1>0, <2>1, <2>3 DEF UDP!ForwardedOnce
  <2> QED
    BY <2>6, <2>7, <2>8, <2>9 DEF UDPInv
<1>6. ASSUME NEW p \in Packets, UDP!ForwardFirst(p) PROVE UDPInv'
  <2>1. /\ packet[p].at = "direct" /\ UDP!forwardToRemote(p) /\ UNCHANGED <<sessions, session>>
        /\ ~panicked /\ panicked' = FALSE
    BY <1>6 DEF UDP!ForwardFirst, UDP!Alive
  <2>2. /\ UDP!ForwardedOnce' /\ out' \in [Packets -> Nat] /\ packet' \in [Packets -> Packet]
        /\ packet'[p].at \in {"dropped", "out"} /\ \A q \in Packets : q # p => packet'[q] = packet[q]
    BY <1>0, <2>1, ForwardsOnce
  <2>3. UDPTypes'
    BY <1>0, <2>1, <2>2 DEF UDPTypes
  <2>4. NotMadeBefore' /\ Mapped'
    BY <1>0, <2>1, <2>2 DEF NotMadeBefore, Mapped
  <2>5. Waiting'
    <3>1. \A q \in Packets : packet[q].at = "queued" => packet'[q].at = "queued"
      BY <2>1, <2>2
    <3> QED
      BY <1>0, <2>1, <3>1, WaitingKept, ChannelsHoldPackets DEF Channel, Holds
  <2> QED
    BY <2>2, <2>3, <2>4, <2>5 DEF UDPInv
<1>7. ASSUME NEW s \in Packets, UDP!Receive(s) PROVE UDPInv'
  <2>1. /\ session[s].receiver = "select" /\ session[s].dataChan # <<>>
        /\ session' = [session EXCEPT ![s] = [session[s] EXCEPT !.receiver = "forward",
                              !.holds = Head(Channel(s)), !.dataChan = Tail(Channel(s))]]
        /\ UNCHANGED <<packet, sessions, out>> /\ ~panicked
    BY <1>7 DEF UDP!Receive, UDP!Alive, Channel
  <2> DEFINE new == [session[s] EXCEPT !.receiver = "forward", !.holds = Head(Channel(s)), !.dataChan = Tail(Channel(s))]
  <2>2. /\ Channel(s) \in Seq(Packets) /\ Len(Channel(s)) \in Nat /\ Len(Channel(s)) > 0
        /\ \A i \in 1..Len(Channel(s)) : Channel(s)[i] \in Packets
    <3>1. Channel(s) # <<>>
      BY <2>1 DEF Channel
    <3> QED
      BY <1>0, <3>1, ChannelsHoldPackets, EmptySeq
  <2>3. /\ Head(Channel(s)) = Channel(s)[1] /\ Tail(Channel(s)) \in Seq(Packets)
        /\ Len(Tail(Channel(s))) = Len(Channel(s)) - 1
        /\ \A i \in 1..Len(Tail(Channel(s))) : i + 1 \in 1..Len(Channel(s)) /\ Tail(Channel(s))[i] = Channel(s)[i + 1]
    BY <2>2, HeadTailProperties
  <2>4. /\ new.receiver = "forward" /\ new.holds = Channel(s)[1] /\ new.dataChan = Tail(Channel(s))
        /\ new.from = session[s].from /\ new.closed = session[s].closed /\ new \in Session
    <3> DEFINE hd == Head(Channel(s))
    <3> DEFINE tl == Tail(Channel(s))
    <3>1. hd \in Packets /\ hd = Channel(s)[1] /\ tl \in Seq(Packets)
      BY <2>2, <2>3
    <3>2. new = [session[s] EXCEPT !.receiver = "forward", !.holds = hd, !.dataChan = tl]
      OBVIOUS
    <3> HIDE DEF new, hd, tl
    <3>3. session[s] \in Session
      BY <1>a
    <3>4. new \in Session
      BY <3>1, <3>2, <3>3 DEF Session, Receivers
    <3>5. /\ new.receiver = "forward" /\ new.holds = hd /\ new.dataChan = tl
          /\ new.from = session[s].from /\ new.closed = session[s].closed
      BY <3>2, <3>3 DEF Session
    <3> QED
      BY <3>1, <3>4, <3>5 DEF tl
  <2> HIDE DEF new
  <2>5. session'[s] = new /\ (\A t \in Packets : t # s => session'[t] = session[t]) /\ session' \in [Packets -> Session]
    BY <1>0, <2>1, <2>4 DEF UDPTypes, new
  <2>6. UDPTypes'
    BY <1>0, <2>1, <2>5 DEF UDPTypes
  <2>7. NotMadeBefore' /\ Mapped'
    BY <1>0, <2>1, <2>4, <2>5 DEF NotMadeBefore, Mapped, UDPTypes
  <2>8. Waiting'
    <3>1. /\ \A t \in Packets : t # s => Channel(t)' = Channel(t) /\ (Holds(t)' <=> Holds(t)) /\ session'[t].holds = session[t].holds
          /\ Holds(s)' /\ ~Holds(s) /\ session'[s].holds = Channel(s)[1] /\ Channel(s)' = Tail(Channel(s))
      BY <2>1, <2>4, <2>5 DEF Channel, Holds
    <3>2. \A t \in Packets : \A i \in 1..Len(Channel(t)') :
             \/ t # s /\ i \in 1..Len(Channel(t)) /\ Channel(t)'[i] = Channel(t)[i]
             \/ t = s /\ i + 1 \in 1..Len(Channel(s)) /\ i \in Nat \ {0} /\ Channel(t)'[i] = Channel(s)[i + 1]
      <4> SUFFICES ASSUME NEW t \in Packets, NEW i \in 1..Len(Channel(t)')
                   PROVE  \/ t # s /\ i \in 1..Len(Channel(t)) /\ Channel(t)'[i] = Channel(t)[i]
                          \/ t = s /\ i + 1 \in 1..Len(Channel(s)) /\ i \in Nat \ {0} /\ Channel(t)'[i] = Channel(s)[i + 1]
        OBVIOUS
      <4>1. CASE t = s
        BY <2>2, <2>3, <3>1, <4>1
      <4>2. CASE t # s
        <5>1. Channel(t)' = Channel(t)
          BY <3>1, <4>2
        <5> QED
          BY <4>2, <5>1
      <4> QED
        BY <4>1, <4>2
    <3>a. 1 \in 1..Len(Channel(s))
      BY <2>2
    <3>3. Queued'
      <4>1. \A t \in Packets : \A i \in 1..Len(Channel(t)) : packet'[Channel(t)[i]].at = "queued"
        BY <1>0, <2>1 DEF Waiting, Queued
      <4> QED
        BY <3>2, <4>1 DEF Queued
    <3>4. QueuedOnce'
      <4> SUFFICES ASSUME NEW t \in Packets, NEW u \in Packets, NEW i \in 1..Len(Channel(t)'),
                          NEW j \in 1..Len(Channel(u)'), Channel(t)'[i] = Channel(u)'[j]
                   PROVE  t = u /\ i = j
        BY DEF QueuedOnce
      <4>1. QueuedOnce
        BY <1>0 DEF Waiting
      <4>2. CASE t # s /\ u # s
        BY <3>2, <4>1, <4>2 DEF QueuedOnce
      <4>3. CASE t = s /\ u = s
        <5>1. /\ i + 1 \in 1..Len(Channel(s)) /\ Channel(t)'[i] = Channel(s)[i + 1] /\ i \in Nat
              /\ j + 1 \in 1..Len(Channel(s)) /\ Channel(u)'[j] = Channel(s)[j + 1] /\ j \in Nat
          BY <3>2, <4>3
        <5>2. \A a, b \in 1..Len(Channel(s)) : Channel(s)[a] = Channel(s)[b] => a = b
          BY <4>1 DEF QueuedOnce
        <5>3. Channel(s)[i + 1] = Channel(s)[j + 1]
          BY <5>1
        <5>4. i + 1 = j + 1
          BY <5>1, <5>2, <5>3
        <5> QED
          BY <4>3, <5>1, <5>4
      <4>4. CASE t = s /\ u # s
        BY <3>2, <4>1, <4>4 DEF QueuedOnce
      <4>5. CASE t # s /\ u = s
        BY <3>2, <4>1, <4>5 DEF QueuedOnce
      <4> QED
        BY <4>2, <4>3, <4>4, <4>5
    <3>5. Held'
      <4>1. packet[Channel(s)[1]].at = "queued"
        BY <1>0, <3>a DEF Waiting, Queued
      <4> QED
        BY <1>0, <2>1, <2>2, <3>1, <3>a, <4>1 DEF Waiting, Held
    <3>6. HeldNotQueued'
      <4> SUFFICES ASSUME NEW t \in Packets, NEW u \in Packets, NEW i \in 1..Len(Channel(u)'), Holds(t)'
                   PROVE  Channel(u)'[i] # session'[t].holds
        BY DEF HeldNotQueued
      <4>1. PICK j \in 1..Len(Channel(u)) : Channel(u)'[i] = Channel(u)[j] /\ (u = s => j # 1)
        <5>1. CASE u = s
          <6>0. i + 1 \in 1..Len(Channel(u)) /\ Channel(u)'[i] = Channel(u)[i + 1] /\ i \in Nat \ {0}
            BY <3>2, <5>1
          <6>1. i + 1 \in 1..Len(Channel(u)) /\ Channel(u)'[i] = Channel(u)[i + 1] /\ i + 1 # 1
            BY <6>0
          <6> QED
            BY <6>1
        <5>2. CASE u # s
          BY <3>2, <5>2
        <5> QED
          BY <5>1, <5>2
      <4>2. CASE t = s
        BY <1>0, <3>1, <3>a, <4>1, <4>2 DEF Waiting, QueuedOnce
      <4>3. CASE t # s
        BY <1>0, <3>1, <4>1, <4>3 DEF Waiting, HeldNotQueued
      <4> QED
        BY <4>2, <4>3
    <3>7. HeldOnce'
      BY <1>0, <3>1, <3>a DEF Waiting, HeldOnce, HeldNotQueued
    <3> QED
      BY <3>3, <3>4, <3>5, <3>6, <3>7 DEF Waiting
  <2>9. UDP!ForwardedOnce'
    BY <1>0, <2>1 DEF UDP!ForwardedOnce
  <2> QED
    BY <2>6, <2>7, <2>8, <2>9 DEF UDPInv
<1>8. ASSUME NEW s \in Packets, UDP!ForwardQueued(s) PROVE UDPInv'
  <2>1. PICK p \in Packets : p = session[s].holds
    BY <1>0, <1>8 DEF UDP!ForwardQueued, Waiting, Held, Holds
  <2>2. /\ Holds(s) /\ UDP!forwardToRemote(p) /\ UNCHANGED sessions /\ ~panicked /\ packet[p].at = "queued"
        /\ session' = [session EXCEPT ![s] = [session[s] EXCEPT !.receiver = "select", !.holds = none, !.idle = FALSE]]
    BY <1>0, <1>8, <2>1 DEF UDP!ForwardQueued, UDP!Alive, Waiting, Held, Holds
  <2> DEFINE new == [session[s] EXCEPT !.receiver = "select", !.holds = none, !.idle = FALSE]
  <2>3. /\ new.receiver = "select" /\ new.dataChan = session[s].dataChan
        /\ new.from = session[s].from /\ new.closed = session[s].closed /\ new \in Session
    BY <1>a DEF Session, Receivers
  <2> HIDE DEF new
  <2>4. session'[s] = new /\ (\A t \in Packets : t # s => session'[t] = session[t]) /\ session' \in [Packets -> Session]
    BY <1>0, <2>2, <2>3 DEF UDPTypes, new
  <2>5. /\ UDP!ForwardedOnce' /\ out' \in [Packets -> Nat] /\ packet' \in [Packets -> Packet]
        /\ packet'[p].at \in {"dropped", "out"} /\ \A q \in Packets : q # p => packet'[q] = packet[q]
    BY <1>0, <2>2, ForwardsOnce
  <2>6. UDPTypes'
    BY <1>0, <2>2, <2>4, <2>5 DEF UDPTypes
  <2>7. NotMadeBefore' /\ Mapped'
    BY <1>0, <2>2, <2>3, <2>4, <2>5 DEF NotMadeBefore, Mapped, UDPTypes, Holds
  <2>8. Waiting'
    <3>1. /\ \A t \in Packets : Channel(t)' = Channel(t)
          /\ \A t \in Packets : Holds(t)' => t # s /\ Holds(t) /\ session'[t].holds = session[t].holds
      BY <2>3, <2>4 DEF Channel, Holds
    <3>2. \A t \in Packets : \A i \in 1..Len(Channel(t)) : Channel(t)[i] \in Packets /\ Channel(t)[i] # p
      BY <1>0, <2>1, <2>2, ChannelsHoldPackets DEF Waiting, HeldNotQueued
    <3>3. \A t \in Packets : Holds(t)' => session'[t].holds # p
      BY <1>0, <2>1, <2>2, <3>1 DEF Waiting, HeldOnce
    <3>4. Queued'
      <4>1. \A t \in Packets : \A i \in 1..Len(Channel(t)) : packet'[Channel(t)[i]].at = "queued"
        BY <1>0, <2>5, <3>2 DEF Waiting, Queued
      <4> QED
        BY <3>1, <4>1 DEF Queued
    <3>5. QueuedOnce' /\ HeldNotQueued' /\ HeldOnce'
      BY <1>0, <3>1 DEF Waiting, QueuedOnce, HeldNotQueued, HeldOnce
    <3>6. Held'
      BY <1>0, <2>5, <3>1, <3>3 DEF Waiting, Held
    <3> QED
      BY <3>4, <3>5, <3>6 DEF Waiting
  <2> QED
    BY <2>5, <2>6, <2>7, <2>8 DEF UDPInv
<1>9. ASSUME NEW s \in Packets,
             UDP!ReceiveTick(s) \/ UDP!ReceiveClosed(s) \/ UDP!TickActive(s) \/ UDP!Idle(s)
      PROVE  UDPInv'
  <2>1. PICK r \in Receivers, idle \in BOOLEAN :
           /\ session' = [session EXCEPT ![s] = [session[s] EXCEPT !.receiver = r, !.idle = idle]]
           /\ r = "none" <=> session[s].receiver = "none"
           /\ r = "done" => session[s].closed \/ session[s].receiver = "done"
           /\ r = "forward" => session[s].receiver = "forward"
    <3>1. session[s] \in Session
      BY <1>a
    <3>2. session[s].receiver \in Receivers /\ session[s].idle \in BOOLEAN
      BY <3>1 DEF Session
    <3>3. \A r, idle : /\ [session[s] EXCEPT !.receiver = r] = [session[s] EXCEPT !.receiver = r, !.idle = session[s].idle]
                       /\ [session[s] EXCEPT !.idle = idle] = [session[s] EXCEPT !.receiver = session[s].receiver, !.idle = idle]
      BY <3>1 DEF Session
    <3>4. CASE UDP!ReceiveTick(s)
      <4>1. session' = [session EXCEPT ![s] = [session[s] EXCEPT !.receiver = "tick"]] /\ session[s].receiver = "select"
        BY <3>4 DEF UDP!ReceiveTick
      <4> QED
        BY <3>2, <3>3, <4>1 DEF Receivers
    <3>5. CASE UDP!ReceiveClosed(s)
      <4>1. session' = [session EXCEPT ![s] = [session[s] EXCEPT !.receiver = "done"]] /\ session[s].receiver = "select" /\ session[s].closed
        BY <3>5 DEF UDP!ReceiveClosed
      <4> QED
        BY <3>2, <3>3, <4>1 DEF Receivers
    <3>6. CASE UDP!TickActive(s)
      <4>1. session' = [session EXCEPT ![s] = [session[s] EXCEPT !.receiver = "select"]] /\ session[s].receiver = "tick"
        BY <3>6 DEF UDP!TickActive
      <4> QED
        BY <3>2, <3>3, <4>1 DEF Receivers
    <3>7. CASE UDP!Idle(s)
      <4>1. session' = [session EXCEPT ![s] = [session[s] EXCEPT !.idle = TRUE]] /\ session[s].receiver \notin {"none", "done"}
        BY <3>7 DEF UDP!Idle
      <4> QED
        BY <3>2, <3>3, <4>1 DEF Receivers
    <3> QED
      BY <1>9, <3>4, <3>5, <3>6, <3>7
  <2>2. UNCHANGED <<packet, sessions, out>> /\ ~panicked
    BY <1>9 DEF UDP!ReceiveTick, UDP!ReceiveClosed, UDP!TickActive, UDP!Idle, UDP!Alive
  <2> DEFINE new == [session[s] EXCEPT !.receiver = r, !.idle = idle]
  <2>3. /\ new.receiver = r /\ new.dataChan = session[s].dataChan /\ new.holds = session[s].holds
        /\ new.from = session[s].from /\ new.closed = session[s].closed /\ new \in Session
    BY <1>a DEF Session
  <2> HIDE DEF new
  <2>4. session'[s] = new /\ (\A t \in Packets : t # s => session'[t] = session[t]) /\ session' \in [Packets -> Session]
    BY <1>0, <2>1, <2>3 DEF UDPTypes, new
  <2>5. UDPTypes'
    BY <1>0, <2>2, <2>4 DEF UDPTypes
  <2>6. Mapped'
    BY <1>0, <2>1, <2>2, <2>3, <2>4 DEF Mapped, UDPTypes
  <2>7. NotMadeBefore' /\ Waiting' /\ UDP!ForwardedOnce'
    <3>1. \A t \in Packets : Channel(t)' = Channel(t) /\ (session'[t].receiver = "none" <=> session[t].receiver = "none")
      BY <2>1, <2>3, <2>4 DEF Channel
    <3>2. \A t \in Packets : Holds(t)' => Holds(t) /\ session'[t].holds = session[t].holds
      BY <2>1, <2>3, <2>4 DEF Holds
    <3> QED
      BY <2>2, <2>5, <3>1, <3>2, SessionStep
  <2> QED
    BY <2>5, <2>6, <2>7 DEF UDPInv
<1>10. ASSUME NEW s \in Packets, UDP!TickExpired(s) PROVE UDPInv'
  <2>1. /\ session' = [session EXCEPT ![s] = [session[s] EXCEPT !.closed = TRUE, !.receiver = "done"]]
        /\ sessions' = [c \in DOMAIN sessions \ {session[s].from} |-> sessions[c]]
        /\ UNCHANGED <<packet, out>> /\ ~panicked /\ session[s].receiver = "tick"
    BY <1>10 DEF UDP!TickExpired, UDP!Forget
  <2> DEFINE new == [session[s] EXCEPT !.closed = TRUE, !.receiver = "done"]
  <2>2. new.receiver = "done" /\ new.dataChan = session[s].dataChan /\ new \in Session
    BY <1>a DEF Session, Receivers
  <2> HIDE DEF new
  <2>3. session'[s] = new /\ (\A t \in Packets : t # s => session'[t] = session[t]) /\ session' \in [Packets -> Session]
    BY <1>0, <2>1, <2>2 DEF UDPTypes, new
  <2>4. UDPTypes'
    BY <1>0, <2>1, <2>3 DEF UDPTypes
  <2>5. Mapped'
    BY <1>0, <2>1, <2>3 DEF Mapped, UDPTypes
  <2>6. NotMadeBefore' /\ Waiting' /\ UDP!ForwardedOnce'
    <3>1. \A t \in Packets : Channel(t)' = Channel(t) /\ (session'[t].receiver = "none" <=> session[t].receiver = "none")
      BY <2>1, <2>2, <2>3 DEF Channel
    <3>2. \A t \in Packets : Holds(t)' => Holds(t) /\ session'[t].holds = session[t].holds
      BY <2>2, <2>3 DEF Holds
    <3> QED
      BY <2>1, <2>4, <3>1, <3>2, SessionStep
  <2> QED
    BY <2>4, <2>5, <2>6 DEF UDPInv
<1>11. CASE UDP!Sweep \/ UDP!Close
  <2>1. PICK ss \in SUBSET Packets, keys \in SUBSET DOMAIN sessions :
           /\ UDP!CloseChans(ss) /\ UDP!Forget(keys) /\ ss = {sessions[c] : c \in keys}
    <3>1. CASE UDP!Sweep
      BY <1>0, <3>1 DEF UDP!Sweep, UDPTypes
    <3>2. CASE UDP!Close
      <4>1. UDP!Range(sessions) = {sessions[c] : c \in DOMAIN sessions}
        BY DEF UDP!Range
      <4>2. UDP!Range(sessions) \in SUBSET Packets
        BY <1>0, <4>1 DEF UDPTypes
      <4> QED
        BY <3>2, <4>1, <4>2 DEF UDP!Close
    <3> QED
      BY <1>11, <3>1, <3>2
  <2>2. UNCHANGED <<packet, out>>
    BY <1>11 DEF UDP!Sweep, UDP!Close
  <2>3. /\ session' = [t \in Packets |-> IF t \in ss THEN [session[t] EXCEPT !.closed = TRUE] ELSE session[t]]
        /\ sessions' = [c \in DOMAIN sessions \ keys |-> sessions[c]] /\ ~panicked
    BY <2>1 DEF UDP!CloseChans, UDP!Forget
  <2>4. \A t \in Packets : [session[t] EXCEPT !.closed = TRUE] \in Session
    BY <1>a DEF Session
  <2>5. session' \in [Packets -> Session]
    BY <1>a, <2>3, <2>4
  <2>6. \A t \in Packets : /\ session'[t].receiver = session[t].receiver /\ session'[t].dataChan = session[t].dataChan
                            /\ session'[t].from = session[t].from /\ session'[t].holds = session[t].holds
    <3>1. \A t \in Packets : LET c == [session[t] EXCEPT !.closed = TRUE]
                              IN  /\ c.receiver = session[t].receiver /\ c.dataChan = session[t].dataChan
                                  /\ c.from = session[t].from /\ c.holds = session[t].holds
      BY <1>a DEF Session
    <3> QED
      BY <2>3, <3>1
  <2>a. \A t \in Packets : t \notin ss => session'[t] = session[t]
    BY <2>3
  <2>7. UDPTypes'
    BY <1>0, <2>2, <2>3, <2>5 DEF UDPTypes
  <2>8. Mapped'
    <3>1. \A c \in DOMAIN sessions : c \notin keys => sessions[c] \in Packets /\ sessions[c] \notin ss
      BY <1>0, <2>1, <2>3 DEF Mapped, UDPTypes
    <3> QED
      BY <1>0, <2>3, <2>6, <2>a, <3>1 DEF Mapped
  <2>9. NotMadeBefore' /\ Waiting' /\ UDP!ForwardedOnce'
    <3>1. \A t \in Packets : Channel(t)' = Channel(t) /\ (session'[t].receiver = "none" <=> session[t].receiver = "none")
      BY <2>6 DEF Channel
    <3>2. \A t \in Packets : Holds(t)' => Holds(t) /\ session'[t].holds = session[t].holds
      BY <2>6 DEF Holds
    <3> QED
      BY <2>2, <2>7, <3>1, <3>2, SessionStep
  <2> QED
    BY <2>7, <2>8, <2>9 DEF UDPInv
<1> QED
  BY <1>1, <1>2, <1>3, <1>4, <1>5, <1>6, <1>7, <1>8, <1>9, <1>10, <1>11 DEF UDP!Next

\* UDPBridge, however its handlers, receivers, cleaner and Close come in between:
\* as long as nothing has panicked a session in the map is open and served, and no
\* packet is forwarded twice or out of nothing.
THEOREM UDPSafe == Spec => []UDPForwards
<1>1. Init => UDPInv
  <2> SUFFICES ASSUME Init PROVE UDPInv
    OBVIOUS
  <2> USE DEF Init, UDP!Init
  <2>1. UDP!Unborn \in Session /\ UDP!Unborn.receiver = "none" /\ UDP!Unborn.dataChan = <<>>
    BY EmptySeq DEF UDP!Unborn, Session, Receivers
  <2>2. session \in [Packets -> Session] /\ \A s \in Packets : session[s] = UDP!Unborn
    BY <2>1
  <2>3. packet \in [Packets -> Packet] /\ \A p \in Packets : packet[p].at = "unsent"
    BY DEF Packet, Ats
  <2>4. UDPTypes
    BY <2>2, <2>3 DEF UDPTypes
  <2>5. NotMadeBefore /\ Mapped
    BY <2>1, <2>2 DEF NotMadeBefore, Mapped
  <2>6. Waiting
    BY <2>1, <2>2 DEF Waiting, Queued, QueuedOnce, Held, HeldNotQueued, HeldOnce, Channel, Holds
  <2>7. UDP!ForwardedOnce
    BY <2>3 DEF UDP!ForwardedOnce
  <2> QED
    BY <2>4, <2>5, <2>6, <2>7 DEF UDPInv
<1>2. UDPInv /\ [Next]_vars => UDPInv'
  BY UDPStep DEF Next, vars, udpVars
<1>3. UDPInv => UDPForwards
  BY DEF UDPInv, Mapped, UDPForwards, UDP!MappedIsServed
<1> QED
  BY <1>1, <1>2, <1>3, PTL DEF Spec

-------------------------------------------------------------------------------
(***************************************************************************)
(* Capture.  The loops share a writer without a lock; that no packet is    *)
(* torn apart is owed to New, which lets only one interface write a pcap   *)
(* file, and pcapng needs but one write for a packet.                      *)
(***************************************************************************)
Write == [src : Nat, part : {"whole", "header", "data"}]

CapTypes ==
    /\ cfg \in Configs
    /\ loops \in [Cap!Ifaces -> {"none", "check", "read", "wait", "write", "data", "done"}]
    /\ output \in Seq(Write)

LastHeader(i) == Len(output) > 0 /\ output[Len(output)] = [src |-> i, part |-> "header"]
NoHeader      == \A i \in 1..Len(output) : output[i].part # "header"

CapFile ==
    /\ at \in {"open", "ready", "failed"} => NoHeader
    /\ at \notin {"open", "failed"} => Cap!validConfig
    /\ cfg.format # "pcap" => NoHeader
    /\ Len(output) > 0 /\ output[Len(output)].part = "header" => loops[1] \in {"data", "done"}
    /\ \A i \in Cap!Ifaces : loops[i] = "data" => cfg.format = "pcap" /\ LastHeader(i)

\* All that is open is closed when everything is.
CapOpen == open \subseteq closeFns /\ Cap!NothingLeftOpen

CapInv == CapTypes /\ CapFile /\ CapOpen /\ Cap!PacketsWhole

\* Steps that write nothing and put no loop between a header and its data.
LEMMA NothingWritten ==
    ASSUME CapInv, UNCHANGED <<cfg, output>>, CapTypes', CapOpen',
           at' \in {"open", "ready", "failed"} => at \in {"open", "ready", "failed"},
           at \in {"open", "failed"} => at' \in {"open", "failed"} \/ Cap!validConfig,
           1 \in Cap!Ifaces => (loops[1] \in {"data", "done"} => loops'[1] \in {"data", "done"}),
           \A i \in Cap!Ifaces : loops'[i] = "data" => loops[i] = "data"
    PROVE  CapInv'
<1>1. Cap!Ifaces' = Cap!Ifaces /\ 1 \in Cap!Ifaces /\ Cap!validConfig' = Cap!validConfig
  BY DEF CapInv, CapTypes, Cap!Ifaces, Cap!validConfig, Configs
<1>2. /\ NoHeader' = NoHeader /\ Cap!PacketsWhole' = Cap!PacketsWhole
      /\ \A i \in Cap!Ifaces : LastHeader(i)' = LastHeader(i)
  BY DEF NoHeader, LastHeader, Cap!PacketsWhole
<1>3. CapFile'
  BY <1>1, <1>2 DEF CapInv, CapFile
<1> QED
  BY <1>2, <1>3 DEF CapInv

\* One more write.
LEMMA OneWritten ==
    ASSUME CapTypes, NEW w \in Write, output' = Append(output, w)
    PROVE  /\ output' \in Seq(Write) /\ Len(output) \in Nat /\ Len(output') = Len(output) + 1
           /\ output'[Len(output')] = w /\ \A i \in 1..Len(output) : output'[i] = output[i]
           /\ DOMAIN output = 1..Len(output) /\ DOMAIN output' = 1..Len(output')
<1>1. output \in Seq(Write)
  BY DEF CapTypes
<1> QED
  BY <1>1, AppendProperties, LenProperties

\* A step of New, Run, a loop, Close or the caller keeps the invariant.
LEMMA CaptureStep == CapInv /\ [Cap!CaptureNext]_capVars => CapInv'
<1> SUFFICES ASSUME CapInv, [Cap!CaptureNext]_capVars PROVE CapInv'
  OBVIOUS
<1> USE DEF Cap!running, Cap!loopVars
<1>0. /\ CapTypes /\ CapFile /\ CapOpen /\ Cap!PacketsWhole /\ 1 \in Cap!Ifaces
      /\ \A i \in Cap!Ifaces : i \in Nat
  BY DEF CapInv, CapTypes, Cap!Ifaces, Configs
<1>1. CASE UNCHANGED capVars
  BY <1>1, NothingWritten DEF capVars, CapInv, CapTypes, CapOpen, CapFile, Cap!NothingLeftOpen, Cap!Ifaces
<1>2. CASE Cap!OpenFails \/ Cap!OpenLive
  <2>1. /\ UNCHANGED <<cfg, output, loops>> /\ at = "open" /\ at' \in {"open", "failed"}
    BY <1>2 DEF Cap!OpenFails, Cap!OpenLive, Cap!FailNew
  <2>2. CapOpen'
    BY <1>0, <1>2 DEF Cap!OpenFails, Cap!OpenLive, Cap!FailNew, Cap!closeAll, CapOpen, Cap!NothingLeftOpen
  <2>3. CapTypes'
    BY <1>0, <2>1 DEF CapTypes, Cap!Ifaces
  <2> QED
    BY <2>1, <2>2, <2>3, NothingWritten
<1>3. CASE Cap!buildWriter
  <2>1. UNCHANGED <<cfg, loops>> /\ at = "open" /\ Cap!validConfig /\ at' \in {"ready", "failed"}
    BY <1>3 DEF Cap!buildWriter, Cap!FailNew, Cap!running
  <2>2. CapOpen'
    BY <1>0, <1>3 DEF Cap!buildWriter, Cap!FailNew, Cap!closeAll, CapOpen, Cap!NothingLeftOpen
  <2>3. CASE UNCHANGED output
    <3>1. CapTypes'
      BY <1>0, <2>1, <2>3 DEF CapTypes, Cap!Ifaces
    <3> QED
      BY <2>1, <2>2, <2>3, <3>1, NothingWritten
  <2>4. CASE output' = <<[src |-> 0, part |-> "whole"]>>
    <3>1. output' \in Seq(Write) /\ Len(output') = 1 /\ output'[1].part = "whole" /\ DOMAIN output' = {1}
      BY <2>4 DEF Write
    <3>2. CapTypes'
      BY <1>0, <2>1, <3>1 DEF CapTypes, Cap!Ifaces
    <3>3. NoHeader' /\ Cap!PacketsWhole'
      BY <3>1 DEF NoHeader, Cap!PacketsWhole
    <3>4. \A i \in Cap!Ifaces : loops[i] # "data"
      <4>1. output \in Seq(Write)
        BY <1>0 DEF CapTypes
      <4>2. Len(output) \in Nat
        BY <4>1, LenProperties
      <4>3. NoHeader /\ \A i \in Cap!Ifaces : loops[i] = "data" => LastHeader(i)
        BY <1>0, <2>1 DEF CapFile
      <4>4. SUFFICES ASSUME NEW i \in Cap!Ifaces, loops[i] = "data" PROVE FALSE
        OBVIOUS
      <4>5. Len(output) > 0 /\ output[Len(output)].part = "header"
        <5>1. LastHeader(i)
          BY <4>3, <4>4
        <5>2. output[Len(output)] = [src |-> i, part |-> "header"]
          BY <5>1 DEF LastHeader
        <5>3. Len(output) > 0
          BY <5>1 DEF LastHeader
        <5> QED
          BY <5>2, <5>3
      <4>6. Len(output) \in 1..Len(output)
        BY <4>2, <4>5
      <4> QED
        BY <4>3, <4>5, <4>6 DEF NoHeader
    <3>5. CapFile'
      BY <2>1, <3>1, <3>3, <3>4 DEF CapFile, Cap!validConfig, Cap!Ifaces
    <3> QED
      BY <2>2, <3>2, <3>3, <3>5 DEF CapInv
  <2> QED
    BY <1>3, <2>3, <2>4 DEF Cap!buildWriter, Cap!FailNew
<1>4. CASE Cap!Run
  <2>1. /\ at = "ready" /\ at' = "running" /\ loops' = [i \in Cap!Ifaces |-> "check"]
        /\ UNCHANGED <<cfg, open, closeFns, output>>
    BY <1>4 DEF Cap!Run
  <2>2. CapTypes' /\ CapOpen'
    BY <1>0, <2>1 DEF CapTypes, CapOpen, Cap!NothingLeftOpen, Cap!Ifaces
  <2>3. CapFile'
    <3>1. NoHeader /\ Cap!validConfig
      BY <1>0, <2>1 DEF CapFile
    <3>2. ~(Len(output) > 0 /\ output[Len(output)].part = "header")
      <4>1. output \in Seq(Write)
        BY <1>0 DEF CapTypes
      <4>2. Len(output) \in Nat
        BY <4>1, LenProperties
      <4> QED
        BY <3>1, <4>2 DEF NoHeader
    <3>3. NoHeader' /\ Cap!validConfig' /\ Cap!Ifaces' = Cap!Ifaces
      BY <2>1, <3>1 DEF NoHeader, Cap!validConfig, Cap!Ifaces
    <3> QED
      BY <1>0, <2>1, <3>2, <3>3 DEF CapFile
  <2>4. Cap!PacketsWhole'
    BY <1>0, <2>1 DEF Cap!PacketsWhole
  <2> QED
    BY <2>2, <2>3, <2>4 DEF CapInv
<1>5. CASE Cap!Cancel \/ Cap!Close \/ Cap!Return
  <2>1. /\ UNCHANGED <<cfg, output, loops>> /\ at \in {"ready", "running"}
        /\ at' = at \/ (at = "running" /\ at' = "returned")
    BY <1>5 DEF Cap!Cancel, Cap!Close, Cap!Return
  <2>2. CapOpen'
    BY <1>0, <1>5 DEF Cap!Cancel, Cap!Close, Cap!Return, Cap!closeAll, CapOpen, Cap!NothingLeftOpen
  <2>3. CapTypes'
    BY <1>0, <2>1 DEF CapTypes, Cap!Ifaces
  <2> QED
    BY <2>1, <2>2, <2>3, NothingWritten
<1>6. ASSUME NEW i \in Cap!Ifaces,
             Cap!Check(i) \/ Cap!ReadPacket(i) \/ Cap!Timeout(i) \/ Cap!Receive(i) \/ Cap!ReadFails(i) \/ Cap!Fault(i)
      PROVE  CapInv'
  <2>1. /\ UNCHANGED <<cfg, open, closeFns, output>> /\ at = "running" /\ at' \in {"running", "crashed"}
        /\ \/ UNCHANGED loops
           \/ /\ loops[i] \in {"check", "read", "wait"}
              /\ \E place \in {"check", "read", "wait", "write", "done"} : loops' = [loops EXCEPT ![i] = place]
    BY <1>6 DEF Cap!Check, Cap!ReadPacket, Cap!Timeout, Cap!Receive, Cap!ReadFails, Cap!Fault, Cap!Goto, Cap!Fail
  <2>2. CapTypes' /\ CapOpen'
    BY <1>0, <2>1 DEF CapTypes, CapOpen, Cap!NothingLeftOpen, Cap!Ifaces
  <2>3. /\ loops[1] \in {"data", "done"} => loops'[1] \in {"data", "done"}
        /\ \A j \in Cap!Ifaces : loops'[j] = "data" => loops[j] = "data"
    BY <1>0, <2>1 DEF CapTypes
  <2> QED
    BY <2>1, <2>2, <2>3, NothingWritten
<1>7. ASSUME NEW i \in Cap!Ifaces, Cap!WritePacket(i) PROVE CapInv'
  <2>1. /\ UNCHANGED <<cfg, at, open, closeFns>> /\ at = "running" /\ loops[i] \in {"write", "data"}
        /\ Cap!validConfig /\ Cap!validConfig' /\ Cap!Ifaces' = Cap!Ifaces
    BY <1>0, <1>7 DEF Cap!WritePacket, CapFile, Cap!validConfig, Cap!Ifaces
  <2>2. CapOpen'
    BY <1>0, <2>1 DEF CapOpen, Cap!NothingLeftOpen
  <2>3. CASE Cap!Fail(i) /\ UNCHANGED output
    <3>1. loops' = [loops EXCEPT ![i] = "done"]
      BY <2>3 DEF Cap!Fail, Cap!Goto
    <3>2. CapTypes'
      BY <1>0, <2>1, <2>3, <3>1 DEF CapTypes
    <3>3. /\ loops[1] \in {"data", "done"} => loops'[1] \in {"data", "done"}
          /\ \A j \in Cap!Ifaces : loops'[j] = "data" => loops[j] = "data"
      BY <1>0, <3>1 DEF CapTypes
    <3> QED
      BY <2>1, <2>2, <2>3, <3>2, <3>3, NothingWritten
  <2>4. CASE ~UNCHANGED output \/ ~Cap!Fail(i)
    <3> DEFINE written == IF loops[i] = "data" THEN "data" ELSE Cap!Parts[1]
    <3>1. PICK w \in Write : /\ w = [src |-> i, part |-> written] /\ output' = Append(output, w)
                             /\ loops' = [loops EXCEPT ![i] = IF w.part = "header" THEN "data" ELSE "check"]
      <4>1. written \in {"whole", "header", "data"} /\ i \in Nat
        BY <1>0 DEF Cap!Parts
      <4>2. [src |-> i, part |-> written] \in Write
        BY <4>1 DEF Write
      <4> QED
        BY <1>7, <2>4, <4>2 DEF Cap!WritePacket, Cap!Goto
    <3>2. /\ output' \in Seq(Write) /\ Len(output) \in Nat /\ Len(output') = Len(output) + 1
          /\ output'[Len(output')] = w /\ \A j \in 1..Len(output) : output'[j] = output[j]
          /\ DOMAIN output = 1..Len(output) /\ DOMAIN output' = 1..Len(output')
      BY <1>0, OneWritten, <3>1
    <3>3. CapTypes'
      BY <1>0, <2>1, <3>1, <3>2 DEF CapTypes
    <3>4. CASE cfg.format = "pcap"
      <4>1. Cap!Ifaces = {1} /\ i = 1
        BY <1>0, <2>1, <3>4 DEF Cap!validConfig, Cap!Ifaces, CapTypes, Configs
      <4>2. loops'[1] = IF w.part = "header" THEN "data" ELSE "check"
        BY <1>0, <3>1, <4>1 DEF CapTypes
      <4>3. w.src = 1 /\ w.part = (IF loops[1] = "data" THEN "data" ELSE "header")
        BY <3>1, <3>4, <4>1 DEF Cap!Parts
      <4>4. CapFile'
        <5>1. w.part = "header" => w = [src |-> 1, part |-> "header"]
          BY <3>1, <4>1
        <5> QED
          BY <2>1, <3>2, <3>4, <4>1, <4>2, <5>1 DEF CapFile, LastHeader
      <4>5. Cap!PacketsWhole'
        <5>0. PICK n \in Nat : n = Len(output)
          BY <3>2
        <5>1. /\ Len(output') = n + 1 /\ output'[n + 1] = w /\ \A j \in 1..n : output'[j] = output[j]
              /\ DOMAIN output' = 1..(n + 1) /\ DOMAIN output = 1..n
          BY <3>2, <5>0
        <5>2. \A j \in 1..n : output[j].part = "header" => j = n \/ output[j + 1] = [src |-> output[j].src, part |-> "data"]
          BY <1>0, <5>0, <5>1 DEF Cap!PacketsWhole
        <5>3. n > 0 /\ output[n].part = "header" => w = [src |-> output[n].src, part |-> "data"]
          <6> SUFFICES ASSUME n > 0, output[n].part = "header" PROVE w = [src |-> output[n].src, part |-> "data"]
            OBVIOUS
          <6>1. loops[1] = "data"
            BY <1>0, <2>1, <4>1, <5>0 DEF CapFile
          <6>2. output[n] = [src |-> 1, part |-> "header"]
            BY <1>0, <5>0, <6>1 DEF CapFile, LastHeader
          <6> QED
            BY <3>1, <4>1, <6>1, <6>2
        <5>4. ASSUME NEW j \in 1..(n + 1), output'[j].part = "header", j # n + 1
              PROVE  output'[j + 1] = [src |-> output'[j].src, part |-> "data"]
          <6>1. j \in 1..n /\ output'[j] = output[j]
            BY <5>1, <5>4
          <6>2. CASE j = n
            BY <5>1, <5>3, <5>4, <6>1, <6>2
          <6>3. CASE j # n
            <7>1. j + 1 \in 1..n
              BY <6>1, <6>3
            <7> QED
              BY <5>1, <5>2, <5>4, <6>1, <6>3, <7>1
          <6> QED
            BY <6>2, <6>3
        <5> QED
          BY <5>1, <5>4 DEF Cap!PacketsWhole
      <4> QED
        BY <2>2, <3>3, <4>4, <4>5 DEF CapInv
    <3>5. CASE cfg.format # "pcap"
      <4>1. NoHeader /\ \A j \in Cap!Ifaces : loops[j] # "data"
        BY <1>0, <3>5 DEF CapFile
      <4>2. w.part = "whole"
        BY <3>1, <3>5, <4>1 DEF Cap!Parts
      <4>3. NoHeader'
        <5>1. \A j \in 1..Len(output') : j = Len(output') \/ j \in 1..Len(output)
          BY <3>2
        <5> QED
          BY <3>2, <4>1, <4>2, <5>1 DEF NoHeader
      <4>4. \A j \in Cap!Ifaces : loops'[j] # "data"
        BY <1>0, <3>1, <4>1, <4>2 DEF CapTypes
      <4>5. CapFile'
        BY <2>1, <3>2, <3>5, <4>2, <4>3, <4>4 DEF CapFile
      <4>6. Cap!PacketsWhole'
        BY <3>2, <4>3 DEF NoHeader, Cap!PacketsWhole
      <4> QED
        BY <2>2, <3>3, <4>5, <4>6 DEF CapInv
    <3> QED
      BY <3>4, <3>5
  <2> QED
    BY <2>3, <2>4
<1> QED
  BY <1>1, <1>2, <1>3, <1>4, <1>5, <1>6, <1>7 DEF Cap!CaptureNext, Cap!Loop

\* capture.New and Run, for one interface or two, whatever fails and whenever Close is
\* called: a packet's header is followed by its own data in the file, and after a
\* New that failed or a Run that returned nothing but a failed configure's ring is left.
THEOREM CaptureSafe == Spec => []CaptureLeavesOrder
<1>1. Init => CapInv
  <2> SUFFICES ASSUME Init PROVE CapInv
    OBVIOUS
  <2>1. /\ cfg \in Configs /\ at = "open" /\ open = {} /\ closeFns = {}
        /\ loops = [i \in Cap!Ifaces |-> "none"] /\ output = <<>>
    BY DEF Init, Cap!CaptureInit
  <2>2. CapTypes /\ CapOpen
    BY <2>1, EmptySeq DEF CapTypes, CapOpen, Cap!NothingLeftOpen
  <2>3. CapFile /\ Cap!PacketsWhole
    BY <2>1 DEF CapFile, NoHeader, Cap!PacketsWhole
  <2> QED
    BY <2>2, <2>3 DEF CapInv
<1>2. CapInv /\ [Next]_vars => CapInv'
  BY CaptureStep DEF Next, vars, capVars
<1>3. CapInv => CaptureLeavesOrder
  BY DEF CapInv, CapOpen, CaptureLeavesOrder
<1> QED
  BY <1>1, <1>2, <1>3, PTL DEF Spec

===============================================================================
