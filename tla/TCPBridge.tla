------------------------------- MODULE TCPBridge ------------------------------
(***************************************************************************)
(* gnet/forward/tcp.go: ProtocolAwareBridge between a local and a remote    *)
(* connection, with SimpleProtocolHandler.  A loop for each direction reads *)
(* what there is of the stream, converts it (the two byte orders differ; a  *)
(* bridge without a handler is the case "same" throughout) and writes it.   *)
(*                                                                         *)
(* A stream is a sequence of units: a frame is a "head" of six bytes, which *)
(* are to be converted, and a "body", which is not.  A read may begin and   *)
(* end between any two units.                                               *)
(***************************************************************************)
EXTENDS Integers, Sequences, SequencesExt

CONSTANTS MaxFrames,  \* frames a peer sends
          BufferSize  \* units a read returns at most

VARIABLES started,  \* "new", "running", "returned": Start
          closed,   \* b.closed
          conns,    \* directions whose source connection is open at this end
          timeout,  \* whether reads have a deadline
          wire,     \* direction -> units sent and not yet read
          gone,     \* directions whose source peer has closed its connection
          loop,     \* direction -> [at, data], at one of "check", "read", "write", "done"
          out,      \* direction -> units written: [frame, part, form]
          sent,     \* history: direction -> units sent
          aligned   \* history: directions in which each read was of whole frames

tcpVars == <<started, closed, conns, timeout, wire, gone, loop, out, sent, aligned>>

Directions == {"LocalToRemote", "RemoteToLocal"}
Back(d) == IF d = "LocalToRemote" THEN "RemoteToLocal" ELSE "LocalToRemote"

TCPInit ==
    /\ started = "new" /\ closed = FALSE /\ conns = Directions /\ timeout \in BOOLEAN
    /\ wire = [d \in Directions |-> <<>>] /\ gone = {}
    /\ loop = [d \in Directions |-> [at |-> "check", data |-> <<>>]]
    /\ out = [d \in Directions |-> <<>>] /\ sent = [d \in Directions |-> <<>>] /\ aligned = Directions

-------------------------------------------------------------------------------
\* The peers.
Frame(n) == <<[frame |-> n, part |-> "head"], [frame |-> n, part |-> "body"]>>

Send(d) ==
    /\ d \notin gone /\ Len(sent[d]) < 2 * MaxFrames
    /\ LET f == Frame(Len(sent[d]) \div 2 + 1)
       IN  wire' = [wire EXCEPT ![d] = @ \o f] /\ sent' = [sent EXCEPT ![d] = @ \o f]
    /\ UNCHANGED <<started, closed, conns, timeout, gone, loop, out, aligned>>

PeerClose(d) ==
    /\ d \notin gone /\ gone' = gone \cup {d}
    /\ UNCHANGED <<started, closed, conns, timeout, wire, loop, out, sent, aligned>>

-------------------------------------------------------------------------------
\* ProcessData: the first six bytes of what was read are taken for a head.
ShouldProcess(data) == Len(data) >= 1
Written(unit, form) == [frame |-> unit.frame, part |-> unit.part, form |-> form]
convertByteOrder(data) ==
    IF ShouldProcess(data) /\ \E i \in DOMAIN data : data[i].part = "head"   \* at least six bytes
    THEN [i \in DOMAIN data |-> Written(data[i],
             IF data[1].part = "head" THEN IF i = 1 THEN "converted" ELSE "same"
             ELSE IF i <= 2 THEN "garbled" ELSE "same")]
    ELSE [i \in DOMAIN data |-> Written(data[i], "same")]

Start ==
    /\ started = "new"
    /\ started' = IF closed THEN "returned" ELSE "running"
    /\ UNCHANGED <<closed, conns, timeout, wire, gone, loop, out, sent, aligned>>

loopVars == <<started, closed, conns, timeout, gone, sent>>
Goto(d, place) == loop' = [loop EXCEPT ![d] = [at |-> place, data |-> <<>>]]

Check(d) ==
    /\ started = "running" /\ loop[d].at = "check"
    /\ Goto(d, IF closed THEN "done" ELSE "read")
    /\ UNCHANGED <<loopVars, wire, out, aligned>>

Read(d) ==
    /\ started = "running" /\ loop[d].at = "read" /\ d \in conns
    /\ \E n \in 1..BufferSize :
          /\ n <= Len(wire[d])
          /\ LET data == SubSeq(wire[d], 1, n)
             IN  /\ loop' = [loop EXCEPT ![d] = [at |-> "write", data |-> data]]
                 /\ aligned' = IF n = 2 /\ data[1].part = "head" THEN aligned ELSE aligned \ {d}
          /\ wire' = [wire EXCEPT ![d] = SubSeq(@, n + 1, Len(@))]
    /\ UNCHANGED <<loopVars, out>>

\* A timeout begins the loop again; io.EOF, and any other error, ends it.
ReadTimeout(d) ==
    /\ started = "running" /\ loop[d].at = "read" /\ timeout /\ wire[d] = <<>> /\ d \notin gone /\ d \in conns
    /\ Goto(d, "check")
    /\ UNCHANGED <<loopVars, wire, out, aligned>>

ReadEnds(d) ==
    /\ started = "running" /\ loop[d].at = "read"
    /\ d \notin conns \/ (d \in gone /\ wire[d] = <<>>)
    /\ Goto(d, "done")
    /\ UNCHANGED <<loopVars, wire, out, aligned>>

\* What the peer's other direction is written to is the connection of Back(d).
Write(d) ==
    /\ started = "running" /\ loop[d].at = "write" /\ Back(d) \in conns
    /\ out' = [out EXCEPT ![d] = @ \o convertByteOrder(loop[d].data)]
    /\ Goto(d, "check")
    /\ UNCHANGED <<loopVars, wire, aligned>>

\* Mutant: the loop goes on after a write that failed.
WriteFails_GoesOn(d) ==
    /\ started = "running" /\ loop[d].at = "write"
    /\ Back(d) \notin conns \/ Back(d) \in gone
    /\ Goto(d, "check")
    /\ UNCHANGED <<loopVars, wire, out, aligned>>

WriteFails(d) ==
    /\ started = "running" /\ loop[d].at = "write"
    /\ Back(d) \notin conns \/ Back(d) \in gone
    /\ Goto(d, "done")
    /\ UNCHANGED <<loopVars, wire, out, aligned>>

\* Close, by the caller or by Start when both loops are done.
\* Mutant: the remote connection is left open.
CloseConns_LocalOnly == closed' = TRUE /\ conns' = conns \ {"LocalToRemote"}
CloseConns == closed' = TRUE /\ conns' = {}

Close ==
    /\ ~closed /\ CloseConns
    /\ UNCHANGED <<started, timeout, wire, gone, loop, out, sent, aligned>>

StartReturns ==
    /\ started = "running" /\ \A d \in Directions : loop[d].at = "done"
    /\ started' = "returned" /\ (IF closed THEN UNCHANGED <<closed, conns>> ELSE CloseConns)
    /\ UNCHANGED <<timeout, wire, gone, loop, out, sent, aligned>>

Loop(d) == Check(d) \/ Read(d) \/ ReadTimeout(d) \/ ReadEnds(d) \/ Write(d) \/ WriteFails(d)

TCPNext ==
    \/ Start \/ Close \/ StartReturns
    \/ \E d \in Directions : Send(d) \/ PeerClose(d) \/ Loop(d)

\* The loops and Start run; the peers and the caller need not.
TCPFairness == (\A d \in Directions : WF_tcpVars(Loop(d))) /\ WF_tcpVars(StartReturns)

-------------------------------------------------------------------------------
Bare(u) == [frame |-> u.frame, part |-> u.part]

\* What is written in a direction is what was sent, in its order and without a gap,
\* whatever failed; and where reads are of whole frames the heads are converted
\* and nothing else is (forwardWithProtocol, convertByteOrder).
ForwardedInOrder ==
    \A d \in Directions :
        /\ IsPrefix([i \in DOMAIN out[d] |-> Bare(out[d][i])], sent[d])
        /\ d \in aligned => \A i \in DOMAIN out[d] :
              out[d][i].form = IF out[d][i].part = "head" THEN "converted" ELSE "same"

\* Once the bridge is closed, or both peers have closed, Start returns, with all it
\* had open closed (Close, forwardWithProtocol).
ClosedBridgeReturns ==
    ((closed \/ gone = Directions) /\ started = "running") ~> (started = "returned" /\ conns = {})

===============================================================================
