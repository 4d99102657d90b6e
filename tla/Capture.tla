------------------------------- MODULE Capture --------------------------------
(***************************************************************************)
(* gnet/capture and the Linux handles of gnet/rawcap: New opens a handle    *)
(* for each interface and the output, Run reads each handle in a goroutine  *)
(* of its own, which write to the output without a lock, and Close, which   *)
(* the caller may call at any time, closes all of it.                       *)
(*                                                                         *)
(* Resources are <<i, "fd">> and <<i, "ring">> for the handle of the i-th    *)
(* interface, and <<0, "output">>.  The output is a sequence of the writes  *)
(* that were made: [src, part].                                             *)
(***************************************************************************)
EXTENDS Integers, Sequences, FiniteSets

CONSTANTS Configs,    \* configurations: [interfaces, format, output, timeout, ring]
          MaxPackets  \* packets that arrive at an interface

VARIABLES cfg,       \* the configuration, output one of "none", "file"
          at,        \* "open", "write", "ready", "running", "returned", "failed"
          next,      \* New: the interface that is opened next
          open,      \* resources that are open
          unmapped,  \* history: rings a configure that failed has left mapped
          closeFns,  \* resources Close closes
          loops,     \* interface -> where its captureLoop is
          arrived,   \* interface -> packets that have arrived
          ctx,       \* "live", "cancelled" (by the caller), "stopped" (by an error)
          errs,      \* errors in errCh
          output     \* the writes that were made

capVars == <<cfg, at, next, open, unmapped, closeFns, loops, arrived, ctx, errs, output>>

Ifaces == 1..cfg.interfaces
Output == <<0, "output">>

CaptureInit ==
    /\ cfg \in Configs /\ at = "open" /\ next = 1
    /\ open = {} /\ unmapped = {} /\ closeFns = {}
    /\ loops = [i \in Ifaces |-> "none"] /\ arrived = [i \in Ifaces |-> 0]
    /\ ctx = "live" /\ errs = 0 /\ output = <<>>

closeAll(fns) == open' = open \ fns
running == <<loops, arrived, ctx, errs>>

-------------------------------------------------------------------------------
\* New: no interface, or several in a pcap file, are refused.
validConfig == cfg.interfaces > 0 /\ (cfg.format = "pcap" => cfg.interfaces = 1)

\* New returns an error: what was opened so far is closed.
FailNew(fns) ==
    /\ at' = "failed" /\ closeAll(fns) /\ closeFns' = {}
    /\ UNCHANGED <<cfg, next, running, output>>

\* openLive: the lookup, the socket or a step of configure fails, which closes the
\* socket and leaves the ring mapped when the failing step comes after it.
configure == cfg.ring
OpenFails ==
    /\ at = "open" /\ (~validConfig \/ next <= cfg.interfaces)
    /\ unmapped' \in {unmapped} \cup IF validConfig /\ configure THEN {unmapped \cup {<<next, "ring">>}} ELSE {}
    /\ FailNew(closeFns)

handle(i) == {<<i, "fd">>} \cup IF cfg.ring THEN {<<i, "ring">>} ELSE {}

\* The handle is open, and the filter is attached or refused.
\* Mutant: the handle is to be closed once its filter is attached.
OpenLive_FilterFirst ==
    /\ at = "open" /\ validConfig /\ next <= cfg.interfaces
    /\ \/ /\ open' = open \cup handle(next) /\ closeFns' = closeFns \cup handle(next)
          /\ next' = next + 1 /\ UNCHANGED at
       \/ /\ open' = (open \cup handle(next)) \ closeFns /\ closeFns' = {}
          /\ at' = "failed" /\ UNCHANGED next
    /\ UNCHANGED <<cfg, unmapped, running, output>>

OpenLive ==
    /\ at = "open" /\ validConfig /\ next <= cfg.interfaces
    /\ \/ /\ open' = open \cup handle(next) /\ closeFns' = closeFns \cup handle(next)
          /\ next' = next + 1 /\ UNCHANGED at
       \/ /\ open' = (open \cup handle(next)) \ (closeFns \cup handle(next)) /\ closeFns' = {}
          /\ at' = "failed" /\ UNCHANGED next
    /\ UNCHANGED <<cfg, unmapped, running, output>>

\* buildWriter: no output is wanted; it cannot be created; it is created, and a
\* header or an interface cannot be written, which closes it; or all is there.
buildWriter ==
    /\ at = "open" /\ validConfig /\ next > cfg.interfaces
    /\ \/ cfg.output = "none" /\ at' = "ready" /\ UNCHANGED <<cfg, next, open, closeFns, running, output>>
       \/ cfg.output = "file" /\ FailNew(closeFns)
       \/ /\ cfg.output = "file" /\ at' = "ready"
          /\ open' = open \cup {Output} /\ closeFns' = closeFns \cup {Output}
          /\ output' = <<[src |-> 0, part |-> "whole"]>>
          /\ UNCHANGED <<cfg, next, running>>
    /\ UNCHANGED unmapped

-------------------------------------------------------------------------------
Run ==
    /\ at = "ready" /\ at' = "running"
    /\ loops' = [i \in Ifaces |-> "check"]
    /\ UNCHANGED <<cfg, next, open, unmapped, closeFns, arrived, ctx, errs, output>>

loopVars == <<cfg, at, next, open, unmapped, closeFns>>
Goto(i, place) == loops' = [loops EXCEPT ![i] = place]

\* captureLoop looks at the context, and at nothing but the handle until a packet
\* or an error is there.
Check(i) ==
    /\ at = "running" /\ loops[i] = "check"
    /\ Goto(i, IF ctx = "live" THEN "read" ELSE "done")
    /\ UNCHANGED <<loopVars, arrived, ctx, errs, output>>

\* ReadPacket looks whether the handle is closed; then it waits in Recvfrom, or it
\* looks at the ring over and over.
isClosed(i) == <<i, "fd">> \notin open
ReadPacket(i) ==
    /\ at = "running" /\ loops[i] = "read"
    /\ Goto(i, IF isClosed(i) THEN "done" ELSE "wait")
    /\ UNCHANGED <<loopVars, arrived, ctx, errs, output>>

\* An error ends the loop, is kept in errCh and cancels the context of the others.
Fail(i) == /\ Goto(i, "done") /\ errs' = errs + 1
           /\ ctx' = IF ctx = "live" THEN "stopped" ELSE ctx

Receive(i) ==
    /\ at = "running" /\ loops[i] = "wait" /\ arrived[i] < MaxPackets
    /\ cfg.ring => <<i, "ring">> \in open
    /\ arrived' = [arrived EXCEPT ![i] = @ + 1]
    /\ Goto(i, IF cfg.output = "none" THEN "check" ELSE "write")
    /\ UNCHANGED <<loopVars, ctx, errs, output>>

\* Recvfrom ends without a packet: the timeout, which the ring does not know, is an
\* error like any other.  Mutant: Recvfrom is called again.
Timeout_Again(i) ==
    /\ at = "running" /\ loops[i] = "wait" /\ cfg.timeout /\ ~cfg.ring
    /\ UNCHANGED capVars

Timeout(i) ==
    /\ at = "running" /\ loops[i] = "wait" /\ cfg.timeout /\ ~cfg.ring
    /\ Fail(i)
    /\ UNCHANGED <<loopVars, arrived, output>>

\* Any other error but EBADF, which says that the handle is closed and ends the loop
\* without one.
ReadFails(i) ==
    /\ at = "running" /\ loops[i] = "wait" /\ ~cfg.ring
    /\ Fail(i) \/ (isClosed(i) /\ Goto(i, "done") /\ UNCHANGED <<ctx, errs>>)
    /\ UNCHANGED <<loopVars, arrived, output>>

\* The ring is read after Close has unmapped it: the process is gone.
Fault(i) ==
    /\ at = "running" /\ loops[i] = "wait" /\ cfg.ring /\ <<i, "ring">> \notin open
    /\ at' = "crashed"
    /\ UNCHANGED <<cfg, next, open, unmapped, closeFns, running, output>>

\* pcapng writes a block at once, pcap a header and then the data.
\* Mutant: pcapng does it in two writes too.
Parts_Two == <<"header", "data">>
Parts == IF cfg.format = "pcap" THEN <<"header", "data">> ELSE <<"whole">>

WritePacket(i) ==
    /\ at = "running" /\ loops[i] \in {"write", "data"}
    /\ LET part == IF loops[i] = "data" THEN "data" ELSE Parts[1]
       IN  \/ /\ Output \in open
              /\ output' = Append(output, [src |-> i, part |-> part])
              /\ Goto(i, IF part = "header" THEN "data" ELSE "check")
              /\ UNCHANGED <<ctx, errs>>
           \/ Fail(i) /\ UNCHANGED output
    /\ UNCHANGED <<loopVars, arrived>>

\* The caller cancels, or closes the Capture while it runs.
Cancel ==
    /\ at = "running" /\ ctx = "live" /\ ctx' = "cancelled"
    /\ UNCHANGED <<loopVars, loops, arrived, errs, output>>

Close ==
    /\ at \in {"ready", "running"} /\ closeFns # {}
    /\ closeAll(closeFns) /\ closeFns' = {}
    /\ UNCHANGED <<cfg, at, next, unmapped, running, output>>

\* Run waits for all loops and closes everything.
Return ==
    /\ at = "running" /\ \A i \in Ifaces : loops[i] = "done"
    /\ at' = "returned" /\ closeAll(closeFns) /\ closeFns' = {}
    /\ UNCHANGED <<cfg, next, unmapped, running, output>>

Loop(i) == Check(i) \/ ReadPacket(i) \/ Timeout(i) \/ WritePacket(i)

CaptureNext ==
    \/ OpenFails \/ OpenLive \/ buildWriter \/ Run \/ Cancel \/ Close \/ Return
    \/ \E i \in Ifaces : Loop(i) \/ Receive(i) \/ ReadFails(i) \/ Fault(i)

\* Goroutines run and timeouts expire; packets need not arrive.
CaptureFairness ==
    /\ \A i \in 1..2 : WF_capVars(i \in Ifaces /\ Loop(i))
    /\ WF_capVars(Return)

-------------------------------------------------------------------------------
\* When New has failed or Run has returned nothing is open, whatever failed, and
\* whoever called Close meanwhile, but for the rings of a failed configure (New,
\* buildWriter, Run, Close, openLive).
NothingLeftOpen == at \in {"failed", "returned"} => open = {}

\* The packets of two interfaces are not mixed in the file, although the loops share
\* a writer that has no lock: a header is followed by its own data (WritePacket, New).
PacketsWhole ==
    \A i \in DOMAIN output :
        output[i].part = "header" => i = Len(output) \/ output[i + 1] = [src |-> output[i].src, part |-> "data"]

\* With a timeout Run returns after the context is cancelled, by the caller or by
\* an error of another interface (captureLoop, Recvfrom).
TimedRunEnds ==
    (cfg.timeout /\ ~cfg.ring /\ at = "running" /\ ctx # "live") ~> at # "running"

===============================================================================
