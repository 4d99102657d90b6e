------------------------------ MODULE MCNetwork -------------------------------
(***************************************************************************)
(* The packet paths, gnet/forward's UDP bridge and gnet/capture, for TLC.  *)
(* They share no state: the initial state picks the one that runs, part,   *)
(* and the other stays as it was made.                                     *)
(***************************************************************************)
EXTENDS Integers, Sequences, FiniteSets

CONSTANTS Packets, Clients, remote, ChanSize, none,  \* UDPBridge
          MaxPackets                                 \* Capture

VARIABLES part,
          packet, sessions, session, out, closed, start, cleaner, panicked,
          cfg, at, next, open, unmapped, closeFns, loops, arrived, ctx, errs, output

udpVars == <<packet, sessions, session, out, closed, start, cleaner, panicked>>
capVars == <<cfg, at, next, open, unmapped, closeFns, loops, arrived, ctx, errs, output>>
vars    == <<part, udpVars, capVars>>

\* One or two interfaces, each file format, with or without a file, a read timeout
\* and a ring.
Configs == [interfaces : {1, 2}, format : {"pcap", "pcapng"}, output : {"none", "file"},
            timeout : BOOLEAN, ring : BOOLEAN]

UDP == INSTANCE UDPBridge
Cap == INSTANCE Capture

ASSUME NetworkConstants == UDP!UDPConstants

\* What stands still: a capture of a single interface.
StillConfig == [interfaces |-> 1, format |-> "pcap", output |-> "none",
                timeout |-> FALSE, ring |-> FALSE]

Init ==
    /\ part \in {"udp", "capture"}
    /\ UDP!Init
    /\ Cap!CaptureInit /\ (part # "capture" => cfg = StillConfig)

Next ==
    \/ part = "udp" /\ UDP!Next /\ UNCHANGED <<part, capVars>>
    \/ part = "capture" /\ Cap!CaptureNext /\ UNCHANGED <<part, udpVars>>

\* The fairness of the two modules, each for the behaviours that use it.
Fairness ==
    /\ \A s \in Packets :
          /\ WF_udpVars(part = "udp" /\ UDP!Working(s))
          /\ SF_udpVars(part = "udp" /\ UDP!ReceiveTick(s))
          /\ WF_udpVars(part = "udp" /\ UDP!Idle(s))
    /\ WF_udpVars(part = "udp" /\ UDP!StartReturns)
    /\ WF_udpVars(part = "udp" /\ UDP!CleanerReturns)
    /\ \A i \in 1..2 : WF_capVars(part = "capture" /\ i \in Cap!Ifaces /\ Cap!Loop(i))
    /\ WF_capVars(part = "capture" /\ Cap!Return)

Spec == Init /\ [][Next]_vars /\ Fairness

-------------------------------------------------------------------------------
\* UDPBridge: a session in the map is open and its receiver lives, however earlier
\* sessions of the same sender, the cleaner and Close come in between; and no packet
\* is forwarded twice or out of nothing, whichever of its two ways it goes.
UDPForwards == UDP!MappedIsServed /\ UDP!ForwardedOnce

\* After Close of a UDPBridge no goroutine of it lives for ever, and a Run with a
\* read timeout returns after the context is cancelled, by the caller or by an error
\* of another interface.
NetworkEnds ==
    /\ UDP!CloseDrains
    /\ Cap!TimedRunEnds

\* Capture: the packets of two interfaces are not mixed in the file although their
\* loops share a writer without a lock, and when New has failed or Run has returned,
\* nothing is left open but the ring of a failed configure, whoever called Close.
CaptureLeavesOrder == Cap!PacketsWhole /\ Cap!NothingLeftOpen

===============================================================================
