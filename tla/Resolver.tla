------------------------------- MODULE Resolver -------------------------------
(***************************************************************************)
(* gresolver: DefaultResolver.  A lookup asks the name servers in turn, in  *)
(* so many rounds, over UDP: a datagram may be lost, late, damaged or an    *)
(* answer to something else.  Every query has a socket of its own, so what  *)
(* comes late for one is not read by the next.                              *)
(***************************************************************************)
EXTENDS Integers, Sequences, FiniteSets

CONSTANTS Nameservers, \* sequences of servers a configuration may name
          Attempts,    \* numbers of attempts a configuration may ask for
          MaxLookups   \* bound of the lookups

VARIABLES config,   \* [nameservers, timeout, attempts], timeout "5ns", "0" or "5s"
          deadline, \* of the caller's context: "none", "ahead", "passed"
          lookup,   \* [at, type, round, server, msg]
          tries,    \* history: <<server, outcome>> of this lookup
          result,   \* [kind, from]
          lookups

resolverVars == <<config, deadline, lookup, tries, result, lookups>>

DefaultNS == <<"127.0.0.1:53", "[::1]:53">>
idle == [at |-> "idle", type |-> "A", round |-> 0, server |-> 0]

\* Validate; a timeout of 5, which is five nanoseconds, is a positive one.
Validate(c) ==
    [nameservers |-> IF c.nameservers = <<>> THEN DefaultNS ELSE c.nameservers,
     timeout |-> IF c.timeout = "0" THEN "5s" ELSE c.timeout,
     attempts |-> IF c.attempts <= 0 THEN 2 ELSE c.attempts]

\* Of a resolv.conf the options count; its nameserver lines are read over.
ParseResolveFile(file) == [file EXCEPT !.nameservers = <<>>]

\* NewDefaultResolver: the options, or WithResolveFile, over the defaults.
ResolverInit ==
    /\ \E ns \in Nameservers \cup {DefaultNS}, t \in {"5ns", "0", "5s"}, a \in Attempts \cup {2} :
          LET c == [nameservers |-> ns, timeout |-> t, attempts |-> a]
          IN  config \in {Validate(c), Validate(ParseResolveFile(c))}
    /\ deadline = "none" /\ lookup = idle /\ tries = <<>> /\ result = [kind |-> "none", from |-> "none"] /\ lookups = 0

-------------------------------------------------------------------------------
Lookup(type) ==
    /\ lookup.at = "idle" /\ lookups < MaxLookups /\ lookups' = lookups + 1
    /\ lookup' = [at |-> "ask", type |-> type, round |-> 1, server |-> 1]
    /\ deadline' \in {"none", "ahead", "passed"}
    /\ tries' = <<>> /\ result' = [kind |-> "none", from |-> "none"]
    /\ UNCHANGED config

Passes == deadline = "ahead" /\ deadline' = "passed" /\ UNCHANGED <<config, lookup, tries, result, lookups>>

asked == config.nameservers[lookup.server]
Tried(outcome) == tries' = Append(tries, <<asked, outcome>>)
Return(kind, from) == lookup' = idle /\ result' = [kind |-> kind, from |-> from]

\* What follows an error: the next server, the next round, or the end.
\* Mutant: a server that fails ends the round.
AfterError_EndsRound ==
    IF lookup.round < config.attempts
         THEN lookup' = [lookup EXCEPT !.at = "ask", !.server = 1, !.round = @ + 1] /\ UNCHANGED result
    ELSE Return("all failed", "none")

AfterError ==
    IF lookup.server < Len(config.nameservers)
         THEN lookup' = [lookup EXCEPT !.at = "ask", !.server = @ + 1] /\ UNCHANGED result
    ELSE IF lookup.round < config.attempts
         THEN lookup' = [lookup EXCEPT !.at = "ask", !.server = 1, !.round = @ + 1] /\ UNCHANGED result
    ELSE Return("all failed", "none")

Query ==
    /\ lookup.at = "ask"
    /\ \/ lookup' = [lookup EXCEPT !.at = "read"] /\ UNCHANGED <<tries, result>>
       \/ AfterError /\ Tried("not sent")
    /\ UNCHANGED <<config, deadline, lookups>>

\* The context's deadline, or else the configured timeout, ends the read.
ReadTimeout ==
    /\ lookup.at = "read" /\ deadline # "ahead"
    /\ AfterError /\ Tried("timeout")
    /\ UNCHANGED <<config, deadline, lookups>>

\* Mutant: the answer's ID is not looked at.
accepted_AnyID(m) == m.unpacks
accepted(m) == m.unpacks /\ m.sameID

\* The records of the type that was asked for; a CNAME lookup without one answers with
\* the name itself.  The response code is not looked at.
Concluded(m) ==
    IF lookup.type = "CNAME" THEN Return(IF "CNAME" \in m.records THEN "ok" ELSE "itself", asked)
    ELSE Return(IF "A" \in m.records THEN "ok" ELSE "no ip", asked)

Read(m) ==
    /\ lookup.at = "read"
    /\ deadline = "ahead" \/ (deadline = "none" /\ config.timeout # "5ns")
    /\ Tried(IF ~m.unpacks THEN "damaged" ELSE IF ~m.sameID THEN "another's" ELSE
             IF lookup.type \in m.records THEN "answer" ELSE "no record")
    /\ IF accepted(m) THEN Concluded(m) ELSE AfterError
    /\ UNCHANGED <<config, deadline, lookups>>

Responses == [unpacks : BOOLEAN, sameID : BOOLEAN, records : {{}, {"A"}, {"CNAME"}, {"A", "CNAME"}}]

ResolverNext ==
    \/ \E t \in {"A", "CNAME"} : Lookup(t)
    \/ Passes \/ Query \/ ReadTimeout
    \/ \E m \in Responses : Read(m)

-------------------------------------------------------------------------------
\* A lookup's result is what the servers made of it.  It fails only when every server
\* failed in every round, asked in the configured order; it succeeds only with a
\* record that the last server asked sent for this query, and says that there is
\* none only when that server did (exchange, LookupIPAddr, LookupCNAME).
LookupTruthful ==
    LET n == Len(config.nameservers)
        last == tries[Len(tries)]
    IN  /\ \A i \in DOMAIN tries : tries[i][1] = config.nameservers[((i - 1) % n) + 1]
        /\ \A i \in 1..Len(tries) - 1 : tries[i][2] \notin {"answer", "no record"}
        /\ result.kind = "all failed" => Len(tries) = n * config.attempts /\ last[2] \notin {"answer", "no record"}
        /\ result.kind = "ok" => last = <<result.from, "answer">>
        /\ result.kind \in {"no ip", "itself"} => last = <<result.from, "no record">>

===============================================================================
