-------------------------------- MODULE MCData --------------------------------
(***************************************************************************)
(* What is handed to a store, a server or a file and must come back as it  *)
(* was, for TLC: gsql's statements, transactions and migrations, the       *)
(* lookups of gresolver, gcache's RedisCache and ValkeyCache, and the      *)
(* files of gnet/pcap and gnet/pcapng.  They share no state: the initial   *)
(* state picks the one that is used, part, and the others stay as they     *)
(* were made.                                                              *)
(***************************************************************************)
EXTENDS Integers, Sequences, FiniteSets

CONSTANTS MaxParts, MaxArgs,                     \* SQLBuilder
          MaxWrites, MaxNested,                  \* SQLTx
          Runners, MaxRuns,                      \* Migrate
          Attempts, MaxLookups,                  \* Resolver
          Numbers, Durations, MaxNow, MaxCalls,  \* RemoteCache
          PcapWriters, PcapPackets, MaxPackets,  \* Pcap
          NGWriters, NGInterfaces, NGPackets,    \* PcapNG
          MaxBlocks, MaxSections

\* Attempts may be anything; durations are not negative, Increment is asked for numbers,
\* and the clock starts at 1.
ASSUME DataConstants ==
    Attempts \subseteq Int /\ Numbers \subseteq Int /\ Durations \subseteq Nat /\ MaxNow \in Nat \ {0}

\* A time is [sec, nsec], after 1970 and before the seconds exceed a file's 32 bits (TLC's
\* integers end before those do); sec = -1 is the zero time, and the packet's own header
\* then has one with a sub-second part of less than a second in either resolution.
Below(n) == {k \in Nat : k < n}
Times    == [sec : Below(2147483647), nsec : Below(1000000000)]

ASSUME PcapConstants ==
    /\ PcapWriters \subseteq [order : {"little", "big"}, resolution : Nat, snapLen : Nat, network : Nat]
    /\ \A p \in PcapPackets :
          /\ DOMAIN p = {"len", "inclLen", "origLen", "time", "tsSec", "tsUsec"}
          /\ p.len \in Nat /\ p.inclLen \in Nat /\ p.origLen \in Nat
          /\ p.time \in Times \/ (p.time = [sec |-> -1, nsec |-> 0] /\ <<p.tsSec, p.tsUsec>> # <<0, 0>>)
          /\ p.tsSec \in Below(2147483647) /\ p.tsUsec \in Below(1000000)

\* The options of AddInterface are those of the caller and a resolution.
NGOptions == [with : {"option"}, code : Nat, value : Seq(0..255)] \cup [with : {"resolution"}, res : Nat]

ASSUME PcapNGConstants ==
    /\ NGWriters \subseteq [order : {"little", "big"}, defaultRes : Nat, buffered : BOOLEAN]
    /\ NGInterfaces \subseteq [linkType : Nat, snapLen : Nat, opts : Seq(NGOptions)]
    /\ NGPackets \subseteq [len : Nat, sec : Below(2147483647), nsec : Below(1000000000)]

VARIABLES part,
          builder, parts,
          committed, phase, strategy, savepoint, work, saves, frames, faulty, writes, nested,
          dir, collector, recorder, recorded, applied, runner, runs,
          config, deadline, lookup, tries, result, lookups,
          client, store, now, answer, promise, calls,
          writer, file, ended, reader, copied, sent, got,
          ngWriter, ngFile, ngEnded, ngReader, copy, ngSent, ngGot

sqlVars      == <<builder, parts>>
txVars       == <<committed, phase, strategy, savepoint, work, saves, frames, faulty,
                  writes, nested>>
migrateVars  == <<dir, collector, recorder, recorded, applied, runner, runs>>
resolverVars == <<config, deadline, lookup, tries, result, lookups>>
remoteVars   == <<client, store, now, answer, promise, calls>>
pcapVars     == <<writer, file, ended, reader, copied, sent, got>>
ngVars       == <<ngWriter, ngFile, ngEnded, ngReader, copy, ngSent, ngGot>>
vars         == <<part, sqlVars, txVars, migrateVars, resolverVars, remoteVars, pcapVars,
                  ngVars>>

-------------------------------------------------------------------------------
\* Migrate: a directory with an up and a down file, one without a suffix and one that
\* is no text, and a directory in which two files have the same name.
F(o, n, b, s, u) == [order |-> o, name |-> n, base |-> b, suffix |-> s, text |-> TRUE, up |-> u]
Directories ==
    {{F(1, 4, 2, "up", TRUE), F(2, 5, 2, "down", FALSE), F(3, 3, 1, "up", TRUE),
      [F(4, 6, 6, "none", FALSE) EXCEPT !.text = FALSE]},
     {F(1, 3, 1, "up", TRUE), F(2, 3, 1, "up", TRUE)}}

Nameservers == {<<>>, <<"n1">>, <<"n1", "n2">>}

\* Pcap: both byte orders and resolutions, a snapLen some packets exceed, and packets
\* with and without lengths and times of their own.
MCPcapWriters ==
    {[order |-> "little", resolution |-> 1000, snapLen |-> 2, network |-> 1],
     [order |-> "big", resolution |-> 1, snapLen |-> 9, network |-> 2],
     [order |-> "big", resolution |-> 1, snapLen |-> 0, network |-> 2]}
P(l, i, o, t) == [len |-> l, inclLen |-> i, origLen |-> o, time |-> t, tsSec |-> 2, tsUsec |-> 7]
At(s, n) == [sec |-> s, nsec |-> n]
MCPcapPackets ==
    {P(1, 0, 0, At(1, 2500)), P(3, 2, 0, [sec |-> -1, nsec |-> 0]), P(3, 0, 5, At(0, 0)),
     P(0, 0, 0, At(1, 999)), P(1, 2, 2, [sec |-> -1, nsec |-> 0])}

\* PcapNG: interfaces with no, the default, an explicit and a second resolution.
MCNGWriters ==
    {[order |-> "little", defaultRes |-> 1000000, buffered |-> TRUE],
     [order |-> "little", defaultRes |-> 1000, buffered |-> FALSE],
     [order |-> "big", defaultRes |-> 1, buffered |-> TRUE]}
Opt(c, v) == [with |-> "option", code |-> c, value |-> v]
Res(r) == [with |-> "resolution", res |-> r]
Iface(l, s, opts) == [linkType |-> l, snapLen |-> s, opts |-> opts]
MCNGInterfaces ==
    {Iface(1, 2, <<>>), Iface(2, 0, <<Res(1)>>), Iface(1, 0, <<Opt(2, <<1>>), Opt(9, <<158>>)>>),
     Iface(1, 0, <<Opt(9, <<9>>)>>), Iface(1, 0, <<Res(1000000)>>)}
MCNGPackets == {[len |-> 1, sec |-> 1, nsec |-> 2500], [len |-> 3, sec |-> 0, nsec |-> 0]}

SQL == INSTANCE SQLBuilder
Tx == INSTANCE SQLTx
Mig == INSTANCE Migrate
DNS == INSTANCE Resolver
Remote == INSTANCE RemoteCache WITH Values <- Numbers
Classic == INSTANCE Pcap WITH Writers <- PcapWriters, Packets <- PcapPackets
NG == INSTANCE PcapNG WITH Writers <- NGWriters, Interfaces <- NGInterfaces,
             Packets <- NGPackets, writer <- ngWriter, file <- ngFile, ended <- ngEnded,
             reader <- ngReader, sent <- ngSent, got <- ngGot

Init ==
    /\ part \in {"builder", "tx", "migrate", "resolver", "remote", "pcap", "pcapng"}
    /\ SQL!SQLInit
    /\ part # "builder" => builder.op = "select" /\ ~builder.numbered /\ builder.set = 0
    /\ Tx!TxInit /\ (part # "tx" => strategy = "error" /\ ~savepoint)
    /\ Mig!MigrateInit
    /\ part # "migrate" => dir = CHOOSE d \in Directories : TRUE
    /\ part # "migrate" => collector = "whole" /\ recorder = "db"
    /\ DNS!ResolverInit
    /\ part # "resolver" => config = [nameservers |-> <<"n1">>, timeout |-> "5s", attempts |-> 2]
    /\ Remote!RemoteInit /\ (part # "remote" => client = "redis")
    /\ Classic!PcapInit
    /\ NG!PcapNGInit

Still(vs) == UNCHANGED <<part, vs>>

Next ==
    \/ /\ part = "builder" /\ SQL!SQLNext
       /\ Still(<<txVars, migrateVars, resolverVars, remoteVars, pcapVars, ngVars>>)
    \/ /\ part = "tx" /\ Tx!TxNext
       /\ Still(<<sqlVars, migrateVars, resolverVars, remoteVars, pcapVars, ngVars>>)
    \/ /\ part = "migrate" /\ Mig!MigrateNext
       /\ Still(<<sqlVars, txVars, resolverVars, remoteVars, pcapVars, ngVars>>)
    \/ /\ part = "resolver" /\ DNS!ResolverNext
       /\ Still(<<sqlVars, txVars, migrateVars, remoteVars, pcapVars, ngVars>>)
    \/ /\ part = "remote" /\ Remote!RemoteNext
       /\ Still(<<sqlVars, txVars, migrateVars, resolverVars, pcapVars, ngVars>>)
    \/ /\ part = "pcap" /\ Classic!PcapNext
       /\ Still(<<sqlVars, txVars, migrateVars, resolverVars, remoteVars, ngVars>>)
    \/ /\ part = "pcapng" /\ NG!PcapNGNext
       /\ Still(<<sqlVars, txVars, migrateVars, resolverVars, remoteVars, pcapVars>>)

Spec == Init /\ [][Next]_vars

-------------------------------------------------------------------------------
\* gsql/builder.go (ToSQL): with "?" placeholders every value is bound where the caller
\* meant it, as long as a slice or a subquery is the first argument of its Where and
\* no Having took an argument: neither the rest of a Where nor the order of SET and WHERE
\* mixes values up.
QuestionMarksBind == SQL!QuestionMarksBind

\* gsql/tx.go: the database ends up with exactly the writes of the functions that
\* returned nil all the way up, although the names of savepoints are used again and
\* again, unless the database refused a ROLLBACK TO or a RELEASE.
CommitsWhatReturned == Tx!CommitsWhatReturned

\* gsql's Migrator.Run: with a DBRecorder no migration is ever in the database twice,
\* however many processes run them, fail and run them again; and after a Run that
\* succeeded every migration has been applied, by whomever.
MigratesOnce == Mig!AppliedOnce /\ Mig!EveryUpApplied

\* gresolver (exchange, LookupIPAddr, LookupCNAME): a lookup fails only when every
\* server failed in every round, asked in the configured order; it succeeds only with a
\* record that the last server asked sent for this query, and says that there is none
\* only when that server did.
LookupTruthful == DNS!LookupTruthful

\* RedisCache and ValkeyCache: a value is there until its expiration has passed and not
\* longer, whatever is added to it and however its expiration is changed meanwhile; with
\* RedisCache for any duration given to Set, else for whole seconds.
KeepsWhatWasSet == Remote!KeepsWhatWasSet

\* gnet/pcap, gnet/pcapng: a Reader returns the packets that were written, in their
\* order, of the right interface, with the time rounded to its resolution, over all
\* sections, byte orders and places where the file was cut; and a packet FilterCopy
\* keeps has the time and the link type it had, in a file of a single section.
ReadsBack == Classic!PcapReadBack /\ NG!ReadBack /\ NG!FilterKeeps

===============================================================================
