-------------------------------- MODULE MCHTTP --------------------------------
(***************************************************************************)
(* What serves HTTP and what configures a client of it, for TLC: gserver's *)
(* routes and handler chains, gws's SOAP calls and the code it generates   *)
(* from a WSDL, and the settings of gclient's Client.  They share no       *)
(* state: the initial state picks the one that runs, part, and the others  *)
(* stay as they were made.                                                 *)
(***************************************************************************)
EXTENDS Integers, Sequences, FiniteSets

CONSTANTS Routes, Paths, MaxChanges,                    \* RouteTree
          Middleware, Endpoints, MaxHandlers, Requests, \* Server
          Services, Operations, Contents, MaxSets, MaxSOAPCalls, \* SOAP
          Goroutines, Clients, MaxCalls                 \* ClientSettings

\* The first client is 1; an element has a name.
SOAPOperations == [name : STRING, request : STRING, response : STRING, version : STRING,
                   factory : BOOLEAN, invoke : {"own", "impl", "none"}]
ASSUME HTTPConstants ==
    /\ IsFiniteSet(Goroutines) /\ 1 \in Clients
    /\ Services \subseteq Seq(SOAPOperations)
    /\ \A c \in Contents : c.name # ""
    /\ \A p \in Paths : p = [segs |-> p.segs, slash |-> p.slash] /\ p.segs \in Seq(STRING)

VARIABLES part,
          staticGroup, segmentIndex, radixTree, pathParams, asked, changes,
          groups, chain, request, context, writer, response, running, doing, at, ran,
          options, service, soapRequest, body, http, invoked, result, sets, soapCalls,
          input, reading, stack, visited, schemas, bindings, xsd, operations,
          mu, client, heap, cookies, goroutine, requests, calls

routeVars    == <<staticGroup, segmentIndex, radixTree, pathParams, asked, changes>>
serverVars   == <<groups, chain, request, context, writer, response, running, doing, at, ran>>
soapVars     == <<options, service, soapRequest, body, http, invoked, result, sets, soapCalls>>
wsdlVars     == <<input, reading, stack, visited, schemas, bindings, xsd, operations>>
settingsVars == <<mu, client, heap, cookies, goroutine, requests, calls>>
vars         == <<part, routeVars, serverVars, soapVars, wsdlVars, settingsVars>>

-------------------------------------------------------------------------------
\* RouteTree: routes whose static, parameter and catch-all segments compete at every
\* position, and paths of up to three segments.
S(n) == [kind |-> "static", name |-> n]
P(n) == [kind |-> ":", name |-> n]
W(n) == [kind |-> "*", name |-> n]
R(s) == [segs |-> s, slash |-> FALSE]
MCRoutes == {R(<<S("a"), S("b")>>), R(<<S("a"), P("id")>>), R(<<P("id"), S("b")>>),
           R(<<P("id"), P("x")>>), R(<<P("id"), S("c")>>), R(<<S("a"), W("rest")>>),
           R(<<P("id"), S("b"), W("rest")>>), R(<<W("rest")>>),
           [R(<<S("a")>>) EXCEPT !.slash = TRUE]}
MCPaths == {[segs |-> <<"a">>, slash |-> TRUE]} \cup
         [segs : {<<>>, <<"a">>, <<"b">>, <<"a", "">>, <<"a", "b", "c">>, <<"c", "b", "a">>, <<"a", "c", "b">>}
                     \cup ({"a", "b", "c"} \X {"b", "c"}),
          slash : {FALSE}]

\* SOAP: services whose operations differ in version, wrapper and invoker.
O(n, q, s, v, f, i) == [name |-> n, request |-> q, response |-> s, version |-> v,
                        factory |-> f, invoke |-> i]
MCServices == {<<O("Add", "Add", "Sum", "1.1", TRUE, "own"), O("Ping", "", "Pong", "", FALSE, "impl")>>,
               <<O("Add", "Add", "Sum", "1.2", TRUE, "own"), O("Sub", "Sub", "", "", TRUE, "none"),
                 O("Add2", "Add", "", "1.1", FALSE, "own")>>,
               <<O("Get", "Sub", "", "", FALSE, "impl"), O("Add", "Add", "", "1.1", TRUE, "impl")>>}
MCOperations == {O("Add", "Add", "Sum", "1.1", TRUE, "own"), O("Ping", "", "Pong", "", FALSE, "impl"),
                 O("Sub", "Sub", "", "", TRUE, "own")}
MCContents == [name : {"Add", "Sum", "Pong", "Sub"}, decodes : {TRUE}]
                  \cup {[name |-> "Add", decodes |-> FALSE]}

\* WSDL: schemas that import each other in every way, circles included, and a document
\* whose bindings and services leave something to choose and something missing.
Q(l) == [ns |-> "t", local |-> l]
D(k, n) == [kind |-> k, name |-> n, loc |-> [ns |-> "", local |-> ""]]
I(d, n) == [kind |-> "import", name |-> "", loc |-> [dir |-> d, name |-> n]]
Sch(ns, items) == [ok |-> TRUE, ns |-> ns, items |-> items]
Imports == {<<>>, <<I(".", "x")>>, <<I("a", "x")>>, <<I("a", "y"), I(".", "x")>>,
            <<I("a", "x"), I("", ""), I(".", "y")>>}
Op(n) == [name |-> n, in |-> Q(n), out |-> Q("Out")]
BOp(n, s) == [name |-> n, style |-> s]
Binding(n, t, ops) == [name |-> n, type |-> t, style |-> "document", ops |-> ops]
Document ==
    [ns        |-> "t",
     types     |-> <<>>,
     messages  |-> <<[name |-> "Add", parts |-> <<Q("AddRequest")>>],
                     [name |-> "Out", parts |-> <<Q("Result"), Q("More")>>],
                     [name |-> "None", parts |-> <<>>]>>,
     portTypes |-> <<[name |-> "P", ops |-> <<Op("Add"), Op("None")>>],
                     [name |-> "R", ops |-> <<[Op("Add") EXCEPT !.in = Q("Out")]>>]>>,
     bindings  |-> <<Binding("B", Q("P"), <<BOp("Add", ""), BOp("Add", "document")>>),
                     Binding("C", [ns |-> "u", local |-> "R"], <<BOp("Add", "")>>),
                     Binding("N", Q("P"), <<BOp("None", "")>>)>>,
     services  |-> <<[name  |-> "S",
                      ports |-> <<[name |-> "b", binding |-> Q("B")], [name |-> "c", binding |-> Q("C")],
                                  [name |-> "n", binding |-> Q("N")], [name |-> "z", binding |-> Q("Z")]>>]>>]
Trees == {[f \in {<<"", "x">>, <<"a", "x">>, <<"a", "y">>} |->
              CASE f = <<"", "x">>  -> Sch("t", <<D("element", "E")>> \o p[1])
                [] f = <<"a", "x">> -> Sch("t", p[2] \o <<D("simpleType", "F")>>)
                [] OTHER            -> Sch("u", <<D("complexType", "G")>> \o p[3])] :
             p \in Imports \X Imports \X Imports}
BadTree == [f \in {<<"", "x">>, <<"a", "x">>} |->
               IF f = <<"", "x">> THEN Sch("t", <<D("choice", "E")>>)
               ELSE [Sch("t", <<>>) EXCEPT !.ok = FALSE]]
Inputs ==
    [wsdl : {[Document EXCEPT !.types = <<Sch("t", <<D("element", "A"), I("a", "y"), I(".", "x")>>),
                                          Sch("u", <<D("simpleType", "H")>>)>>]},
     files : Trees, service : {""}, port : {"c"}]
    \cup
    [wsdl : {Document, [Document EXCEPT !.bindings[1].ops[2].style = "rpc"]}
               \cup {[Document EXCEPT !.types = <<Sch("t", <<I(d, "x")>>)>>] : d \in {".", "a", "http"}},
     files : {BadTree}, service : {"", "S", "T"}, port : {"", "b", "c", "n", "z"}]

Route    == INSTANCE RouteTree
Serve    == INSTANCE Server
Soap     == INSTANCE SOAP WITH request <- soapRequest, ran <- invoked, calls <- soapCalls,
               MaxCalls <- MaxSOAPCalls
Wsdl     == INSTANCE WSDL WITH at <- reading
Settings == INSTANCE ClientSettings WITH at <- goroutine

ASSUME RouteConstants == Route!RoutesAgree

Init ==
    /\ part \in {"routes", "server", "soap", "wsdl", "settings"}
    /\ Route!RouteInit
    /\ Serve!ServerInit
    /\ Soap!SOAPInit
    /\ part # "soap" => options = [client |-> "", service |-> "1.1"] /\ soapRequest.operation.name = "Add"
    /\ Wsdl!WSDLInit /\ (part # "wsdl" => input = CHOOSE i \in Inputs : TRUE)
    /\ Settings!SettingsInit

Still(vs) == UNCHANGED <<part, vs>>

Next ==
    \/ part = "routes" /\ Route!RouteNext /\ Still(<<serverVars, soapVars, wsdlVars, settingsVars>>)
    \/ part = "server" /\ Serve!ServerNext /\ Still(<<routeVars, soapVars, wsdlVars, settingsVars>>)
    \/ part = "soap" /\ Soap!SOAPNext /\ Still(<<routeVars, serverVars, wsdlVars, settingsVars>>)
    \/ part = "wsdl" /\ Wsdl!WSDLNext /\ Still(<<routeVars, serverVars, soapVars, settingsVars>>)
    \/ part = "settings" /\ Settings!SettingsNext /\ Still(<<routeVars, serverVars, soapVars, wsdlVars>>)

Spec == Init /\ [][Next]_vars

-------------------------------------------------------------------------------
\* gserver's matchInto and find: a request gets the most precise route that serves its
\* path and that route's own parameters, whatever was added and removed before and
\* whatever branches the search tried and left; and none only when none serves it.
RightRoute == Route!RightRoute

\* Context.Next, Abort, Recovery: each handler of a chain starts at most once and in the
\* order of the chain, none after Abort, and all unless a handler aborted or panicked,
\* although every middleware runs a loop of its own over the rest of the chain.
RunsInOrder == Serve!RunsInOrder

\* Context.Reset, respWriter.Reset: nothing that an earlier request left in the pooled
\* Context or writer is seen by a later one or sent in its response.
NothingLeaks == Serve!NothingLeaks

\* respWriter.WriteHeader: a header that was set when a status or a body was written is
\* in the response, and the status that RequestLogger logs is the one the client gets,
\* also when a handler wrote two statuses or panicked.
ResponseArrives == Serve!HeadersArrive /\ Serve!LoggedIsSent

\* gws (Request.Envelope, servePOST, writeInvokeFault, DoHTTP): what the caller of an
\* operation is told is what happened: a success ran that one operation on the body set
\* last and returns its response, and a fault carries what the operation returned.
CallTruthful == Soap!CallTruthful

\* gws's parser and generator: each schema that can be reached counts once, whatever
\* imports it and in whatever circle, under its own namespace, and is published under a
\* location it is imported by, unless another one has taken it; and an operation has the
\* elements of the messages of the port type its binding names.
GeneratedFits == Wsdl!GeneratedFits

\* gclient's R, Clone and setters: a map of settings belongs to one client or request,
\* the settings in a request that mu guards are those of the moment R began and the
\* cookies, which have a lock of their own, not older; and calls stop for ever in one
\* way only: R waits for its second read lock behind a setter that waits for its first.
SettingsSound == Settings!OwnMaps /\ Settings!OneMoment /\ Settings!StuckOnlyInR

===============================================================================
