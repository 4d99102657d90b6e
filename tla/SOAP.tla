--------------------------------- MODULE SOAP ---------------------------------
(***************************************************************************)
(* gws: a SOAP call.  The caller configures a Request, Client.Do builds the *)
(* envelope and sends it, the service's Handler finds the operation by the  *)
(* name of the body's first element, invokes it and answers with a response *)
(* or a fault, and the client takes the answer apart again.                 *)
(*                                                                         *)
(* XML is abstracted to [ns, header, content, fault]; an element to its     *)
(* name and to whether it can be decoded.  "" is the zero xml.Name.         *)
(***************************************************************************)
EXTENDS Integers, Sequences, FiniteSets

CONSTANTS Operations, \* [name, request, response, version, factory, invoke]
          Services,   \* sequences of operations
          Contents,   \* elements [name, decodes] a caller or an implementation makes
          MaxSets,    \* setters called on a request
          MaxCalls    \* calls of Do

VARIABLES options,   \* [client, service]: the default SOAP versions
          service,   \* the operations of the handler, <<>> until it is registered
          request,   \* [operation, endpoint, soapHeader, body, envelope]
          body,      \* history: what SetBody or SetEnvelope was given last
          http,      \* what is on its way: [at, env, out]
          ran,       \* history: the body at the call, <<the operation it ran>> and what came of that
          result,    \* of the last call: [kind, value]
          sets, calls

soapVars == <<options, service, request, body, http, ran, result, sets, calls>>

nil == [name |-> "", decodes |-> TRUE]
SOAP11Envelope == "soap11"
noEnvelope == [ns |-> "", header |-> FALSE, content |-> nil, fault |-> ""]
noResult == [kind |-> "none", value |-> nil]
idle == [at |-> "idle", env |-> noEnvelope, out |-> TRUE]
notRun(c) == [asked |-> c, operation |-> <<>>, body |-> nil, outcome |-> "none", value |-> nil]

\* NewHandler replaces the service's empty version by 1.1, Do the client's.
Options == [client : {"", "1.1", "1.2"}, service : {"1.1", "1.2"}]

SOAPInit ==
    /\ options \in Options
    /\ service = <<>>
    /\ \E op \in Operations :
          request = [operation |-> op, endpoint |-> FALSE, soapHeader |-> FALSE, body |-> nil, envelope |-> noEnvelope]
    /\ body = nil /\ http = idle /\ ran = notRun(nil) /\ result = noResult /\ sets = 0 /\ calls = 0

-------------------------------------------------------------------------------
\* Register: a path that does not begin with "/", or that holds a "?", is refused.
validatePath(path) == path = "/service"

Register(path) ==
    /\ service = <<>> /\ validatePath(path)
    /\ service' \in Services
    /\ UNCHANGED <<options, request, body, http, ran, result, sets, calls>>

Setter == http.at = "idle" /\ sets < MaxSets /\ sets' = sets + 1
          /\ UNCHANGED <<options, service, http, ran, result, calls>>

SetEndpoint == Setter /\ request' = [request EXCEPT !.endpoint = TRUE] /\ UNCHANGED body
SetSOAPHeader == Setter /\ request' = [request EXCEPT !.soapHeader = TRUE] /\ UNCHANGED body

\* Mutant: an envelope that was pinned stays.
SetBody_KeepsEnvelope(c) == Setter /\ request' = [request EXCEPT !.body = c] /\ body' = c
SetBody(c) == Setter /\ request' = [request EXCEPT !.body = c, !.envelope = noEnvelope] /\ body' = c

SetEnvelope(c, ns) ==
    /\ Setter /\ body' = c
    /\ request' = [request EXCEPT !.envelope = [ns |-> ns, header |-> FALSE, content |-> c, fault |-> ""]]

-------------------------------------------------------------------------------
\* The namespace of an envelope, "" when the version is not supported.
resolveSOAPEnvelopeNamespace(version) == IF version \in {"", "1.1"} THEN SOAP11Envelope ELSE ""

\* Request.Envelope: [err, env].  A pinned envelope is sent as it is; the zero
\* wrapper accepts every body.
Pinned == request.envelope # noEnvelope
validateRequestWrapper(op, c) == op.request = "" \/ op.request = c.name

Envelope(op) ==
    LET ns == resolveSOAPEnvelopeNamespace(op.version)
    IN  IF Pinned
        THEN [err |-> request.envelope.ns = "" /\ ns = "",
              env |-> [request.envelope EXCEPT !.ns = IF @ = "" THEN ns ELSE @]]
        ELSE [err |-> ~validateRequestWrapper(op, request.body) \/ ns = "",
              env |-> [ns |-> ns, header |-> request.soapHeader, content |-> request.body, fault |-> ""]]

defaultVersion(op) ==
    IF op.version # "" THEN op ELSE [op EXCEPT !.version = IF options.client = "" THEN "1.1" ELSE options.client]

BuildHTTPRequest(op) == LET e == Envelope(op) IN [e EXCEPT !.err = @ \/ ~request.endpoint]

\* Do, up to the sending of the request; out says whether the caller wants the body.
Do(out) ==
    LET e == BuildHTTPRequest(defaultVersion(request.operation))
    IN  /\ http.at = "idle" /\ calls < MaxCalls /\ calls' = calls + 1
        /\ ran' = notRun(body)
        /\ IF e.err
           THEN result' = [kind |-> "not sent", value |-> nil] /\ http' = idle
           ELSE result' = noResult /\ http' = [at |-> "request", env |-> e.env, out |-> out]
        /\ UNCHANGED <<options, service, request, body, sets>>

-------------------------------------------------------------------------------
\* The handler.
Reply(env) == http' = [http EXCEPT !.at = "reply", !.env = env]

\* A version without an envelope is replaced by SOAP 1.1, a code that is missing by
\* the server's.
MarshalFaultEnvelope(code) ==
    [ns |-> SOAP11Envelope, header |-> FALSE, content |-> nil, fault |-> IF code = "" THEN "soap:Server" ELSE code]
writeFault(code) == Reply(MarshalFaultEnvelope(code))

\* The first operation whose request wrapper is the name of the body's first element.
Matches(name) == {i \in DOMAIN service : service[i].request = name}
findOperationByWrapper(name) == service[CHOOSE i \in Matches(name) : \A j \in Matches(name) : i <= j]

\* What the handler answers before it invokes anything, "" if it goes on to do so.
refusal(c) ==
    IF Matches(c.name) = {} THEN "soap:Client"
    ELSE IF c # nil /\ (~findOperationByWrapper(c.name).factory \/ ~c.decodes) THEN "soap:Client" ELSE ""

servePOST ==
    LET c == http.env.content
    IN  /\ http.at = "request" /\ service # <<>>
        /\ IF refusal(c) # "" THEN writeFault(refusal(c)) /\ UNCHANGED ran
           ELSE /\ http' = [http EXCEPT !.at = "handler"]
                /\ ran' = [ran EXCEPT !.operation = <<findOperationByWrapper(c.name)>>, !.body = c]
        /\ UNCHANGED <<options, service, request, body, result, sets, calls>>

running == ran.operation[1]
Ran(outcome, value) == ran' = [ran EXCEPT !.outcome = outcome, !.value = value]

\* The response's wrapper is checked, and the version must have an envelope.
checkResponseWrapper(expected, actual) == expected = "" \/ expected = actual
encodes(op, c) ==
    /\ checkResponseWrapper(op.response, c.name)
    /\ resolveSOAPEnvelopeNamespace(IF op.version = "" THEN options.service ELSE op.version) # ""

InvokeResponds(c) ==
    /\ http.at = "handler" /\ running.invoke # "none" /\ Ran("response", c)
    /\ IF encodes(running, c)
       THEN Reply([ns |-> SOAP11Envelope, header |-> FALSE, content |-> c, fault |-> ""])
       ELSE writeFault("soap:Server")
    /\ UNCHANGED <<options, service, request, body, result, sets, calls>>

\* An error is a fault of the server, a *Fault is itself.
\* Mutant: every error is a fault of the server.
writeInvokeFault_Server(code) == writeFault("soap:Server")
writeInvokeFault(code) == writeFault(code)

InvokeFails(code) ==
    /\ http.at = "handler" /\ (running.invoke = "none" => code = "soap:Server")
    /\ Ran(code, nil) /\ writeInvokeFault(code)
    /\ UNCHANGED <<options, service, request, body, result, sets, calls>>

-------------------------------------------------------------------------------
\* The client: the answer, or what came in its place.
Return(kind, value) ==
    /\ http' = idle /\ result' = [kind |-> kind, value |-> value]
    /\ UNCHANGED <<options, service, request, body, ran, sets, calls>>

Lose == http.at \in {"request", "reply"} /\ Return("error", nil)

\* A page of something in between: not an envelope, or empty.
NotSOAP == http.at \in {"request", "reply"} /\ Return("error", nil)

\* Mutant: a fault is not looked for.
ExtractFault_Never(env) == ""
ExtractFault(env) == env.fault

\* UnmarshalBody, or for a caller that wants no body validateResponseWrapper.
UnmarshalBody(expected, c, out) == checkResponseWrapper(expected, c.name) /\ (out => c.decodes)

DoHTTP ==
    LET c == http.env.content
    IN  /\ http.at = "reply"
        /\ IF ExtractFault(http.env) # ""
           THEN Return("fault", [name |-> ExtractFault(http.env), decodes |-> TRUE])
           ELSE IF ~UnmarshalBody(request.operation.response, c, http.out) THEN Return("error", nil)
           ELSE Return("ok", IF http.out THEN c ELSE nil)

SOAPNext ==
    \/ \E p \in {"", "service", "/service?wsdl", "/service"} : Register(p)
    \/ SetEndpoint \/ SetSOAPHeader
    \/ \E c \in Contents : SetBody(c) \/ SetEnvelope(c, "") \/ SetEnvelope(c, "soap12") \/ InvokeResponds(c)
    \/ \E out \in BOOLEAN : Do(out)
    \/ servePOST \/ DoHTTP \/ Lose \/ NotSOAP
    \/ InvokeResponds(nil)
    \/ \E code \in {"soap:Server", "", "app:Refused"} : InvokeFails(code)

-------------------------------------------------------------------------------
Served(code) == IF code = "" THEN "soap:Server" ELSE code

\* What the caller is told is what happened.  A call that succeeds ran one operation, on
\* the body that was set last, which is the request of that operation, and gives the
\* caller the operation's response; a call that faults after an operation ran carries
\* the fault the operation returned, or the server's when its response did not fit
\* (Request.Envelope, servePOST, writeInvokeFault, DoHTTP).
CallTruthful ==
    /\ ran.operation # <<>> => ran.body = ran.asked
    /\ result.kind = "ok" =>
          /\ ran.outcome = "response" /\ running.request = ran.asked.name
          /\ checkResponseWrapper(running.response, ran.value.name)
          /\ result.value \in {nil, ran.value}
    /\ (result.kind = "fault" /\ ran.operation # <<>>) =>
          result.value.name = IF ran.outcome = "response" THEN "soap:Server" ELSE Served(ran.outcome)

===============================================================================
