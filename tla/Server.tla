-------------------------------- MODULE Server --------------------------------
(***************************************************************************)
(* gserver: the requests one worker serves, one after the other, with the  *)
(* Context and the respWriter it takes from the pools and puts back.       *)
(*                                                                         *)
(* First the server is set up: middleware and a route, on the root group   *)
(* or on a group below it.  A request then runs the chain of the route.    *)
(* Everything a request leaves somewhere carries the request's number, so  *)
(* that a trace of an earlier request can be told.                         *)
(***************************************************************************)
EXTENDS Integers, Sequences, FiniteSets

CONSTANTS Middleware,  \* kinds of handlers given to Use and Group
          Endpoints,   \* kinds of handlers given to Handle, all of which answer with a Result
          MaxHandlers, \* length of a chain
          Requests     \* requests that are served

VARIABLES groups,   \* <<the handlers of the root group, of the group below>>
          chain,    \* the handlers of the route, <<>> until it is registered
          request,  \* the request that is served: [n, kind]
          context,  \* the Context: [handlers, handlerIndex, values, pathParams, reqCtx]
          writer,   \* the respWriter: [header, wroteHeader, statusCode]
          response, \* the fasthttp response: [status, headers]
          running,  \* the handlers that called Next and wait, outermost first
          doing,    \* what the handler that runs has yet to write, and how it ends: [ops, flow]
          at,       \* "setup", "idle", "loop", "handler", "panic", "crashed"
          ran       \* history of the request: [started, aborted, panicked, late, due, logged]

setup == <<groups, chain>>
serverVars == <<setup, request, context, writer, response, running, doing, at, ran>>

freshContext == [handlers |-> <<>>, handlerIndex |-> -1, values |-> {}, pathParams |-> {}, reqCtx |-> 0]
freshWriter  == [header |-> {}, wroteHeader |-> FALSE, statusCode |-> 0]
\* What fasthttp sends unless it is told something else.
freshResponse == [status |-> 200, headers |-> {}]
nothing == [ops |-> <<>>, flow |-> "return"]
freshRun == [started |-> <<>>, aborted |-> FALSE, panicked |-> FALSE, late |-> FALSE, due |-> {}, logged |-> 0]

ServerInit ==
    /\ groups = << <<>>, <<>> >> /\ chain = <<>>
    /\ request = [n |-> 0, kind |-> "unknown"]
    /\ context = freshContext /\ writer = freshWriter /\ response = freshResponse
    /\ running = <<>> /\ doing = nothing /\ at = "setup" /\ ran = freshRun

-------------------------------------------------------------------------------
serving == <<request, context, writer, response, running, doing, ran>>

Use(g) ==
    /\ at = "setup" /\ Len(groups[g]) + 1 < MaxHandlers
    /\ \E h \in Middleware : groups' = [groups EXCEPT ![g] = Append(@, h)]
    /\ UNCHANGED <<chain, at, serving>>

\* Group: the new group starts with the handlers its parent has by then.
combineHandlers(g, handlers) == groups[g] \o handlers

Group ==
    /\ at = "setup" /\ groups[2] = <<>> /\ groups[1] # <<>>
    /\ groups' = [groups EXCEPT ![2] = combineHandlers(1, <<>>)]
    /\ UNCHANGED <<chain, at, serving>>

\* Handle, and Wrap for the handlers that return a Result.
Handle(g) ==
    /\ at = "setup"
    /\ \E h \in Endpoints : chain' = combineHandlers(g, <<h>>)
    /\ at' = "idle"
    /\ groups' = << <<>>, <<>> >>   \* what the groups get from now on does not matter
    /\ UNCHANGED serving

-------------------------------------------------------------------------------
\* respWriter: an operation on [w, r], the writer and the response.
\* Mutants: the first status is the one sent; headers are sent with it only.
WriteHeader_FirstSent(io, code) ==
    LET status == IF code <= 0 THEN 200 ELSE code
    IN  [w |-> [header |-> {}, wroteHeader |-> TRUE, statusCode |-> status],
         r |-> [io.r EXCEPT !.status = IF io.w.wroteHeader THEN @ ELSE status, !.headers = @ \cup io.w.header]]

WriteHeader_OnceOnly(io, code) ==
    LET status == IF code <= 0 THEN 200 ELSE code
    IN  [w |-> [header |-> {}, wroteHeader |-> TRUE, statusCode |-> status],
         r |-> [io.r EXCEPT !.status = status, !.headers = IF io.w.wroteHeader THEN @ ELSE @ \cup io.w.header]]

WriteHeader(io, code) ==
    LET status == IF code <= 0 THEN 200 ELSE code
    IN  [w |-> [header |-> {}, wroteHeader |-> TRUE, statusCode |-> status],
         r |-> [status |-> status, headers |-> io.r.headers \cup io.w.header]]

\* What is written after that does not matter here.
Write(io) == IF io.w.wroteHeader THEN io ELSE WriteHeader(io, 200)

Named(name) == [name |-> name, of |-> request.n]
Header(io, name) == [io EXCEPT !.w.header = @ \cup {Named(name)}]

Apply(io, op) ==
    CASE op.do = "header" -> Header(io, op.name)
      [] op.do = "status" -> WriteHeader(io, op.code)
      [] op.do = "body"   -> Write(io)

H(name) == [do |-> "header", name |-> name]
S(code) == [do |-> "status", code |-> code]
B       == [do |-> "body"]

\* What a Result may do: [ops, panics].
Done(ops)  == [ops |-> ops, panics |-> FALSE]
Fails(ops) == [ops |-> ops, panics |-> TRUE]

\* The status of a Result that was given none, or a code.
Codes(default) == {default, 201}

\* JSON, XML and HTML encode while they write and panic when that fails; String
\* and Data do not.
Encoded(code) == {Done(<<H("Content-Type"), S(code), B>>), Fails(<<H("Content-Type"), S(code)>>)}
Plain(code)   == {Done(<<H("Content-Type"), S(code), B>>)}

\* AutoResult: with a marshal function of its own nothing is written before the
\* encoding is there; else the Accept header chooses among the others.
AutoResult ==
    UNION {{Fails(<<H("Custom")>>), Done(<<H("Custom"), H("Content-Type"), S(c), B>>)}
           \cup {[o EXCEPT !.ops = <<H("Custom")>> \o @] : o \in Encoded(c) \cup Plain(c)} : c \in Codes(200)}

CodedResult    == UNION {Encoded(c) \cup Plain(c) : c \in Codes(200)}
RedirectResult == {Done(<<H("Location"), S(c)>>) : c \in Codes(302)}
ErrorResult    == UNION {Plain(c) : c \in Codes(500)}
StreamResult   == UNION {Plain(c) : c \in Codes(200)}
NoContentResult == {Done(IF writer.wroteHeader THEN <<>> ELSE <<S(204)>>)}
\* FileResult finds no file, may not look, cannot read what it found, or serves.
FileResult == {Done(<<S(404)>>), Done(<<S(500)>>), Done(<<H("Content-Type"), S(200), S(500)>>),
               Done(<<H("Content-Type"), S(200), B>>)}
\* The handler of Static: a path with dots, a file ServeContent serves, or none.
StaticFile == {Done(<<S(400)>>), Done(<<H("Content-Type"), S(200), B>>),
               Done(IF writer.wroteHeader THEN <<>> ELSE <<S(404)>>)}
\* RespAuto writes without a status of its own, and panics for want of a codec.
RespAuto == {Done(<<B>>), Fails(<<>>)}

Results == {"auto", "coded", "redirect", "error", "stream", "no content", "file", "static", "resp"}
Outcomes(kind) ==
    CASE kind = "auto" -> AutoResult [] kind = "coded" -> CodedResult
      [] kind = "redirect" -> RedirectResult [] kind = "error" -> ErrorResult
      [] kind = "stream" -> StreamResult [] kind = "no content" -> NoContentResult
      [] kind = "file" -> FileResult [] kind = "static" -> StaticFile [] kind = "resp" -> RespAuto

-------------------------------------------------------------------------------
\* FastHandler takes a Context and a writer that were reset when they were put
\* back.  A path with dots and a path without a route are answered at once, by
\* a status and no middleware; else the chain is copied and Next is called.
FastHandler ==
    /\ at = "idle" /\ request.n < Requests
    /\ \E kind \in {"dots", "unknown", "plain", "origin", "preflight"} :
          request' = [n |-> request.n + 1, kind |-> kind]
    /\ ran' = freshRun /\ running' = <<>>
    /\ IF request'.kind \in {"dots", "unknown"}
       THEN LET io == WriteHeader([w |-> writer, r |-> freshResponse], IF request'.kind = "dots" THEN 400 ELSE 404)
            IN  response' = io.r /\ writer' = freshWriter /\ UNCHANGED <<context, at>>
       ELSE /\ context' = [context EXCEPT !.handlers = @ \o chain, !.handlerIndex = @ + 1,
                                          !.pathParams = {request'.n}]
            /\ response' = freshResponse /\ at' = "loop" /\ UNCHANGED writer
    /\ UNCHANGED <<setup, doing>>

\* ServeHTTP makes a fasthttp request of that of net/http, which fails when the
\* body cannot be read: then nobody else is asked.
copyHTTPRequestToFast == [n |-> request.n + 1, kind |-> "unreadable"]

ServeHTTP ==
    /\ at = "idle" /\ request.n < Requests
    /\ request' = copyHTTPRequestToFast
    /\ response' = [freshResponse EXCEPT !.status = 400]
    /\ ran' = freshRun /\ running' = <<>>
    /\ UNCHANGED <<setup, context, writer, doing, at>>

\* The loop of Next calls a handler, which runs up to its own call of Next, or
\* to its end.  ops is what it writes; flow says how it ends.
Starts(kind) ==
    /\ at = "loop" /\ context.handlerIndex < Len(context.handlers)
    /\ context.handlers[context.handlerIndex + 1] = kind

Abort(ctx) == [ctx EXCEPT !.handlerIndex = Len(ctx.handlers)]
Advance(ctx) == [ctx EXCEPT !.handlerIndex = @ + 1]

Run(ops, flow, ctx) ==
    /\ doing' = [ops |-> ops, flow |-> flow] /\ context' = ctx /\ at' = "handler"
    /\ ran' = [ran EXCEPT !.started = Append(@, context.handlerIndex), !.late = @ \/ ran.aborted]
    /\ UNCHANGED <<setup, request, writer, response, running>>

\* A header that is set before a status or a body is due in the response.
Sends(op) == op.do = "status" \/ (op.do = "body" /\ ~writer.wroteHeader)

Writes ==
    /\ at = "handler" /\ doing.ops # <<>>
    /\ LET op == Head(doing.ops)
           io == Apply([w |-> writer, r |-> response], op)
       IN  /\ writer' = io.w /\ response' = io.r
           /\ ran' = IF Sends(op) THEN [ran EXCEPT !.due = @ \cup writer.header] ELSE ran
    /\ doing' = [doing EXCEPT !.ops = Tail(@)]
    /\ UNCHANGED <<setup, request, context, running, at>>

Written(flow) ==
    /\ at = "handler" /\ doing.ops = <<>> /\ doing.flow = flow /\ doing' = nothing
    /\ UNCHANGED <<setup, request, writer, response>>

CallsNext == Written("next") /\ running' = Append(running, context.handlerIndex)
             /\ context' = Advance(context) /\ at' = "loop" /\ UNCHANGED ran
Returns   == Written("return")
             /\ context' = Advance(context) /\ at' = "loop" /\ UNCHANGED <<running, ran>>
Aborts    == Written("abort")
             /\ context' = Advance(Abort(context)) /\ at' = "loop"
             /\ ran' = [ran EXCEPT !.aborted = TRUE] /\ UNCHANGED running
Panics    == Written("panic")
             /\ at' = "panic" /\ ran' = [ran EXCEPT !.panicked = TRUE] /\ UNCHANGED <<context, running>>

RequestID == Starts("request id")
             /\ Run(<<H("X-Request-ID")>>, "next", [context EXCEPT !.values = @ \cup {request.n}])

\* CORS answers a preflight itself.
CORS == Starts("cors") /\
    LET origin == H("Access-Control-Allow-Origin")
    IN  IF request.kind = "plain" THEN Run(<<>>, "next", context)
        ELSE IF request.kind = "origin" THEN Run(<<origin>>, "next", context)
        ELSE Run(<<origin, H("Access-Control-Allow-Methods"), S(204)>>, "abort", context)

TimeoutContext == Starts("timeout") /\ Run(<<>>, "next", [context EXCEPT !.reqCtx = request.n])

\* RequestLogger and Recovery do their work after Next.
RequestLogger == Starts("logger") /\ Run(<<>>, "next", context)
Recovery == Starts("recovery") /\ Run(<<>>, "next", context)

\* Handlers of the application: one that aborts, one that calls Next (and, see
\* AfterNext, calls it again), and one that answers with a Result.
AbortWithStatus == Starts("abort") /\ Run(<<S(403)>>, "abort", context)
NextTwice == Starts("twice") /\ Run(<<>>, "next", context)

Execute(kind) == Starts(kind) /\ \E o \in Outcomes(kind) :
    Run(o.ops, IF o.panics THEN "panic" ELSE "return", context)

-------------------------------------------------------------------------------
LoopEnds == at = "loop" /\ context.handlerIndex >= Len(context.handlers)
Caller == running[Len(running)]
Waiting == context.handlers[Caller + 1]
Returned == SubSeq(running, 1, Len(running) - 1)
Status == IF writer.statusCode = 0 THEN 200 ELSE writer.statusCode

\* Next returns to the handler that called it, which finishes; the loop that
\* called this handler goes on with the index that all loops share.
\* Mutant: a loop keeps an index of its own.
AfterNext_OwnIndex ==
    /\ LoopEnds /\ running # <<>>
    /\ ran' = IF Waiting = "logger" THEN [ran EXCEPT !.logged = Status] ELSE ran
    /\ context' = [context EXCEPT !.handlerIndex = Caller + 1]
    /\ running' = Returned
    /\ UNCHANGED <<setup, request, writer, response, doing, at>>

AfterNext ==
    /\ LoopEnds /\ running # <<>>
    /\ ran' = IF Waiting = "logger" THEN [ran EXCEPT !.logged = Status] ELSE ran
    /\ context' = IF Waiting = "twice" THEN Advance(Advance(context)) ELSE Advance(context)
    /\ running' = Returned
    /\ UNCHANGED <<setup, request, writer, response, doing, at>>

\* A panic unwinds the handlers that wait, up to a Recovery.
Unwind ==
    /\ at = "panic" /\ running # <<>>
    /\ running' = Returned
    /\ IF Waiting # "recovery" THEN UNCHANGED <<context, writer, response, at>>
       ELSE LET io  == [w |-> writer, r |-> response]
                out == IF writer.wroteHeader THEN io ELSE WriteHeader(io, 500)
            IN  /\ writer' = out.w /\ response' = out.r
                /\ context' = Advance(Abort(context)) /\ at' = "loop"
    /\ ran' = IF Waiting = "recovery" /\ ~writer.wroteHeader
              THEN [ran EXCEPT !.due = @ \cup writer.header] ELSE ran
    /\ UNCHANGED <<setup, request, doing>>

\* The deferred end of FastHandler.  A panic no Recovery stopped goes on: net/http
\* ends the request, fasthttp the process.
\* Mutant: Reset forgets the values.
Reset_KeepsValues(ctx) == [freshContext EXCEPT !.values = ctx.values]
Reset(ctx) == freshContext

\* Afterwards ServeHTTP writes the response to net/http.
writeFastResponseToHTTP == [response EXCEPT !.status = IF @ = 0 THEN 200 ELSE @]

End ==
    /\ running = <<>>
    /\ \/ LoopEnds /\ at' = "idle"
       \/ at = "panic" /\ at' \in {"idle", "crashed"}
    /\ context' = Reset(context) /\ writer' = freshWriter
    /\ response' \in {response, writeFastResponseToHTTP}
    /\ UNCHANGED <<setup, request, running, doing, ran>>

ServerNext ==
    \/ \E g \in 1..2 : Use(g) \/ Handle(g)
    \/ Group \/ FastHandler \/ ServeHTTP
    \/ RequestID \/ CORS \/ TimeoutContext \/ RequestLogger \/ Recovery \/ AbortWithStatus \/ NextTwice
    \/ \E kind \in Results : Execute(kind)
    \/ Writes \/ CallsNext \/ Returns \/ Aborts \/ Panics
    \/ AfterNext \/ Unwind \/ End

-------------------------------------------------------------------------------
\* Each handler of a chain starts at most once and in the order of the chain,
\* none after Abort, and all of them unless a handler aborted or panicked:
\* although every middleware runs a loop of its own over the rest of the chain
\* (Next, Abort, Recovery).
RunsInOrder ==
    /\ \A i, j \in DOMAIN ran.started : i < j => ran.started[i] < ran.started[j]
    /\ ~ran.late
    /\ (at = "idle" /\ request.kind \notin {"dots", "unknown", "unreadable"} /\ ~ran.aborted /\ ~ran.panicked) =>
          Len(ran.started) = Len(chain)

\* Nothing that an earlier request left in the pooled Context or writer is seen
\* by a later one or sent in its response (Context.Reset, respWriter.Reset).
NothingLeaks ==
    /\ context.values \cup context.pathParams \subseteq {request.n}
    /\ context.reqCtx \in {0, request.n}
    /\ \A h \in writer.header \cup response.headers : h.of = request.n

\* A header that was set when a status or a body was written, by whatever handler,
\* is in the response, a second status and a recovered panic included (WriteHeader).
HeadersArrive == at = "idle" => ran.due \subseteq response.headers

\* The status RequestLogger logs is the one the client gets, also when a handler
\* wrote two (respWriter.WriteHeader, Status).
LoggedIsSent == (at = "idle" /\ ran.logged # 0) => response.status = ran.logged

===============================================================================
