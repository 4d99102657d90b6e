--------------------------------- MODULE WSDL ---------------------------------
(***************************************************************************)
(* gws/generate, internal/wsdl and internal/codegen: from a WSDL file and   *)
(* the schema files it imports to the schemas, the published assets and the *)
(* operations of the generated code.                                        *)
(*                                                                         *)
(* A file is <<directory, name>>; a schemaLocation is [dir, name], "." for  *)
(* the directory of the file it stands in, "http" for a remote one.  XML is *)
(* abstracted to the items of a schema and to the messages, port types,     *)
(* bindings and services of the WSDL; a QName is [ns, local].               *)
(***************************************************************************)
EXTENDS Integers, Sequences, FiniteSets, SequencesExt

CONSTANTS Inputs  \* [wsdl, files, service, port], files a function from files to schemas

VARIABLES input,
          at,         \* "types", "definitions", "assets", "generate", "done", "failed"
          stack,      \* schemas being read: [dir, schema, items]
          visited,    \* localLoader.visited
          schemas,    \* parsed schemas: [ns, items]
          bindings,   \* parsed bindings: [name, ops], ops [name, in, out]
          xsd,        \* assets: set of <<location, file>>, one for a location
          operations  \* generated: [name, request, response]

wsdlVars == <<input, at, stack, visited, schemas, bindings, xsd, operations>>

noQName == [ns |-> "", local |-> ""]
wsdl == input.wsdl

\* The schemas that stand in the WSDL itself, in its directory.
Frame(dir, schema) == [dir |-> dir, schema |-> 0, items |-> <<[kind |-> "schema", name |-> schema.ns, loc |-> noQName]>> \o schema.items]
parseTypes(i) == [n \in DOMAIN i.wsdl.types |-> Frame("", i.wsdl.types[n])]

WSDLInit ==
    /\ input \in Inputs /\ at = "types" /\ stack = parseTypes(input)
    /\ visited = {} /\ schemas = <<>> /\ bindings = <<>> /\ xsd = {} /\ operations = <<>>

Fail == at' = "failed" /\ UNCHANGED <<input, stack, visited, schemas, bindings, xsd, operations>>

-------------------------------------------------------------------------------
\* parseSchemaNode, and for the assets collectNode, an item at a time.
top == Head(stack)
item == Head(top.items)
Advance == [top EXCEPT !.items = Tail(@)]
Walking == at \in {"types", "assets"} /\ stack # <<>> /\ top.items # <<>>

BeginSchema ==
    /\ Walking /\ item.kind = "schema"
    /\ schemas' = IF at = "types" THEN Append(schemas, [ns |-> item.name, items |-> <<>>]) ELSE schemas
    /\ stack' = <<[Advance EXCEPT !.schema = Len(schemas')]>> \o Tail(stack)
    /\ UNCHANGED <<input, at, visited, bindings, xsd, operations>>

\* An element, a complexType or a simpleType.
Define ==
    /\ Walking /\ item.kind \in {"element", "complexType", "simpleType"}
    /\ schemas' = IF at = "types" THEN [schemas EXCEPT ![top.schema].items = Append(@, item)] ELSE schemas
    /\ stack' = <<Advance>> \o Tail(stack)
    /\ UNCHANGED <<input, at, visited, bindings, xsd, operations>>

\* ErrUnsupportedXSDChoice, or a name with a prefix that is not declared.
Unsupported == Walking /\ item.kind = "choice" /\ Fail

\* The loader: a location leads to a file, which is loaded the first time.
Resolve(dir, loc) == <<IF loc.dir = "." THEN dir ELSE loc.dir, loc.name>>

\* Mutant: a location is loaded the first time it is met, in whatever directory.
visitedKey_Location(path, loc) == <<loc.dir, loc.name>>
visitedKey(path, loc) == path

Import ==
    LET path == Resolve(top.dir, item.loc)  key == visitedKey(path, item.loc)
    IN  /\ Walking /\ item.kind = "import"
        /\ CASE item.loc.name = "" \/ key \in visited ->
                  stack' = <<Advance>> \o Tail(stack) /\ UNCHANGED <<input, at, visited, schemas, bindings, xsd, operations>>
             [] item.loc.name # "" /\ key \notin visited /\ path \in DOMAIN input.files ->
                  IF ~input.files[path].ok THEN Fail
                  ELSE /\ visited' = visited \cup {key}
                       /\ stack' = <<Frame(path[1], input.files[path]), Advance>> \o Tail(stack)
                       /\ xsd' = IF at = "assets" THEN {a \in xsd : a[1] # item.loc} \cup {<<item.loc, path>>} ELSE xsd
                       /\ UNCHANGED <<input, at, schemas, bindings, operations>>
             [] item.loc.name # "" /\ key \notin visited /\ path \notin DOMAIN input.files -> Fail

\* A schema is read; the second walk begins with a loader of its own.
Return ==
    /\ at \in {"types", "assets"} /\ stack # <<>> /\ top.items = <<>>
    /\ stack' = Tail(stack)
    /\ UNCHANGED <<input, at, visited, schemas, bindings, xsd, operations>>

LoadLocalAssets ==
    /\ at = "definitions"
    /\ at' = "assets" /\ stack' = parseTypes(input) /\ visited' = {}
    /\ UNCHANGED <<input, schemas, bindings, xsd, operations>>

-------------------------------------------------------------------------------
\* Schemas of one target namespace become one, in the place of the first.
Firsts(s) == SelectSeq([i \in DOMAIN s |-> i], LAMBDA i : \A j \in 1..i - 1 : s[j].ns # s[i].ns)
\* Mutant: the simple types of the later ones are forgotten.
mergeSchemasByTargetNamespace_Drops(s) ==
    [n \in DOMAIN Firsts(s) |-> [s[Firsts(s)[n]] EXCEPT !.items = @ \o
        FlattenSeq([i \in DOMAIN s |-> IF s[i].ns = s[Firsts(s)[n]].ns /\ i # Firsts(s)[n]
                                       THEN SelectSeq(s[i].items, LAMBDA x : x.kind # "simpleType") ELSE <<>>])]]

mergeSchemasByTargetNamespace(s) ==
    [n \in DOMAIN Firsts(s) |-> [s[Firsts(s)[n]] EXCEPT !.items = @ \o
        FlattenSeq([i \in DOMAIN s |-> IF s[i].ns = s[Firsts(s)[n]].ns /\ i # Firsts(s)[n] THEN s[i].items ELSE <<>>])]]

\* The port type a binding names; failing that, one of that name in any namespace.
\* Port types of one name are one; the last of their operations of a name counts.
portTypesOf(type) ==
    LET exact == {i \in DOMAIN wsdl.portTypes : wsdl.ns = type.ns /\ wsdl.portTypes[i].name = type.local}
    IN  IF exact # {} THEN exact ELSE {i \in DOMAIN wsdl.portTypes : wsdl.portTypes[i].name = type.local}
findPortTypeOperationMap(type) ==
    FlattenSeq([i \in DOMAIN wsdl.portTypes |-> IF i \in portTypesOf(type) THEN wsdl.portTypes[i].ops ELSE <<>>])

parseBindingOperation(op, ops) ==
    LET same == {i \in DOMAIN ops : ops[i].name = op.name}
    IN  IF same = {} THEN [name |-> op.name, in |-> noQName, out |-> noQName]
        ELSE ops[CHOOSE i \in same : \A j \in same : j <= i]

parseBinding(b) ==
    [name |-> b.name, ops |-> [i \in DOMAIN b.ops |-> parseBindingOperation(b.ops[i], findPortTypeOperationMap(b.type))]]
\* The binding's style, which its operations may override.
supported(b) == b.style = "document" /\ \A i \in DOMAIN b.ops : b.ops[i].style \in {"", "document"}

parseDefinitions ==
    /\ at = "types" /\ stack = <<>>
    /\ IF \E i \in DOMAIN wsdl.bindings : ~supported(wsdl.bindings[i]) THEN Fail
       ELSE /\ schemas' = mergeSchemasByTargetNamespace(schemas)
            /\ bindings' = [i \in DOMAIN wsdl.bindings |-> parseBinding(wsdl.bindings[i])]
            /\ at' = "definitions"
            /\ UNCHANGED <<input, stack, visited, xsd, operations>>

-------------------------------------------------------------------------------
\* codegen: what is found by name, "" naming the first; <<>> when it is not found.
\* Mutant: the name is not looked at.
select_First(s, name) == IF s = <<>> THEN <<>> ELSE <<s[1]>>
select(s, name) == LET found == SelectSeq(s, LAMBDA x : name \in {"", x.name}) IN IF found = <<>> THEN <<>> ELSE <<found[1]>>

selectedService == select(wsdl.services, input.service)
selectedPort == IF selectedService = <<>> THEN <<>> ELSE select(selectedService[1].ports, input.port)
selectBinding == IF selectedPort = <<>> THEN <<>> ELSE
    LET b == SelectSeq(bindings, LAMBDA x : x.name = selectedPort[1].binding.local) IN IF b = <<>> THEN b ELSE <<b[1]>>

\* The element of a message's first part, noQName when there is none.
firstMessageElement(q) ==
    LET m == SelectSeq(wsdl.messages, LAMBDA x : x.name = q.local)
    IN  IF m = <<>> \/ m[1].parts = <<>> THEN noQName ELSE m[1].parts[1]
findOperationWrappers(op) == [name |-> op.name, request |-> firstMessageElement(op.in), response |-> firstMessageElement(op.out)]

\* One operation for a name.
generated(ops) ==
    LET first == SelectSeq([i \in DOMAIN ops |-> i], LAMBDA i : \A j \in 1..i - 1 : ops[j].name # ops[i].name)
    IN  [n \in DOMAIN first |-> findOperationWrappers(ops[first[n]])]

Generate ==
    /\ at = "assets" /\ stack = <<>>
    /\ IF selectBinding = <<>> THEN Fail
       ELSE LET ops == generated(selectBinding[1].ops)
            IN  IF \E i \in DOMAIN ops : noQName \in {ops[i].request, ops[i].response} THEN Fail
                ELSE at' = "done" /\ operations' = ops /\ UNCHANGED <<input, stack, visited, schemas, bindings, xsd>>

WSDLNext ==
    \/ BeginSchema \/ Define \/ Unsupported \/ Import \/ Return
    \/ LoadLocalAssets \/ parseDefinitions \/ Generate

-------------------------------------------------------------------------------
\* Reference: the imports, <<location, file>>, that can be reached from the WSDL.
imports(dir, schema) ==
    {<<i.loc, Resolve(dir, i.loc)>> : i \in {j \in Range(schema.items) : j.kind = "import" /\ j.loc.name # ""}}
reach[n \in Nat] ==
    IF n = 0 THEN UNION {imports("", wsdl.types[i]) : i \in DOMAIN wsdl.types}
    ELSE reach[n - 1] \cup UNION {imports(i[2][1], input.files[i[2]]) : i \in reach[n - 1]}
Imported == reach[Cardinality(DOMAIN input.files)]
Reachable == {i[2] : i \in Imported}

Defined(schema) == {[ns |-> schema.ns, item |-> schema.items[i]] : i \in {j \in DOMAIN schema.items : schema.items[j].kind \in {"element", "complexType", "simpleType"}}}

\* What is generated is what was written: each schema that can be reached counts once,
\* whatever imports it and in whatever circle, under its own namespace; and an
\* operation has the elements of the messages of the port type its binding names.
\* What is published under a location is a file imported by it, and a file that can be
\* reached is published under a location it is imported by, unless another file that
\* is imported by the very same location has taken its place.
GeneratedFits ==
    at = "done" =>
        /\ Cardinality({schemas[i].ns : i \in DOMAIN schemas}) = Len(schemas)
        /\ UNION {Defined(schemas[i]) : i \in DOMAIN schemas}
             = UNION ({Defined(wsdl.types[i]) : i \in DOMAIN wsdl.types} \cup {Defined(input.files[f]) : f \in Reachable})
        /\ IsInjective(FlattenSeq([i \in DOMAIN schemas |-> schemas[i].items]))
        /\ \A i \in DOMAIN operations : \E b \in Range(wsdl.bindings), p \in Range(wsdl.portTypes) :
              /\ b.name = selectedPort[1].binding.local /\ p.name = b.type.local
              /\ \E op \in Range(p.ops) : operations[i] = findOperationWrappers(op)
        /\ input.port # "" => selectedPort[1].name = input.port
        /\ xsd \subseteq Imported
        /\ \A f \in Reachable : \E a \in xsd : <<a[1], f>> \in Imported

===============================================================================
