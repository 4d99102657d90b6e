------------------------------- MODULE RouteTree -------------------------------
(***************************************************************************)
(* gserver: the routes of one HTTP method (MethodMatcher) and the trees    *)
(* that hold the ones with parameters (CompressedRadixTree).               *)
(*                                                                         *)
(* A path is [segs, slash]: its segments and whether it ends in a slash.   *)
(* A segment of a route is [kind, name]: "static", ":" (a parameter) or    *)
(* "*" (a catch-all).  A tree maps a node to [name, entry]; a node is the  *)
(* sequence of edges from the root, where no parameter has a name, so two  *)
(* routes whose parameters have other names meet in one node.              *)
(***************************************************************************)
EXTENDS Integers, Sequences

CONSTANTS Routes,    \* the paths that are added and removed
          Paths,     \* the paths of requests: [segs, slash], segs of strings
          MaxChanges \* routes added and removed

VARIABLES staticGroup,  \* the static routes
          segmentIndex, \* number of segments -> tree
          radixTree,    \* the tree of the routes with a catch-all
          pathParams,   \* the parameters of the pooled Context, written in place
          asked,        \* history: the lookups since the last change, [path, entry], at most one
          changes       \* history: AddRoute and RemoveRoute calls

table == <<staticGroup, segmentIndex, radixTree>>
routeVars == <<table, pathParams, asked, changes>>

noEntry == [segs |-> <<>>, slash |-> FALSE]   \* no route: "/" is a static route of its own
noParams == [name \in {} |-> ""]

newCompressedRadixTree == [node \in {<<>>} |-> [name |-> "", entry |-> noEntry]]

RouteInit ==
    /\ staticGroup = {} /\ segmentIndex = [n \in {} |-> newCompressedRadixTree]
    /\ radixTree = newCompressedRadixTree
    /\ pathParams = noParams /\ asked = {} /\ changes = 0

-------------------------------------------------------------------------------
extractPathFeature(route) ==
    [segmentCnt |-> Len(route.segs),
     hasParam   |-> \E i \in DOMAIN route.segs : route.segs[i].kind = ":",
     hasWild    |-> \E i \in DOMAIN route.segs : route.segs[i].kind = "*"]

Edge(seg) == IF seg.kind = "static" THEN seg ELSE [kind |-> seg.kind, name |-> ""]

\* The node that the first n segments of a route lead to, and the route's own.
Stem(route, n) == [i \in 1..n |-> Edge(route.segs[i])]
NodeOf(route) == Stem(route, Len(route.segs))

\* insert: the missing nodes are made, and take their parameter's name from
\* this route; a node that has an entry already refuses the route.
Duplicate(tree, route) == NodeOf(route) \in DOMAIN tree /\ tree[NodeOf(route)].entry # noEntry

insert(tree, route) ==
    LET own(node) == [name  |-> route.segs[Len(node)].name,
                      entry |-> IF node = NodeOf(route) THEN route ELSE noEntry]
    IN  [node \in DOMAIN tree \cup {Stem(route, n) : n \in DOMAIN route.segs} |->
            IF node \notin DOMAIN tree THEN own(node)
            ELSE IF node = NodeOf(route) THEN [name |-> tree[node].name, entry |-> route]
            ELSE tree[node]]

\* remove finds the node by the kinds of the segments; of a catch-all it also
\* compares the name.  Nodes that are left empty go, from the leaf upwards.
Removable(tree, route) ==
    LET node == NodeOf(route)
    IN  /\ Duplicate(tree, route)
        /\ LET last == route.segs[Len(route.segs)]
           IN  last.kind = "*" => tree[node].name = last.name

Below(tree, node) == {n \in DOMAIN tree : Len(node) <= Len(n) /\ \A i \in DOMAIN node : n[i] = node[i]}

remove(tree, route) ==
    LET node == NodeOf(route)
        left == {n \in DOMAIN tree : n # node /\ tree[n].entry # noEntry}
        empty == {n \in DOMAIN tree : n # <<>> /\ node \in Below(tree, n) /\ Below(tree, n) \cap left = {}}
    IN  [n \in DOMAIN tree \ empty |->
            IF n = node THEN [name |-> tree[n].name, entry |-> noEntry] ELSE tree[n]]

\* What a search did to the parameters: the names it wrote, and whether it deleted
\* them again.
Kept(value) == [kept |-> TRUE, value |-> value]
Deleted == [kept |-> FALSE, value |-> ""]
Write(name, what) == [n \in {name} |-> what]
Over(new, old) == [n \in DOMAIN new \cup DOMAIN old |-> IF n \in DOMAIN new THEN new[n] ELSE old[n]]
nothing == [n \in {} |-> Deleted]

After(params, written) ==
    [name \in {n \in DOMAIN written : written[n].kept} \cup (DOMAIN params \ DOMAIN written) |->
        IF name \in DOMAIN written THEN written[name].value ELSE params[name]]

\* find, of a node: first the child of the segment, then the parameter, then the
\* catch-all; what a branch that fails has bound is deleted again.
\* Mutant: a branch that fails is not left again.
findIn_NoBacktrack(tree, path, find, node) ==
    LET here  == Len(node) + 1
        child == Append(node, [kind |-> "static", name |-> path[here]])
        param == Append(node, [kind |-> ":", name |-> ""])
        wild  == Append(node, [kind |-> "*", name |-> ""])
        Caught ==
            IF wild \in DOMAIN tree /\ tree[wild].entry # noEntry
            THEN [entry   |-> tree[wild].entry,
                  written |-> Write(tree[wild].name, Kept(SubSeq(path, here, Len(path))))]
            ELSE [entry |-> noEntry, written |-> nothing]
    IN  IF here > Len(path)
        THEN IF tree[node].entry # noEntry THEN [entry |-> tree[node].entry, written |-> nothing]
             ELSE Caught
        ELSE IF path[here] # "" /\ child \in DOMAIN tree THEN find[child]
        ELSE IF path[here] # "" /\ param \in DOMAIN tree
             THEN [entry   |-> find[param].entry,
                   written |-> Over(find[param].written, Write(tree[param].name, Kept(path[here])))]
        ELSE Caught

findIn(tree, path, find, node) ==
    LET here  == Len(node) + 1
        child == Append(node, [kind |-> "static", name |-> path[here]])
        param == Append(node, [kind |-> ":", name |-> ""])
        wild  == Append(node, [kind |-> "*", name |-> ""])
        Caught(written) ==
            IF wild \in DOMAIN tree /\ tree[wild].entry # noEntry
            THEN [entry   |-> tree[wild].entry,
                  written |-> Over(Write(tree[wild].name, Kept(SubSeq(path, here, Len(path)))), written)]
            ELSE [entry |-> noEntry, written |-> written]
        byChild == IF path[here] # "" /\ child \in DOMAIN tree THEN find[child]
                   ELSE [entry |-> noEntry, written |-> nothing]
        name    == tree[param].name
        byParam == Over(find[param].written, Over(Write(name, Kept(path[here])), byChild.written))
    IN  IF here > Len(path)
        THEN IF tree[node].entry # noEntry THEN [entry |-> tree[node].entry, written |-> nothing]
             ELSE Caught(nothing)
        ELSE IF byChild.entry # noEntry THEN byChild
        ELSE IF path[here] = "" \/ param \notin DOMAIN tree THEN Caught(byChild.written)
        ELSE IF find[param].entry # noEntry THEN [entry |-> find[param].entry, written |-> byParam]
        ELSE Caught(Over(Write(name, Deleted), byParam))

\* searchInto.
search(tree, path, params) ==
    LET find[node \in DOMAIN tree] == findIn(tree, path, find, node)
    IN  [entry |-> find[<<>>].entry, params |-> After(params, find[<<>>].written)]

-------------------------------------------------------------------------------
\* The Context of an earlier request is reset by then.
Change == changes < MaxChanges /\ changes' = changes + 1 /\ pathParams' = noParams /\ asked' = {}

\* AddRoute refuses a duplicate, and the server panics.
addRoute(route) ==
    LET feature == extractPathFeature(route)
        count   == feature.segmentCnt
        tree    == IF count \in DOMAIN segmentIndex THEN segmentIndex[count] ELSE newCompressedRadixTree
    IN  /\ Change
        /\ \/ /\ ~feature.hasParam /\ ~feature.hasWild /\ route \notin staticGroup
              /\ staticGroup' = staticGroup \cup {route} /\ UNCHANGED <<segmentIndex, radixTree>>
           \/ /\ feature.hasWild /\ ~Duplicate(radixTree, route)
              /\ radixTree' = insert(radixTree, route) /\ UNCHANGED <<staticGroup, segmentIndex>>
           \/ /\ feature.hasParam /\ ~feature.hasWild /\ ~Duplicate(tree, route)
              /\ segmentIndex' = [n \in DOMAIN segmentIndex \cup {count} |->
                                     IF n = count THEN insert(tree, route) ELSE segmentIndex[n]]
              /\ UNCHANGED <<staticGroup, radixTree>>

\* RemoveRoute reports a route that is not there.  (A route with parameters of
\* a length no route had yet dereferences a nil tree; it is not asked for.)
removeRoute(route) ==
    LET feature == extractPathFeature(route)
        count   == feature.segmentCnt
    IN  /\ Change
        /\ \/ route \in staticGroup
              /\ staticGroup' = staticGroup \ {route} /\ UNCHANGED <<segmentIndex, radixTree>>
           \/ /\ feature.hasWild /\ Removable(radixTree, route)
              /\ radixTree' = remove(radixTree, route) /\ UNCHANGED <<staticGroup, segmentIndex>>
           \/ /\ feature.hasParam /\ ~feature.hasWild /\ count \in DOMAIN segmentIndex
              /\ Removable(segmentIndex[count], route)
              /\ segmentIndex' = [segmentIndex EXCEPT ![count] = remove(@, route)]
              /\ UNCHANGED <<staticGroup, radixTree>>

\* matchInto: the static routes by the whole path, then the tree of the path's
\* length, then the tree of the catch-alls.  The map of the caller is cleared
\* first and written in place.
AsRoute(path) == [segs |-> [i \in DOMAIN path.segs |-> [kind |-> "static", name |-> path.segs[i]]],
                  slash |-> path.slash]

matchInto(path) ==
    LET count  == Len(path.segs)
        bySegs == IF count \in DOMAIN segmentIndex
                  THEN search(segmentIndex[count], path.segs, noParams)
                  ELSE [entry |-> noEntry, params |-> noParams]
        found  == IF AsRoute(path) \in staticGroup THEN [entry |-> AsRoute(path), params |-> noParams]
                  ELSE IF bySegs.entry # noEntry THEN bySegs
                  ELSE search(radixTree, path.segs, bySegs.params)
    IN  /\ pathParams' = found.params
        /\ asked' = {[path |-> path, entry |-> found.entry]}
        /\ UNCHANGED <<table, changes>>

RouteNext ==
    \/ \E route \in Routes : addRoute(route) \/ removeRoute(route)
    \/ \E path \in Paths : matchInto(path)

-------------------------------------------------------------------------------
\* The routes that are registered, wherever the matcher keeps them.
Registered ==
    LET entries(tree) == {tree[n].entry : n \in DOMAIN tree} \ {noEntry}
    IN  staticGroup \cup entries(radixTree) \cup UNION {entries(segmentIndex[n]) : n \in DOMAIN segmentIndex}

Serves(route, path) ==
    LET n == Len(route.segs)
        wild == n > 0 /\ route.segs[n].kind = "*"
    IN  /\ IF wild THEN Len(path.segs) >= n - 1 ELSE Len(path.segs) = n
        /\ \A i \in 1..(IF wild THEN n - 1 ELSE n) :
              IF route.segs[i].kind = ":" THEN path.segs[i] # "" ELSE route.segs[i].name = path.segs[i]
        /\ (\A i \in DOMAIN route.segs : route.segs[i].kind = "static") => route.slash = path.slash

Rank(seg) == CASE seg.kind = "static" -> 1 [] seg.kind = ":" -> 2 [] seg.kind = "*" -> 3

\* A route with no catch-all comes before one with; among those, the one that is
\* more precise where they differ first.
Before(r, s) ==
    LET wild(x) == extractPathFeature(x).hasWild
    IN  IF wild(r) # wild(s) THEN wild(s)
        ELSE \E i \in DOMAIN r.segs : /\ i \in DOMAIN s.segs /\ Rank(r.segs[i]) < Rank(s.segs[i])
                                      /\ \A j \in 1..(i - 1) : Rank(r.segs[j]) = Rank(s.segs[j])

Bound(route, path) ==
    [name \in {route.segs[i].name : i \in {j \in DOMAIN route.segs : route.segs[j].kind # "static"}} |->
        LET i == CHOOSE j \in DOMAIN route.segs : route.segs[j].kind # "static" /\ route.segs[j].name = name
        IN  IF route.segs[i].kind = ":" THEN path.segs[i] ELSE SubSeq(path.segs, i, Len(path.segs))]

\* What the routes have in common: the segments of a route have names, a catch-all
\* is the last one (CheckPathValid); and a parameter has the same name in all routes
\* that lead to its node, and no other node on the way has it.
RoutesAgree ==
    /\ noEntry \notin Routes
    /\ \A r \in Routes :
          /\ r = [segs |-> r.segs, slash |-> r.slash]
          /\ r.segs \in Seq([kind : {"static", ":", "*"}, name : STRING \ {""}])
          /\ \A i \in DOMAIN r.segs : r.segs[i].kind = "*" => i = Len(r.segs)
    /\ \A r, s \in Routes : \A i \in DOMAIN r.segs, j \in DOMAIN s.segs :
          (r.segs[i].kind # "static" /\ s.segs[j].kind # "static" /\ i <= j /\ Stem(r, i) = Stem(s, i))
              => (r.segs[i].name = s.segs[j].name <=> i = j)

\* A request gets the most precise route that serves its path and that route's
\* own parameters, whatever was added and removed before and whatever branches
\* the search tried and left; and no route only when none serves it (matchInto,
\* find).  Two routes that give one position other names break this.
RightRoute ==
    \A a \in asked :
        LET serving == {r \in Registered : Serves(r, a.path)}
        IN  IF serving = {} THEN a.entry = noEntry /\ pathParams = noParams
            ELSE /\ a.entry \in serving
                 /\ \A r \in serving \ {a.entry} : Before(a.entry, r)
                 /\ pathParams = Bound(a.entry, a.path)

===============================================================================
