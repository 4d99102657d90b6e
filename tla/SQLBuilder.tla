------------------------------ MODULE SQLBuilder ------------------------------
(***************************************************************************)
(* gsql/builder.go: a Builder collects the parts of a statement and ToSQL  *)
(* puts the text and the list of arguments together.  Of the text only the *)
(* placeholders are kept: a token [hole, mark] stands where the caller     *)
(* wrote the question mark number hole, and mark is the number of a $n     *)
(* placeholder, 0 for a plain "?".  A value is <<hole, j>>: what the       *)
(* caller passed, as its j-th element, for that question mark.             *)
(***************************************************************************)
EXTENDS Integers, Sequences, FiniteSetsExt

CONSTANTS MaxParts,   \* Where and Having calls
          MaxArgs     \* arguments of one call

\* An argument: a value, a slice of size values, or a *Builder whose own Where
\* has size question marks.
Arguments == [kind : {"value"}, size : {1}] \cup [kind : {"slice", "sub"}, size : 0..2]

VARIABLES builder,   \* [op, numbered, set, where, having, args, holes]
          parts      \* history: Where and Having calls made

sqlVars == <<builder, parts>>

\* Callers pass one argument for every question mark they write.
\*
\* From, Insert, Update, Delete and the dialect: $n for postgres, "?" otherwise.
SQLInit ==
    /\ parts = 0
    /\ \E op \in {"select", "insert", "update", "delete"}, numbered \in BOOLEAN, set \in 0..2 :
          builder = [op |-> op, numbered |-> numbered, set |-> set,
                     where |-> <<>>, having |-> <<>>, args |-> <<>>, holes |-> 0]

\* The arguments of all calls go to one list, with the question marks they are for.
Add(arguments) ==
    [builder EXCEPT !.args = @ \o [k \in DOMAIN arguments |->
                        [hole |-> builder.holes + k, arg |-> arguments[k]]],
                    !.holes = @ + Len(arguments)]

Holes(n) == [k \in 1..n |-> [hole |-> builder.holes + k, mark |-> 0]]

Where ==
    /\ parts < MaxParts /\ parts' = parts + 1
    /\ \E n \in 0..MaxArgs : \E arguments \in [1..n -> Arguments] :
          builder' = [Add(arguments) EXCEPT !.where = Append(@, Holes(n))]

Having ==
    /\ parts < MaxParts /\ parts' = parts + 1
    /\ \E n \in 0..1 : \E arguments \in [1..n -> [kind : {"value"}, size : {1}]] :
          builder' = [Add(arguments) EXCEPT !.having = Holes(n)]

SQLNext == Where \/ Having

-------------------------------------------------------------------------------
Placeholder(i) == IF builder.numbered THEN i + 1 ELSE 0

\* strings.Replace(text, "?", tokens, 1): the first plain question mark that is
\* left in the text, which need not be the one the caller wrote first.
ReplaceFirst(text, marks) ==
    LET open == {i \in DOMAIN text : text[i].mark = 0}
    IN  IF open = {} THEN text
        ELSE LET i == Min(open)
             IN  SubSeq(text, 1, i - 1)
                 \o [j \in DOMAIN marks |-> [hole |-> text[i].hole, mark |-> marks[j]]]
                 \o SubSeq(text, i + 1, Len(text))

\* The marks an argument gets after n values are in the list.  The loop over a
\* slice adds j to a length that already grows by j.
Marks(n, arg) ==
    [j \in 1..arg.size |-> CASE arg.kind = "value" -> Placeholder(n)
                             [] arg.kind = "slice" -> Placeholder(n + 2 * (j - 1))
                             [] arg.kind = "sub"   -> Placeholder(j - 1)]

Values(a) == [j \in 1..a.arg.size |-> <<a.hole, j>>]

\* Mutant: the values of a slice are left out of the list.
Substitute_NoSlice(acc, a) ==
    [text |-> ReplaceFirst(acc.text, Marks(Len(acc.list), a.arg)),
     list |-> IF a.arg.kind = "slice" THEN acc.list ELSE acc.list \o Values(a)]

Substitute(acc, a) ==
    [text |-> ReplaceFirst(acc.text, Marks(Len(acc.list), a.arg)),
     list |-> acc.list \o Values(a)]

\* Every part takes as many arguments as it has question marks: built[k] is the
\* part after k of them.
BuildPart(acc, part) ==
    LET built[k \in 0..Len(part)] ==
            IF k = 0 THEN [text |-> part, list |-> acc.list]
            ELSE Substitute(built[k - 1], builder.args[acc.offset + k])
    IN  [text |-> acc.text \o built[Len(part)].text, list |-> built[Len(part)].list,
         offset |-> acc.offset + Len(part)]

buildWhereClause ==
    LET joined[p \in 0..Len(builder.where)] ==
            IF p = 0 THEN [text |-> <<>>, list |-> <<>>, offset |-> 0]
            ELSE BuildPart(joined[p - 1], builder.where[p])
    IN  joined[Len(builder.where)]

\* The columns and values of Insert and Update, as holes -1, -2, ...
SetText == [k \in 1..builder.set |-> [hole |-> -k, mark |-> Placeholder(k - 1)]]
SetList == [k \in 1..builder.set |-> <<-k, 1>>]

Failed == [ok |-> FALSE, text |-> <<>>, list |-> <<>>]

\* buildSelectSQL (and buildCountSQL, which differs in the columns), buildInsertSQL,
\* buildUpdateSQL and buildDeleteSQL.
buildSelectSQL ==
    [ok |-> TRUE, text |-> buildWhereClause.text \o builder.having, list |-> buildWhereClause.list]
buildInsertSQL ==
    IF builder.set = 0 THEN Failed ELSE [ok |-> TRUE, text |-> SetText, list |-> SetList]
\* Mutant: the arguments of the WHERE clause come before the values.
buildUpdateSQL_Swapped ==
    [ok |-> TRUE, text |-> SetText \o buildWhereClause.text,
     list |-> buildWhereClause.list \o SetList]

buildUpdateSQL ==
    IF builder.set = 0 \/ builder.where = <<>> THEN Failed
    ELSE [ok |-> TRUE, text |-> SetText \o buildWhereClause.text,
          list |-> SetList \o buildWhereClause.list]
buildDeleteSQL ==
    IF builder.where = <<>> THEN Failed
    ELSE [ok |-> TRUE, text |-> buildWhereClause.text, list |-> buildWhereClause.list]

ToSQL ==
    CASE builder.op = "select" -> buildSelectSQL
      [] builder.op = "insert" -> buildInsertSQL
      [] builder.op = "update" -> buildUpdateSQL
      [] builder.op = "delete" -> buildDeleteSQL

-------------------------------------------------------------------------------
\* The database binds the t-th "?" to the t-th argument, and $n to the n-th.
\* The hole of every placeholder gets the values the caller passed for it.
BindsRight(sql) ==
    /\ Len(sql.text) = Len(sql.list)
    /\ \A t \in DOMAIN sql.text :
          LET at == IF sql.text[t].mark = 0 THEN t ELSE sql.text[t].mark
          IN  at \in DOMAIN sql.list /\ sql.list[at][1] = sql.text[t].hole

\* What the caller wrote so far.
ListsComeFirst ==
    \A i \in DOMAIN builder.args : builder.args[i].arg.kind = "value"
        \/ \E p \in DOMAIN builder.where : builder.where[p] # <<>>
                                           /\ builder.where[p][1].hole = builder.args[i].hole

\* Having took no argument: every one in the list is for a question mark of a Where.
AllForWhere ==
    \A i \in DOMAIN builder.args : \E p \in DOMAIN builder.where :
        \E k \in DOMAIN builder.where[p] : builder.where[p][k].hole = builder.args[i].hole

\* With "?" placeholders every value ToSQL returns is bound where the caller
\* meant it, as long as a slice or a subquery is the first argument of its
\* Where and no Having took an argument, not even one that a later Having
\* replaced: the rest of a Where with a slice, and the order of SET and WHERE,
\* do not mix values up.
QuestionMarksBind ==
    (~builder.numbered /\ ListsComeFirst /\ AllForWhere) => BindsRight(ToSQL)

===============================================================================
