------------------------------ MODULE OrmQuery ------------------------------
(***************************************************************************)
(* The query builders of the ORM (orm/Predicate.hpp, SelectQuery.hpp,      *)
(* InsertQuery.hpp, UpdateQuery.hpp, UpsertQuery.hpp, DeleteQuery.hpp).    *)
(* A caller makes a sequence of builder calls on one query object, with a  *)
(* second query at hand to use as subquery, CTE or operand, and sends it.  *)
(*                                                                         *)
(* SQL text is abstracted to its placeholders: a text is the sequence of   *)
(* the values that the caller meant at each "?", from left to right.  The  *)
(* parameters travel beside it and are bound by position.  A value is      *)
(* known by where it was given.  Of the WHERE clause the operators and the *)
(* parentheses are kept too, see Condition.                                *)
(* Definitions marked "seeded fault" are not part of the model.            *)
(***************************************************************************)
EXTENDS Integers, Sequences, FiniteSets, SequencesExt

CONSTANTS
  Columns,     \* Model::columns(): [name, pk, generate, update] records
  Prepared,    \* names of the second queries, see PreparedQuery
  MaxCalls     \* bound: builder calls on the main query

VARIABLES
  kind,     \* which builder: "SELECT", "INSERT", "UPDATE", "DELETE" or "UPSERT"
  query,    \* the builder object
  sub,      \* the second SelectQuery
  asked,    \* ghost: the calls of where() and orWhere(), in order
  calls,
  sent      \* what dispatch() got, or <<>>

vars == <<kind, query, sub, asked, calls, sent>>

-----------------------------------------------------------------------------
(* Predicates.  text is what columnA and columnB hold of a custom string or  *)
(* of a subquery.                                                            *)

Pred(type, op, values, text) ==
  [type |-> type, op |-> op, values |-> values, text |-> text, children |-> <<>>, lossy |-> FALSE]

True == Pred("TRUE", "", <<>>, <<>>)
False == Pred("FALSE", "", <<>>, <<>>)
IsNull == Pred("LEAF", "IS_NULL", <<>>, <<>>)
Equals(v) == Pred("LEAF", "EQUALS", <<v>>, <<>>)
Compare(v) == Pred("LEAF", "GREATER", <<v>>, <<>>)
Like(v) == Pred("LEAF", "LIKE", <<v>>, <<>>)
In(vs) == Pred("LEAF", "IN", vs, <<>>)
Between(v, w) == Pred("LEAF", "BETWEEN", <<v, w>>, <<>>)
FieldEquals == Pred("FIELD_COMPARISON", "EQUALS", <<>>, <<>>)
String(vs) == Pred("STRING", "", vs, vs)
Raw(vs) == Pred("RAW", "EQUALS", vs, vs)

\* A predicate over a subquery takes a copy of its text and parameters.
OverSubquery(type, op, built) ==
  [Pred(type, op, built.params, built.text) EXCEPT !.lossy = built.lossy]

Node(type, p, q) == [Pred(type, "", <<>>, <<>>) EXCEPT !.children = <<p, q>>]

Or(p, q) ==
  IF p.type = "TRUE" \/ q.type = "TRUE" THEN True
  ELSE IF p.type = "FALSE" THEN q
  ELSE IF q.type = "FALSE" THEN p
  ELSE Node("OR", p, q)

And(p, q) ==
  IF p.type = "FALSE" \/ q.type = "FALSE" THEN False
  ELSE IF p.type = "TRUE" THEN q
  ELSE IF q.type = "TRUE" THEN p
  ELSE Node("AND", p, q)

\* The "?" and the parameters of a LEAF: none for a null test, the first value
\* for an ordinary operator, all of a group.
LeafValues(p) ==
  CASE p.op \in {"IS_NULL", "IS_NOT_NULL"} -> <<>>
    [] p.op \in {"IN", "NOT_IN", "BETWEEN"} -> p.values
    [] OTHER -> <<p.values[1]>>

\* What a part of a statement contributes to it.
Part(text, params, lossy) == [text |-> text, params |-> params, lossy |-> lossy]
Concat(parts) ==
  Part(FlattenSeq([i \in DOMAIN parts |-> parts[i].text]),
       FlattenSeq([i \in DOMAIN parts |-> parts[i].params]),
       \E i \in DOMAIN parts : parts[i].lossy)

RECURSIVE ResolvePredicates(_)
ResolvePredicates(p) ==
  CASE p.type = "LEAF" -> Part(LeafValues(p), LeafValues(p), FALSE)
    [] p.type \in {"TRUE", "FALSE", "FIELD_COMPARISON"} -> Part(<<>>, <<>>, FALSE)
    [] p.type \in {"STRING", "RAW", "SUBQUERY", "EXISTS", "NOT_EXISTS"} -> Part(p.text, p.values, p.lossy)
    [] OTHER -> Concat(<<ResolvePredicates(p.children[1]), ResolvePredicates(p.children[2])>>)

\* The text of a condition, the way SQL reads it: alternatives joined by OR,
\* each made of terms joined by AND.  A term is an atom or stands in parentheses.
Atom(p, half) == [leaf |-> p, half |-> half, inner |-> <<>>]
Parenthesised(text) == <<<<[leaf |-> True, half |-> 0, inner |-> text]>>>>
Joined(type, t, u) == IF type = "OR" THEN t \o u ELSE Front(t) \o <<Last(t) \o Head(u)>> \o Tail(u)

RECURSIVE ConditionWithoutParentheses(_)
ConditionWithoutParentheses(p) ==  \* seeded fault
  IF p.children = <<>> THEN <<<<Atom(p, 1)>>>>
  ELSE Joined(p.type, ConditionWithoutParentheses(p.children[1]), ConditionWithoutParentheses(p.children[2]))
\* resolvePredicates() puts parentheses around AND and OR, none around the
\* caller's own text, which has an OR in it here.
RECURSIVE Condition(_)
Condition(p) ==
  CASE p.type = "STRING" -> <<<<Atom(p, 1)>>, <<Atom(p, 2)>>>>
    [] p.type \in {"AND", "OR"} ->
         Parenthesised(Joined(p.type, Condition(p.children[1]), Condition(p.children[2])))
    [] OTHER -> <<<<Atom(p, 1)>>>>

-----------------------------------------------------------------------------
(* SelectQuery.  An optional predicate is a sequence of at most one.         *)

NewQuery ==
  [setType |-> "NONE", children |-> <<>>, ctes |-> <<>>, hasRecursive |-> FALSE, joins |-> <<>>,
   columns |-> 0, from |-> "Model", where |-> <<>>, groupBy |-> 0, having |-> <<>>, orderBy |-> 0,
   limit |-> 0, offset |-> 0]

Where(q, p) == [q EXCEPT !.where = <<IF @ = <<>> THEN p ELSE And(@[1], p)>>]
OrWhere(q, p) == [q EXCEPT !.where = <<IF @ = <<>> THEN p ELSE Or(@[1], p)>>]
SetQuery(type, q, r) == [NewQuery EXCEPT !.setType = type, !.children = <<q, r>>]

Resolved(ps) == Concat([i \in DOMAIN ps |-> ResolvePredicates(ps[i])])

\* groupBy() or having() on a compound query, or another table without columns.
RECURSIVE BuildThrows(_)
BuildThrows(q) ==
  \/ q.setType # "NONE" /\ (q.groupBy > 0 \/ q.having # <<>>)
  \/ q.setType # "NONE" /\ (BuildThrows(q.children[1]) \/ BuildThrows(q.children[2]))
  \/ q.setType = "NONE" /\ q.columns = 0 /\ q.from # "Model"

ParamsOutOfOrder(q) ==  \* seeded fault
  Part(Concat(<<Resolved(q.joins), Resolved(q.where)>>).text, Concat(<<Resolved(q.where), Resolved(q.joins)>>).params, FALSE)
\* HAVING is written only after GROUP BY.
PlainSelect(q) ==
  Concat(<<Resolved(q.joins), Resolved(q.where), IF q.groupBy > 0 THEN Resolved(q.having) ELSE Concat(<<>>)>>)

\* buildSelectSqlAndSetParams(): a compound query overwrites the parameters
\* that its CTEs have left, and has no WHERE of its own.
RECURSIVE Build(_)
Build(q) ==
  LET with == Concat([i \in DOMAIN q.ctes |-> q.ctes[i].built])
      sides == Concat(<<Build(q.children[1]), Build(q.children[2])>>)
  IN IF q.setType = "NONE" THEN Concat(<<with, PlainSelect(q)>>)
     ELSE Part(with.text \o sides.text, sides.params, with.lossy \/ sides.lossy \/ with.params # <<>>)

\* The second query: without parameters, with one, compound, or with a CTE.
PreparedQuery(name) ==
  LET one == [Where(NewQuery, Equals(<<name, 1>>)) EXCEPT !.columns = 1, !.limit = 1]
      two == [Where(NewQuery, Between(<<name, 2>>, <<name, 3>>)) EXCEPT !.columns = 1]
  IN CASE name = "all" -> NewQuery
       [] name = "one" -> one
       [] name = "union" -> SetQuery("UNION", one, two)
       [] name = "cte" -> [one EXCEPT !.ctes = <<[built |-> Build(two), recursive |-> FALSE]>>]

-----------------------------------------------------------------------------
(* INSERT, UPSERT, UPDATE, DELETE *)

NewStatement == [objects |-> 0, fields |-> {}, conflict |-> {}, doNothing |-> FALSE, where |-> <<>>]

GeneratedByDb(mode) == mode \in {"DB_INCREMENT", "DEFAULT", "DB_NOW"}
KeptOnUpdate(mode) == mode \in {"DB_NOW", "LOCKED"}

Value(row, c) == <<"row", row, c.name, IF c.generate = "CUSTOM" THEN "generated" ELSE "field">>

\* The column list is computed once per model, the values for each object.
ModelColumnList == SelectSeq(Columns, LAMBDA c : ~GeneratedByDb(c.generate))
ValuesOf(row) ==
  LET kept == SelectSeq(Columns, LAMBDA c : ~GeneratedByDb(c.generate))
  IN [i \in DOMAIN kept |-> Value(row, kept[i])]

ValuesList(s) ==
  Part(FlattenSeq([r \in 1..s.objects |-> [i \in DOMAIN ModelColumnList |-> Value(r, ModelColumnList[i])]]),
       FlattenSeq([r \in 1..s.objects |-> ValuesOf(r)]), FALSE)

\* Which columns an UPDATE or the DO UPDATE of an upsert sets, and which ones
\* make a conflict: no selection means all.
Selected(selection, c) == selection = {} \/ c.name \in selection
UpdatedColumns(s) ==
  SelectSeq(Columns, LAMBDA c : ~c.pk /\ Selected(s.fields, c) /\ ~KeptOnUpdate(c.update))
ConflictColumns(s) == SelectSeq(Columns, LAMBDA c : Selected(s.conflict, c))

UpdateValueList(s) ==
  LET cols == UpdatedColumns(s)
      values == [i \in DOMAIN cols |-> <<"row", 0, cols[i].name, IF cols[i].update = "CUSTOM" THEN "updated" ELSE "field">>]
  IN Part(values, values, FALSE)

-----------------------------------------------------------------------------
(* The caller *)

\* where is the predicate behind WHERE, if the statement has one.
Statement(part, where, limit, columns) ==
  [text |-> part.text, params |-> part.params, lossy |-> part.lossy, limit |-> limit, columns |-> columns,
   where |-> IF where = <<>> THEN <<>> ELSE Condition(where[1])]
Names(cols) == [i \in DOMAIN cols |-> cols[i].name]

Init ==
  /\ kind \in {"SELECT", "INSERT", "UPDATE", "DELETE", "UPSERT"}
  /\ query = IF kind = "SELECT" THEN NewQuery ELSE NewStatement
  /\ \E name \in Prepared : sub = PreparedQuery(name) /\ (kind = "SELECT" \/ name = "one")
  /\ asked = <<>> /\ calls = 0 /\ sent = <<>>

\* The predicates a caller passes; n numbers the uses of a clause.  A subquery
\* to compare with must be limited to one row and have one column, for IN the
\* column suffices: otherwise the factory throws.
Predicates(clause, n) ==
  LET v == <<clause, n, 1>>
      w == <<clause, n, 2>>
      b == Build(sub)
  IN {True, False, IsNull, Like(v), In(<<>>), In(<<v, w>>), Between(v, w), FieldEquals, String(<<v, w>>),
      OverSubquery("EXISTS", "", b)}
       \cup (IF sub.limit = 1 /\ sub.columns = 1 THEN {OverSubquery("SUBQUERY", "EQUALS", b)} ELSE {})
       \cup (IF sub.columns = 1 THEN {OverSubquery("SUBQUERY", "IN", b)} ELSE {})
FewPredicates(clause, n) ==
  LET v == <<clause, n, 1>> IN {False, Compare(v), Raw(<<v>>), OverSubquery("NOT_EXISTS", "", Build(sub))}

Call == calls < MaxCalls /\ calls' = calls + 1
Filters == kind \in {"SELECT", "UPDATE", "DELETE"}

CallWhere ==
  /\ Filters /\ Call
  /\ \E p \in Predicates("where", Len(asked)) : query' = Where(query, p) /\ asked' = Append(asked, <<"and", p>>)
  /\ UNCHANGED <<kind, sub, sent>>

CallOrWhere ==
  /\ Filters /\ Call
  /\ \E p \in FewPredicates("where", Len(asked)) \cup {True} :
       query' = OrWhere(query, p) /\ asked' = Append(asked, <<"or", p>>)
  /\ UNCHANGED <<kind, sub, sent>>

CallJoin ==
  /\ kind = "SELECT" /\ Call
  /\ \E p \in FewPredicates("join", Len(query.joins)) : query' = [query EXCEPT !.joins = Append(@, p)]
  /\ UNCHANGED <<kind, sub, asked, sent>>

CallHaving ==
  /\ kind = "SELECT" /\ Call
  /\ \E p \in FewPredicates("having", 1) : query' = [query EXCEPT !.having = <<p>>]
  /\ UNCHANGED <<kind, sub, asked, sent>>

\* At most one recursive CTE, which must be a UNION.
CallWithCte ==
  /\ kind = "SELECT" /\ Call /\ ~BuildThrows(sub)
  /\ \E recursive \in BOOLEAN :
       /\ recursive => sub.setType = "UNION" /\ ~sub.hasRecursive /\ ~query.hasRecursive
       /\ query' = [query EXCEPT !.ctes = Append(@, [built |-> Build(sub), recursive |-> recursive]),
                                 !.hasRecursive = @ \/ recursive]
  /\ UNCHANGED <<kind, sub, asked, sent>>

\* unionQuery() and its kind: a new query with both as children.
CallSetQuery ==
  /\ kind = "SELECT" /\ Call
  /\ query' \in {SetQuery("UNION", query, sub), SetQuery("EXCEPT", sub, query)}
  /\ asked' = <<>>
  /\ UNCHANGED <<kind, sub, sent>>

\* offset() adds to the earlier one.
CallOther ==
  /\ kind = "SELECT" /\ Call
  /\ query' \in {[query EXCEPT !.columns = @ + 1], [query EXCEPT !.from = "other"], [query EXCEPT !.orderBy = @ + 1],
                 [query EXCEPT !.groupBy = @ + 1], [query EXCEPT !.limit = 1], [query EXCEPT !.limit = 0],
                 [query EXCEPT !.offset = @ + 1], [query EXCEPT !.offset = 0]}
  /\ UNCHANGED <<kind, sub, asked, sent>>

\* field() of an update; conflictFields(), onConflictDoNothing() and
\* updateFields() of an upsert.
CallFields ==
  /\ kind \in {"UPDATE", "UPSERT"} /\ Call
  /\ \E i \in DOMAIN Columns :
       \/ query' = [query EXCEPT !.fields = @ \cup {Columns[i].name}, !.doNothing = FALSE]
       \/ kind = "UPSERT" /\ query' = [query EXCEPT !.conflict = @ \cup {Columns[i].name}]
       \/ kind = "UPSERT" /\ query' = [query EXCEPT !.doNothing = TRUE]
  /\ UNCHANGED <<kind, sub, asked, sent>>

CallReset ==
  /\ kind \in {"UPDATE", "DELETE"} /\ Call
  /\ query' = [query EXCEPT !.where = <<>>, !.fields = {}]
  /\ asked' = <<>>
  /\ UNCHANGED <<kind, sub, sent>>

\* select(), count(), first(), exists(), getOne(): the limit that the method
\* needs replaces the caller's; getOne() asks for two rows to notice a second.
ExecuteSelect ==
  /\ kind = "SELECT" /\ ~BuildThrows(query)
  /\ \E limit \in 0..2 : sent' = Statement(Build(query), IF query.setType = "NONE" THEN query.where ELSE <<>>,
                                        IF limit > 0 THEN limit ELSE query.limit, <<>>)
  /\ UNCHANGED <<kind, query, sub, asked, calls>>

\* Without objects nothing is sent.
ExecuteInsert ==
  /\ kind \in {"INSERT", "UPSERT"}
  /\ \E n \in 1..2 :
       sent' = Statement(ValuesList([query EXCEPT !.objects = n]), <<>>, 0,
                         <<Names(ModelColumnList)>>
                           \o (IF kind = "INSERT" THEN <<>> ELSE <<Names(ConflictColumns(query))>>)
                           \o (IF kind = "INSERT" \/ query.doNothing THEN <<>> ELSE <<Names(UpdatedColumns(query))>>))
  /\ UNCHANGED <<kind, query, sub, asked, calls>>

\* Without a condition UPDATE and DELETE throw.
ExecuteUpdate ==
  /\ kind = "UPDATE" /\ query.where # <<>>
  /\ sent' = Statement(Concat(<<UpdateValueList(query), Resolved(query.where)>>), query.where, 0,
                     <<Names(UpdatedColumns(query))>>)
  /\ UNCHANGED <<kind, query, sub, asked, calls>>

ExecuteDelete ==
  /\ kind = "DELETE" /\ query.where # <<>>
  /\ sent' = Statement(Resolved(query.where), query.where, 0, <<>>)
  /\ UNCHANGED <<kind, query, sub, asked, calls>>

Next ==
  /\ sent = <<>>
  /\ \/ CallWhere \/ CallOrWhere \/ CallJoin \/ CallHaving \/ CallWithCte \/ CallSetQuery
     \/ CallOther \/ CallFields \/ CallReset
     \/ ExecuteSelect \/ ExecuteInsert \/ ExecuteUpdate \/ ExecuteDelete

Spec == Init /\ [][Next]_vars

-----------------------------------------------------------------------------
(* Properties *)

\* Whatever calls built the statement, nested queries included, every "?" of
\* its text is bound to the value the caller gave for it: as many parameters as
\* placeholders, in the same order.  The exception is the one in Build(): a
\* compound query with parameters in its own CTEs.
PlaceholdersBound == sent # <<>> => sent.lossy \/ sent.params = sent.text

\* What a condition says when its atoms are true or false at will.
RECURSIVE Holds(_, _)
Holds(text, truth) ==
  \E i \in DOMAIN text : \A j \in DOMAIN text[i] :
    LET term == text[i][j]
    IN CASE term.inner # <<>> -> Holds(term.inner, truth)
         [] term.leaf.type = "TRUE" -> TRUE
         [] term.leaf.type = "FALSE" -> FALSE
         [] OTHER -> truth[<<term.leaf, term.half>>]

\* What the calls ask for: each joined by AND or OR to all that came before it.
Meant(truth) ==
  LET holds(call) == Holds(Condition(call[2]), truth)
  IN FoldLeft(LAMBDA so, call : IF call[1] = "and" THEN so /\ holds(call) ELSE so \/ holds(call),
              holds(asked[1]), Tail(asked))

RECURSIVE TextBesideAnd(_)
TextBesideAnd(p) ==
  /\ p.children # <<>>
  /\ \E i \in 1..2 : \/ p.type = "AND" /\ p.children[i].type = "STRING"
                    \/ TextBesideAnd(p.children[i])

\* The WHERE clause of the statement sent, read by the precedence of SQL, says
\* exactly what the sequence of where() and orWhere() calls asked for, since
\* the last reset(): simplifying TRUE and FALSE away never changes it, the
\* parentheses keep each call joined to all that came before it, and no clause
\* is sent unasked, or missing when asked for.  Two exceptions, where the
\* statement does not say it: a compound query (UNION and its kind) leaves out
\* the where() called on it, and a custom text with an OR of its own that
\* is an operand of AND stands there without parentheses.
WhereMeansTheCalls ==
  sent # <<>> /\ Filters =>
    \/ kind = "SELECT" /\ query.setType # "NONE" /\ sent.where = <<>>
    \/ query.where # <<>> /\ TextBesideAnd(query.where[1])
    \/ asked = <<>> /\ sent.where = <<>> /\ kind = "SELECT"
    \/ /\ asked # <<>> /\ sent.where # <<>>
       /\ \A truth \in [{asked[i][2] : i \in DOMAIN asked} \X {1, 2} -> BOOLEAN] :
            Holds(sent.where, truth) = Meant(truth)
=============================================================================
