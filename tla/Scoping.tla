------------------------------ MODULE Scoping ------------------------------
(***************************************************************************)
(* The reference for Sqlctx and Lookup: a small query language, and what   *)
(* PostgreSQL says of the names in it.  A statement is written out as its  *)
(* tokens, each with the verdict on it and the place it refers to.         *)
(*                                                                         *)
(* says: "right": no diagnostic may be reported here;                      *)
(*       "wrong": a table, alias or column that does not exist;            *)
(*       "free":  wrong, but of a kind that README.md:213-230 exempts, or  *)
(*                TODO.md:70-72 for a name that another statement binds.   *)
(* to:   the table, or the table and column, that is referred to.          *)
(* at:   what may stand here, "table" or "column", or "" if nothing is said.*)
(***************************************************************************)
EXTENDS Lookup

Token(text, says, to, at) == [text |-> text, says |-> says, to |-> to, at |-> at]
Plain(text) == Token(text, "right", None, "")
Words(texts) == [i \in DOMAIN texts |-> Plain(texts[i])]

(* Statements. *)

Ref(qualifier, column) == [qualifier |-> qualifier, column |-> column]

\* A table, or a subquery; without an alias, alias is the name.
Table(schema, name, alias) ==
  [kind |-> "table", schema |-> schema, name |-> name, alias |-> alias]
Sub(query, alias) == [kind |-> "sub", query |-> query, alias |-> alias]

\* [WITH c AS (q)] SELECT ref FROM sources [WHERE EXISTS (q) AND last].  "with"
\* and "where" are sequences of at most one element, "comma" tells how sources
\* are joined.  A query in another one is flat: it has none of these, and its sources
\* are tables.
Query(with, ref, from, comma, where) ==
  [kind |-> "query", with |-> with, ref |-> ref, from |-> from, comma |-> comma,
   where |-> where]
View(query) == [kind |-> "view", query |-> query]
Update(source, ref) == [kind |-> "update", from |-> source, ref |-> ref]
-----------------------------------------------------------------------------
(* Names. *)

\* An entry of a scope: what it stands for, "" if that is no table of the schema,
\* and its columns.  Nothing is said of what a missing table has.
Entry(table, columns) == [table |-> table, columns |-> columns]
Missing == Entry("missing", {})

\* The scope of sources: the entry of each alias.  A name of WITH hides a table.
EntryOf(source, ctes) ==
  CASE source.kind = "sub" -> Entry("", {source.query.ref.column})
    [] source.kind = "table" /\ source.schema = "" /\ source.name \in DOMAIN ctes ->
         Entry("", ctes[source.name])
    [] source.kind = "table" /\ (source.schema # "" \/ source.name \notin DOMAIN ctes)
         /\ HasTable(source.name) -> Entry(source.name, Columns[source.name])
    [] OTHER -> Missing

Frame(from, ctes) ==
  [a \in {from[i].alias : i \in DOMAIN from} |->
     EntryOf(from[CHOOSE i \in DOMAIN from : from[i].alias = a], ctes)]

\* The names that sources and queries bind, with what they are bound to, those of the
\* queries in them included.
BoundByTable(s) == IF s.alias = s.name THEN {} ELSE {<<s.alias, s.name>>}
BoundByFlat(q) == UNION {BoundByTable(s) : s \in ToSet(q.from)}

BoundBySource(s) ==
  IF s.kind = "sub" THEN {<<s.alias, s.alias>>} \cup BoundByFlat(s.query)
  ELSE BoundByTable(s)

BoundByQuery(q) ==
  (UNION {BoundBySource(s) : s \in ToSet(q.from)})
    \cup (UNION {{<<w.name, w.name>>} \cup BoundByFlat(w.query) : w \in ToSet(q.with)})
    \cup (UNION {BoundByFlat(w.query) : w \in ToSet(q.where)})

BoundBy(s) ==
  CASE s.kind = "query" -> BoundByQuery(s)
    [] s.kind = "update" -> BoundByTable(s.from)
    [] OTHER -> {}

\* What Lint may have seen: the names bound anywhere in the queries of a text
\* are visible everywhere.
Known(doc) == UNION {{b[1] : b \in BoundBy(doc[i])} : i \in DOMAIN doc}

\* No name is bound to two things, or hides a table.
Distinct(doc) ==
  LET bound == UNION {BoundBy(doc[i]) : i \in DOMAIN doc}
  IN  /\ \A b \in bound : ~HasTable(b[1])
      /\ \A b1, b2 \in bound : b1[1] = b2[1] => b1[2] = b2[2]

\* Nor in what a view is made from; Lint does not see that, lookups do.
AllDistinct(doc) ==
  /\ Distinct(doc)
  /\ Distinct([i \in DOMAIN doc |-> IF doc[i].kind = "view" THEN doc[i].query ELSE doc[i]])
-----------------------------------------------------------------------------
(* Tokens. *)

\* A reference is looked up in the frames, innermost first.
RefTokens(ref, frames, known) ==
  LET found == {i \in DOMAIN frames : ref.qualifier \in DOMAIN frames[i]}
      entry == frames[Min(found)][ref.qualifier]
      to == IF entry.table = "" THEN None ELSE <<entry.table>>
      leaked == ref.qualifier \in known \/ HasTable(ref.qualifier)
      Pair(t1, t2) == <<t1, Plain("."), t2>>
      Left(says, target) == Token(ref.qualifier, says, target, "column")
      Right(says, target) == Token(ref.column, says, target, "")
  IN  CASE found = {} ->
             Pair(Left(IF leaked THEN "free" ELSE "wrong", None), Right("free", None))
        [] found # {} /\ entry = Missing -> Pair(Left("free", None), Right("free", None))
        [] found # {} /\ ref.column \in entry.columns ->
             Pair(Left("right", to),
                  Right("right", IF to = None THEN None ELSE Append(to, ref.column)))
        [] OTHER ->
             Pair(Left("right", to), Right(IF to = None THEN "free" ELSE "wrong", None))

AliasTokens(s) == IF s.kind = "table" /\ s.alias = s.name THEN <<>> ELSE <<Plain(s.alias)>>

TableTokens(s, ctes, known) ==
  LET cte == s.schema = "" /\ s.name \in DOMAIN ctes
      leaked == s.schema = "" /\ s.name \in known
      says == IF HasTable(s.name) \/ cte THEN "right" ELSE IF leaked THEN "free" ELSE "wrong"
      to == IF HasTable(s.name) /\ ~cte THEN <<s.name>> ELSE None
  IN  (IF s.schema = ""
         THEN <<Token(s.name, says, to, "table")>>
         ELSE <<Token(s.schema, "right", None, "table"), Plain("."),
                Token(s.name, says, to, "")>>)
        \o AliasTokens(s)

\* SELECT ref FROM sources, given the tokens of the sources.
SelectTokens(q, sources, frames, known) ==
  LET Separator == IF q.comma THEN <<Plain(",")>> ELSE Words(<<"CROSS", "JOIN">>)
  IN  <<Plain("SELECT")>> \o RefTokens(q.ref, frames, known) \o <<Plain("FROM")>>
        \o FlattenSeq([i \in DOMAIN sources |->
                         (IF i = 1 THEN <<>> ELSE Separator) \o sources[i]])

FlatTokens(q, ctes, frames, known) ==
  SelectTokens(q, [i \in DOMAIN q.from |-> TableTokens(q.from[i], ctes, known)],
               <<Frame(q.from, ctes)>> \o frames, known)

SourceTokens(s, ctes, known) ==
  IF s.kind = "sub"
    THEN <<Plain("(")>> \o FlatTokens(s.query, ctes, <<>>, known) \o <<Plain(")")>>
           \o AliasTokens(s)
    ELSE TableTokens(s, ctes, known)

\* A subquery in FROM does not see its neighbours, one in WHERE does.
QueryTokens(q, known) ==
  LET ctes == IF q.with = <<>> THEN <<>> ELSE [n \in {q.with[1].name} |-> {q.with[1].query.ref.column}]
      frames == <<Frame(q.from, ctes)>>
      With(w) == Words(<<"WITH", w.name, "AS", "(">>)
                   \o FlatTokens(w.query, <<>>, <<>>, known) \o <<Plain(")")>>
      Where(w) == Words(<<"WHERE", "EXISTS", "(">>)
                    \o FlatTokens(w.query, ctes, frames, known)
                    \o Words(<<")", "AND">>) \o RefTokens(w.last, frames, known)
      sources == [i \in DOMAIN q.from |-> SourceTokens(q.from[i], ctes, known)]
  IN  (IF q.with = <<>> THEN <<>> ELSE With(q.with[1]))
        \o SelectTokens(q, sources, frames, known)
        \o (IF q.where = <<>> THEN <<>> ELSE Where(q.where[1]))

StatementTokens(s, known) ==
  CASE s.kind = "query" -> QueryTokens(s, known)
    [] s.kind = "view" ->
         LET body == QueryTokens(s.query, known)
         IN  Words(<<"CREATE", "VIEW", "v", "AS">> \o [i \in DOMAIN body |-> body[i].text])
    [] s.kind = "update" ->
         <<Plain("UPDATE")>> \o SourceTokens(s.from, <<>>, known)
           \o Words(<<"SET", "id", "=">>)
           \o RefTokens(s.ref, <<Frame(<<s.from>>, <<>>)>>, known)

\* The tokens of a text: its statements, with semicolons between them.
Tokens(doc) ==
  FlattenSeq([i \in DOMAIN doc |->
    (IF i = 1 THEN <<>> ELSE <<Plain(";")>>) \o StatementTokens(doc[i], Known(doc))])

Texts(tokens) == [i \in DOMAIN tokens |-> tokens[i].text]
=============================================================================
