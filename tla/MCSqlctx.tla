------------------------------ MODULE MCSqlctx ------------------------------
(* Texts of the query language of Scoping: one query of any shape, or flat *)
(* statements one after the other.                                         *)
EXTENDS Scoping

CONSTANTS
  Names,          \* names in FROM: tables, names of WITH, and mistakes
  Aliases,        \* aliases of tables and subqueries
  WithNames,      \* names that WITH introduces
  Commas,         \* are sources joined by commas, or by CROSS JOIN
  FlatNames,      \* names in FROM of the statements that follow one another
  Schemas,        \* schema names before these, "" for none
  MaxStatements   \* bound: statements of a text

\* What is called a name is a name, and no keyword either that the stop words lack.
ASSUME NamesAssumption ==
  /\ \A n \in Names \cup Aliases \cup WithNames \cup FlatNames \cup (Schemas \ {""}) :
       IsName(n) /\ n \notin {"", "RECURSIVE", "NOT", "MATERIALIZED"}
  /\ Commas \subseteq BOOLEAN

\* A schema name is the name of nothing else.
ASSUME SchemasAssumption ==
  \A s \in Schemas \ {""} :
    /\ s \notin Names \cup Aliases \cup WithNames \cup FlatNames
                  \cup {"a", "id", "orders", "total", "v"}
    /\ ~HasTable(s)

VARIABLE doc

SmallSchema == [users |-> {"id"}, orders |-> {"id", "total"}]

\* Tables with these schema names, under their own names or one of the aliases.
Tables(schemas, names, aliases) ==
  {s \in [kind : {"table"}, schema : schemas, name : names, alias : names \cup aliases] :
     s.alias \in aliases \cup {s.name}}

Sources == Tables({""}, Names, Aliases)

Refs == [qualifier : Aliases \cup Names, column : {"id", "total"}]

\* One source and a reference to it, or through an alias.
Flat(sources, aliases) ==
  UNION {{Query(<<>>, r, <<s>>, FALSE, <<>>) :
            r \in [qualifier : aliases \cup {s.alias}, column : {"id", "total"}]} :
         s \in sources}

FlatQueries == Flat(Sources, Aliases)

\* Statements to follow one another: one alias is enough to meet in two of them.
FlatStatements ==
  LET queries == Flat(Tables(Schemas, FlatNames, {"a"}), {"a"})
  IN  queries \cup {View(q) : q \in queries} \cup {Update(q.from[1], q.ref) : q \in queries}

MCInit == doc = <<>>

\* The text is one statement; what was written before is in it.
Write(s) == doc' = <<s>>

\* A query from one or two sources, of which the first may be a subquery, and the
\* second have a schema name.
WriteQuery(first) ==
  \E r \in Refs, comma \in Commas,
     rest \in {<<>>} \cup {<<s>> : s \in Sources \cup Tables(Schemas \ {""}, FlatNames, {})} :
    LET from == <<first>> \o rest
    IN  /\ Len(from) = 2 => from[1].alias # from[2].alias
        /\ Write(Query(<<>>, r, from, comma, <<>>))

Inner == {q \in FlatQueries : q.from[1].name # "nope"}

\* In these, something follows the alias of the first source.
Joined ==
  {[q EXCEPT !.from = Append(@, Table("", "orders", "orders"))] :
     q \in {p \in Inner : p.from[1].alias # "orders"}}

WriteWith(q) ==
  \E name \in WithNames, r \in Refs, s \in Sources :
    Write(Query(<<[name |-> name, query |-> q]>>, r, <<s>>, FALSE, <<>>))

WriteWhere(q) ==
  \E a \in Aliases, r \in Refs, s \in Sources :
    Write(Query(<<>>, r, <<s>>, FALSE, <<[query |-> q, last |-> Ref(a, "id")]>>))

WriteFlat ==
  /\ Len(doc) < MaxStatements /\ ToSet(doc) \subseteq FlatStatements
  /\ \E s \in FlatStatements : doc' = Append(doc, s)

\* A query is written from its subquery outwards.
MCNext ==
  \/ doc = <<>> /\ \E s \in Sources : WriteQuery(s)
  \/ \E q \in Inner \cup Joined, a \in Aliases : doc = <<q>> /\ WriteQuery(Sub(q, a))
  \/ \E q \in Inner : doc = <<q>> /\ (WriteWith(q) \/ WriteWhere(q))
  \/ WriteFlat

MCSpec == MCInit /\ [][MCNext]_doc
-----------------------------------------------------------------------------
\* Behind a comma in a list of tables.
BehindComma(texts, i) ==
  Prev(texts, i, 1) = "," \/ (Prev(texts, i, 1) = "." /\ Prev(texts, i, 3) = ",")

\* Each property says something of the tokens of doc.
ReportsNoneRight(tokens) ==
  LET texts == Texts(tokens)
  IN  \A i \in Lint(texts) :
        tokens[i].says # "right" \/ (BehindComma(texts, i) /\ Next1(texts, i) = ".")

\* As long as no name stands for two things, Lint reports nothing that is right
\* (lint.go:18-29), whatever leaks from one query into another, but for a schema name
\* behind a comma.
Sound == Distinct(doc) => ReportsNoneRight(Tokens(doc))

ReportsAllWrong(tokens) ==
  LET texts == Texts(tokens)
      reported == Lint(texts)
  IN  \A i \in DOMAIN tokens :
        tokens[i].says = "wrong" /\ ~BehindComma(texts, i) => i \in reported

\* And it reports all that is wrong (README.md:182-184), but not behind a comma, nor a
\* name that a subquery or another statement binds (README.md:213-230, TODO.md:70-72);
\* other statements than queries do not hide it (sqlctx.go:196-206).
Complete == Distinct(doc) => ReportsAllWrong(Tokens(doc))

FindsReferents(tokens) ==
  LET texts == Texts(tokens)
      info == ExtractTables(texts)
  IN  \A i \in DOMAIN tokens :
        tokens[i].to # None /\ ~(Len(tokens[i].to) = 1 /\ Prev(texts, i, 1) = ".") =>
          DefinitionPosition(info, texts, i) = {tokens[i].to}

\* Goto-definition finds what a name refers to (README.md:175-178), for tables
\* without a schema name, other statements of the text notwithstanding.
DefinitionRight == AllDistinct(doc) => FindsReferents(Tokens(doc))

AnswersMeet(tokens) ==
  LET texts == Texts(tokens)
      info == ExtractTables(texts)
  IN  /\ \A i \in DOMAIN texts :
           IsName(texts[i]) => HoverMarkdown(info, texts, i) = DefinitionPosition(info, texts, i)
      /\ \A l \in DocumentLinks(texts) :
           l.to \in HoverMarkdown(info, texts, l.last)
             \/ (l.first = l.last /\ Prev(texts, l.last, 1) = ".")

\* Hover describes what goto-definition jumps to and what a link leads to, in any text
\* right or wrong, but for tables with a schema name (server.go:904, 979, 1062).
OneMeaning == AnswersMeet(Tokens(doc))

LinksLead(tokens, links) ==
  /\ \A l \in links : tokens[l.last].to \in {None, l.to}
  /\ \A i \in DOMAIN tokens :
       tokens[i].to # None /\ ~BehindComma(Texts(tokens), i) =>
         \E l \in links : i \in l.first .. l.last

NoOverlap(links) == \A l, m \in links : l # m => l.last < m.first \/ m.last < l.first

\* A link leads where the name it ends in refers to, unless that is not known; no
\* two links overlap, and every name that refers to something is in one, but for
\* what is behind a comma (server.go:824-893).
LinksRight ==
  LET tokens == Tokens(doc)
      links == DocumentLinks(Texts(tokens))
  IN  (AllDistinct(doc) => LinksLead(tokens, links)) /\ NoOverlap(links)

KnowsClause(tokens) ==
  LET texts == Texts(tokens)
  IN  \A i \in DOMAIN tokens :
        tokens[i].at # "" /\ Prev(texts, i, 1) # "AND" =>
          DetermineState(texts, i - 1).state = tokens[i].at

\* Completion knows the clause it is in (README.md:170-174), but for a reference
\* that follows a subquery of its own clause.
ClauseRight == KnowsClause(Tokens(doc))

\* The items that may be accepted where PostgreSQL expects a column.
InScope(item, frame) ==
  IF Len(item) = 1
    THEN Cardinality({a \in DOMAIN frame : item[1] \in frame[a].columns}) = 1
    ELSE item[1] \in DOMAIN frame /\ item[3] \in frame[item[1]].columns

\* In a query from different tables, what completion offers for a column of the
\* SELECT list is in scope and not ambiguous (README.md:173, server.go:771-776).
OffersInScope ==
  LET q == doc[1]
      frame == Frame(q.from, <<>>)
      flat == /\ q.kind = "query" /\ q.with = <<>> /\ q.where = <<>>
              /\ \A i \in DOMAIN q.from : q.from[i].kind = "table"
              /\ \A a \in DOMAIN frame : frame[a].table # ""
              /\ \A a, b \in DOMAIN frame : frame[a].table = frame[b].table => a = b
  IN  Len(doc) = 1 /\ flat =>
        \A item \in ContextItems(Texts(Tokens(doc)), 1) : InScope(item, frame)

\* What the text may be written in: d subqueries that are open, for short queries.
Opened(d) ==
  SubSeq(<<"SELECT", "x", ".", "id", "FROM", "(", "SELECT", "x", ".", "id", "FROM", "(">>, 1, 6 * d)
Short(q) == q.kind = "query" /\ q.with = <<>> /\ q.where = <<>> /\ Len(q.from) = 1
Depths == IF Len(doc) = 1 /\ Short(doc[1]) THEN 0 .. 2 ELSE {0}

\* The first k tokens, with d parentheses open before them, bind the alias that token i
\* is.  Each parenthesis that is open takes one token from the end of what is read
\* inside (sqlctx.go:283-288), so that of an alias in parentheses, closed or not,
\* nothing is said until as many tokens follow it.
Declared(tokens, texts, i, k, d) ==
  \E j \in 2 .. k : /\ texts[j] = texts[i] /\ <<texts[j - 1]>> = tokens[i].to
                   /\ j + d + Depth(texts, 1, j) <= k

ResolvedIn(tokens, d) ==
  LET texts == Texts(tokens)
  IN  \A k \in DOMAIN texts :
        LET info == ExtractTables(Opened(d) \o SubSeq(texts, 1, k))
        IN  \A i \in 1 .. k :
              tokens[i].at = "column" /\ Declared(tokens, texts, i, k, d) =>
                <<Resolve(info, texts[i])>> = tokens[i].to

\* While a text is being written, here its first k tokens, the aliases in it resolve
\* (README.md:174).
AliasResolved == AllDistinct(doc) => \A d \in Depths : ResolvedIn(Tokens(doc), d)
-----------------------------------------------------------------------------
(* What the documentation says without that condition. *)

\* README.md:221-223: leaking aliases yield "occasional false negatives, never
\* false positives".
NeverFalsePositive ==
  LET tokens == Tokens(doc)
  IN  \A i \in Lint(Texts(tokens)) : tokens[i].says # "right"
=============================================================================
