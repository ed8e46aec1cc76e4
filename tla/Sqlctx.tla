------------------------------- MODULE Sqlctx -------------------------------
(***************************************************************************)
(* internal/sqlctx: what pgls reads from the tokens of an SQL text without *)
(* parsing it.  extractTables collects tables, aliases and the names that  *)
(* WITH and subqueries introduce; Lint, WalkSymbols and Analyze go by them.*)
(*                                                                         *)
(* A text is the sequence of its tokens, a token is its text: keywords are *)
(* written in capitals, anything else but punctuation is a name.  Token i  *)
(* stands for its byte range.  The lexer (libpg_query) is external.        *)
(***************************************************************************)
EXTENDS Naturals, SequencesExt

CONSTANT Columns    \* the schema: Columns[t] is the set of columns of table t

HasTable(name) == name \in DOMAIN Columns
HasColumn(table, column) == HasTable(table) /\ column \in Columns[table]

Punctuation == {"(", ")", ",", ".", ";", "="}
FromKeywords == {"FROM", "JOIN", "INTO", "UPDATE"}
QueryVerbs == {"SELECT", "INSERT", "UPDATE", "DELETE", "MERGE", "WITH", "VALUES"}

\* The stop words among the tokens used here.
StopWords == FromKeywords \cup
  {"SELECT", "INSERT", "DELETE", "WITH", "VALUES", "AS", "CROSS", "WHERE", "AND", "EXISTS", "SET"}

IsIdent(text) == text \notin Punctuation
IsName(text) == IsIdent(text) /\ text \notin StopWords

\* The text of token i, if it lies before end.
Is(toks, i, end, text) == i < end /\ toks[i] = text
IsNameAt(toks, i, end) == i < end /\ IsName(toks[i])
Skip(toks, i, end, text) == IF Is(toks, i, end, text) THEN i + 1 ELSE i
-----------------------------------------------------------------------------
(* tablesInfo. *)

NoInfo == [aliases |-> <<>>, realTables |-> <<>>, virtual |-> {}]

AddReal(info, name) ==
  IF Contains(info.realTables, name)
    THEN info
    ELSE [info EXCEPT !.realTables = Append(@, name)]

\* A later alias of the same name replaces an earlier one.
AddAlias(info, alias, table) ==
  [info EXCEPT !.aliases = [a \in DOMAIN @ \cup {alias} |-> IF a = alias THEN table ELSE @[a]]]

\* Mutant: the name is an alias and not a table.
AddVirtualAlias(info, name) == AddAlias(info, name, name)

AddVirtual(info, name) ==
  [AddAlias(info, name, name) EXCEPT !.virtual = @ \cup {name}]

\* Mutant: aliases are not resolved.
ResolveNothing(info, qualifier) == qualifier

Resolve(info, qualifier) ==
  IF qualifier \in DOMAIN info.aliases THEN info.aliases[qualifier] ELSE qualifier
-----------------------------------------------------------------------------
(* The extractor.  Ranges of tokens are start .. end - 1. *)

\* How many parentheses opened by tokens i .. k - 1 are still open.
Depth(toks, i, k) ==
  Cardinality({j \in i .. k - 1 : toks[j] = "("})
    - Cardinality({j \in i .. k - 1 : toks[j] = ")"})

\* Mutant: the last token is not looked at.
SkipParensShort(toks, i, end) ==
  IF Is(toks, i, end, "(")
    THEN Min({end - 1} \cup {k \in i + 1 .. end : Depth(toks, i, k) = 0})
    ELSE i

SkipBalancedParens(toks, i, end) ==
  IF Is(toks, i, end, "(")
    THEN Min({end} \cup {k \in i + 1 .. end : Depth(toks, i, k) = 0})
    ELSE i

\* What is read is the sequence of these: a table in FROM under its own name or an
\* alias, or a name that WITH or a subquery introduces.
Real(table, alias) == [table |-> table, alias |-> alias, virtual |-> FALSE]
Virtual(name) == [table |-> name, alias |-> name, virtual |-> TRUE]

Note(info, read) ==
  CASE read.virtual -> AddVirtual(info, read.alias)
    [] ~read.virtual /\ read.alias # read.table ->
         AddAlias(AddReal(info, read.table), read.alias, read.table)
    [] OTHER -> AddReal(info, read.table)

\* A place is one of the three functions, the token it is at and the end of its range.
\* reads[place] is what is read from there on to the end of the range, the rest of the
\* range after a list included.
ExtractTablesRange(toks, i, end, reads) ==
  CASE toks[i] \in FromKeywords -> reads[<<"tables", i + 1, end>>]
    [] toks[i] = "WITH" -> reads[<<"ctes", Skip(toks, i + 1, end, "RECURSIVE"), end>>]
    [] OTHER -> reads[<<"range", i + 1, end>>]

\* After a comma the list goes on.
Onward(toks, list, next, end) ==
  IF Is(toks, next, end, ",") THEN <<list, next + 1, end>> ELSE <<"range", next, end>>

\* (subquery) [AS] alias, or [schema.]table [AS] [alias], separated by commas.
ReadTableList(toks, i, end, reads) ==
  LET subquery == toks[i] = "("
      close == SkipBalancedParens(toks, i, end)
      qualified == Is(toks, i + 1, end, ".") /\ IsNameAt(toks, i + 2, end)
      table == IF qualified THEN toks[i + 2] ELSE toks[i]
      as == Skip(toks, IF subquery THEN close ELSE IF qualified THEN i + 3 ELSE i + 1,
                 end, "AS")
      named == IsNameAt(toks, as, end)
      rest == reads[Onward(toks, "tables", IF named THEN as + 1 ELSE as, end)]
  IN  CASE subquery ->
             reads[<<"range", i + 1, close - 1>>]
               \o (IF named THEN <<Virtual(toks[as])>> ELSE <<>>) \o rest
        [] IsName(toks[i]) -> <<Real(table, IF named THEN toks[as] ELSE table)>> \o rest
        [] OTHER -> reads[<<"range", i, end>>]

\* name [(columns)] AS [NOT] [MATERIALIZED] (body), separated by commas.
ReadCTEDefinitions(toks, i, end, reads) ==
  LET as == Skip(toks, SkipBalancedParens(toks, i + 1, end), end, "AS")
      body == Skip(toks, Skip(toks, as, end, "NOT"), end, "MATERIALIZED")
      next == SkipBalancedParens(toks, body, end)
      inner == IF Is(toks, body, end, "(") THEN reads[<<"range", body + 1, next - 1>>]
               ELSE <<>>
  IN  IF IsName(toks[i])
        THEN inner \o <<Virtual(toks[i])>> \o reads[Onward(toks, "ctes", next, end)]
        ELSE reads[<<"range", i, end>>]

ReadPlaces(toks) ==
  {"range", "tables", "ctes"} \X (1 .. Len(toks) + 1) \X (0 .. Len(toks) + 1)

ReadAt(toks, place, reads) ==
  LET i == place[2]
      end == place[3]
  IN  CASE i >= end -> <<>>
        [] i < end /\ place[1] = "range" -> ExtractTablesRange(toks, i, end, reads)
        [] i < end /\ place[1] = "tables" -> ReadTableList(toks, i, end, reads)
        [] i < end /\ place[1] = "ctes" -> ReadCTEDefinitions(toks, i, end, reads)

Reads(toks) ==
  LET reads[place \in ReadPlaces(toks)] == ReadAt(toks, place, reads) IN reads

ExtractTables(toks) == FoldLeft(Note, NoInfo, Reads(toks)[<<"range", 1, Len(toks) + 1>>])

\* The first token of the statement of token i.
StatementStart(toks, i) == 1 + Max({0} \cup {k \in 1 .. i - 1 : toks[k] = ";"})
StatementEnd(toks, i) == Min({k \in i .. Len(toks) : toks[k] = ";"} \cup {Len(toks) + 1})

\* Mutant: all statements count, whatever they are.
ExtractAllStatements(toks) == ExtractTables(toks)

\* Only statements that begin with a query verb count.
ExtractQueryStatementTables(toks) ==
  LET Statement(i) ==
        IF i = StatementStart(toks, i) /\ toks[i] \in QueryVerbs
          THEN Reads(toks)[<<"range", i, StatementEnd(toks, i)>>]
          ELSE <<>>
  IN  FoldLeft(Note, NoInfo, FlattenSeq([i \in DOMAIN toks |-> Statement(i)]))
-----------------------------------------------------------------------------
(* Lint and WalkSymbols. *)

\* The text k tokens before (k > 0) token i.
Prev(toks, i, k) == IF i > k THEN toks[i - k] ELSE ""
Next1(toks, i) == IF i < Len(toks) THEN toks[i + 1] ELSE ""

\* Mutant: Lint looks at every statement.
InAnyStatement(toks, i) == toks[i] # ";"

\* The token is in a statement that Lint looks at.
InQuery(toks, i) == toks[StatementStart(toks, i)] \in QueryVerbs

\* Neither a keyword nor called.
Candidate(toks, i) == IsName(toks[i]) /\ Next1(toks, i) # "("

\* The part after the dot.
Qualified(toks, i) == Prev(toks, i, 1) = "." /\ IsName(Prev(toks, i, 2)) /\ i > 2

\* The positions at which Lint reports an issue.
Lint(toks) ==
  LET info == ExtractQueryStatementTables(toks)
      Unresolved(i) ==
        CASE Next1(toks, i) = "." ->
               /\ Prev(toks, i, 1) \notin FromKeywords
               /\ toks[i] \notin DOMAIN info.aliases /\ ~HasTable(toks[i])
          [] Next1(toks, i) # "." /\ Qualified(toks, i) ->
               IF Prev(toks, i, 3) \in FromKeywords
                 THEN ~HasTable(toks[i])
                 ELSE LET real == Resolve(info, toks[i - 2])
                      IN  HasTable(real) /\ ~HasColumn(real, toks[i])
          [] OTHER ->
               /\ Prev(toks, i, 1) \in FromKeywords
               /\ ~HasTable(toks[i]) /\ toks[i] \notin info.virtual
  IN  {i \in DOMAIN toks : InQuery(toks, i) /\ Candidate(toks, i) /\ Unresolved(i)}

\* What WalkSymbols takes token i for.
SymbolKind(toks, i) ==
  CASE ~Candidate(toks, i) -> "none"
    [] Candidate(toks, i) /\ Next1(toks, i) = "." ->
         IF Prev(toks, i, 1) \in FromKeywords THEN "none" ELSE "qualifier"
    [] Candidate(toks, i) /\ Next1(toks, i) # "." /\ Qualified(toks, i) ->
         IF Prev(toks, i, 3) \in FromKeywords THEN "table" ELSE "column"
    [] OTHER -> IF Prev(toks, i, 1) \in FromKeywords THEN "table" ELSE "none"
-----------------------------------------------------------------------------
(* Analyze and IdentifierAt. *)

\* Mutant: a clause of tables is not left.
ClauseSticky(clause, text) ==
  CASE clause = "table" -> clause
    [] text \in {"SELECT", "WHERE", "SET"} -> "column"
    [] text \in FromKeywords -> "table"
    [] OTHER -> clause

\* The clause after one more token.
Clause(clause, text) ==
  CASE text \in {"SELECT", "WHERE", "SET"} -> "column"
    [] text \in FromKeywords -> "table"
    [] text = "(" /\ clause = "table" -> "column"
    [] text = "VALUES" -> "unknown"
    [] OTHER -> clause

\* What may be completed after the first k tokens.
DetermineState(toks, k) ==
  CASE k >= 2 /\ toks[k] = "." /\ IsIdent(toks[k - 1]) ->
         [state |-> "qualified", qualifier |-> toks[k - 1]]
    [] k >= 3 /\ IsIdent(toks[k]) /\ toks[k - 1] = "." /\ IsIdent(toks[k - 2]) ->
         [state |-> "qualified", qualifier |-> toks[k - 2]]
    [] OTHER ->
         [state |-> FoldLeft(Clause, "unknown", SubSeq(toks, 1, k)), qualifier |-> ""]

\* The qualifier of the name at token i, "" without one.
QualifierAt(toks, i) ==
  IF i > 2 /\ toks[i - 1] = "." /\ IsIdent(toks[i - 2]) THEN toks[i - 2] ELSE ""
=============================================================================
