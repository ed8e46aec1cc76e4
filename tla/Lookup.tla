------------------------------- MODULE Lookup -------------------------------
(***************************************************************************)
(* What internal/lsp/server.go answers from the analysis of a text and the *)
(* schema: completion (contextItems), goto-definition (definitionPosition),*)
(* hover (hoverMarkdown) and document links (documentLink).                *)
(*                                                                         *)
(* A target is the table or the table and column a location belongs to.    *)
(* Go's maps are ranged over in any order: where the answer depends on it, *)
(* an operator is the set of the possible ones.                            *)
(***************************************************************************)
EXTENDS Sqlctx

None == <<>>

ColumnOrNone(table, column) ==
  IF HasColumn(table, column) THEN <<table, column>> ELSE None

\* The columns a bare name may mean: that of the first table read that has it, or of
\* any table when none was read.
BareColumn(info, name) ==
  LET first == SelectInSeq(info.realTables, LAMBDA t : HasColumn(t, name))
      having == {t \in DOMAIN Columns : HasColumn(t, name)}
  IN  CASE info.realTables # <<>> /\ first # 0 -> {<<info.realTables[first], name>>}
        [] info.realTables = <<>> /\ having # {} -> {<<t, name>> : t \in having}
        [] OTHER -> {None}

\* Mutant: a qualifier is taken for a table.
DefinitionOfTable(info, toks, i) ==
  LET qualifier == QualifierAt(toks, i)
      name == toks[i]
  IN  CASE qualifier # "" -> {ColumnOrNone(qualifier, name)}
        [] qualifier = "" /\ HasTable(name) -> {<<name>>}
        [] OTHER -> BareColumn(info, name)

\* A name without a qualifier is a table, an alias of one, or a column.
DefinitionPosition(info, toks, i) ==
  LET qualifier == QualifierAt(toks, i)
      name == toks[i]
  IN  CASE qualifier # "" -> {ColumnOrNone(Resolve(info, qualifier), name)}
        [] qualifier = "" /\ HasTable(name) -> {<<name>>}
        [] qualifier = "" /\ ~HasTable(name) /\ HasTable(Resolve(info, name)) ->
             {<<Resolve(info, name)>>}
        [] OTHER -> BareColumn(info, name)

\* Mutant: an alias is not resolved.
HoverNoAlias(info, toks, i) ==
  LET qualifier == QualifierAt(toks, i)
      name == toks[i]
  IN  CASE qualifier # "" -> {ColumnOrNone(Resolve(info, qualifier), name)}
        [] qualifier = "" /\ HasTable(name) -> {<<name>>}
        [] OTHER -> BareColumn(info, name)

\* hoverMarkdown: what is described.
HoverMarkdown(info, toks, i) ==
  LET qualifier == QualifierAt(toks, i)
      name == toks[i]
      real == Resolve(info, name)
  IN  CASE qualifier # "" -> {ColumnOrNone(Resolve(info, qualifier), name)}
        [] qualifier = "" /\ HasTable(name) -> {<<name>>}
        [] qualifier = "" /\ ~HasTable(name) /\ real # name /\ HasTable(real) -> {<<real>>}
        [] OTHER -> BareColumn(info, name)
-----------------------------------------------------------------------------
SymbolTarget(toks, i, info) ==
  LET table == IF HasTable(toks[i]) THEN toks[i] ELSE Resolve(info, toks[i])
  IN  CASE SymbolKind(toks, i) \in {"table", "qualifier"} ->
             IF HasTable(table) THEN <<table>> ELSE None
        [] SymbolKind(toks, i) = "column" ->
             ColumnOrNone(Resolve(info, toks[i - 2]), toks[i])
        [] OTHER -> None

Link(first, last, target) == [first |-> first, last |-> last, to |-> target]

\* Mutant: the qualifier of a link over both parts gives the target.
LinksByQualifier(toks) ==
  LET info == ExtractTables(toks)
      Target(i) == SymbolTarget(toks, i, info)
      Kind(i) == SymbolKind(toks, i)
  IN  {Link(i, i + 2, Target(i)) :
         i \in {k \in DOMAIN toks : Kind(k) = "qualifier" /\ Target(k) # None}}

\* A qualifier and its column share one link, to the column if there is one.
DocumentLinks(toks) ==
  LET info == ExtractTables(toks)
      Target(i) == SymbolTarget(toks, i, info)
      Kind(i) == SymbolKind(toks, i)
      pairs == {i \in DOMAIN toks :
                  i + 2 \in DOMAIN toks /\ Kind(i) = "qualifier" /\ Kind(i + 2) = "column"}
      single == {i \in DOMAIN toks : i \notin pairs /\ i - 2 \notin pairs}
  IN  {Link(i, i + 2, Target(i + 2)) : i \in {k \in pairs : Target(k + 2) # None}}
        \cup {Link(i, i, Target(i)) :
                i \in {k \in pairs : Target(k + 2) = None /\ Target(k) # None}}
        \cup {Link(i, i, Target(i)) : i \in {k \in single : Target(k) # None}}
-----------------------------------------------------------------------------
(* Completion: the texts that may be offered, each as the tokens it inserts. *)

\* Mutant: duplicate columns are qualified by their table.
ScopedItemsByTable(names, aliases) ==
  LET tables == {n \in names : HasTable(n)}
      Count(c) == Cardinality({t \in tables : HasColumn(t, c)})
  IN  UNION {{IF Count(c) > 1 THEN <<t, ".", c>> ELSE <<c>> : c \in Columns[t]} : t \in tables}

\* A column of several tables is qualified, by an alias of its table if it has
\* one; of two aliases by any.
ScopedColumnItems(names, aliases) ==
  LET tables == {n \in names : HasTable(n)}
      Count(c) == Cardinality({t \in tables : HasColumn(t, c)})
      Named(t) == {a \in DOMAIN aliases : aliases[a] = t /\ a # t}
      Qualifiers(t) == IF Named(t) = {} THEN {t} ELSE Named(t)
      Items(t, c) ==
        IF Count(c) > 1 THEN {<<p, ".", c>> : p \in Qualifiers(t)} ELSE {<<c>>}
  IN  UNION {UNION {Items(t, c) : c \in Columns[t]} : t \in tables}

TableItems == {<<t>> : t \in DOMAIN Columns}

\* With the cursor after k tokens.  Keywords are left out.
ContextItems(toks, k) ==
  LET info == ExtractTables(toks)
      at == DetermineState(toks, k)
      real == Resolve(info, at.qualifier)
      everywhere == ScopedColumnItems(DOMAIN Columns, <<>>)
  IN  CASE at.state = "table" -> TableItems
        [] at.state = "qualified" ->
             IF HasTable(real) THEN {<<c>> : c \in Columns[real]} ELSE {}
        [] at.state = "column" ->
             IF info.realTables = <<>>
               THEN everywhere
               ELSE ScopedColumnItems(ToSet(info.realTables), info.aliases)
        [] OTHER -> TableItems \cup everywhere
=============================================================================
