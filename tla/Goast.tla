------------------------------- MODULE Goast -------------------------------
(***************************************************************************)
(* internal/goast: the string literals of a Go file that are SQL, and the  *)
(* place of the cursor in them; and how internal/lsp/server.go uses both   *)
(* to place issues and to answer requests.                                 *)
(*                                                                         *)
(* go/parser is external.  What it yields is a file: its text src as runes *)
(* (Posenc), the string literals, the groups of comments and the calls, in *)
(* the order of the text.  A literal is at the rune lit.pos and has as     *)
(* many runes as the file has there; a group ends before the rune cg.end.  *)
(* A call names the layers around its function, the outermost first, and   *)
(* its arguments, literals by their number.                                *)
(***************************************************************************)
EXTENDS Posenc

Offset(file, k) == Bytes(Prefix(file.src, k - 1))
Line(file, k) == Cardinality(Breaks(Prefix(file.src, k - 1)))

Written(file, lit) == SubSeq(file.src, lit.pos, lit.pos + lit.len - 1)

StripCR(runes) ==
  FoldLeft(LAMBDA kept, r : IF r = "cr" THEN kept ELSE Append(kept, r), <<>>, runes)

\* go/scanner takes the carriage returns out of a raw string, and go/ast takes the
\* length of what is left for that of the literal.
Value(file, lit) ==
  IF lit.raw THEN StripCR(Written(file, lit)) ELSE Written(file, lit)

EndOffset(file, lit) == Offset(file, lit.pos) + Bytes(Value(file, lit))

\* The text between the quotes.
StripQuotes(value) == SubSeq(value, 2, Len(value) - 1)

\* Mutant: any group that ends before the line.
MarkedAbove(file) ==
  {i \in DOMAIN file.lits :
     \E cg \in ToSet(file.comments) :
       cg.marker /\ Line(file, cg.end) < Line(file, file.lits[i].pos)}

\* Of the groups that end on the line above, the last one counts.
Marked(file) ==
  {i \in DOMAIN file.lits :
     LET above == {j \in DOMAIN file.comments :
                     Line(file, file.comments[j].end) = Line(file, file.lits[i].pos) - 1}
     IN  above # {} /\ file.comments[Max(above)].marker}

\* "" for anything but a selector, or an instantiation of one.
CallFuncName(call) ==
  IF /\ Last(call.fun) = "selector"
     /\ ToSet(Front(call.fun)) \subseteq {"index", "indexList"}
    THEN call.name ELSE ""

\* Mutant: every argument may be the query.
CallSQLAnywhere(file, funcs) ==
  {i \in DOMAIN file.lits :
     \E call \in ToSet(file.calls) :
       CallFuncName(call) \in DOMAIN funcs /\ i \in ToSet(call.args)}

\* The literals in the query slot of a call; an index past the arguments is none.
CallSQLPositions(file, funcs) ==
  {i \in DOMAIN file.lits :
     \E call \in ToSet(file.calls) :
       LET name == CallFuncName(call)
       IN  /\ name # "" /\ name \in DOMAIN funcs
           /\ funcs[name] + 1 \in DOMAIN call.args
           /\ call.args[funcs[name] + 1] = i}

IsSQL(file, funcs) == Marked(file) \cup CallSQLPositions(file, funcs)

FindAllSQL(file, funcs) ==
  {LET lit == file.lits[i]
   IN  [sql |-> StripQuotes(Value(file, lit)), start |-> Offset(file, lit.pos) + 1] :
   i \in IsSQL(file, funcs)}

\* Mutant: one byte further.
IsAtAfter(file, i, cursor) ==
  Offset(file, file.lits[i].pos) <= cursor /\ cursor <= EndOffset(file, file.lits[i]) + 1

\* The cursor is in a literal, or right before or after its quotes.
IsAt(file, i, cursor) ==
  Offset(file, file.lits[i].pos) <= cursor /\ cursor <= EndOffset(file, file.lits[i])

\* Mutant: the quote is counted.
PlaceAtQuote(file, i, cursor) ==
  LET inner == StripQuotes(Value(file, file.lits[i]))
  IN  [sql |-> inner, offset |-> Min({cursor - Offset(file, file.lits[i].pos), Bytes(inner)})]

Place(file, i, cursor) ==
  LET inner == StripQuotes(Value(file, file.lits[i]))
      off == cursor - (Offset(file, file.lits[i].pos) + 1)
  IN  [sql |-> inner, offset |-> Min({Max({off, 0}), Bytes(inner)})]

\* The SQL at the cursor and the offset in it, as a set of one or none.
FindSQL(file, line, character, funcs) ==
  LET cursor == LSPToByte(file.src, line, character)
  IN  {Place(file, i, cursor) : i \in {j \in IsSQL(file, funcs) : IsAt(file, j, cursor)}}

\* What publishDiagnostics checks: the SQL of a Go file, or all of another.
Blocks(file, isGo, funcs) ==
  IF isGo THEN FindAllSQL(file, funcs) ELSE {[sql |-> file.src, start |-> 0]}

\* What completion, hover and definition look at.
SqlAt(file, isGo, line, character, funcs) ==
  IF isGo THEN FindSQL(file, line, character, funcs)
          ELSE {[sql |-> file.src, offset |-> LSPToByte(file.src, line, character)]}

\* makeDiagnostic: where the editor is told that an issue is.
MakeDiagnostic(file, start, end) ==
  [start |-> ByteToLSP(file.src, start), end |-> ByteToLSP(file.src, end)]
=============================================================================
