------------------------------- MODULE MCGoast -------------------------------
(* Go files, written line by line, and plain texts, written rune by rune.      *)
EXTENDS Goast

CONSTANTS
  Funcs,        \* the SQL functions
  MaxText,      \* bound: runes of a plain text
  MaxLines      \* bound: lines of a Go file

ASSUME FuncsAssumption == \A name \in DOMAIN Funcs : Funcs[name] \in Nat
ASSUME TextAssumption == MaxText \in Nat /\ MaxLines \in Nat

VARIABLES
  file,         \* the file, as go/parser sees it
  says,         \* which of its literals README.md:185-197 says are SQL
  may,          \* these, and the ones below a group of comments that has a marker
  above,        \* the line directly above has a marker
  grouped       \* or is in a group of comments with one further up

MCvars == <<file, says, may, above, grouped>>

DefaultFuncs == [Query |-> 0, QueryContext |-> 1]
NoFile == [src |-> <<>>, lits |-> <<>>, comments |-> <<>>, calls |-> <<>>]

MCInit ==
  /\ file = NoFile /\ says = <<>> /\ may = <<>> /\ above = FALSE /\ grouped = FALSE

Put(f, runes) == [f EXCEPT !.src = @ \o runes]

PutLit(f, lit) ==
  Put([f EXCEPT !.lits = Append(@, [pos |-> Len(f.src) + 1, len |-> Len(lit.body) + 2,
                                    raw |-> lit.raw])],
      <<"x">> \o lit.body \o <<"x">>)

PutComment(f, marker, own) ==
  [Put(f, <<"x">>) EXCEPT
     !.comments = Append(@, [end |-> Len(f.src) + 2, marker |-> marker, own |-> own])]

PutCall(f, fun, name, args) ==
  [f EXCEPT !.calls = Append(@, [fun |-> fun, name |-> name, args |-> args])]

Emoji == [raw |-> FALSE, body |-> <<"emoji">>]
Empty == [raw |-> FALSE, body |-> <<>>]
TwoLines == [raw |-> TRUE, body |-> <<"x", "nl", "x">>]
Returns == [raw |-> TRUE, body |-> <<"cr", "nl">>]
Literals == {Emoji, Empty, TwoLines, Returns}
OneLine(lit) == "nl" \notin ToSet(lit.body)

IsCode == file.lits # <<>> \/ file.comments # <<>>

\* A plain text.
TypeRune(r) ==
  /\ ~IsCode /\ Len(file.src) < MaxText
  /\ file' = Put(file, <<r>>)
  /\ UNCHANGED <<says, may, above, grouped>>

\* A call is the last line.
MoreLines ==
  /\ IsCode \/ ToSet(file.src) \subseteq {"nl"}
  /\ file.calls = <<>> /\ Cardinality(Breaks(file.src)) < MaxLines

BlankLine ==
  /\ MoreLines
  /\ file' = Put(file, <<"nl">>) /\ above' = FALSE /\ grouped' = FALSE
  /\ UNCHANGED <<says, may>>

\* Comments on lines that follow each other are one group.
CommentLine(marker) ==
  LET n == Len(file.src)
      groups == file.comments
      joined == groups # <<>> /\ Last(groups).own /\ Last(groups).end = n
      group == [end |-> n + 2, marker |-> marker \/ (joined /\ grouped), own |-> TRUE]
  IN  /\ MoreLines
      /\ file' = [Put(file, <<"x", "nl">>) EXCEPT
                    !.comments = Append(IF joined THEN Front(groups) ELSE groups, group)]
      /\ above' = marker /\ grouped' = group.marker
      /\ UNCHANGED <<says, may>>

\* A literal, with a comment before it or after it on its line.
AssignLine(lit, comment) ==
  LET f == PutLit(Put(IF comment = "before" THEN PutComment(file, TRUE, FALSE) ELSE file,
                      <<"kana">>), lit)
  IN  /\ MoreLines
      /\ file' = Put(IF comment \in {"marker", "other"}
                       THEN PutComment(f, comment = "marker", FALSE) ELSE f, <<"nl">>)
      /\ says' = Append(says, above) /\ may' = Append(may, grouped)
      /\ above' = (comment = "marker" \/ (comment = "before" /\ OneLine(lit)))
      /\ grouped' = above'

\* A call whose first arguments are not literals, as many as skipped, and the others
\* are; it may itself be the argument of another.
CallLine(fun, name, skipped, lits, nested) ==
  LET n == Len(file.lits)
      args == [k \in 1 .. skipped + Len(lits) |-> IF k <= skipped THEN 0 ELSE n + k - skipped]
      outer == IF nested THEN PutCall(file, <<"selector">>, "Query", <<0>>) ELSE file
      f == PutCall(Put(outer, <<"kana">>), fun, name, args)
      Slot(k) == /\ fun \in {<<"selector">>, <<"index", "selector">>}
                 /\ name \in DOMAIN Funcs /\ Funcs[name] + 1 = skipped + k
      Said(up) ==
        [k \in DOMAIN lits |-> Slot(k) \/ (up /\ \A j \in 1 .. k - 1 : OneLine(lits[j]))]
  IN  /\ MoreLines
      /\ file' = FoldLeft(LAMBDA g, lit : Put(PutLit(g, lit), <<"x">>), f, lits)
      /\ says' = says \o Said(above) /\ may' = may \o Said(grouped)
      /\ above' = FALSE /\ grouped' = FALSE

\* The lines with a literal, a comment on some of them.
AssignLines ==
  \/ \E lit \in Literals : AssignLine(lit, "none")
  \/ \E lit \in {Emoji, TwoLines}, comment \in {"before", "marker", "other"} :
       AssignLine(lit, comment)

\* The lines with calls.
CallLines ==
  \E fun \in {<<"selector">>, <<"index", "selector">>, <<"ident">>},
     name \in {"Query", "QueryContext", "Get"}, skipped \in {0, 1}, lit \in Literals,
     rest \in {<<>>, <<Emoji>>}, nested \in BOOLEAN :
    /\ (name = "Get" \/ nested \/ lit = Empty) => fun = <<"selector">>
    /\ fun = <<"ident">> \/ rest # <<>> => lit \in {Emoji, TwoLines}
    /\ nested => lit = Emoji /\ skipped = 1
    /\ CallLine(fun, name, skipped, <<lit>> \o rest, nested)

MCNext ==
  \/ \E r \in Runes : TypeRune(r)
  \/ BlankLine \/ \E marker \in BOOLEAN : CommentLine(marker)
  \/ AssignLines \/ CallLines

MCSpec == MCInit /\ [][MCNext]_MCvars
-----------------------------------------------------------------------------
(* Properties of posenc, for the plain texts. *)

\* LSP positions are unsigned.
Positions == [line : 0 .. MaxText + 1, character : 0 .. 2 * MaxText + 1]

\* A diagnostic placed at a rune by ByteToLSP is found there by LSPToByte: the
\* two are inverse at every boundary between runes.
RoundTrip ==
  ~IsCode =>
    \A k \in 0 .. Len(file.src) :
      LET b == Bytes(Prefix(file.src, k))
          p == ByteToLSP(file.src, b)
      IN  LSPToByte(file.src, p.line, p.character) = b

\* Both conversions mean what LSP means by a position, also past the end of a
\* line and of the text (posenc.go:45-46).  Inside a surrogate pair LSP says
\* nothing.
MeansLSP ==
  ~IsCode =>
    /\ \A k \in 0 .. Len(file.src) :
         ByteToLSP(file.src, Bytes(Prefix(file.src, k))) = PositionAfter(file.src, k)
    /\ \A p \in Positions :
         ~SplitsPair(file.src, p) =>
           LSPToByte(file.src, p.line, p.character)
             = Bytes(Prefix(file.src, RunesBefore(file.src, p)))

\* A position that is not after another is not after it in the text either, so
\* that the range of an edit is never turned around (server.go:597); halves of
\* surrogate pairs included.
Monotone ==
  ~IsCode =>
    LET byte == [p \in Positions |-> LSPToByte(file.src, p.line, p.character)]
    IN  \A p, q \in Positions : NotAfter(p, q) => byte[p] <= byte[q]
-----------------------------------------------------------------------------
(* Properties of goast. *)

\* Some of the literals, each with the text it has in the file, but for carriage
\* returns, and the place of that.
BlocksOf(which) ==
  {[sql |-> StripCR(SubSeq(file.src, lit.pos + 1, lit.pos + lit.len - 2)),
    start |-> Bytes(Prefix(file.src, lit.pos))] :
   lit \in {file.lits[i] : i \in {j \in DOMAIN which : which[j]}}}

\* The literals of which README.md:185-197 says so are checked: those with a marker
\* comment on the line directly above and those in the query slot of a call.  No
\* others are, except below a plain comment that follows a marker without a blank
\* line, of which go/parser makes one group (goast.go:156-168).
FindsWhatItSays ==
  /\ BlocksOf(says) \subseteq FindAllSQL(file, Funcs)
  /\ FindAllSQL(file, Funcs) \subseteq BlocksOf(may)

\* Raw strings with carriage returns: offsets in their SQL are not those in the file.
Drifts(b) ==
  {lit \in ToSet(file.lits) :
     Bytes(Prefix(file.src, lit.pos)) = b.start /\ "cr" \in ToSet(Written(file, lit))}

\* Where the editor shows an issue of some SQL, in a Go file or in a plain text, hover
\* and completion find the same place of the same SQL, with characters of any width
\* before it.  In a raw string with carriage returns it may be shown too early, but
\* within the literal (goast.go:67, server.go:665-666).
ShownWhereFound ==
  \A b \in Blocks(file, IsCode, Funcs) : \A k \in 0 .. Len(b.sql) :
    LET offset == Bytes(Prefix(b.sql, k))
        p == MakeDiagnostic(file, b.start + offset, b.start + offset).start
    IN  /\ Drifts(b) = {} =>
             SqlAt(file, IsCode, p.line, p.character, Funcs)
               = {[sql |-> b.sql, offset |-> offset]}
        /\ \A lit \in Drifts(b) :
             /\ NotAfter(PositionAfter(file.src, lit.pos), p)
             /\ NotAfter(p, PositionAfter(file.src, lit.pos + lit.len - 2))

\* With the cursor outside all SQL, quotes not counted, nothing is found.
NothingOutside ==
  \A k \in 0 .. Len(file.src) :
    LET p == PositionAfter(file.src, k)
    IN  FindSQL(file, p.line, p.character, Funcs) # {} =>
          \E i \in DOMAIN may :
            may[i] /\ k + 1 \in file.lits[i].pos .. file.lits[i].pos + file.lits[i].len
=============================================================================
