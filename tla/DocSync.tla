------------------------------ MODULE DocSync ------------------------------
(***************************************************************************)
(* How the server's copy of a document follows the editor's buffer: the    *)
(* editor sends edits in batches, each edit a range in LSP positions and a *)
(* text; didChange applies them to docs one after the other                *)
(* (internal/lsp/server.go 559-615).                                       *)
(*                                                                         *)
(* Requests are handled in the order they were sent; what a publish does   *)
(* with the text is module Publisher.                                      *)
(***************************************************************************)
EXTENDS Posenc

CONSTANTS
  Inserts,      \* texts an edit may put in
  MaxRunes,     \* bound: length of the buffer
  MaxEdits      \* bound: edits not handled yet

ASSUME InsertsAssumption == \A t \in Inserts : t \in Seq(Runes)
ASSUME BoundsAssumption == MaxRunes \in Nat /\ MaxEdits \in Nat

VARIABLES
  open,         \* has the editor opened the document
  buffer,       \* the editor's text
  batch,        \* edits made and not sent yet
  inbox,        \* notifications sent and not handled yet
  docs          \* docs[uri]: the entry, and its text or "" without one

vars == <<open, buffer, batch, inbox, docs>>

NoEntry == [open |-> FALSE, text |-> <<>>]

Init ==
  /\ open = FALSE /\ buffer = <<>> /\ batch = <<>> /\ inbox = <<>>
  /\ docs = NoEntry
-----------------------------------------------------------------------------
(* The editor. *)

\* The places an edit may name: those between runes, one past the end of each
\* line, and a line past the end of the text.
Places ==
  LET lines == 0 .. Cardinality(Breaks(buffer))
  IN  {PositionAfter(buffer, k) : k \in 0 .. Len(buffer)}
        \cup [line : lines, character : {2 * MaxRunes + 1}]
        \cup [line : {Cardinality(lines)}, character : {0}]

Ranged(p, q, t) == [whole |-> FALSE, start |-> p, end |-> q, text |-> t]

Whole(t) ==
  LET zero == [line |-> 0, character |-> 0]
  IN  [whole |-> TRUE, start |-> zero, end |-> zero, text |-> t]

\* What LSP says an edit does.
Meaning(text, c) ==
  IF c.whole
    THEN c.text
    ELSE Prefix(text, RunesBefore(text, c.start)) \o c.text
           \o SubSeq(text, RunesBefore(text, c.end) + 1, Len(text))

Edits == {Ranged(p, q, t) : p, q \in Places, t \in Inserts} \cup {Whole(t) : t \in Inserts}

Pending == FoldLeft(LAMBDA n, m : n + Len(m.changes), Len(batch), inbox)

Edit ==
  /\ open /\ Pending < MaxEdits
  /\ \E c \in Edits :
       /\ ~c.whole => /\ NotAfter(c.start, c.end)
                      /\ ~SplitsPair(buffer, c.start) /\ ~SplitsPair(buffer, c.end)
       /\ Len(Meaning(buffer, c)) <= MaxRunes
       /\ buffer' = Meaning(buffer, c)
       /\ batch' = Append(batch, c)
  /\ UNCHANGED <<open, inbox, docs>>

Post(op, changes) ==
  /\ inbox' = Append(inbox, [op |-> op, text |-> buffer, changes |-> changes])
  /\ UNCHANGED docs

Open ==
  /\ ~open /\ inbox = <<>>
  /\ open' = TRUE
  /\ buffer' \in Inserts
  /\ inbox' = Append(inbox, [op |-> "didOpen", text |-> buffer', changes |-> <<>>])
  /\ UNCHANGED <<batch, docs>>

Flush ==
  /\ batch # <<>>
  /\ Post("didChange", batch)
  /\ batch' = <<>>
  /\ UNCHANGED <<open, buffer>>

Close ==
  /\ open /\ batch = <<>>
  /\ Post("didClose", <<>>)
  /\ open' = FALSE /\ buffer' = <<>>
  /\ UNCHANGED batch
-----------------------------------------------------------------------------
(* The handlers. *)

\* The runes of a text before and after a byte offset between two runes.
Before(text, b) == Prefix(text, Cardinality({k \in DOMAIN text : Bytes(Prefix(text, k)) <= b}))
After(text, b) == SubSeq(text, Len(Before(text, b)) + 1, Len(text))

\* Mutant: the end of the range is looked up on the line of its start.
ApplyOneLine(text, c) ==
  IF c.whole
    THEN c.text
    ELSE LET start == LSPToByte(text, c.start.line, c.start.character)
             end == LSPToByte(text, c.start.line, c.end.character)
         IN  Before(text, start) \o c.text \o After(text, end)

ApplyContentChange(text, c) ==
  IF c.whole
    THEN c.text
    ELSE LET start == LSPToByte(text, c.start.line, c.start.character)
             end == LSPToByte(text, c.end.line, c.end.character)
         IN  Before(text, start) \o c.text \o After(text, Max({start, end}))

Receive(op) ==
  /\ inbox # <<>> /\ Head(inbox).op = op
  /\ inbox' = Tail(inbox)
  /\ UNCHANGED <<open, buffer, batch>>

DidOpen ==
  /\ Receive("didOpen")
  /\ docs' = [open |-> TRUE, text |-> Head(inbox).text]

\* The changes are folded over the text: each refers to the result of the last.
DidChange ==
  /\ Receive("didChange")
  /\ docs' = [open |-> TRUE,
              text |-> FoldLeft(ApplyContentChange, docs.text, Head(inbox).changes)]

DidClose ==
  /\ Receive("didClose")
  /\ docs' = NoEntry
-----------------------------------------------------------------------------
Next ==
  \/ Edit \/ Open \/ Flush \/ Close
  \/ DidOpen \/ DidChange \/ DidClose

Spec == Init /\ [][Next]_vars
-----------------------------------------------------------------------------
(* Properties. *)

\* The entry as it will be once everything sent and batched was handled, going
\* by what LSP says of each edit.
Handled(e, m) ==
  CASE m.op = "didOpen" -> [open |-> TRUE, text |-> m.text]
    [] m.op = "didChange" ->
         [open |-> TRUE, text |-> FoldLeft(Meaning, e.text, m.changes)]
    [] m.op = "didClose" -> NoEntry

Upcoming ==
  LET e == FoldLeft(Handled, docs, inbox)
  IN  [e EXCEPT !.text = FoldLeft(Meaning, @, batch)]

\* The server never loses the editor's text: what is in docs, with the edits on
\* their way, is the buffer, through batches, several lines, surrogate pairs
\* and ranges past the end (server.go:584-589).
Mirror == Upcoming = [open |-> open, text |-> buffer]
=============================================================================
