------------------------------- MODULE Posenc -------------------------------
(***************************************************************************)
(* internal/posenc: byte offsets into a UTF-8 text, and the positions of   *)
(* LSP, a line and a number of UTF-16 code units.                          *)
(*                                                                         *)
(* A text is the sequence of the runes utf8.DecodeRune yields, each by its *)
(* kind: all that counts is how many bytes and how many code units it      *)
(* takes, and whether it ends a line.                                      *)
(***************************************************************************)
EXTENDS Integers, FiniteSetsExt, SequencesExt

\* An ASCII letter, a line feed, a letter of three bytes, a character outside
\* the BMP, a byte that is not UTF-8.
Runes == {"x", "nl", "kana", "emoji", "bad"}

\* A carriage return is like a letter here; module Goast has them.
Size == [x |-> 1, nl |-> 1, kana |-> 3, emoji |-> 4, bad |-> 1, cr |-> 1]

\* Mutant: every rune is one code unit.
WidthOfRune(r) == 1

\* r > 0xFFFF takes a surrogate pair.
Width(r) == IF r = "emoji" THEN 2 ELSE 1

Bytes(src) == FoldLeft(LAMBDA n, r : n + Size[r], 0, src)
Units(src) == FoldLeft(LAMBDA n, r : n + Width(r), 0, src)
Prefix(src, k) == SubSeq(src, 1, k)
Breaks(src) == {k \in DOMAIN src : src[k] = "nl"}

\* Mutant: the rune at the offset is counted too.
ByteToLSPLate(src, byteOffset) ==
  LET b == Min({Max({byteOffset, 0}), Bytes(src)})
      n == Cardinality({k \in DOMAIN src : Bytes(Prefix(src, k - 1)) <= b})
      breaks == Breaks(Prefix(src, n))
  IN  [line |-> Cardinality(breaks),
       character |-> Units(SubSeq(src, Max(breaks \cup {0}) + 1, n))]

\* The offset is clamped to the text; the runes that start before it are read.
ByteToLSP(src, byteOffset) ==
  LET b == Min({Max({byteOffset, 0}), Bytes(src)})
      n == Cardinality({k \in DOMAIN src : Bytes(Prefix(src, k - 1)) < b})
      breaks == Breaks(Prefix(src, n))
  IN  [line |-> Cardinality(breaks),
       character |-> Units(SubSeq(src, Max(breaks \cup {0}) + 1, n))]

\* The number of runes before a line, 0 for the first.
LineStart(src, line) ==
  Max({0} \cup {k \in Breaks(src) : Cardinality(Breaks(Prefix(src, k))) <= line})

\* Mutant: the end of the line does not stop the scan.
LSPToBytePastLine(src, line, character) ==
  LET l == Max({line, 0})
      start == LineStart(src, l)
      Stop(k) == \/ k = Len(src)
                 \/ Units(SubSeq(src, start + 1, k)) >= character
  IN  IF l > Cardinality(Breaks(src))
        THEN Bytes(src)
        ELSE Bytes(Prefix(src, Min({k \in start .. Len(src) : Stop(k)})))

\* A line past the end is the end of the text; else the scan of the line stops
\* after k runes, at the position, the end of the line or the end of the text.
LSPToByte(src, line, character) ==
  LET l == Max({line, 0})
      start == LineStart(src, l)
      Stop(k) == \/ k = Len(src)
                 \/ Units(SubSeq(src, start + 1, k)) >= character
                 \/ src[k + 1] = "nl"
  IN  IF l > Cardinality(Breaks(src))
        THEN Bytes(src)
        ELSE Bytes(Prefix(src, Min({k \in start .. Len(src) : Stop(k)})))
-----------------------------------------------------------------------------
(* What LSP says a position is, by walking over the runes before it. *)

Advance(p, r) ==
  IF r = "nl" THEN [line |-> p.line + 1, character |-> 0]
              ELSE [p EXCEPT !.character = @ + (IF r = "emoji" THEN 2 ELSE 1)]

\* The position after k runes.
PositionAfter(src, k) ==
  FoldLeft(Advance, [line |-> 0, character |-> 0], Prefix(src, k))

\* p lies between the two halves of a surrogate pair.
SplitsPair(src, p) ==
  \E k \in DOMAIN src :
    src[k] = "emoji" /\ p = [PositionAfter(src, k) EXCEPT !.character = @ - 1]

\* How many runes lie before p: a character past the end of its line stands for
\* that end, a line past the end of the text for the end of the text.
RunesBefore(src, p) ==
  IF p.line > Cardinality(Breaks(src))
    THEN Len(src)
    ELSE Max({k \in 0 .. Len(src) :
                LET q == PositionAfter(src, k)
                IN  q.line = p.line /\ q.character <= p.character})

NotAfter(p, q) ==
  \/ p.line < q.line
  \/ p.line = q.line /\ p.character <= q.character
=============================================================================
