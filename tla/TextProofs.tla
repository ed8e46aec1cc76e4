----------------------------- MODULE TextProofs -----------------------------
(***************************************************************************)
(* What is proved of texts and positions in them, for texts of any length. *)
(*                                                                         *)
(* Of posenc: its two conversions are inverse at the boundaries between    *)
(* runes, mean what LSP means by a position and keep the order of          *)
(* positions.                                                              *)
(*                                                                         *)
(* Of goast, for every Go file that MCGoast can write: which literals are  *)
(* SQL, and that an issue is shown where it is found.                      *)
(*                                                                         *)
(* Of DocSync: the server's copy of a document is the editor's buffer, for *)
(* any edits, batches and texts.  An edit is made to mean something in the *)
(* text the editor had then; the invariant is that what is still on its    *)
(* way meets that text.                                                    *)
(***************************************************************************)
EXTENDS MCGoast, DocSync, FiniteSetTheorems, SequenceTheorems, TLAPS

Sizes == INSTANCE FoldFacts WITH Op <- LAMBDA n, r : n + Size[r]
Widths == INSTANCE FoldFacts WITH Op <- LAMBDA n, r : n + Width(r)
Walking == INSTANCE FoldFacts WITH Op <- Advance

Kinds == DOMAIN Size
-----------------------------------------------------------------------------
(* Sums. *)

\* Bytes and Units are folds, of which FoldFacts speaks.
LEMMA BytesIsFold ==
  \A s : Bytes(s) = Sizes!Fold(0, s)
BY DEF Bytes, Sizes!Fold, FoldLeft, Sizes!FoldLeft, MapThenFoldSet, Sizes!MapThenFoldSet,
       Max, Sizes!Max

\* The same for UTF-16 units.
LEMMA UnitsIsFold ==
  \A s : Units(s) = Widths!Fold(0, s)
BY DEF Units, Widths!Fold, FoldLeft, Widths!FoldLeft, MapThenFoldSet, Widths!MapThenFoldSet,
       Max, Widths!Max

\* A rune has at least a byte and one or two code units.
LEMMA RuneSize ==
  ASSUME NEW r \in Kinds
  PROVE  Size[r] \in Nat /\ Size[r] >= 1 /\ Width(r) \in {1, 2} /\ (Width(r) = 2 => r = "emoji")
BY DEF Kinds, Size, Width

\* The length in bytes, rune by rune.
LEMMA BytesAre ==
  /\ Bytes(<<>>) = 0
  /\ \A s \in Seq(Kinds) : Bytes(s) \in Nat
  /\ \A s \in Seq(Kinds), r \in Kinds : Bytes(Append(s, r)) = Bytes(s) + Size[r]
<1>1. \A v \in Nat, e \in Kinds : v + Size[e] \in Nat
  BY RuneSize
<1>2. ASSUME NEW s \in Seq(Kinds) PROVE Bytes(s) \in Nat
  <2>1. Sizes!Fold(0, s) \in Nat
    BY <1>1, Sizes!FoldType
  <2> QED
    BY <2>1, BytesIsFold
<1>3. ASSUME NEW s \in Seq(Kinds), NEW r \in Kinds
      PROVE  Bytes(Append(s, r)) = Bytes(s) + Size[r]
  <2>1. Sizes!Fold(0, Append(s, r)) = Sizes!Fold(0, s) + Size[r]
    BY Sizes!FoldAppend
  <2> QED
    BY <2>1, BytesIsFold
<1>4. Bytes(<<>>) = 0
  BY Sizes!FoldEmpty, BytesIsFold
<1> QED
  BY <1>2, <1>3, <1>4

\* The length in UTF-16 units, rune by rune.
LEMMA UnitsAre ==
  /\ Units(<<>>) = 0
  /\ \A s \in Seq(Kinds) : Units(s) \in Nat
  /\ \A s \in Seq(Kinds), r \in Kinds : Units(Append(s, r)) = Units(s) + Width(r)
<1>1. \A v \in Nat, e \in Kinds : v + Width(e) \in Nat
  BY RuneSize
<1>2. ASSUME NEW s \in Seq(Kinds) PROVE Units(s) \in Nat
  <2>1. Widths!Fold(0, s) \in Nat
    BY <1>1, Widths!FoldType
  <2> QED
    BY <2>1, UnitsIsFold
<1>3. ASSUME NEW s \in Seq(Kinds), NEW r \in Kinds
      PROVE  Units(Append(s, r)) = Units(s) + Width(r)
  <2>1. Widths!Fold(0, Append(s, r)) = Widths!Fold(0, s) + Width(r)
    BY Widths!FoldAppend
  <2> QED
    BY <2>1, UnitsIsFold
<1>4. Units(<<>>) = 0
  BY Widths!FoldEmpty, UnitsIsFold
<1> QED
  BY <1>2, <1>3, <1>4
-----------------------------------------------------------------------------
(* The runes before a place. *)

\* A prefix has the runes of the text.
LEMMA PrefixIs ==
  ASSUME NEW S, NEW src \in Seq(S), NEW k \in 0 .. Len(src)
  PROVE  /\ Prefix(src, k) \in Seq(S) /\ Len(Prefix(src, k)) = k
         /\ \A i \in 1 .. k : Prefix(src, k)[i] = src[i]
BY DEF Prefix

\* The runes from one place to another, and the one after them.
LEMMA PartGrows ==
  ASSUME NEW S, NEW src \in Seq(S), NEW a \in 0 .. Len(src), NEW k \in a .. Len(src) - 1
  PROVE  /\ src[k + 1] \in S /\ SubSeq(src, a + 1, k) \in Seq(S)
         /\ SubSeq(src, a + 1, k + 1) = Append(SubSeq(src, a + 1, k), src[k + 1])
<1>1. src[k + 1] \in S /\ SubSeq(src, a + 1, k) \in Seq(S)
  OBVIOUS
<1>2. PICK p : p = SubSeq(src, a + 1, k)
  OBVIOUS
<1>3. PICK q : q = SubSeq(src, a + 1, k + 1)
  OBVIOUS
<1>4. /\ p \in Seq(S) /\ q \in Seq(S) /\ Len(p) = k - a /\ Len(q) = k + 1 - a
      /\ \A i \in 1 .. k - a : p[i] = src[a + i]
      /\ \A i \in 1 .. k + 1 - a : q[i] = src[a + i]
  <2>1. /\ p \in Seq(S) /\ Len(p) = k - a
        /\ \A i \in 1 .. k - a : p[i] = src[a + i]
    BY <1>2
  <2>2. /\ q \in Seq(S) /\ Len(q) = k + 1 - a
        /\ \A i \in 1 .. k + 1 - a : q[i] = src[a + i]
    BY <1>3
  <2> QED
    BY <2>1, <2>2
<1>5. q = Append(p, src[k + 1])
  BY <1>1, <1>4
<1> QED
  BY <1>1, <1>2, <1>3, <1>5

\* Nothing lies between a place and itself.
LEMMA PartEmpty ==
  ASSUME NEW S, NEW src \in Seq(S), NEW a \in 0 .. Len(src)
  PROVE  SubSeq(src, a + 1, a) = <<>>
OBVIOUS

\* The next prefix has one rune more.
LEMMA PrefixGrows ==
  ASSUME NEW S, NEW src \in Seq(S), NEW k \in 0 .. Len(src) - 1
  PROVE  Prefix(src, k + 1) = Append(Prefix(src, k), src[k + 1])
<1>1. 0 \in 0 .. Len(src) /\ k \in 0 .. Len(src) - 1 /\ 0 + 1 = 1
  OBVIOUS
<1> QED
  BY <1>1, PartGrows DEF Prefix

At(src, k) == Bytes(Prefix(src, k))
LineAt(src, k) == Cardinality(Breaks(Prefix(src, k)))
StartAt(src, k) == Max(Breaks(Prefix(src, k)) \cup {0})
CharAt(src, k) == Units(SubSeq(src, StartAt(src, k) + 1, k))

\* The last prefix is the text, the first is empty.
LEMMA WholePrefix ==
  ASSUME NEW S, NEW src \in Seq(S)
  PROVE  Prefix(src, Len(src)) = src /\ Prefix(src, 0) = <<>>
BY DEF Prefix

\* The byte offset of a place, rune by rune.
LEMMA AtStep ==
  ASSUME NEW src \in Seq(Kinds)
  PROVE  /\ At(src, 0) = 0 /\ At(src, Len(src)) = Bytes(src)
         /\ \A k \in 0 .. Len(src) : At(src, k) \in Nat
         /\ \A k \in 0 .. Len(src) - 1 :
              At(src, k + 1) = At(src, k) + Size[src[k + 1]] /\ At(src, k) < At(src, k + 1)
<1>1. ASSUME NEW k \in 0 .. Len(src) PROVE At(src, k) \in Nat
  BY PrefixIs, BytesAre DEF At
<1>2. ASSUME NEW k \in 0 .. Len(src) - 1
      PROVE  At(src, k + 1) = At(src, k) + Size[src[k + 1]] /\ At(src, k) < At(src, k + 1)
  <2>1. Prefix(src, k) \in Seq(Kinds) /\ src[k + 1] \in Kinds
    BY PrefixIs
  <2>2. Prefix(src, k + 1) = Append(Prefix(src, k), src[k + 1])
    BY PrefixGrows
  <2>3. At(src, k + 1) = At(src, k) + Size[src[k + 1]]
    BY <2>1, <2>2, BytesAre DEF At
  <2>4. At(src, k) \in Nat
    BY <1>1
  <2> QED
    BY <2>1, <2>3, <2>4, RuneSize
<1> QED
  BY <1>1, <1>2, WholePrefix, BytesAre DEF At

\* Every place has an offset of its own, in the order of the places.
LEMMA AtGrows ==
  ASSUME NEW src \in Seq(Kinds), NEW j \in 0 .. Len(src), NEW k \in 0 .. Len(src), j < k
  PROVE  At(src, j) < At(src, k)
<1> DEFINE T == {n \in Nat : j + 1 + n <= Len(src) => At(src, j) < At(src, j + 1 + n)}
<1>1. 0 \in T
  <2>1. j \in 0 .. Len(src) - 1 /\ j + 1 + 0 = j + 1
    OBVIOUS
  <2> QED
    BY <2>1, AtStep
<1>2. ASSUME NEW n \in Nat, n \in T PROVE n + 1 \in T
  <2> SUFFICES ASSUME j + 1 + (n + 1) <= Len(src)
               PROVE  At(src, j) < At(src, j + 1 + (n + 1))
    OBVIOUS
  <2> DEFINE m == j + 1 + n
  <2>1. m \in 0 .. Len(src) - 1 /\ m + 1 = j + 1 + (n + 1) /\ At(src, j) < At(src, m)
    BY <1>2
  <2> HIDE DEF m
  <2>2. At(src, m) < At(src, m + 1)
    BY <2>1, AtStep
  <2>3. At(src, j) \in Nat /\ At(src, m) \in Nat /\ At(src, m + 1) \in Nat
    BY <2>1, AtStep
  <2> QED
    BY <2>1, <2>2, <2>3
<1> HIDE DEF T
<1>3. Nat \subseteq T
  BY <1>1, <1>2, Sizes!NatSet
<1>4. k - j - 1 \in T /\ j + 1 + (k - j - 1) = k
  BY <1>3
<1> QED
  BY <1>4 DEF T

-----------------------------------------------------------------------------
(* Lines, and the code units since their start. *)

\* The line breaks before a place.
LEMMA BreaksAre ==
  ASSUME NEW src \in Seq(Kinds), NEW k \in 0 .. Len(src)
  PROVE  /\ Breaks(Prefix(src, k)) = {i \in 1 .. k : src[i] = "nl"}
         /\ IsFiniteSet(Breaks(Prefix(src, k))) /\ LineAt(src, k) \in Nat
<1>1. Breaks(Prefix(src, k)) = {i \in 1 .. k : src[i] = "nl"}
  BY PrefixIs DEF Breaks
<1>2. IsFiniteSet(1 .. k)
  BY FS_Interval
<1>3. IsFiniteSet(Breaks(Prefix(src, k)))
  BY <1>1, <1>2, FS_Subset
<1> QED
  BY <1>1, <1>3, FS_CardinalityType DEF LineAt

\* The line of a place, rune by rune.
LEMMA LineStep ==
  ASSUME NEW src \in Seq(Kinds)
  PROVE  /\ LineAt(src, 0) = 0 /\ LineAt(src, Len(src)) = Cardinality(Breaks(src))
         /\ \A k \in 0 .. Len(src) : LineAt(src, k) \in Nat
         /\ \A k \in 0 .. Len(src) - 1 :
              LineAt(src, k + 1) = IF src[k + 1] = "nl" THEN LineAt(src, k) + 1 ELSE LineAt(src, k)
<1>1. LineAt(src, 0) = 0
  <2>1. Breaks(Prefix(src, 0)) = {}
    BY BreaksAre
  <2> QED
    BY <2>1, FS_EmptySet DEF LineAt
<1>2. ASSUME NEW k \in 0 .. Len(src) - 1
      PROVE  LineAt(src, k + 1) = IF src[k + 1] = "nl" THEN LineAt(src, k) + 1 ELSE LineAt(src, k)
  <2> DEFINE b == Breaks(Prefix(src, k))
  <2>1. /\ b = {i \in 1 .. k : src[i] = "nl"} /\ IsFiniteSet(b)
        /\ Breaks(Prefix(src, k + 1)) = {i \in 1 .. k + 1 : src[i] = "nl"}
    BY BreaksAre
  <2> HIDE DEF b
  <2>2. k + 1 \notin b
    BY <2>1
  <2>3. CASE src[k + 1] = "nl"
    <3>1. Breaks(Prefix(src, k + 1)) = b \cup {k + 1}
      BY <2>1, <2>3
    <3>2. Cardinality(b \cup {k + 1}) = Cardinality(b) + 1
      BY <2>1, <2>2, FS_AddElement
    <3> QED
      BY <2>3, <3>1, <3>2 DEF LineAt, b
  <2>4. CASE src[k + 1] # "nl"
    <3>1. Breaks(Prefix(src, k + 1)) = b
      BY <2>1, <2>4
    <3> QED
      BY <2>4, <3>1 DEF LineAt, b
  <2> QED
    BY <2>3, <2>4
<1> QED
  BY <1>1, <1>2, BreaksAre, WholePrefix DEF LineAt

\* Later places are not on earlier lines.
LEMMA LineGrows ==
  ASSUME NEW src \in Seq(Kinds), NEW j \in 0 .. Len(src), NEW k \in j .. Len(src)
  PROVE  LineAt(src, j) <= LineAt(src, k)
<1> DEFINE T == {n \in Nat : j + n <= Len(src) => LineAt(src, j) <= LineAt(src, j + n)}
<1>1. 0 \in T
  BY LineStep
<1>2. ASSUME NEW n \in Nat, n \in T PROVE n + 1 \in T
  <2> SUFFICES ASSUME j + (n + 1) <= Len(src)
               PROVE  LineAt(src, j) <= LineAt(src, j + (n + 1))
    OBVIOUS
  <2>1. PICK m : m = j + n
    OBVIOUS
  <2>2. m \in 0 .. Len(src) - 1 /\ m + 1 = j + (n + 1) /\ LineAt(src, j) <= LineAt(src, m)
    BY <1>2, <2>1
  <2>3. LineAt(src, j) \in Nat /\ LineAt(src, m) \in Nat
    BY <2>2, LineStep
  <2>4. LineAt(src, m) <= LineAt(src, m + 1)
    BY <2>2, <2>3, LineStep
  <2>5. LineAt(src, m + 1) \in Nat
    BY <2>2, LineStep
  <2> QED
    BY <2>2, <2>3, <2>4, <2>5
<1> HIDE DEF T
<1>3. Nat \subseteq T
  BY <1>1, <1>2, Sizes!NatSet
<1>4. k - j \in T /\ j + (k - j) = k
  BY <1>3
<1> QED
  BY <1>4 DEF T

\* s is where a line starts that goes on at least to k.
RunsFrom(src, s, k) ==
  /\ s \in 0 .. k /\ (s = 0 \/ src[s] = "nl")
  /\ \A i \in s + 1 .. k : src[i] # "nl"

\* The start of its line is the one place from which a run without breaks leads to it.
LEMMA StartIs ==
  ASSUME NEW src \in Seq(Kinds), NEW k \in 0 .. Len(src)
  PROVE  /\ RunsFrom(src, StartAt(src, k), k)
         /\ \A s : RunsFrom(src, s, k) => s = StartAt(src, k)
<1> DEFINE b == {i \in 1 .. k : src[i] = "nl"} \cup {0}
<1>1. StartAt(src, k) = Max(b)
  BY BreaksAre DEF StartAt
<1>2. PICK m : m = Max(b)
  OBVIOUS
<1>3. b \in SUBSET (0 .. k) /\ b # {}
  OBVIOUS
<1>4. k \in Nat
  OBVIOUS
<1>5. m \in b /\ \A y \in b : y <= m
  <2> HIDE DEF b
  <2>1. Sizes!Max(b) \in b /\ \A y \in b : y <= Sizes!Max(b)
    BY <1>3, <1>4, Sizes!MaxOf
  <2> QED
    BY <1>2, <2>1 DEF Max, Sizes!Max
<1>6. RunsFrom(src, m, k)
  BY <1>5 DEF RunsFrom
<1>7. ASSUME NEW s, RunsFrom(src, s, k) PROVE s = m
  <2>1. s \in b /\ s \in 0 .. k
    BY <1>7 DEF RunsFrom
  <2>2. ~(s < m)
    BY <1>5, <1>7, <2>1 DEF RunsFrom
  <2> QED
    BY <1>3, <1>5, <2>1, <2>2
<1> QED
  BY <1>1, <1>2, <1>6, <1>7

\* The character of a place, rune by rune.
LEMMA CharStep ==
  ASSUME NEW src \in Seq(Kinds)
  PROVE  /\ CharAt(src, 0) = 0
         /\ \A k \in 0 .. Len(src) : CharAt(src, k) \in Nat
         /\ \A k \in 0 .. Len(src) - 1 :
              CharAt(src, k + 1) =
                IF src[k + 1] = "nl" THEN 0 ELSE CharAt(src, k) + Width(src[k + 1])
<1>1. ASSUME NEW k \in 0 .. Len(src), StartAt(src, k) = k PROVE CharAt(src, k) = 0
  BY <1>1, PartEmpty, UnitsAre DEF CharAt
<1>2. CharAt(src, 0) = 0
  <2>1. StartAt(src, 0) = 0
    BY StartIs DEF RunsFrom
  <2> QED
    BY <1>1, <2>1
<1>3. ASSUME NEW k \in 0 .. Len(src) PROVE CharAt(src, k) \in Nat
  <2>1. PICK s \in 0 .. k : s = StartAt(src, k)
    BY StartIs DEF RunsFrom
  <2>2. SubSeq(src, s + 1, k) \in Seq(Kinds)
    OBVIOUS
  <2> QED
    BY <2>1, <2>2, UnitsAre DEF CharAt
<1>4. ASSUME NEW k \in 0 .. Len(src) - 1
      PROVE  CharAt(src, k + 1) =
               IF src[k + 1] = "nl" THEN 0 ELSE CharAt(src, k) + Width(src[k + 1])
  <2>1. CASE src[k + 1] = "nl"
    <3>1. RunsFrom(src, k + 1, k + 1) /\ k + 1 \in 0 .. Len(src)
      BY <2>1 DEF RunsFrom
    <3>2. StartAt(src, k + 1) = k + 1
      BY <3>1, StartIs
    <3> QED
      BY <1>1, <2>1, <3>1, <3>2
  <2>2. CASE src[k + 1] # "nl"
    <3>1. PICK s : s = StartAt(src, k) /\ RunsFrom(src, s, k)
      BY StartIs
    <3>2. RunsFrom(src, s, k + 1) /\ k + 1 \in 0 .. Len(src) /\ s \in 0 .. Len(src)
          /\ k \in s .. Len(src) - 1
      BY <2>2, <3>1 DEF RunsFrom
    <3>3. StartAt(src, k + 1) = s
      BY <3>2, StartIs
    <3>4. /\ SubSeq(src, s + 1, k) \in Seq(Kinds) /\ src[k + 1] \in Kinds
          /\ SubSeq(src, s + 1, k + 1) = Append(SubSeq(src, s + 1, k), src[k + 1])
      BY <3>2, PartGrows
    <3>5. PICK p : p = SubSeq(src, s + 1, k)
      OBVIOUS
    <3>6. Units(Append(p, src[k + 1])) = Units(p) + Width(src[k + 1])
      BY <3>4, <3>5, UnitsAre
    <3>7. CharAt(src, k) = Units(p) /\ CharAt(src, k + 1) = Units(Append(p, src[k + 1]))
      BY <3>1, <3>3, <3>4, <3>5 DEF CharAt
    <3> QED
      BY <2>2, <3>6, <3>7
  <2> QED
    BY <2>1, <2>2
<1> QED
  BY <1>2, <1>3, <1>4

\* Further on a line are more code units.
LEMMA CharGrows ==
  ASSUME NEW src \in Seq(Kinds), NEW j \in 0 .. Len(src), NEW k \in j + 1 .. Len(src),
         LineAt(src, j) = LineAt(src, k)
  PROVE  CharAt(src, j) < CharAt(src, k)
<1> DEFINE T == {n \in Nat : j + 1 + n <= Len(src) /\ LineAt(src, j) = LineAt(src, j + 1 + n) =>
                   CharAt(src, j) < CharAt(src, j + 1 + n)}
<1>0. ASSUME NEW m \in 0 .. Len(src) - 1, LineAt(src, m) = LineAt(src, m + 1)
      PROVE  CharAt(src, m) < CharAt(src, m + 1)
  <2>1. LineAt(src, m) \in Nat /\ CharAt(src, m) \in Nat /\ src[m + 1] \in Kinds
    BY LineStep, CharStep
  <2>2. src[m + 1] # "nl"
    BY <1>0, <2>1, LineStep
  <2>3. CharAt(src, m + 1) = CharAt(src, m) + Width(src[m + 1])
    BY <2>2, CharStep
  <2> QED
    BY <2>1, <2>3, RuneSize
<1>1. 0 \in T
  <2>1. j \in 0 .. Len(src) - 1 /\ j + 1 + 0 = j + 1
    OBVIOUS
  <2> QED
    BY <1>0, <2>1
<1>2. ASSUME NEW n \in Nat, n \in T PROVE n + 1 \in T
  <2> SUFFICES ASSUME j + 1 + (n + 1) <= Len(src),
                      LineAt(src, j) = LineAt(src, j + 1 + (n + 1))
               PROVE  CharAt(src, j) < CharAt(src, j + 1 + (n + 1))
    OBVIOUS
  <2>1. PICK m : m = j + 1 + n
    OBVIOUS
  <2>2. m \in j .. Len(src) /\ m \in 0 .. Len(src) - 1 /\ m + 1 = j + 1 + (n + 1)
        /\ m + 1 \in m .. Len(src) /\ m \in 0 .. Len(src) /\ m + 1 \in 0 .. Len(src)
    BY <2>1
  <2>3. LineAt(src, j) \in Nat /\ LineAt(src, m) \in Nat /\ LineAt(src, m + 1) \in Nat
    BY <2>2, LineStep
  <2>4. LineAt(src, j) <= LineAt(src, m) /\ LineAt(src, m) <= LineAt(src, m + 1)
    BY <2>2, LineGrows
  <2>5. LineAt(src, j) = LineAt(src, m) /\ LineAt(src, m) = LineAt(src, m + 1)
    BY <2>2, <2>3, <2>4
  <2>6. CharAt(src, m) < CharAt(src, m + 1)
    BY <1>0, <2>2, <2>5
  <2>7. CharAt(src, j) < CharAt(src, m)
    BY <1>2, <2>1, <2>2, <2>5
  <2>8. CharAt(src, j) \in Nat /\ CharAt(src, m) \in Nat /\ CharAt(src, m + 1) \in Nat
    BY <2>2, CharStep
  <2> QED
    BY <2>2, <2>6, <2>7, <2>8
<1> HIDE DEF T
<1>3. Nat \subseteq T
  BY <1>1, <1>2, Sizes!NatSet
<1>4. k - j - 1 \in T /\ j + 1 + (k - j - 1) = k
  BY <1>3
<1> QED
  BY <1>4 DEF T
-----------------------------------------------------------------------------
(* The positions. *)

Pos(src, k) == [line |-> LineAt(src, k), character |-> CharAt(src, k)]

\* What LSP means by the position of a place is a fold.
LEMMA PositionIsFold ==
  \A src, k : PositionAfter(src, k) =
                Walking!Fold([line |-> 0, character |-> 0], Prefix(src, k))
BY DEF PositionAfter, Walking!Fold, FoldLeft, Walking!FoldLeft, MapThenFoldSet,
       Walking!MapThenFoldSet, Max, Walking!Max

\* The walk of LSP arrives at the line and at the code units of that line.
LEMMA PositionIs ==
  ASSUME NEW src \in Seq(Kinds)
  PROVE  \A k \in 0 .. Len(src) : PositionAfter(src, k) = Pos(src, k)
<1> DEFINE zero == [line |-> 0, character |-> 0]
           T == {k \in Nat : k <= Len(src) => Walking!Fold(zero, Prefix(src, k)) = Pos(src, k)}
<1>1. 0 \in T
  <2>1. Walking!Fold(zero, Prefix(src, 0)) = zero
    BY WholePrefix, Walking!FoldEmpty
  <2>2. Pos(src, 0) = zero
    BY LineStep, CharStep DEF Pos
  <2> QED
    BY <2>1, <2>2
<1>2. ASSUME NEW k \in Nat, k \in T PROVE k + 1 \in T
  <2> SUFFICES ASSUME k + 1 <= Len(src)
               PROVE  Walking!Fold(zero, Prefix(src, k + 1)) = Pos(src, k + 1)
    OBVIOUS
  <2> DEFINE r == src[k + 1]
  <2>1. /\ k \in 0 .. Len(src) - 1 /\ k \in 0 .. Len(src)
        /\ Walking!Fold(zero, Prefix(src, k)) = Pos(src, k)
    BY <1>2
  <2>2. r \in Kinds /\ Prefix(src, k) \in Seq(Kinds)
    BY <2>1, PrefixIs
  <2>3. Prefix(src, k + 1) = Append(Prefix(src, k), r)
    BY <2>1, PrefixGrows
  <2>4. Walking!Fold(zero, Append(Prefix(src, k), r)) = Advance(Pos(src, k), r)
    BY <2>1, <2>2, Walking!FoldAppend
  <2>5. Advance(Pos(src, k), r) = Pos(src, k + 1)
    <3>1. Width(r) = IF r = "emoji" THEN 2 ELSE 1
      BY DEF Width
    <3>2. LineAt(src, k + 1) = IF r = "nl" THEN LineAt(src, k) + 1 ELSE LineAt(src, k)
      BY <2>1, LineStep
    <3>3. CharAt(src, k + 1) = IF r = "nl" THEN 0 ELSE CharAt(src, k) + Width(r)
      BY <2>1, CharStep
    <3> HIDE DEF r
    <3> QED
      BY <3>1, <3>2, <3>3 DEF Advance, Pos
  <2> QED
    BY <2>3, <2>4, <2>5
<1> HIDE DEF T
<1>3. Nat \subseteq T
  BY <1>1, <1>2, Sizes!NatSet
<1> QED
  BY <1>3, PositionIsFold DEF T

\* The runes before an offset between two runes are counted right,
LEMMA RunesCounted ==
  ASSUME NEW src \in Seq(Kinds), NEW k \in 0 .. Len(src)
  PROVE  Cardinality({j \in DOMAIN src : At(src, j - 1) < At(src, k)}) = k
<1>1. ASSUME NEW j \in 1 .. Len(src) PROVE At(src, j - 1) < At(src, k) <=> j <= k
  <2>1. PICK i \in 0 .. Len(src) - 1 : i = j - 1
    OBVIOUS
  <2>2. At(src, i) \in Nat /\ At(src, k) \in Nat
    BY AtStep
  <2>3. i < k => At(src, i) < At(src, k)
    BY AtGrows
  <2>4. i = k => At(src, i) = At(src, k)
    OBVIOUS
  <2>5. k < i => At(src, k) < At(src, i)
    BY AtGrows
  <2> QED
    BY <2>1, <2>2, <2>3, <2>4, <2>5
<1>2. {j \in DOMAIN src : At(src, j - 1) < At(src, k)} = 1 .. k
  BY <1>1
<1>3. Cardinality(1 .. k) = k
  BY FS_Interval
<1> QED
  BY <1>2, <1>3

\* so that ByteToLSP yields the position there.
LEMMA ByteToLSPIs ==
  ASSUME NEW src \in Seq(Kinds), NEW k \in 0 .. Len(src)
  PROVE  ByteToLSP(src, Bytes(Prefix(src, k))) = PositionAfter(src, k)
<1> DEFINE o == At(src, k)
           b == Min({Max({o, 0}), Bytes(src)})
<1>1. o \in Nat /\ Bytes(src) \in Nat /\ o <= Bytes(src)
  <2>1. At(src, k) \in Nat /\ At(src, Len(src)) = Bytes(src)
    BY AtStep
  <2>2. Bytes(src) \in Nat
    BY BytesAre
  <2>3. k < Len(src) => At(src, k) < At(src, Len(src))
    BY AtGrows
  <2> QED
    BY <2>1, <2>2, <2>3
<1>2. b = o
  <2>1. PICK n \in Nat : n = o
    BY <1>1
  <2>2. PICK z \in Nat : z = Bytes(src)
    BY <1>1
  <2>3. n <= z
    BY <1>1, <2>1, <2>2
  <2>4. Max({n, 0}) = n
    BY DEF Max
  <2>5. Min({n, z}) = n
    BY <2>3 DEF Min
  <2> QED
    BY <2>1, <2>2, <2>4, <2>5
<1>3. Cardinality({j \in DOMAIN src : Bytes(Prefix(src, j - 1)) < b}) = k
  <2>1. Cardinality({j \in DOMAIN src : At(src, j - 1) < o}) = k
    BY RunesCounted
  <2> QED
    BY <1>2, <2>1 DEF At
<1>4. ByteToLSP(src, o) = Pos(src, k)
  <2> HIDE DEF b
  <2> QED
    BY <1>3 DEF ByteToLSP, Pos, LineAt, CharAt, StartAt, b
<1> QED
  BY <1>4, PositionIs DEF At

-----------------------------------------------------------------------------
(* The scan for a position. *)

\* Places without a line feed between them are on the same line.
LEMMA RunStays ==
  ASSUME NEW src \in Seq(Kinds), NEW k \in 0 .. Len(src), NEW s, RunsFrom(src, s, k)
  PROVE  s \in 0 .. Len(src) /\ LineAt(src, s) = LineAt(src, k)
<1>1. s \in 0 .. Len(src)
  BY DEF RunsFrom
<1>2. {i \in 1 .. s : src[i] = "nl"} = {i \in 1 .. k : src[i] = "nl"}
  BY DEF RunsFrom
<1> QED
  BY <1>1, <1>2, BreaksAre DEF LineAt

\* The places of a line come after its start, without a line feed between them.
LEMMA OnLine ==
  ASSUME NEW src \in Seq(Kinds), NEW s \in 0 .. Len(src), s = 0 \/ src[s] = "nl",
         NEW k \in 0 .. Len(src), LineAt(src, k) = LineAt(src, s)
  PROVE  RunsFrom(src, s, k) /\ CharAt(src, k) = Units(SubSeq(src, s + 1, k))
<1>0. ASSUME NEW i \in 1 .. Len(src), src[i] = "nl", NEW j \in 0 .. i - 1
      PROVE  LineAt(src, j) < LineAt(src, i)
  <2>1. PICK h \in 0 .. Len(src) - 1 : h = i - 1
    OBVIOUS
  <2>2. h + 1 = i /\ j \in 0 .. Len(src) /\ h \in j .. Len(src) /\ h \in 0 .. Len(src)
    BY <2>1
  <2>3. LineAt(src, j) <= LineAt(src, h)
    BY <2>2, LineGrows
  <2>4. LineAt(src, i) = LineAt(src, h) + 1
    BY <1>0, <2>2, LineStep
  <2>5. LineAt(src, j) \in Nat /\ LineAt(src, h) \in Nat
    BY <2>2, LineStep
  <2> QED
    BY <2>3, <2>4, <2>5
<1>1. s <= k
  <2> SUFFICES ASSUME k < s PROVE FALSE
    OBVIOUS
  <2>1. s \in 1 .. Len(src) /\ src[s] = "nl" /\ k \in 0 .. s - 1
    OBVIOUS
  <2>2. LineAt(src, k) < LineAt(src, s)
    BY <1>0, <2>1
  <2>3. LineAt(src, k) \in Nat
    BY LineStep
  <2> QED
    BY <2>2, <2>3
<1>2. ASSUME NEW i \in s + 1 .. k PROVE src[i] # "nl"
  <2> SUFFICES ASSUME src[i] = "nl" PROVE FALSE
    OBVIOUS
  <2>1. i \in 1 .. Len(src) /\ s \in 0 .. i - 1 /\ i \in 0 .. Len(src) /\ k \in i .. Len(src)
    OBVIOUS
  <2>2. LineAt(src, s) < LineAt(src, i)
    BY <1>0, <2>1
  <2>3. LineAt(src, i) <= LineAt(src, k)
    BY <2>1, LineGrows
  <2>4. LineAt(src, s) \in Nat /\ LineAt(src, i) \in Nat
    BY <2>1, LineStep
  <2> QED
    BY <2>2, <2>3, <2>4
<1>3. RunsFrom(src, s, k)
  BY <1>1, <1>2 DEF RunsFrom
<1>4. StartAt(src, k) = s
  BY <1>3, StartIs
<1> QED
  BY <1>3, <1>4 DEF CharAt

\* Every line of the text has a start, which the scan of the lines finds.
LEMMA LineStartIs ==
  ASSUME NEW src \in Seq(Kinds), NEW l \in 0 .. Cardinality(Breaks(src))
  PROVE  /\ LineStart(src, l) \in 0 .. Len(src) /\ LineAt(src, LineStart(src, l)) = l
         /\ LineStart(src, l) = 0 \/ src[LineStart(src, l)] = "nl"
<1> DEFINE after == {k \in 0 .. Len(src) : l <= LineAt(src, k)}
           starts == {0} \cup {k \in Breaks(src) : LineAt(src, k) <= l}
<1>0. LineStart(src, l) = Max(starts)
  BY DEF LineStart, LineAt
<1>1. l \in Nat /\ l <= LineAt(src, Len(src)) /\ \A k \in 0 .. Len(src) : LineAt(src, k) \in Nat
  <2>1. Cardinality(Breaks(src)) \in Nat
    BY LineStep
  <2> QED
    BY <2>1, LineStep
<1>2. PICK m : m \in after /\ \A y \in after : m <= y
  <2>1. after \in SUBSET Nat /\ after # {}
    BY <1>1
  <2> HIDE DEF after
  <2> QED
    BY <2>1, Sizes!MinOf
<1>3. LineAt(src, m) = l /\ (m = 0 \/ src[m] = "nl")
  <2>1. CASE m = 0
    BY <1>1, <1>2, <2>1, LineStep
  <2>2. CASE m # 0
    <3>1. PICK h \in 0 .. Len(src) - 1 : h + 1 = m
      BY <1>2, <2>2
    <3>2. ~(l <= LineAt(src, h))
      BY <1>2, <3>1
    <3>3. LineAt(src, h) \in Nat /\ l <= LineAt(src, m)
      BY <1>1, <1>2
    <3>4. LineAt(src, m) = IF src[m] = "nl" THEN LineAt(src, h) + 1 ELSE LineAt(src, h)
      BY <3>1, LineStep
    <3> QED
      BY <1>1, <3>2, <3>3, <3>4
  <2> QED
    BY <2>1, <2>2
<1>4. m \in starts
  BY <1>1, <1>2, <1>3 DEF Breaks
<1>5. ASSUME NEW k \in starts PROVE m >= k
  <2> SUFFICES ASSUME m < k PROVE FALSE
    BY <1>2 DEF Breaks
  <2>1. PICK h \in 0 .. Len(src) - 1 : h + 1 = k /\ src[k] = "nl" /\ LineAt(src, k) <= l
    <3>1. k \in 1 .. Len(src) /\ src[k] = "nl" /\ LineAt(src, k) <= l
      BY <1>2 DEF Breaks
    <3>2. k - 1 \in 0 .. Len(src) - 1 /\ k - 1 + 1 = k
      BY <3>1
    <3> QED
      BY <3>1, <3>2
  <2>2. LineAt(src, k) = LineAt(src, h) + 1
    BY <2>1, LineStep
  <2>3. m \in 0 .. Len(src) /\ h \in m .. Len(src) /\ h \in 0 .. Len(src)
    BY <1>2, <2>1
  <2>4. LineAt(src, m) <= LineAt(src, h) /\ LineAt(src, h) \in Nat
    BY <1>1, <2>3, LineGrows
  <2> QED
    BY <1>1, <1>3, <2>1, <2>2, <2>4
<1>6. Max(starts) = m
  <2>1. starts \in SUBSET Nat
    BY DEF Breaks
  <2> HIDE DEF starts
  <2>2. \A x \in starts : (\A y \in starts : x >= y) => x = m
    BY <1>4, <1>5, <2>1
  <2> QED
    BY <1>4, <1>5, <2>2 DEF Max
<1> QED
  BY <1>0, <1>2, <1>3, <1>6

\* The place LSPToByte yields the offset of.
RunesAt(src, line, character) ==
  LET start == LineStart(src, line)
      Stop(k) == \/ k = Len(src)
                 \/ Units(SubSeq(src, start + 1, k)) >= character
                 \/ src[k + 1] = "nl"
  IN  IF line > Cardinality(Breaks(src))
        THEN Len(src)
        ELSE Min({k \in start .. Len(src) : Stop(k)})

\* LSPToByte goes to a place between two runes.
LEMMA LSPToByteIs ==
  ASSUME NEW src \in Seq(Kinds), NEW line \in Nat, NEW character
  PROVE  LSPToByte(src, line, character) = At(src, RunesAt(src, line, character))
<1>1. Max({line, 0}) = line
  BY DEF Max
<1>2. At(src, Len(src)) = Bytes(src)
  BY AtStep
<1> QED
  BY <1>1, <1>2 DEF LSPToByte, RunesAt, At

\* The scan may stop at k, the place of the position or the end of its line.
MayStop(src, k, character) ==
  k = Len(src) \/ CharAt(src, k) >= character \/ src[k + 1] = "nl"

\* It stops at the first place of the line where it may.
LEMMA ScanIs ==
  ASSUME NEW src \in Seq(Kinds), NEW line \in 0 .. Cardinality(Breaks(src)), NEW character \in Nat,
         NEW k, k = RunesAt(src, line, character)
  PROVE  /\ k \in 0 .. Len(src) /\ LineAt(src, k) = line /\ MayStop(src, k, character)
         /\ \A j \in 0 .. Len(src) :
              LineAt(src, j) = line /\ MayStop(src, j, character) => k <= j
<1>1. PICK s : s = LineStart(src, line)
  OBVIOUS
<1>2. s \in 0 .. Len(src) /\ LineAt(src, s) = line /\ (s = 0 \/ src[s] = "nl")
  BY <1>1, LineStartIs
<1> DEFINE Stop(j) == j = Len(src) \/ Units(SubSeq(src, s + 1, j)) >= character \/ src[j + 1] = "nl"
           stops == {j \in s .. Len(src) : Stop(j)}
<1>3. k = Min(stops)
  <2>1. Cardinality(Breaks(src)) \in Nat
    BY LineStep
  <2>2. ~(line > Cardinality(Breaks(src)))
    BY <2>1
  <2> QED
    BY <1>1, <2>2 DEF RunesAt
<1>4. k \in stops /\ \A j \in stops : k <= j
  <2>1. stops \in SUBSET Nat /\ Len(src) \in stops
    BY <1>2
  <2> HIDE DEF stops
  <2>2. Sizes!Min(stops) \in stops /\ \A j \in stops : Sizes!Min(stops) <= j
    BY <2>1, Sizes!MinOf
  <2> QED
    BY <1>3, <2>2 DEF Min, Sizes!Min
<1>5. RunsFrom(src, s, k)
  <2>1. ASSUME NEW i \in s + 1 .. k PROVE src[i] # "nl"
    <3>1. i - 1 \in s .. Len(src) /\ i - 1 < k /\ i - 1 + 1 = i
      BY <1>2, <1>4
    <3>2. i - 1 \notin stops
      BY <1>2, <1>4, <3>1
    <3> QED
      BY <3>1, <3>2
  <2> QED
    BY <1>2, <1>4, <2>1 DEF RunsFrom
<1>6. k \in 0 .. Len(src) /\ LineAt(src, k) = line
  <2>1. k \in 0 .. Len(src)
    BY <1>2, <1>4
  <2> QED
    BY <1>2, <1>5, <2>1, RunStays
<1>7. ASSUME NEW j \in 0 .. Len(src), LineAt(src, j) = line
      PROVE  j \in s .. Len(src) /\ CharAt(src, j) = Units(SubSeq(src, s + 1, j))
  BY <1>2, <1>7, OnLine DEF RunsFrom
<1>8. MayStop(src, k, character)
  BY <1>4, <1>6, <1>7 DEF MayStop
<1>9. ASSUME NEW j \in 0 .. Len(src), LineAt(src, j) = line, MayStop(src, j, character)
      PROVE  k <= j
  <2>1. j \in stops
    BY <1>7, <1>9 DEF MayStop
  <2> QED
    BY <1>4, <2>1
<1> QED
  BY <1>6, <1>8, <1>9

-----------------------------------------------------------------------------
(* What the conversions mean. *)

\* From the position at a place the scan comes back to that place.
LEMMA ScanReturns ==
  ASSUME NEW src \in Seq(Kinds), NEW k \in 0 .. Len(src)
  PROVE  RunesAt(src, LineAt(src, k), CharAt(src, k)) = k
<1>1. PICK line : line = LineAt(src, k)
  OBVIOUS
<1>2. PICK c \in Nat : c = CharAt(src, k)
  BY CharStep
<1>3. line \in 0 .. Cardinality(Breaks(src))
  <2>1. k \in 0 .. Len(src) /\ Len(src) \in k .. Len(src) /\ Len(src) \in 0 .. Len(src)
    OBVIOUS
  <2>2. LineAt(src, k) <= LineAt(src, Len(src))
    BY <2>1, LineGrows
  <2> QED
    BY <1>1, <2>2, LineStep
<1>4. PICK m : m = RunesAt(src, line, c)
  OBVIOUS
<1>5. /\ m \in 0 .. Len(src) /\ LineAt(src, m) = line /\ MayStop(src, m, c)
      /\ \A j \in 0 .. Len(src) : LineAt(src, j) = line /\ MayStop(src, j, c) => m <= j
  BY <1>3, <1>4, ScanIs
<1>6. m <= k
  BY <1>1, <1>2, <1>5 DEF MayStop
<1>7. ~(m < k)
  <2> SUFFICES ASSUME m < k PROVE FALSE
    OBVIOUS
  <2>1. m \in 0 .. Len(src) - 1 /\ m + 1 \in 0 .. Len(src) /\ m + 1 \in m .. Len(src)
        /\ k \in m + 1 .. Len(src)
    BY <1>5
  <2>2. CharAt(src, m) < c
    BY <1>1, <1>2, <1>5, <2>1, CharGrows
  <2>3. src[m + 1] = "nl"
    BY <1>5, <2>1, <2>2, CharStep DEF MayStop
  <2>4. LineAt(src, m + 1) = LineAt(src, m) + 1
    BY <2>1, <2>3, LineStep
  <2>5. LineAt(src, m + 1) <= LineAt(src, k)
    BY <2>1, LineGrows
  <2>6. LineAt(src, m) \in Nat
    BY <1>5, LineStep
  <2> QED
    BY <1>1, <1>5, <2>4, <2>5, <2>6
<1> QED
  BY <1>1, <1>2, <1>4, <1>5, <1>6, <1>7

\* LSPToByte is the inverse of ByteToLSP between runes.
LEMMA RoundTripAt ==
  ASSUME NEW src \in Seq(Kinds), NEW k \in 0 .. Len(src), NEW p,
         p = ByteToLSP(src, Bytes(Prefix(src, k)))
  PROVE  LSPToByte(src, p.line, p.character) = Bytes(Prefix(src, k))
<1>1. p = Pos(src, k)
  BY ByteToLSPIs, PositionIs
<1>2. p.line = LineAt(src, k) /\ p.character = CharAt(src, k) /\ p.line \in Nat
  BY <1>1, LineStep DEF Pos
<1>3. RunesAt(src, p.line, p.character) = k
  BY <1>2, ScanReturns
<1> QED
  BY <1>2, <1>3, LSPToByteIs DEF At

LspPosition == [line : Nat, character : Nat]

\* Unless it stops behind half a surrogate pair, the scan finds the last place that
\* is not after the position.
LEMMA ScanMeans ==
  ASSUME NEW src \in Seq(Kinds), NEW p \in LspPosition, ~SplitsPair(src, p)
  PROVE  RunesAt(src, p.line, p.character) = RunesBefore(src, p)
<1>0. PICK line, c : line = p.line /\ c = p.character /\ p = [line |-> line, character |-> c]
                     /\ line \in Nat /\ c \in Nat
  BY DEF LspPosition
<1>1. Cardinality(Breaks(src)) \in Nat
  BY LineStep
<1>2. CASE line > Cardinality(Breaks(src))
  BY <1>0, <1>2 DEF RunesAt, RunesBefore
<1>3. CASE line <= Cardinality(Breaks(src))
  <2> DEFINE upTo == {k \in 0 .. Len(src) : LineAt(src, k) = line /\ CharAt(src, k) <= c}
  <2>0. RunesBefore(src, p) = Max(upTo)
    <3>1. ASSUME NEW k \in 0 .. Len(src)
          PROVE  /\ PositionAfter(src, k).line = LineAt(src, k)
                 /\ PositionAfter(src, k).character = CharAt(src, k)
      BY PositionIs DEF Pos
    <3>2. upTo = {k \in 0 .. Len(src) : LET q == PositionAfter(src, k)
                                        IN  q.line = p.line /\ q.character <= p.character}
      BY <1>0, <3>1
    <3>3. ~(p.line > Cardinality(Breaks(src)))
      BY <1>0, <1>1, <1>3
    <3> HIDE DEF upTo
    <3> QED
      BY <3>2, <3>3 DEF RunesBefore
  <2>1. PICK m : m = RunesAt(src, line, c)
    OBVIOUS
  <2>2. /\ m \in 0 .. Len(src) /\ LineAt(src, m) = line /\ MayStop(src, m, c)
        /\ \A j \in 0 .. Len(src) : LineAt(src, j) = line /\ MayStop(src, j, c) => m <= j
    <3>1. line \in 0 .. Cardinality(Breaks(src))
      BY <1>0, <1>1, <1>3
    <3>2. c \in Nat
      BY <1>0
    <3> QED
      BY <2>1, <3>1, <3>2, ScanIs
  <2>3. CharAt(src, m) <= c
    <3> SUFFICES ASSUME CharAt(src, m) > c PROVE FALSE
      BY <1>0, <2>2, CharStep
    <3>1. CharAt(src, m) \in Nat
      BY <2>2, CharStep
    <3>2. m # 0
      BY <1>0, <3>1, CharStep
    <3>3. PICK h \in 0 .. Len(src) - 1 : h + 1 = m
      <4>1. m - 1 \in 0 .. Len(src) - 1 /\ m - 1 + 1 = m
        BY <2>2, <3>2
      <4> QED
        BY <4>1
    <3>4. CharAt(src, h) \in Nat /\ src[m] \in Kinds /\ h \in 0 .. Len(src)
      BY <3>3, CharStep
    <3>5. CharAt(src, m) = CharAt(src, h) + Width(src[m]) /\ LineAt(src, h) = line /\ src[m] # "nl"
      <4>1. src[m] # "nl"
        <5>1. src[h + 1] = "nl" => CharAt(src, h + 1) = 0
          BY <3>3, CharStep
        <5>2. c \in Nat
          BY <1>0
        <5> QED
          BY <3>1, <3>3, <5>1, <5>2
      <4> QED
        BY <2>2, <3>3, <4>1, CharStep, LineStep
    <3>6. CharAt(src, h) < c
      <4>1. ~MayStop(src, h, c)
        BY <2>2, <3>3, <3>4, <3>5
      <4> QED
        BY <1>0, <3>4, <4>1 DEF MayStop
    <3>7. src[m] = "emoji" /\ CharAt(src, m) - 1 = c
      <4>1. PICK w : w = Width(src[m])
        OBVIOUS
      <4>2. w \in {1, 2} /\ (w = 2 => src[m] = "emoji")
        BY <3>4, <4>1, RuneSize
      <4>3. PICK x, y : x = CharAt(src, m) /\ y = CharAt(src, h)
        OBVIOUS
      <4>4. x \in Nat /\ y \in Nat /\ x = y + w /\ x > c /\ y < c /\ c \in Nat
        BY <1>0, <3>1, <3>4, <3>5, <3>6, <4>1, <4>3
      <4>5. w = 2 /\ x - 1 = c
        BY <4>2, <4>4
      <4> QED
        BY <4>2, <4>3, <4>5
    <3>8. PositionAfter(src, m) = [line |-> line, character |-> CharAt(src, m)]
      BY <2>2, PositionIs DEF Pos
    <3>9. p = [PositionAfter(src, m) EXCEPT !.character = @ - 1]
      BY <1>0, <3>7, <3>8
    <3>10. m \in DOMAIN src
      BY <3>3
    <3> QED
      BY <3>7, <3>9, <3>10 DEF SplitsPair
  <2>4. m \in upTo
    BY <2>2, <2>3
  <2>5. ASSUME NEW k \in upTo PROVE m >= k
    <3> SUFFICES ASSUME m < k PROVE FALSE
      BY <2>2
    <3>1. /\ m \in 0 .. Len(src) - 1 /\ m + 1 \in 0 .. Len(src) /\ m + 1 \in m .. Len(src)
          /\ k \in m + 1 .. Len(src) /\ k \in 0 .. Len(src)
      BY <2>2
    <3>2. CharAt(src, m) < CharAt(src, k)
      BY <2>2, <3>1, CharGrows
    <3>3. CharAt(src, k) <= c /\ CharAt(src, m) \in Nat /\ CharAt(src, k) \in Nat
      BY <2>2, <3>1, CharStep
    <3>4. src[m + 1] = "nl"
      BY <1>0, <2>2, <3>1, <3>2, <3>3 DEF MayStop
    <3>5. LineAt(src, m + 1) = LineAt(src, m) + 1 /\ LineAt(src, m) \in Nat
      BY <3>1, <3>4, LineStep
    <3>6. LineAt(src, m + 1) <= LineAt(src, k)
      BY <3>1, LineGrows
    <3> QED
      BY <2>2, <3>5, <3>6
  <2>6. Max(upTo) = m
    <3>1. upTo \in SUBSET Nat
      OBVIOUS
    <3> HIDE DEF upTo
    <3>2. \A x \in upTo : (\A y \in upTo : x >= y) => x = m
      BY <2>4, <2>5, <3>1
    <3> QED
      BY <2>4, <2>5, <3>2 DEF Max
  <2> QED
    BY <1>0, <2>0, <2>1, <2>6
<1> QED
  BY <1>0, <1>1, <1>2, <1>3

\* LSPToByte yields the offset of what LSP means.
LEMMA LSPToByteMeans ==
  ASSUME NEW src \in Seq(Kinds), NEW p \in LspPosition, ~SplitsPair(src, p)
  PROVE  LSPToByte(src, p.line, p.character) = Bytes(Prefix(src, RunesBefore(src, p)))
BY ScanMeans, LSPToByteIs DEF At, LspPosition

\* That place is in the text.
LEMMA RunesAtType ==
  ASSUME NEW src \in Seq(Kinds), NEW p \in LspPosition
  PROVE  RunesAt(src, p.line, p.character) \in 0 .. Len(src)
<1>1. p.line \in Nat /\ p.character \in Nat /\ Cardinality(Breaks(src)) \in Nat
  BY LineStep DEF LspPosition
<1>2. CASE p.line > Cardinality(Breaks(src))
  BY <1>2 DEF RunesAt
<1>3. CASE p.line \in 0 .. Cardinality(Breaks(src))
  BY <1>1, <1>3, ScanIs
<1> QED
  BY <1>1, <1>2, <1>3

\* The order of positions is kept,
LEMMA ScanMonotone ==
  ASSUME NEW src \in Seq(Kinds), NEW p \in LspPosition, NEW q \in LspPosition, NotAfter(p, q)
  PROVE  RunesAt(src, p.line, p.character) <= RunesAt(src, q.line, q.character)
<1> DEFINE n == Cardinality(Breaks(src))
<1>1. /\ p.line \in Nat /\ p.character \in Nat /\ q.line \in Nat /\ q.character \in Nat
      /\ n \in Nat
  BY LineStep DEF LspPosition
<1>2. PICK a : a = RunesAt(src, p.line, p.character)
  OBVIOUS
<1>3. PICK b : b = RunesAt(src, q.line, q.character)
  OBVIOUS
<1>4. a \in 0 .. Len(src) /\ b \in 0 .. Len(src)
  BY <1>2, <1>3, RunesAtType
<1>5. CASE q.line > n
  <2>1. b = Len(src)
    BY <1>3, <1>5 DEF RunesAt
  <2> QED
    BY <1>2, <1>3, <1>4, <2>1
<1>6. CASE q.line <= n
  <2>1. p.line \in 0 .. n /\ q.line \in 0 .. n
    BY <1>1, <1>6 DEF NotAfter
  <2> HIDE DEF n
  <2>2. /\ LineAt(src, a) = p.line
        /\ \A j \in 0 .. Len(src) :
             LineAt(src, j) = p.line /\ MayStop(src, j, p.character) => a <= j
    <3>1. p.line \in 0 .. Cardinality(Breaks(src)) /\ p.character \in Nat
      BY <1>1, <2>1 DEF n
    <3> QED
      BY <1>2, <3>1, ScanIs
  <2>3. LineAt(src, b) = q.line /\ MayStop(src, b, q.character)
    <3>1. q.line \in 0 .. Cardinality(Breaks(src)) /\ q.character \in Nat
      BY <1>1, <2>1 DEF n
    <3> QED
      BY <1>3, <3>1, ScanIs
  <2>4. CASE p.line = q.line /\ p.character <= q.character
    <3>1. CharAt(src, b) \in Nat
      BY <1>4, CharStep
    <3>2. MayStop(src, b, p.character)
      BY <1>1, <2>3, <2>4, <3>1 DEF MayStop
    <3> QED
      BY <1>2, <1>3, <1>4, <2>2, <2>3, <2>4, <3>2
  <2>5. CASE p.line < q.line
    <3> SUFFICES ASSUME b < a PROVE FALSE
      BY <1>2, <1>3, <1>4
    <3>1. a \in b .. Len(src)
      BY <1>4
    <3>2. LineAt(src, b) <= LineAt(src, a)
      BY <1>4, <3>1, LineGrows
    <3> QED
      BY <1>1, <2>2, <2>3, <2>5, <3>2
  <2> QED
    BY <2>4, <2>5 DEF NotAfter
<1> QED
  BY <1>1, <1>5, <1>6

\* by the offsets as well.
LEMMA LSPToByteMonotone ==
  ASSUME NEW src \in Seq(Kinds), NEW p \in LspPosition, NEW q \in LspPosition, NotAfter(p, q)
  PROVE  /\ LSPToByte(src, p.line, p.character) \in Nat
         /\ LSPToByte(src, q.line, q.character) \in Nat
         /\ LSPToByte(src, p.line, p.character) <= LSPToByte(src, q.line, q.character)
<1>1. PICK a : a = RunesAt(src, p.line, p.character)
  OBVIOUS
<1>2. PICK b : b = RunesAt(src, q.line, q.character)
  OBVIOUS
<1>3. a \in 0 .. Len(src) /\ b \in 0 .. Len(src) /\ a <= b
  BY <1>1, <1>2, RunesAtType, ScanMonotone
<1>4. LSPToByte(src, p.line, p.character) = At(src, a)
      /\ LSPToByte(src, q.line, q.character) = At(src, b)
  BY <1>1, <1>2, LSPToByteIs DEF LspPosition
<1>5. At(src, a) \in Nat /\ At(src, b) \in Nat
  BY <1>3, AtStep
<1>6. At(src, a) <= At(src, b)
  <2>1. CASE a = b
    BY <1>5, <2>1
  <2>2. CASE a < b
    <3>1. At(src, a) < At(src, b)
      BY <1>3, <2>2, AtGrows
    <3> QED
      BY <1>5, <3>1
  <2> QED
    BY <1>3, <2>1, <2>2
<1> QED
  BY <1>4, <1>5, <1>6

-----------------------------------------------------------------------------
(* Parts of a text. *)

\* Bytes add up.
LEMMA BytesConcat ==
  ASSUME NEW s \in Seq(Kinds), NEW u \in Seq(Kinds)
  PROVE  Bytes(s \o u) = Bytes(s) + Bytes(u)
<1> DEFINE T == {r \in Seq(Kinds) : Bytes(s \o r) = Bytes(s) + Bytes(r)}
<1>1. <<>> \in T
  BY BytesAre
<1>2. ASSUME NEW r \in Seq(Kinds), NEW e \in Kinds, r \in T PROVE Append(r, e) \in T
  <2>1. s \o Append(r, e) = Append(s \o r, e) /\ s \o r \in Seq(Kinds)
    OBVIOUS
  <2>2. Bytes(Append(s \o r, e)) = Bytes(s \o r) + Size[e]
    BY <2>1, BytesAre
  <2>3. Bytes(Append(r, e)) = Bytes(r) + Size[e]
    BY BytesAre
  <2>4. Bytes(s) \in Nat /\ Bytes(r) \in Nat /\ Size[e] \in Nat
    BY BytesAre, RuneSize
  <2>5. Bytes(s \o Append(r, e)) = Bytes(s) + Bytes(Append(r, e))
    BY <1>2, <2>1, <2>2, <2>3, <2>4
  <2> QED
    BY <2>5
<1> HIDE DEF T
<1>3. Seq(Kinds) \subseteq T
  BY <1>1, <1>2, Sizes!SeqSet
<1> QED
  BY <1>3 DEF T

\* What a concatenation is, rune by rune.
LEMMA ConcatIs ==
  ASSUME NEW S, NEW p \in Seq(S), NEW u \in Seq(S)
  PROVE  /\ p \o u \in Seq(S) /\ Len(p \o u) = Len(p) + Len(u)
         /\ \A i \in 1 .. Len(p) + Len(u) :
              (p \o u)[i] = IF i <= Len(p) THEN p[i] ELSE u[i - Len(p)]
OBVIOUS

\* What lies between two places.
LEMMA PartBytes ==
  ASSUME NEW src \in Seq(Kinds), NEW a \in 0 .. Len(src), NEW k \in a .. Len(src)
  PROVE  /\ SubSeq(src, a + 1, k) \in Seq(Kinds) /\ Len(SubSeq(src, a + 1, k)) = k - a
         /\ \A i \in 1 .. k - a : SubSeq(src, a + 1, k)[i] = src[a + i]
         /\ Bytes(SubSeq(src, a + 1, k)) = At(src, k) - At(src, a)
         /\ Prefix(src, k) = Prefix(src, a) \o SubSeq(src, a + 1, k)
<1>1. PICK u : u = SubSeq(src, a + 1, k)
  OBVIOUS
<1>2. u \in Seq(Kinds) /\ Len(u) = k - a /\ \A i \in 1 .. k - a : u[i] = src[a + i]
  BY <1>1
<1>3. PICK p : p = Prefix(src, a)
  OBVIOUS
<1>4. p \in Seq(Kinds) /\ Len(p) = a /\ \A i \in 1 .. a : p[i] = src[i]
  BY <1>3, PrefixIs
<1>5. PICK q : q = Prefix(src, k)
  OBVIOUS
<1>6. k \in 0 .. Len(src)
  OBVIOUS
<1>7. q \in Seq(Kinds) /\ Len(q) = k /\ \A i \in 1 .. k : q[i] = src[i]
  BY <1>5, <1>6, PrefixIs
<1>8. q = p \o u
  <2>0. PICK d \in Nat : d = k - a /\ k = a + d
    <3>1. k - a \in Nat /\ k = a + (k - a)
      OBVIOUS
    <3> QED
      BY <3>1
  <2>1. p \in Seq(Kinds) /\ u \in Seq(Kinds) /\ Len(u) = d /\ Len(p) = a
    BY <1>2, <1>4, <2>0
  <2>2. PICK w : w = p \o u
    OBVIOUS
  <2>3. /\ w \in Seq(Kinds) /\ Len(w) = a + d
        /\ \A i \in 1 .. a + d : w[i] = IF i <= a THEN p[i] ELSE u[i - a]
    BY <2>1, <2>2, ConcatIs
  <2>4. ASSUME NEW i \in 1 .. k PROVE w[i] = q[i]
    <3>1. CASE i <= a
      <4>1. w[i] = p[i]
        BY <2>0, <2>3, <3>1
      <4> QED
        BY <1>4, <1>7, <3>1, <4>1
    <3>2. CASE i > a
      <4>1. i - a \in 1 .. d /\ a + (i - a) = i
        BY <2>0, <3>2
      <4>2. w[i] = u[i - a]
        BY <2>0, <2>3, <3>2
      <4>3. u[i - a] = src[a + (i - a)]
        BY <1>2, <2>0, <4>1
      <4> QED
        BY <1>7, <4>1, <4>2, <4>3
    <3>3. i <= a \/ i > a
      OBVIOUS
    <3> QED
      BY <3>1, <3>2, <3>3
  <2> QED
    BY <1>7, <2>0, <2>2, <2>3, <2>4
<1>9. Bytes(q) = Bytes(p) + Bytes(u)
  BY <1>2, <1>4, <1>8, BytesConcat
<1>10. Bytes(q) \in Nat /\ Bytes(p) \in Nat /\ Bytes(u) \in Nat
  BY <1>2, <1>4, <1>7, BytesAre
<1>11. Bytes(u) = Bytes(q) - Bytes(p)
  BY <1>9, <1>10
<1> QED
  BY <1>1, <1>2, <1>3, <1>5, <1>8, <1>11 DEF At

\* The beginning of a part is a part.
LEMMA PrefixOfPart ==
  ASSUME NEW src \in Seq(Kinds), NEW a \in 0 .. Len(src), NEW b \in a .. Len(src),
         NEW k \in 0 .. b - a
  PROVE  Prefix(SubSeq(src, a + 1, b), k) = SubSeq(src, a + 1, a + k)
<1>1. PICK u : u = SubSeq(src, a + 1, b)
  OBVIOUS
<1>2. u \in Seq(Kinds) /\ Len(u) = b - a /\ \A i \in 1 .. b - a : u[i] = src[a + i]
  BY <1>1
<1>3. PICK v : v = SubSeq(src, a + 1, a + k)
  OBVIOUS
<1>4. v \in Seq(Kinds) /\ Len(v) = k /\ \A i \in 1 .. k : v[i] = src[a + i]
  <2>1. PICK c \in a .. Len(src) : c = a + k
    <3>1. a + k \in a .. Len(src)
      OBVIOUS
    <3> QED
      BY <3>1
  <2>2. c - a = k
    BY <2>1
  <2> QED
    BY <1>3, <2>1, <2>2
<1>5. /\ Prefix(u, k) \in Seq(Kinds) /\ Len(Prefix(u, k)) = k
      /\ \A i \in 1 .. k : Prefix(u, k)[i] = u[i]
  BY <1>2, PrefixIs
<1>6. \A i \in 1 .. k : Prefix(u, k)[i] = v[i]
  <2>1. ASSUME NEW i \in 1 .. k PROVE Prefix(u, k)[i] = v[i]
    <3>1. i \in 1 .. b - a
      OBVIOUS
    <3> QED
      BY <1>2, <1>4, <1>5, <3>1
  <2> QED
    BY <2>1
<1>7. Prefix(u, k) = v
  BY <1>4, <1>5, <1>6
<1> QED
  BY <1>1, <1>3, <1>7

\* Places and offsets have the same order.
LEMMA AtWeakly ==
  ASSUME NEW src \in Seq(Kinds), NEW j \in 0 .. Len(src), NEW k \in 0 .. Len(src)
  PROVE  j <= k <=> At(src, j) <= At(src, k)
<1>1. At(src, j) \in Nat /\ At(src, k) \in Nat
  BY AtStep
<1>2. j < k => At(src, j) < At(src, k)
  BY AtGrows
<1>3. k < j => At(src, k) < At(src, j)
  BY AtGrows
<1> QED
  BY <1>1, <1>2, <1>3

\* The positions are in the order of the places.
LEMMA PositionsOrdered ==
  ASSUME NEW src \in Seq(Kinds), NEW j \in 0 .. Len(src), NEW k \in j .. Len(src)
  PROVE  NotAfter(PositionAfter(src, j), PositionAfter(src, k))
<1>1. k \in 0 .. Len(src)
  OBVIOUS
<1>2. /\ LineAt(src, j) \in Nat /\ LineAt(src, k) \in Nat /\ LineAt(src, j) <= LineAt(src, k)
      /\ CharAt(src, j) \in Nat /\ CharAt(src, k) \in Nat
  BY <1>1, LineStep, CharStep, LineGrows
<1>3. LineAt(src, j) = LineAt(src, k) => CharAt(src, j) <= CharAt(src, k)
  <2>1. CASE j = k
    BY <1>2, <2>1
  <2>2. CASE j < k
    <3>1. k \in j + 1 .. Len(src)
      BY <2>2
    <3> QED
      BY <1>2, <3>1, CharGrows
  <2> QED
    BY <2>1, <2>2
<1> QED
  BY <1>1, <1>2, <1>3, PositionIs DEF NotAfter, Pos

\* Of an offset within a rune ByteToLSP yields the position after that rune: it is
\* between those of the places before and after the offset.
LEMMA ByteToLSPBetween ==
  ASSUME NEW src \in Seq(Kinds), NEW i \in 0 .. Len(src), NEW j \in 0 .. Len(src),
         NEW o \in Nat, At(src, i) <= o, o <= At(src, j)
  PROVE  /\ NotAfter(PositionAfter(src, i), ByteToLSP(src, o))
         /\ NotAfter(ByteToLSP(src, o), PositionAfter(src, j))
<1> DEFINE b == Min({Max({o, 0}), Bytes(src)})
           reached == {k \in 0 .. Len(src) : o <= At(src, k)}
<1>1. PICK n : n \in reached /\ \A k \in reached : n <= k
  <2>1. reached \in SUBSET Nat /\ reached # {}
    OBVIOUS
  <2> HIDE DEF reached
  <2> QED
    BY <2>1, Sizes!MinOf
<1>2. n \in 0 .. Len(src) /\ i <= n /\ n <= j
  <2>1. At(src, i) <= At(src, n)
    <3>1. At(src, i) \in Nat /\ At(src, n) \in Nat
      BY <1>1, AtStep
    <3> QED
      BY <1>1, <3>1
  <2> QED
    BY <1>1, <2>1, AtWeakly
<1>3. ASSUME NEW k \in 1 .. Len(src) PROVE At(src, k - 1) < o <=> k <= n
  <2>1. PICK h \in 0 .. Len(src) - 1 : h = k - 1
    OBVIOUS
  <2>2. At(src, h) \in Nat /\ At(src, n) \in Nat
    BY <1>2, <2>1, AtStep
  <2>3. h < n => ~(o <= At(src, h))
    BY <1>1, <1>2, <2>1
  <2>4. n <= h => At(src, n) <= At(src, h)
    BY <1>2, <2>1, AtWeakly
  <2> QED
    BY <1>1, <1>2, <2>1, <2>2, <2>3, <2>4
<1>4. {k \in DOMAIN src : At(src, k - 1) < o} = 1 .. n
  BY <1>2, <1>3
<1>5. Cardinality(1 .. n) = n
  BY <1>2, FS_Interval
<1>6. b = o
  <2>1. PICK z \in Nat : z = Bytes(src)
    BY BytesAre
  <2>2. o <= z
    <3>1. At(src, j) <= At(src, Len(src)) /\ At(src, Len(src)) = z /\ At(src, j) \in Nat
      BY <2>1, AtStep, AtWeakly
    <3> QED
      BY <2>1, <3>1
  <2>3. Max({o, 0}) = o
    BY DEF Max
  <2>4. Min({o, z}) = o
    BY <2>2 DEF Min
  <2> QED
    BY <2>1, <2>3, <2>4
<1>7. Cardinality({k \in DOMAIN src : Bytes(Prefix(src, k - 1)) < b}) = n
  BY <1>4, <1>5, <1>6 DEF At
<1>8. ByteToLSP(src, o) = Pos(src, n)
  <2> HIDE DEF b
  <2> QED
    BY <1>7 DEF ByteToLSP, Pos, LineAt, CharAt, StartAt, b
<1>9. ByteToLSP(src, o) = PositionAfter(src, n)
  BY <1>2, <1>8, PositionIs
<1> QED
  BY <1>2, <1>9, PositionsOrdered

\* More text after a place does not change what is before it.
LEMMA PlacesStay ==
  ASSUME NEW s \in Seq(Kinds), NEW u \in Seq(Kinds), NEW k \in 0 .. Len(s)
  PROVE  /\ Prefix(s \o u, k) = Prefix(s, k)
         /\ At(s \o u, k) = At(s, k) /\ LineAt(s \o u, k) = LineAt(s, k)
<1>1. PICK w : w = s \o u
  OBVIOUS
<1>2. w \in Seq(Kinds) /\ k \in 0 .. Len(w) /\ \A i \in 1 .. k : w[i] = s[i]
  BY <1>1
<1>3. /\ Prefix(w, k) \in Seq(Kinds) /\ Len(Prefix(w, k)) = k
      /\ \A i \in 1 .. k : Prefix(w, k)[i] = w[i]
  BY <1>2, PrefixIs
<1>4. /\ Prefix(s, k) \in Seq(Kinds) /\ Len(Prefix(s, k)) = k
      /\ \A i \in 1 .. k : Prefix(s, k)[i] = s[i]
  BY PrefixIs
<1>5. Prefix(w, k) = Prefix(s, k)
  BY <1>2, <1>3, <1>4
<1> QED
  BY <1>1, <1>5 DEF At, LineAt
-----------------------------------------------------------------------------
(* Go files. *)

Writing == INSTANCE FoldFacts WITH Op <- LAMBDA g, lit : Put(PutLit(g, lit), <<"x">>)

Literal == [pos : Nat, len : Nat, raw : BOOLEAN]
Group == [end : Nat, marker : BOOLEAN, own : BOOLEAN]
Call == [fun : Seq({"selector", "index", "ident"}), name : {"Query", "QueryContext", "Get"},
         args : Seq(Int)]
File == [src : Seq(Kinds), lits : Seq(Literal), comments : Seq(Group), calls : Seq(Call)]

FileOK == file \in File /\ grouped \in BOOLEAN

\* What can be put into a literal.
Bodies == [raw : BOOLEAN, body : Seq(Kinds)]

\* What the lines are made of are kinds of runes.
LEMMA KindsAre ==
  /\ "x" \in Kinds /\ "nl" \in Kinds /\ "kana" \in Kinds /\ Runes \subseteq Kinds
  /\ <<"x">> \in Seq(Kinds) /\ <<"nl">> \in Seq(Kinds) /\ <<"kana">> \in Seq(Kinds)
  /\ <<"x", "nl">> \in Seq(Kinds)
  /\ Literals \subseteq Bodies
<1>1. /\ "x" \in Kinds /\ "nl" \in Kinds /\ "kana" \in Kinds /\ Runes \subseteq Kinds
      /\ "emoji" \in Kinds /\ "cr" \in Kinds
  BY DEF Kinds, Size, Runes
<1>2. Literals \subseteq Bodies
  BY <1>1 DEF Literals, Bodies, Emoji, Empty, TwoLines, Returns
<1> QED
  BY <1>1, <1>2

\* Writing runes, literals, comments and calls at the end of a file gives a file.
LEMMA PutType ==
  ASSUME NEW f \in File, NEW runes \in Seq(Kinds)
  PROVE  Put(f, runes) \in File
<1>1. f.src \o runes \in Seq(Kinds)
  BY DEF File
<1> QED
  BY <1>1 DEF Put, File

\* A literal is written with its quotes.
LEMMA PutLitType ==
  ASSUME NEW f \in File, NEW lit \in Bodies
  PROVE  PutLit(f, lit) \in File
<1> DEFINE l == [pos |-> Len(f.src) + 1, len |-> Len(lit.body) + 2, raw |-> lit.raw]
           g == [f EXCEPT !.lits = Append(@, l)]
<1>1. l \in Literal
  BY DEF Literal, Bodies, File
<1>2. g \in File
  <2> HIDE DEF l
  <2>1. Append(f.lits, l) \in Seq(Literal)
    BY <1>1 DEF File
  <2> QED
    BY <2>1 DEF File
<1>3. <<"x">> \o lit.body \o <<"x">> \in Seq(Kinds)
  BY KindsAre DEF Bodies
<1> HIDE DEF l
<1>4. Put(g, <<"x">> \o lit.body \o <<"x">>) \in File
  BY <1>2, <1>3, PutType
<1> QED
  BY <1>4 DEF PutLit, l

\* A comment is a rune of its own.
LEMMA PutCommentType ==
  ASSUME NEW f \in File, NEW marker \in BOOLEAN, NEW own \in BOOLEAN
  PROVE  PutComment(f, marker, own) \in File
<1>1. Put(f, <<"x">>) \in File
  BY KindsAre, PutType
<1>2. [end |-> Len(f.src) + 2, marker |-> marker, own |-> own] \in Group
  BY DEF Group, File
<1>3. PICK h : h = Put(f, <<"x">>)
  OBVIOUS
<1>4. PICK c : c = [end |-> Len(f.src) + 2, marker |-> marker, own |-> own]
  OBVIOUS
<1>5. Append(h.comments, c) \in Seq(Group)
  BY <1>1, <1>2, <1>3, <1>4 DEF File
<1>6. PutComment(f, marker, own) = [h EXCEPT !.comments = Append(@, c)]
  BY <1>3, <1>4 DEF PutComment
<1> QED
  BY <1>1, <1>3, <1>5, <1>6 DEF File

\* A call is no text.
LEMMA PutCallType ==
  ASSUME NEW f \in File, NEW fun \in Seq({"selector", "index", "ident"}),
         NEW name \in {"Query", "QueryContext", "Get"}, NEW args \in Seq(Int)
  PROVE  PutCall(f, fun, name, args) \in File
<1>1. [fun |-> fun, name |-> name, args |-> args] \in Call
  BY DEF Call
<1>2. PICK c : c = [fun |-> fun, name |-> name, args |-> args]
  OBVIOUS
<1>3. Append(f.calls, c) \in Seq(Call)
  BY <1>1, <1>2 DEF File
<1>4. PutCall(f, fun, name, args) = [f EXCEPT !.calls = Append(@, c)]
  BY <1>2 DEF PutCall
<1> QED
  BY <1>3, <1>4 DEF File

\* The literals of a call are those of the lines.
LEMMA CallLits ==
  ASSUME NEW lit \in Literals, NEW rest \in {<<>>, <<Emoji>>}
  PROVE  <<lit>> \o rest \in Seq(Literals)
<1>1. PICK u, e : u = <<lit>> /\ e = Emoji
  OBVIOUS
<1>2. u \in Seq(Literals) /\ e \in Literals
  BY <1>1 DEF Literals
<1>3. rest \in Seq(Literals)
  <2>1. <<>> \in Seq(Literals) /\ <<e>> \in Seq(Literals)
    BY <1>2
  <2> QED
    BY <1>1, <2>1
<1>4. u \o rest \in Seq(Literals)
  BY <1>2, <1>3, ConcatIs
<1> QED
  BY <1>1, <1>4

\* What a call is made of.
LEMMA ArgsAre ==
  ASSUME NEW fun \in {<<"selector">>, <<"index", "selector">>, <<"ident">>},
         NEW skipped \in {0, 1}, NEW lits \in Seq(Literals), NEW n \in Nat
  PROVE  /\ fun \in Seq({"selector", "index", "ident"})
         /\ [k \in 1 .. skipped + Len(lits) |-> IF k <= skipped THEN 0 ELSE n + k - skipped]
              \in Seq(Int)
<1>1. fun \in Seq({"selector", "index", "ident"})
  <2>1. CASE fun = <<"selector">>
    BY <2>1
  <2>2. CASE fun = <<"index", "selector">>
    BY <2>2
  <2>3. CASE fun = <<"ident">>
    BY <2>3
  <2> QED
    BY <2>1, <2>2, <2>3
<1> DEFINE args == [k \in 1 .. skipped + Len(lits) |-> IF k <= skipped THEN 0 ELSE n + k - skipped]
<1>2. skipped + Len(lits) \in Nat
  OBVIOUS
<1>3. args \in [1 .. skipped + Len(lits) -> Int]
  OBVIOUS
<1> HIDE DEF args
<1>4. args \in Seq(Int)
  BY <1>2, <1>3
<1> QED
  BY <1>1, <1>4 DEF args

\* Every line that is written leaves a file of the right type.
LEMMA FileStep == FileOK /\ [MCNext]_MCvars => FileOK'
<1> SUFFICES ASSUME FileOK, [MCNext]_MCvars PROVE FileOK'
  OBVIOUS
<1> USE DEF FileOK
<1>1. ASSUME NEW r \in Runes, TypeRune(r) PROVE FileOK'
  <2>1. <<r>> \in Seq(Kinds)
    BY KindsAre
  <2> QED
    BY <1>1, <2>1, PutType DEF TypeRune
<1>2. CASE BlankLine
  BY <1>2, KindsAre, PutType DEF BlankLine
<1>3. ASSUME NEW marker \in BOOLEAN, CommentLine(marker) PROVE FileOK'
  <2> DEFINE n == Len(file.src)
             groups == file.comments
             joined == groups # <<>> /\ Last(groups).own /\ Last(groups).end = n
             group == [end |-> n + 2, marker |-> marker \/ (joined /\ grouped), own |-> TRUE]
             kept == IF joined THEN Front(groups) ELSE groups
  <2>1. group \in Group
    <3> HIDE DEF joined
    <3> QED
      BY DEF File, Group
  <2>2. kept \in Seq(Group)
    <3>1. groups \in Seq(Group)
      BY DEF File
    <3>2. groups # <<>> => Front(groups) \in Seq(Group)
      BY <3>1 DEF Front
    <3> QED
      BY <3>1, <3>2
  <2>3. Put(file, <<"x", "nl">>) \in File
    BY KindsAre, PutType
  <2>4. file' = [Put(file, <<"x", "nl">>) EXCEPT !.comments = Append(kept, group)]
        /\ grouped' = group.marker
    BY <1>3 DEF CommentLine
  <2>5. PICK p : p = Put(file, <<"x", "nl">>)
    OBVIOUS
  <2> HIDE DEF group, kept
  <2>6. Append(kept, group) \in Seq(Group) /\ group.marker \in BOOLEAN
    BY <2>1, <2>2 DEF Group
  <2>7. [p EXCEPT !.comments = Append(kept, group)] \in File
    BY <2>3, <2>5, <2>6 DEF File
  <2> QED
    BY <2>4, <2>5, <2>6, <2>7
<1>4. ASSUME NEW lit \in Literals, NEW comment, AssignLine(lit, comment) PROVE FileOK'
  <2> DEFINE g == IF comment = "before" THEN PutComment(file, TRUE, FALSE) ELSE file
             f == PutLit(Put(g, <<"kana">>), lit)
             h == IF comment \in {"marker", "other"}
                    THEN PutComment(f, comment = "marker", FALSE) ELSE f
  <2>1. g \in File
    BY PutCommentType
  <2>2. f \in File
    <3> HIDE DEF g
    <3> QED
      BY <2>1, KindsAre, PutType, PutLitType
  <2>3. h \in File
    <3> HIDE DEF f
    <3>1. (comment = "marker") \in BOOLEAN
      OBVIOUS
    <3> QED
      BY <2>2, <3>1, PutCommentType
  <2>4. file' = Put(h, <<"nl">>) /\ grouped' \in BOOLEAN
    BY <1>4 DEF AssignLine
  <2> HIDE DEF h
  <2> QED
    BY <2>3, <2>4, KindsAre, PutType
<1>5. ASSUME NEW fun \in {<<"selector">>, <<"index", "selector">>, <<"ident">>},
             NEW name \in {"Query", "QueryContext", "Get"}, NEW skipped \in {0, 1},
             NEW lit \in Literals, NEW rest \in {<<>>, <<Emoji>>}, NEW nested \in BOOLEAN,
             CallLine(fun, name, skipped, <<lit>> \o rest, nested)
      PROVE  FileOK'
  <2>1. PICK lits \in Seq(Literals) : lits = <<lit>> \o rest
    BY CallLits
  <2> DEFINE n == Len(file.lits)
             args == [k \in 1 .. skipped + Len(lits) |->
                        IF k <= skipped THEN 0 ELSE n + k - skipped]
             outer == IF nested THEN PutCall(file, <<"selector">>, "Query", <<0>>) ELSE file
             f == PutCall(Put(outer, <<"kana">>), fun, name, args)
  <2>3. outer \in File
    <3>1. <<"selector">> \in Seq({"selector", "index", "ident"}) /\ <<0>> \in Seq(Int)
      OBVIOUS
    <3> QED
      BY <3>1, PutCallType
  <2>4. fun \in Seq({"selector", "index", "ident"}) /\ args \in Seq(Int)
    <3>1. n \in Nat
      BY DEF File
    <3> HIDE DEF n
    <3> QED
      BY <3>1, ArgsAre
  <2>5. f \in File
    <3> HIDE DEF outer, args
    <3> QED
      BY <2>3, <2>4, KindsAre, PutType, PutCallType
  <2>6. file' = FoldLeft(LAMBDA g, l : Put(PutLit(g, l), <<"x">>), f, lits) /\ grouped' = FALSE
    BY <1>5, <2>1 DEF CallLine
  <2> HIDE DEF f
  <2>7. file' = Writing!Fold(f, lits)
    BY <2>6 DEF Writing!Fold, FoldLeft, Writing!FoldLeft, MapThenFoldSet,
             Writing!MapThenFoldSet, Max, Writing!Max
  <2>8. Writing!Fold(f, lits) \in File
    <3>1. \A g \in File, l \in Literals : Put(PutLit(g, l), <<"x">>) \in File
      BY KindsAre, PutType, PutLitType
    <3> QED
      BY <2>1, <2>5, <3>1, Writing!FoldType
  <2> QED
    BY <2>6, <2>7, <2>8
<1>6. CASE UNCHANGED MCvars
  BY <1>6 DEF MCvars
<1>7. CASE AssignLines
  <2>1. {Emoji, TwoLines} \subseteq Literals
    BY DEF Literals
  <2>2. CASE \E lit \in Literals : AssignLine(lit, "none")
    BY <1>4, <2>2
  <2>3. CASE \E lit \in {Emoji, TwoLines}, comment \in {"before", "marker", "other"} :
               AssignLine(lit, comment)
    <3>1. PICK lit \in {Emoji, TwoLines}, comment \in {"before", "marker", "other"} :
                 AssignLine(lit, comment)
      BY <2>3
    <3>2. lit \in Literals
      BY <2>1
    <3> QED
      BY <1>4, <3>1, <3>2
  <2> QED
    BY <1>7, <2>2, <2>3 DEF AssignLines
<1>8. CASE CallLines
  <2>1. PICK fun \in {<<"selector">>, <<"index", "selector">>, <<"ident">>},
             name \in {"Query", "QueryContext", "Get"}, skipped \in {0, 1}, lit \in Literals,
             rest \in {<<>>, <<Emoji>>}, nested \in BOOLEAN :
          /\ (name = "Get" \/ nested \/ lit = Empty) => fun = <<"selector">>
          /\ fun = <<"ident">> \/ rest # <<>> => lit \in {Emoji, TwoLines}
          /\ nested => lit = Emoji /\ skipped = 1
          /\ CallLine(fun, name, skipped, <<lit>> \o rest, nested)
    BY <1>8, Zenon DEF CallLines
  <2> HIDE DEF FileOK
  <2> QED
    BY <1>5, <2>1, ZenonT(60)
<1> QED
  BY <1>1, <1>2, <1>3, <1>6, <1>7, <1>8 DEF MCNext

\* The empty file is one.
LEMMA FileInit == MCInit => FileOK
<1>1. \A S : <<>> \in Seq(S)
  OBVIOUS
<1>2. NoFile \in File
  BY <1>1 DEF NoFile, File
<1> QED
  BY <1>2 DEF MCInit, FileOK

\* The positions that the properties speak of are LSP positions.
LEMMA PositionsAre == Positions \subseteq LspPosition
BY TextAssumption DEF Positions, LspPosition

\* What posenc does on every text, it does on the text of the file.
LEMMA FileConverts == FileOK => RoundTrip /\ MeansLSP /\ Monotone
<1> SUFFICES ASSUME FileOK PROVE RoundTrip /\ MeansLSP /\ Monotone
  OBVIOUS
<1> DEFINE src == file.src
<1>0. src \in Seq(Kinds)
  BY DEF FileOK, File
<1> HIDE DEF src
<1>1. RoundTrip
  BY <1>0, RoundTripAt DEF RoundTrip, src
<1>2. MeansLSP
  <2>1. \A k \in 0 .. Len(src) : ByteToLSP(src, Bytes(Prefix(src, k))) = PositionAfter(src, k)
    BY <1>0, ByteToLSPIs
  <2>2. \A p \in Positions : ~SplitsPair(src, p) =>
          LSPToByte(src, p.line, p.character) = Bytes(Prefix(src, RunesBefore(src, p)))
    BY <1>0, PositionsAre, LSPToByteMeans
  <2> QED
    BY <2>1, <2>2 DEF MeansLSP, src
<1>3. Monotone
  <2>1. \A p, q \in Positions : NotAfter(p, q) =>
          LSPToByte(src, p.line, p.character) <= LSPToByte(src, q.line, q.character)
    BY <1>0, PositionsAre, LSPToByteMonotone
  <2> QED
    BY <2>1 DEF Monotone, src
<1> QED
  BY <1>1, <1>2, <1>3

\* On every text that can be written, however long, LSPToByte takes the position that
\* ByteToLSP gives for an offset between two runes back to that offset, so that an
\* issue is found where it is shown (posenc.go:12-39, 47-81).
THEOREM OffsetsRoundTrip == MCSpec => []RoundTrip
<1> QED
  BY FileInit, FileStep, FileConverts, PTL DEF MCSpec

\* On every such text both conversions mean by a position what LSP means by it, also
\* past the end of a line and of the text; halves of surrogate pairs apart
\* (posenc.go:45-46).
THEOREM PositionsMeanLSP == MCSpec => []MeansLSP
<1> QED
  BY FileInit, FileStep, FileConverts, PTL DEF MCSpec

\* On every such text positions in order become offsets in order, so that no range of
\* an edit is turned around (server.go:597).
THEOREM PositionsKeepOrder == MCSpec => []Monotone
<1> QED
  BY FileInit, FileStep, FileConverts, PTL DEF MCSpec
-----------------------------------------------------------------------------
(* Carriage returns. *)

Stripping == INSTANCE FoldFacts WITH
  Op <- LAMBDA kept, r : IF r = "cr" THEN kept ELSE Append(kept, r)

\* StripCR is a fold.
LEMMA StripIsFold ==
  \A s : StripCR(s) = Stripping!Fold(<<>>, s)
BY DEF StripCR, Stripping!Fold, FoldLeft, Stripping!FoldLeft, MapThenFoldSet,
       Stripping!MapThenFoldSet, Max, Stripping!Max

\* It goes rune by rune.
LEMMA StripIs ==
  /\ StripCR(<<>>) = <<>>
  /\ \A s \in Seq(Kinds) : StripCR(s) \in Seq(Kinds)
  /\ \A s \in Seq(Kinds), r \in Kinds :
       StripCR(Append(s, r)) = IF r = "cr" THEN StripCR(s) ELSE Append(StripCR(s), r)
<1>1. StripCR(<<>>) = <<>>
  BY StripIsFold, Stripping!FoldEmpty
<1>2. ASSUME NEW s \in Seq(Kinds) PROVE StripCR(s) \in Seq(Kinds)
  <2>1. \A v \in Seq(Kinds), e \in Kinds : (IF e = "cr" THEN v ELSE Append(v, e)) \in Seq(Kinds)
    OBVIOUS
  <2>2. <<>> \in Seq(Kinds)
    OBVIOUS
  <2>3. Stripping!Fold(<<>>, s) \in Seq(Kinds)
    BY <2>1, <2>2, Stripping!FoldType
  <2> QED
    BY <2>3, StripIsFold
<1>3. ASSUME NEW s \in Seq(Kinds), NEW r \in Kinds
      PROVE  StripCR(Append(s, r)) = IF r = "cr" THEN StripCR(s) ELSE Append(StripCR(s), r)
  <2>1. Stripping!Fold(<<>>, Append(s, r))
          = IF r = "cr" THEN Stripping!Fold(<<>>, s) ELSE Append(Stripping!Fold(<<>>, s), r)
    BY Stripping!FoldAppend
  <2> QED
    BY <2>1, StripIsFold
<1> QED
  BY <1>1, <1>2, <1>3

\* A rune after a concatenation.
LEMMA ConcatAppend ==
  ASSUME NEW S, NEW a \in Seq(S), NEW b \in Seq(S), NEW e \in S
  PROVE  /\ a \o b \in Seq(S) /\ a \o Append(b, e) = Append(a \o b, e)
         /\ Append(b, e) \in Seq(S)
OBVIOUS

\* Parts are stripped each by itself.
LEMMA StripConcat ==
  ASSUME NEW s \in Seq(Kinds), NEW u \in Seq(Kinds)
  PROVE  StripCR(s \o u) = StripCR(s) \o StripCR(u)
<1> DEFINE T == {r \in Seq(Kinds) : StripCR(s \o r) = StripCR(s) \o StripCR(r)}
<1>0. PICK a \in Seq(Kinds) : a = StripCR(s)
  BY StripIs
<1>1. <<>> \in T
  <2>1. s \o <<>> = s /\ a \o <<>> = a /\ <<>> \in Seq(Kinds)
    OBVIOUS
  <2> QED
    BY <1>0, <2>1, StripIs
<1>2. ASSUME NEW r \in Seq(Kinds), NEW e \in Kinds, r \in T PROVE Append(r, e) \in T
  <2>1. PICK b \in Seq(Kinds) : b = StripCR(r)
    BY StripIs
  <2>2. /\ s \o r \in Seq(Kinds) /\ s \o Append(r, e) = Append(s \o r, e)
        /\ Append(r, e) \in Seq(Kinds) /\ a \o Append(b, e) = Append(a \o b, e)
    <3>1. /\ s \o r \in Seq(Kinds) /\ s \o Append(r, e) = Append(s \o r, e)
          /\ Append(r, e) \in Seq(Kinds)
      BY ConcatAppend
    <3>2. a \o Append(b, e) = Append(a \o b, e)
      BY ConcatAppend
    <3> QED
      BY <3>1, <3>2
  <2>3. StripCR(s \o r) = a \o b
    BY <1>0, <1>2, <2>1
  <2>4. StripCR(Append(s \o r, e)) = IF e = "cr" THEN a \o b ELSE Append(a \o b, e)
    BY <2>2, <2>3, StripIs
  <2>5. StripCR(Append(r, e)) = IF e = "cr" THEN b ELSE Append(b, e)
    BY <2>1, StripIs
  <2>6. StripCR(s \o Append(r, e)) = StripCR(s) \o StripCR(Append(r, e))
    <3>1. CASE e = "cr"
      BY <1>0, <2>2, <2>4, <2>5, <3>1, Zenon
    <3>2. CASE e # "cr"
      BY <1>0, <2>2, <2>4, <2>5, <3>2, Zenon
    <3> QED
      BY <3>1, <3>2
  <2> QED
    BY <2>2, <2>6
<1> HIDE DEF T
<1>3. Seq(Kinds) \subseteq T
  BY <1>1, <1>2, Sizes!SeqSet
<1> QED
  BY <1>3 DEF T

\* What a longer text is made of.
LEMMA AppendSet ==
  ASSUME NEW S, NEW r \in Seq(S), NEW e \in S
  PROVE  ToSet(Append(r, e)) = ToSet(r) \cup {e}
<1>1. PICK n \in Nat : n = Len(r)
  OBVIOUS
<1>2. PICK s : s = Append(r, e)
  OBVIOUS
<1>3. /\ DOMAIN r = 1 .. n /\ DOMAIN s = 1 .. n + 1
      /\ s[n + 1] = e /\ \A i \in 1 .. n : s[i] = r[i]
  BY <1>1, <1>2
<1>4. 1 .. n + 1 = (1 .. n) \cup {n + 1}
  OBVIOUS
<1> QED
  BY <1>2, <1>3, <1>4 DEF ToSet

\* Stripping takes nothing else away, and what is left is not longer.
LEMMA StripKeeps ==
  ASSUME NEW s \in Seq(Kinds)
  PROVE  /\ "cr" \notin ToSet(s) => StripCR(s) = s
         /\ Bytes(StripCR(s)) <= Bytes(s)
<1> DEFINE T == {r \in Seq(Kinds) : /\ "cr" \notin ToSet(r) => StripCR(r) = r
                                    /\ Bytes(StripCR(r)) <= Bytes(r)}
<1>1. <<>> \in T
  BY StripIs, BytesAre
<1>2. ASSUME NEW r \in Seq(Kinds), NEW e \in Kinds, r \in T PROVE Append(r, e) \in T
  <2>1. PICK b \in Seq(Kinds) : b = StripCR(r)
    BY StripIs
  <2>2. StripCR(Append(r, e)) = IF e = "cr" THEN b ELSE Append(b, e)
    BY <2>1, StripIs
  <2>3. "cr" \notin ToSet(Append(r, e)) => StripCR(Append(r, e)) = Append(r, e)
    <3>0. ToSet(Append(r, e)) = ToSet(r) \cup {e}
      BY AppendSet
    <3>1. "cr" \notin ToSet(Append(r, e)) => e # "cr" /\ "cr" \notin ToSet(r)
      BY <3>0
    <3>2. "cr" \notin ToSet(r) => b = r
      BY <1>2, <2>1
    <3> QED
      BY <2>2, <3>1, <3>2, Zenon
  <2>4. Bytes(StripCR(Append(r, e))) <= Bytes(Append(r, e))
    <3>1. Bytes(b) <= Bytes(r) /\ Bytes(b) \in Nat /\ Bytes(r) \in Nat /\ Size[e] \in Nat
      BY <1>2, <2>1, BytesAre, RuneSize
    <3>2. Bytes(Append(r, e)) = Bytes(r) + Size[e] /\ Bytes(Append(b, e)) = Bytes(b) + Size[e]
      BY BytesAre
    <3>3. CASE e = "cr"
      BY <2>2, <3>1, <3>2, <3>3
    <3>4. CASE e # "cr"
      BY <2>2, <3>1, <3>2, <3>4
    <3> QED
      BY <3>3, <3>4
  <2>5. Append(r, e) \in Seq(Kinds)
    OBVIOUS
  <2> QED
    BY <2>3, <2>4, <2>5
<1> HIDE DEF T
<1>3. Seq(Kinds) \subseteq T
  BY <1>1, <1>2, Sizes!SeqSet
<1> QED
  BY <1>3 DEF T

\* The text between quotes: b of u b u, where u is a single rune.
LEMMA QuotedIs ==
  ASSUME NEW b \in Seq(Kinds), NEW u \in Seq(Kinds), NEW e \in Kinds, u = <<e>>,
         NEW q, q = (u \o b) \o u
  PROVE  /\ q \in Seq(Kinds) /\ Len(q) = Len(b) + 2
         /\ q[1] = e /\ q[Len(b) + 2] = e /\ \A i \in 1 .. Len(b) : q[i + 1] = b[i]
<1>1. PICK n \in Nat : n = Len(b)
  OBVIOUS
<1>2. PICK m \in Nat : m = Len(u) /\ m = 1 /\ u[m] = e
  <2>1. Len(u) = 1 /\ u[1] = e
    OBVIOUS
  <2> QED
    BY <2>1
<1> HIDE DEF Kinds
<1>3. PICK p \in Seq(Kinds) : p = u \o b
  BY ConcatIs
<1>4. Len(p) = m + n /\ \A i \in 1 .. m + n : p[i] = IF i <= m THEN u[i] ELSE b[i - m]
  BY <1>1, <1>2, <1>3, ConcatIs
<1>5. /\ q \in Seq(Kinds) /\ Len(q) = m + n + m
      /\ \A i \in 1 .. m + n + m : q[i] = IF i <= m + n THEN p[i] ELSE u[i - (m + n)]
  BY <1>2, <1>3, <1>4, ConcatIs
<1>6. q[1] = e
  BY <1>2, <1>4, <1>5
<1>7. q[n + 2] = e
  <2>1. n + 2 \in 1 .. m + n + m /\ ~(n + 2 <= m + n) /\ n + 2 - (m + n) = m
    BY <1>2
  <2> QED
    BY <1>2, <1>5, <2>1
<1>8. ASSUME NEW i \in 1 .. n PROVE q[i + 1] = b[i]
  <2>1. /\ i + 1 \in 1 .. m + n + m /\ i + 1 <= m + n /\ i + 1 \in 1 .. m + n
        /\ ~(i + 1 <= m) /\ i + 1 - m = i
    BY <1>2
  <2> QED
    BY <1>4, <1>5, <2>1
<1>9. m + n + m = n + 2
  BY <1>2
<1> QED
  BY <1>1, <1>5, <1>6, <1>7, <1>8, <1>9

\* What is between quotes, and how long.
LEMMA Quoted ==
  ASSUME NEW b \in Seq(Kinds), NEW u \in Seq(Kinds), u = <<"x">>,
         NEW q, q = (u \o b) \o u
  PROVE  /\ StripQuotes(q) = b /\ Bytes(q) = Bytes(b) + 2
         /\ StripCR(q) = (u \o StripCR(b)) \o u
<1>0. "x" \in Kinds
  BY KindsAre
<1>1. PICK n \in Nat : n = Len(b)
  OBVIOUS
<1>2. /\ q \in Seq(Kinds) /\ Len(q) = n + 2 /\ \A i \in 1 .. n : q[i + 1] = b[i]
  BY <1>0, <1>1, QuotedIs
<1>3. Bytes(u) = 1 /\ StripCR(u) = u
  <2>1. Append(<<>>, "x") = u
    OBVIOUS
  <2>2. <<>> \in Seq(Kinds)
    OBVIOUS
  <2>3. Bytes(Append(<<>>, "x")) = 0 + Size["x"]
    BY <1>0, <2>2, BytesAre
  <2>4. Size["x"] = 1
    BY DEF Size
  <2>5. StripCR(Append(<<>>, "x")) = Append(<<>>, "x")
    BY <1>0, <2>2, StripIs
  <2> QED
    BY <2>1, <2>3, <2>4, <2>5
<1>4. StripQuotes(q) = b
  <2>1. PICK m \in Nat : m = n + 1 /\ m \in 1 .. Len(q)
    BY <1>2
  <2>2. PICK v : v = SubSeq(q, 2, m)
    OBVIOUS
  <2>3. /\ v \in Seq(Kinds) /\ Len(v) = n /\ \A i \in 1 .. n : v[i] = b[i]
    <3>1. 1 \in 0 .. Len(q) /\ m \in 1 .. Len(q) /\ m - 1 = n
      BY <1>2, <2>1
    <3>2. /\ SubSeq(q, 1 + 1, m) \in Seq(Kinds) /\ Len(SubSeq(q, 1 + 1, m)) = n
          /\ \A i \in 1 .. n : SubSeq(q, 1 + 1, m)[i] = q[1 + i]
      BY <1>2, <3>1, PartBytes
    <3>3. 1 + 1 = 2 /\ \A i \in 1 .. n : 1 + i = i + 1
      OBVIOUS
    <3> QED
      BY <1>2, <2>2, <3>2, <3>3
  <2>4. v = b
    BY <1>1, <2>3, SeqEqual
  <2>5. Len(q) - 1 = m
    BY <1>2, <2>1
  <2> QED
    BY <2>2, <2>4, <2>5 DEF StripQuotes
<1>5. Bytes(q) = Bytes(b) + 2
  <2>1. u \o b \in Seq(Kinds)
    BY ConcatIs
  <2>2. Bytes(u \o b) = Bytes(u) + Bytes(b) /\ Bytes((u \o b) \o u) = Bytes(u \o b) + Bytes(u)
    BY <2>1, BytesConcat
  <2>3. Bytes(b) \in Nat
    BY BytesAre
  <2> QED
    BY <1>3, <2>2, <2>3
<1>6. StripCR(q) = (u \o StripCR(b)) \o u
  <2>1. u \o b \in Seq(Kinds)
    BY ConcatIs
  <2>2. StripCR((u \o b) \o u) = StripCR(u \o b) \o StripCR(u)
    BY <2>1, StripConcat
  <2>3. StripCR(u \o b) = StripCR(u) \o StripCR(b)
    BY StripConcat
  <2> QED
    BY <1>3, <2>2, <2>3
<1> QED
  BY <1>4, <1>5, <1>6
-----------------------------------------------------------------------------
(* Literals in a text. *)

\* A part of a text that is between quotes.
Quotes(src, pos, len) ==
  /\ pos \in 1 .. Len(src) /\ len \in Nat /\ len >= 2 /\ pos + len - 1 <= Len(src)
  /\ src[pos] = "x" /\ src[pos + len - 1] = "x"

Inner(src, lit) == SubSeq(src, lit.pos + 1, lit.pos + lit.len - 2)

\* It is its inside with a quote on either side.
LEMMA PartIsQuoted ==
  ASSUME NEW src \in Seq(Kinds), NEW lit \in Literal, Quotes(src, lit.pos, lit.len),
         NEW u, u = <<"x">>
  PROVE  /\ Inner(src, lit) \in Seq(Kinds) /\ Len(Inner(src, lit)) = lit.len - 2
         /\ \A k \in 0 .. lit.len - 2 :
              Bytes(Prefix(Inner(src, lit), k)) = At(src, lit.pos + k) - At(src, lit.pos)
         /\ SubSeq(src, lit.pos, lit.pos + lit.len - 1) = (u \o Inner(src, lit)) \o u
<1>0. PICK m \in Nat : m = Len(src)
  OBVIOUS
<1>1. PICK a \in Nat : a = lit.pos /\ a >= 1 /\ a <= m
  BY <1>0 DEF Quotes
<1>2. PICK n \in Nat : lit.len = n + 2 /\ lit.len - 2 = n
  <2>1. PICK l \in Nat : l = lit.len /\ l >= 2
    BY DEF Quotes
  <2>2. l - 2 \in Nat /\ l = (l - 2) + 2
    BY <2>1
  <2> QED
    BY <2>1, <2>2
<1>3. /\ src[a] = "x" /\ src[a + n + 1] = "x" /\ a + n + 1 <= m
      /\ lit.pos + lit.len - 1 = a + n + 1 /\ lit.pos + lit.len - 2 = a + n
  <2>1. a + (n + 2) - 1 = a + n + 1 /\ a + (n + 2) - 2 = a + n
    OBVIOUS
  <2> QED
    BY <1>0, <1>1, <1>2, <2>1 DEF Quotes
<1>4. PICK b : b = Inner(src, lit)
  OBVIOUS
<1>5. b = SubSeq(src, a + 1, a + n)
  BY <1>1, <1>3, <1>4 DEF Inner
<1>6. a \in 0 .. m /\ a - 1 \in 0 .. m /\ a - 1 + 1 = a /\ a + n - a = n
      /\ a + n \in a .. m /\ a + n + 1 \in a - 1 .. m /\ a + n + 1 - (a - 1) = n + 2
  <2>1. a >= 1 /\ a <= m /\ a + n + 1 <= m
    BY <1>1, <1>3
  <2> QED
    BY <2>1
<1>7. b \in Seq(Kinds) /\ Len(b) = n /\ \A i \in 1 .. n : b[i] = src[a + i]
  <2>1. a \in 0 .. Len(src)
    BY <1>0, <1>6
  <2>2. PICK c \in a .. Len(src) : c = a + n
    BY <1>0, <1>6
  <2>3. c - a = n
    BY <1>6, <2>2
  <2>4. /\ SubSeq(src, a + 1, c) \in Seq(Kinds) /\ Len(SubSeq(src, a + 1, c)) = c - a
        /\ \A i \in 1 .. c - a : SubSeq(src, a + 1, c)[i] = src[a + i]
    BY <1>0, <2>1, PartBytes
  <2>5. b = SubSeq(src, a + 1, c)
    BY <1>5, <2>2
  <2> QED
    BY <2>3, <2>4, <2>5
<1>8. ASSUME NEW k \in 0 .. n PROVE Bytes(Prefix(b, k)) = At(src, a + k) - At(src, a)
  <2>1. Prefix(b, k) = SubSeq(src, a + 1, a + k)
    <3>1. PICK c \in a .. Len(src) : c = a + n
      BY <1>0, <1>6
    <3>2. k \in 0 .. c - a
      BY <1>6, <3>1
    <3>3. a \in 0 .. Len(src)
      BY <1>0, <1>6
    <3>4. Prefix(SubSeq(src, a + 1, c), k) = SubSeq(src, a + 1, a + k)
      BY <3>1, <3>2, <3>3, PrefixOfPart
    <3> QED
      BY <1>5, <3>1, <3>4
  <2>2. a + k \in a .. m
    BY <1>6
  <2> QED
    BY <1>0, <1>6, <2>1, <2>2, PartBytes
<1>9. PICK w : w = SubSeq(src, lit.pos, lit.pos + lit.len - 1)
  OBVIOUS
<1>10. w \in Seq(Kinds) /\ Len(w) = n + 2 /\ \A i \in 1 .. n + 2 : w[i] = src[a - 1 + i]
  <2>1. PICK c, d \in Nat : c = a - 1 /\ d = a + n + 1
    BY <1>6
  <2>2. c \in 0 .. Len(src) /\ d \in c .. Len(src) /\ d - c = n + 2 /\ c + 1 = a
    BY <1>0, <1>6, <2>1
  <2>3. w = SubSeq(src, c + 1, d)
    BY <1>1, <1>3, <1>9, <2>1, <2>2
  <2>4. w \in Seq(Kinds) /\ Len(w) = d - c /\ \A i \in 1 .. d - c : w[i] = src[c + i]
    BY <2>2, <2>3, PartBytes
  <2> QED
    BY <2>1, <2>2, <2>4
<1>11. PICK q : q = (u \o b) \o u
  OBVIOUS
<1>12. u \in Seq(Kinds) /\ "x" \in Kinds
  BY KindsAre
<1>13. /\ q \in Seq(Kinds) /\ Len(q) = n + 2 /\ q[1] = "x" /\ q[n + 2] = "x"
       /\ \A i \in 1 .. n : q[i + 1] = b[i]
  BY <1>7, <1>11, <1>12, QuotedIs
<1>14. ASSUME NEW i \in 1 .. n + 2 PROVE w[i] = q[i]
  <2>1. CASE i = 1
    BY <1>3, <1>6, <1>10, <1>13, <2>1
  <2>2. CASE i = n + 2
    <3>1. a - 1 + i = a + n + 1
      BY <2>2
    <3> QED
      BY <1>3, <1>10, <1>13, <2>2, <3>1
  <2>3. CASE i - 1 \in 1 .. n
    <3>1. a - 1 + i = a + (i - 1) /\ i = (i - 1) + 1
      OBVIOUS
    <3> QED
      BY <1>7, <1>10, <1>13, <2>3, <3>1
  <2> QED
    BY <2>1, <2>2, <2>3
<1>15. w = q
  BY <1>10, <1>13, <1>14, SeqEqual
<1> QED
  BY <1>1, <1>2, <1>4, <1>7, <1>8, <1>9, <1>11, <1>15

\* A value between quotes keeps them, without its carriage returns.
LEMMA LiteralIs ==
  ASSUME NEW f \in File, NEW lit \in Literal, Quotes(f.src, lit.pos, lit.len),
         ~lit.raw => "cr" \notin ToSet(Inner(f.src, lit)),
         NEW b, b = StripCR(Inner(f.src, lit))
  PROVE  /\ b \in Seq(Kinds) /\ StripQuotes(Value(f, lit)) = b
         /\ Bytes(Value(f, lit)) = Bytes(b) + 2
         /\ Bytes(b) <= At(f.src, lit.pos + lit.len - 2) - At(f.src, lit.pos)
         /\ "cr" \notin ToSet(Written(f, lit)) => b = Inner(f.src, lit)
<1>1. PICK src \in Seq(Kinds) : src = f.src
  BY DEF File
<1>2. PICK u \in Seq(Kinds) : u = <<"x">>
  BY KindsAre
<1>3. PICK w : w = Written(f, lit)
  OBVIOUS
<1>4. PICK inner \in Seq(Kinds) : inner = Inner(src, lit)
  BY <1>1, PartIsQuoted
<1>5. /\ Len(inner) = lit.len - 2 /\ w = (u \o inner) \o u
      /\ \A k \in 0 .. lit.len - 2 :
           Bytes(Prefix(inner, k)) = At(src, lit.pos + k) - At(src, lit.pos)
  BY <1>1, <1>2, <1>3, <1>4, PartIsQuoted DEF Written
<1>6. b \in Seq(Kinds)
  BY <1>1, <1>4, StripIs
<1>7. Value(f, lit) = (u \o b) \o u
  <2>1. CASE lit.raw
    <3>1. StripCR(w) = (u \o StripCR(inner)) \o u
      BY <1>2, <1>5, Quoted
    <3> QED
      BY <1>1, <1>3, <1>4, <2>1, <3>1 DEF Value
  <2>2. CASE ~lit.raw
    <3>1. StripCR(inner) = inner
      BY <1>1, <1>4, <2>2, StripKeeps
    <3> QED
      BY <1>1, <1>3, <1>4, <1>5, <2>2, <3>1 DEF Value
  <2> QED
    BY <2>1, <2>2
<1>8. StripQuotes(Value(f, lit)) = b /\ Bytes(Value(f, lit)) = Bytes(b) + 2
  BY <1>2, <1>6, <1>7, Quoted
<1>9. Bytes(b) <= At(src, lit.pos + lit.len - 2) - At(src, lit.pos)
  <2>1. Bytes(b) <= Bytes(inner)
    BY <1>1, <1>4, StripKeeps
  <2>2. Prefix(inner, Len(inner)) = inner
    BY WholePrefix
  <2>3. Len(inner) \in 0 .. lit.len - 2
    BY <1>5 DEF Quotes
  <2>4. Bytes(inner) = At(src, lit.pos + Len(inner)) - At(src, lit.pos)
    BY <1>5, <2>2, <2>3
  <2>5. lit.pos + Len(inner) = lit.pos + lit.len - 2
    BY <1>5 DEF Literal
  <2> QED
    BY <2>1, <2>4, <2>5
<1>10. ASSUME "cr" \notin ToSet(w) PROVE b = inner
  <2>1. "x" \in Kinds
    BY KindsAre
  <2>2. PICK n \in Nat : n = Len(inner)
    OBVIOUS
  <2>3. Len(w) = n + 2 /\ w \in Seq(Kinds) /\ \A i \in 1 .. n : w[i + 1] = inner[i]
    BY <1>2, <1>5, <2>1, <2>2, QuotedIs
  <2>4. DOMAIN inner = 1 .. n /\ DOMAIN w = 1 .. n + 2
    BY <2>2, <2>3
  <2>5. ASSUME NEW i \in 1 .. n PROVE inner[i] # "cr"
    <3>1. i + 1 \in 1 .. n + 2
      OBVIOUS
    <3> QED
      BY <1>10, <2>3, <2>4, <3>1 DEF ToSet
  <2>6. "cr" \notin ToSet(inner)
    BY <2>4, <2>5 DEF ToSet
  <2> QED
    BY <1>1, <1>4, <2>6, StripKeeps
<1> QED
  BY <1>1, <1>3, <1>4, <1>6, <1>8, <1>9, <1>10

\* Literals are between quotes, come one after the other, and have carriage returns
\* only if they are raw.
PlacedIn(f) ==
  /\ \A i \in DOMAIN f.lits :
       /\ Quotes(f.src, f.lits[i].pos, f.lits[i].len)
       /\ ~f.lits[i].raw => "cr" \notin ToSet(Inner(f.src, f.lits[i]))
  /\ \A i, j \in DOMAIN f.lits : i < j => f.lits[i].pos + f.lits[i].len <= f.lits[j].pos

\* The places before its quotes.
LEMMA QuotePlaces ==
  ASSUME NEW pos \in Nat, NEW len \in Nat, NEW m \in Nat,
         pos >= 1, len >= 2, pos + len - 1 <= m
  PROVE  \E c, d \in Nat : /\ c = pos - 1 /\ c + 1 = pos /\ d = pos + len - 2
                           /\ d + 1 = pos + len - 1 /\ c \in 0 .. m - 1 /\ d \in 0 .. m - 1
<1>1. /\ pos - 1 \in 0 .. m - 1 /\ pos - 1 + 1 = pos
      /\ pos + len - 2 \in 0 .. m - 1 /\ pos + len - 2 + 1 = pos + len - 1
  OBVIOUS
<1> QED
  BY <1>1

Body(f, i) == StripCR(Inner(f.src, f.lits[i]))

\* Where it starts and where go/ast takes it to end.
Spans(f, i, src, pos, len, b) ==
  /\ src \in Seq(Kinds) /\ pos \in Nat /\ len \in Nat
  /\ pos >= 1 /\ len >= 2 /\ pos + len - 1 <= Len(src)
  /\ b \in Seq(Kinds) /\ StripQuotes(Value(f, f.lits[i])) = b /\ Bytes(b) \in Nat
  /\ Offset(f, pos) = At(src, pos - 1) /\ Offset(f, pos) + 1 = At(src, pos)
  /\ EndOffset(f, f.lits[i]) = At(src, pos) + Bytes(b) + 1
  /\ At(src, pos) + Bytes(b) <= At(src, pos + len - 2)
  /\ At(src, pos + len - 2) + 1 = At(src, pos + len - 1)
  /\ "cr" \notin ToSet(Written(f, f.lits[i])) => b = Inner(src, f.lits[i])

\* So it is for every literal.
LEMMA LiteralSpans ==
  ASSUME NEW f \in File, PlacedIn(f), NEW i \in DOMAIN f.lits
  PROVE  Spans(f, i, f.src, f.lits[i].pos, f.lits[i].len, Body(f, i))
<1>1. f.lits[i] \in Literal
  BY DEF File
<1>2. PICK lit \in Literal : lit = f.lits[i]
  BY <1>1
<1>20. PICK src \in Seq(Kinds) : src = f.src
  BY DEF File
<1>21. PICK pos, len : pos = lit.pos /\ len = lit.len
  OBVIOUS
<1>22. PICK b : b = StripCR(Inner(src, lit))
  OBVIOUS
<1>3. Quotes(src, pos, len) /\ (~lit.raw => "cr" \notin ToSet(Inner(src, lit)))
  BY <1>2, <1>20, <1>21 DEF PlacedIn
<1>4. PICK m \in Nat : m = Len(src)
  OBVIOUS
<1>5. /\ pos \in Nat /\ len \in Nat /\ pos >= 1 /\ len >= 2 /\ pos + len - 1 <= m
      /\ src[pos] = "x" /\ src[pos + len - 1] = "x"
  BY <1>2, <1>3, <1>4, <1>21 DEF Quotes, Literal
<1>6. /\ b \in Seq(Kinds) /\ StripQuotes(Value(f, lit)) = b
      /\ Bytes(Value(f, lit)) = Bytes(b) + 2
      /\ Bytes(b) <= At(src, pos + len - 2) - At(src, pos)
      /\ "cr" \notin ToSet(Written(f, lit)) => b = Inner(src, lit)
  BY <1>2, <1>3, <1>20, <1>21, <1>22, LiteralIs
<1>7. Size["x"] = 1
  BY DEF Size
<1>8. PICK c, d \in Nat : /\ c = pos - 1 /\ c + 1 = pos /\ d = pos + len - 2 /\ d + 1 = pos + len - 1
                         /\ c \in 0 .. m - 1 /\ d \in 0 .. m - 1
  <2>1. pos \in Nat /\ len \in Nat /\ pos >= 1 /\ len >= 2 /\ pos + len - 1 <= m
    BY <1>5, Zenon
  <2>2. PICK p, l \in Nat : p = pos /\ l = len
    BY <2>1, Zenon
  <2>3. p >= 1 /\ l >= 2 /\ p + l - 1 <= m
    BY <2>1, <2>2, Zenon
  <2>4. PICK c, d \in Nat : /\ c = p - 1 /\ c + 1 = p /\ d = p + l - 2 /\ d + 1 = p + l - 1
                           /\ c \in 0 .. m - 1 /\ d \in 0 .. m - 1
    BY <2>3, QuotePlaces
  <2> QED
    BY <2>2, <2>4, Zenon
<1>9. At(src, pos) = At(src, pos - 1) + 1 /\ At(src, pos + len - 1) = At(src, pos + len - 2) + 1
  <2>1. At(src, c + 1) = At(src, c) + Size[src[c + 1]] /\ At(src, d + 1) = At(src, d) + Size[src[d + 1]]
    BY <1>4, <1>8, AtStep
  <2> QED
    BY <1>5, <1>7, <1>8, <2>1
<1>10. /\ At(src, pos - 1) \in Nat /\ At(src, pos) \in Nat /\ At(src, pos + len - 2) \in Nat
       /\ Bytes(b) \in Nat
  <2>1. c \in 0 .. Len(src) /\ c + 1 \in 0 .. Len(src) /\ d \in 0 .. Len(src)
    BY <1>4, <1>8
  <2>2. At(src, c) \in Nat /\ At(src, c + 1) \in Nat /\ At(src, d) \in Nat
    BY <2>1, AtStep
  <2> QED
    BY <1>6, <1>8, <2>2, BytesAre
<1>11. Offset(f, pos) = At(src, pos - 1)
  BY <1>20 DEF Offset, At
<1>12. EndOffset(f, lit) = At(src, pos) + Bytes(b) + 1
  BY <1>2, <1>6, <1>9, <1>10, <1>11, <1>21 DEF EndOffset
<1>13. At(src, pos) + Bytes(b) <= At(src, pos + len - 2) /\ Offset(f, pos) + 1 = At(src, pos)
  BY <1>6, <1>9, <1>10, <1>11
<1>14. Spans(f, i, src, pos, len, b)
  BY <1>2, <1>4, <1>5, <1>6, <1>9, <1>10, <1>11, <1>12, <1>13, Zenon DEF Spans
<1> QED
  BY <1>2, <1>14, <1>20, <1>21, <1>22 DEF Body

\* Clamping leaves alone what is within its bounds.
LEMMA Clamped ==
  ASSUME NEW a \in Nat, NEW b \in Nat, a <= b
  PROVE  Min({Max({a, 0}), b}) = a
<1>1. Max({a, 0}) = a
  <2>1. \A x \in {a, 0} : x <= a
    OBVIOUS
  <2>2. \A x \in {a, 0} : (\A y \in {a, 0} : y <= x) => x = a
    OBVIOUS
  <2> QED
    BY <2>1, <2>2, Zenon DEF Max
<1>2. Min({a, b}) = a
  <2>1. \A x \in {a, b} : a <= x
    OBVIOUS
  <2>2. \A x \in {a, b} : (\A y \in {a, b} : x <= y) => x = a
    OBVIOUS
  <2> QED
    BY <2>1, <2>2, Zenon DEF Min
<1> QED
  BY <1>1, <1>2

\* A place after the quote at o, and not after the one that n bytes are before, is not
\* outside of them.
LEMMA BetweenQuotes ==
  ASSUME NEW o \in Nat, NEW p \in Nat, NEW x \in Nat, NEW n \in Nat,
         o + 1 = p, p <= x, x <= p + n
  PROVE  o <= x /\ x <= p + n + 1
OBVIOUS

\* A cursor in a literal is at no other one, and its place is counted from the quote.
LEMMA FoundAt ==
  ASSUME NEW f \in File, PlacedIn(f), NEW i \in DOMAIN f.lits,
         NEW q \in 0 .. Len(f.src),
         f.lits[i].pos <= q, q <= f.lits[i].pos + f.lits[i].len - 2,
         At(f.src, q) <= At(f.src, f.lits[i].pos) + Bytes(Body(f, i))
  PROVE  /\ IsAt(f, i, At(f.src, q))
         /\ \A j \in DOMAIN f.lits : IsAt(f, j, At(f.src, q)) => j = i
         /\ Place(f, i, At(f.src, q)) =
              [sql |-> Body(f, i), offset |-> At(f.src, q) - At(f.src, f.lits[i].pos)]
<1>0. PICK src \in Seq(Kinds) : src = f.src
  BY DEF File
<1>30. PICK b, lit : b = Body(f, i) /\ lit = f.lits[i]
  OBVIOUS
<1>1. PICK pos, len \in Nat : /\ pos = lit.pos /\ len = lit.len /\ Spans(f, i, src, pos, len, b)
  BY <1>0, <1>30, LiteralSpans DEF Spans
<1>2. /\ pos >= 1 /\ len >= 2 /\ pos + len - 1 <= Len(src)
      /\ StripQuotes(Value(f, lit)) = b /\ Bytes(b) \in Nat
      /\ Offset(f, pos) = At(src, pos - 1) /\ Offset(f, pos) + 1 = At(src, pos)
      /\ EndOffset(f, lit) = At(src, pos) + Bytes(b) + 1
  BY <1>0, <1>30, <1>1 DEF Spans
<1>3. pos <= q /\ q <= pos + len - 2 /\ At(src, q) <= At(src, pos) + Bytes(b)
  BY <1>0, <1>30, <1>1
<1>4. PICK m \in Nat : m = Len(src)
  OBVIOUS
<1>5. q \in Nat /\ q <= m /\ pos \in 0 .. m /\ pos - 1 \in 0 .. m
  BY <1>2, <1>3, <1>4
<1>6. At(src, pos) <= At(src, q) /\ At(src, pos) \in Nat /\ At(src, q) \in Nat
  BY <1>3, <1>4, <1>5, AtWeakly, AtStep
<1>7. IsAt(f, i, At(src, q))
  <2>1. Offset(f, pos) \in Nat
    BY <1>2, <1>4, <1>5, AtStep
  <2>2. Offset(f, pos) <= At(src, q) /\ At(src, q) <= EndOffset(f, lit)
    <3>1. Bytes(b) \in Nat /\ Offset(f, pos) + 1 = At(src, pos)
      BY <1>2, Zenon
    <3>2. Offset(f, pos) <= At(src, q) /\ At(src, q) <= At(src, pos) + Bytes(b) + 1
      BY <1>3, <1>6, <2>1, <3>1, BetweenQuotes, Zenon
    <3> QED
      BY <1>2, <3>2, Zenon
  <2> QED
    BY <1>0, <1>30, <1>1, <2>2 DEF IsAt
<1>8. ASSUME NEW j \in DOMAIN f.lits, IsAt(f, j, At(src, q)) PROVE j = i
  <2>2. PICK c : c = Body(f, j)
    OBVIOUS
  <2>1. PICK p, l \in Nat : p = f.lits[j].pos /\ l = f.lits[j].len /\ Spans(f, j, src, p, l, c)
    BY <1>0, <1>30, <2>2, LiteralSpans DEF Spans
  <2>3. /\ p >= 1 /\ l >= 2 /\ p + l - 1 <= m /\ Bytes(c) \in Nat
        /\ Offset(f, p) = At(src, p - 1) /\ EndOffset(f, f.lits[j]) = At(src, p) + Bytes(c) + 1
        /\ At(src, p) + Bytes(c) <= At(src, p + l - 2)
        /\ At(src, p + l - 2) + 1 = At(src, p + l - 1)
    BY <1>4, <2>1 DEF Spans
  <2>4. At(src, p - 1) <= At(src, q) /\ At(src, q) <= At(src, p) + Bytes(c) + 1
    BY <1>8, <2>1, <2>3 DEF IsAt
  <2>5. p - 1 \in 0 .. m /\ p \in 0 .. m /\ p + l - 2 \in 0 .. m /\ p + l - 1 \in 0 .. m
    BY <2>3
  <2>6. At(src, q) <= At(src, p + l - 1)
    <3>1. At(src, p) \in Nat /\ At(src, p + l - 2) \in Nat /\ At(src, p + l - 1) \in Nat
      BY <1>4, <2>5, AtStep
    <3> QED
      BY <1>6, <2>3, <2>4, <3>1
  <2>7. p - 1 <= q /\ q <= p + l - 1
    <3>1. q \in 0 .. Len(src) /\ p - 1 \in 0 .. Len(src) /\ p + l - 1 \in 0 .. Len(src)
      BY <1>4, <1>5, <2>5
    <3>2. p - 1 <= q
      BY <2>4, <3>1, AtWeakly
    <3>3. q <= p + l - 1
      BY <2>6, <3>1, AtWeakly
    <3> QED
      BY <3>2, <3>3
  <2>8. i \in Nat /\ j \in Nat
    BY DEF File
  <2>9. CASE i < j
    <3>1. pos + len <= p
      BY <1>0, <1>30, <1>1, <2>1, <2>9 DEF PlacedIn
    <3> QED
      BY <1>3, <1>5, <2>7, <3>1
  <2>10. CASE j < i
    <3>1. p + l <= pos
      BY <1>0, <1>30, <1>1, <2>1, <2>10 DEF PlacedIn
    <3> QED
      BY <1>3, <1>5, <2>7, <3>1
  <2> QED
    BY <2>8, <2>9, <2>10
<1>9. Place(f, i, At(src, q)) = [sql |-> b, offset |-> At(src, q) - At(src, pos)]
  <2>1. PICK o \in Nat : o = At(src, q) - At(src, pos) /\ o <= Bytes(b)
    BY <1>2, <1>3, <1>6
  <2>2. At(src, q) - (Offset(f, pos) + 1) = o
    BY <1>2, <2>1
  <2>3. Min({Max({o, 0}), Bytes(b)}) = o
    BY <1>2, <2>1, Clamped
  <2> QED
    BY <1>0, <1>30, <1>1, <1>2, <2>1, <2>2, <2>3 DEF Place
<1> QED
  BY <1>0, <1>30, <1>1, <1>7, <1>8, <1>9

\* Only literals are SQL.
LEMMA SQLIsLiteral ==
  ASSUME NEW f, NEW funcs
  PROVE  IsSQL(f, funcs) \subseteq DOMAIN f.lits
BY DEF IsSQL, Marked, CallSQLPositions

\* A place in a literal is found there, by hover and completion as by the linter.
LEMMA PlaceFound ==
  ASSUME NEW f \in File, PlacedIn(f), NEW funcs, NEW i \in IsSQL(f, funcs),
         "cr" \notin ToSet(Written(f, f.lits[i])),
         NEW k \in 0 .. Len(Body(f, i)), NEW o, o = Bytes(Prefix(Body(f, i), k)),
         NEW p, p = ByteToLSP(f.src, Offset(f, f.lits[i].pos) + 1 + o)
  PROVE  FindSQL(f, p.line, p.character, funcs) = {[sql |-> Body(f, i), offset |-> o]}
<1>0. i \in DOMAIN f.lits
  BY SQLIsLiteral
<1>1. PICK src \in Seq(Kinds) : src = f.src
  BY DEF File
<1>30. PICK b, lit : b = Body(f, i) /\ lit = f.lits[i]
  OBVIOUS
<1>2. PICK pos, len \in Nat : /\ pos = lit.pos /\ len = lit.len /\ Spans(f, i, src, pos, len, b)
  BY <1>0, <1>1, <1>30, LiteralSpans DEF Spans
<1>3. lit \in Literal /\ Quotes(src, pos, len)
  BY <1>0, <1>1, <1>30, <1>2 DEF File, PlacedIn
<1>4. PICK u : u = <<"x">>
  OBVIOUS
<1>5. b = Inner(src, lit)
  BY <1>1, <1>30, <1>2 DEF Spans
<1>6. Len(b) = len - 2 /\ \A n \in 0 .. len - 2 : Bytes(Prefix(b, n)) = At(src, pos + n) - At(src, pos)
  BY <1>2, <1>3, <1>4, <1>5, PartIsQuoted
<1>7. /\ pos >= 1 /\ len >= 2 /\ pos + len - 1 <= Len(src) /\ Offset(f, pos) + 1 = At(src, pos)
      /\ Bytes(b) \in Nat
  BY <1>2 DEF Spans
<1>8. PICK m \in Nat : m = Len(src)
  OBVIOUS
<1>9. k \in 0 .. len - 2 /\ pos + k \in 0 .. m /\ pos \in 0 .. m /\ pos <= pos + k
      /\ pos + k <= pos + len - 2
  BY <1>1, <1>30, <1>6, <1>7, <1>8
<1>10. PICK q \in 0 .. m : q = pos + k
  BY <1>9
<1>11. At(src, pos) \in Nat /\ At(src, q) \in Nat
  BY <1>8, <1>9, AtStep
<1>12. o = At(src, q) - At(src, pos) /\ At(src, pos) + o = At(src, q)
  <2>1. o = At(src, pos + k) - At(src, pos)
    BY <1>1, <1>30, <1>6, <1>9
  <2> QED
    BY <1>10, <1>11, <2>1
<1>13. At(src, q) <= At(src, pos) + Bytes(b)
  <2>1. len - 2 \in 0 .. len - 2 /\ Prefix(b, len - 2) = b
    <3>1. b \in Seq(Kinds)
      BY <1>2 DEF Spans
    <3>2. Prefix(b, Len(b)) = b
      BY <3>1, WholePrefix
    <3> QED
      BY <1>6, <1>7, <3>2
  <2>2. Bytes(b) = At(src, pos + (len - 2)) - At(src, pos)
    BY <1>6, <2>1
  <2>3. PICK e \in 0 .. m : e = pos + (len - 2)
    BY <1>7, <1>8
  <2>4. At(src, q) <= At(src, e) /\ At(src, e) \in Nat
    <3>1. q <= e /\ q \in 0 .. Len(src) /\ e \in 0 .. Len(src)
      BY <1>7, <1>8, <1>9, <1>10, <2>3
    <3> QED
      BY <3>1, AtWeakly, AtStep
  <2> QED
    BY <1>11, <2>2, <2>3, <2>4
<1>14. LSPToByte(src, p.line, p.character) = At(src, q)
  <2>1. Offset(f, f.lits[i].pos) + 1 + o = At(src, q)
    BY <1>1, <1>30, <1>2, <1>7, <1>12
  <2>2. p = ByteToLSP(src, Bytes(Prefix(src, q)))
    BY <1>1, <1>30, <2>1 DEF At
  <2>3. q \in 0 .. Len(src)
    BY <1>8, <1>10
  <2> QED
    BY <2>2, <2>3, RoundTripAt DEF At
<1>15. /\ IsAt(f, i, At(src, q)) /\ \A j \in DOMAIN f.lits : IsAt(f, j, At(src, q)) => j = i
       /\ Place(f, i, At(src, q)) = [sql |-> b, offset |-> o]
  <2>1. /\ q \in 0 .. Len(f.src) /\ f.lits[i].pos <= q /\ q <= f.lits[i].pos + f.lits[i].len - 2
        /\ At(f.src, q) <= At(f.src, f.lits[i].pos) + Bytes(Body(f, i))
    BY <1>1, <1>30, <1>2, <1>8, <1>9, <1>10, <1>13
  <2>2. /\ IsAt(f, i, At(f.src, q))
        /\ \A j \in DOMAIN f.lits : IsAt(f, j, At(f.src, q)) => j = i
        /\ Place(f, i, At(f.src, q)) =
              [sql |-> Body(f, i), offset |-> At(f.src, q) - At(f.src, f.lits[i].pos)]
    BY <1>0, <2>1, FoundAt
  <2> QED
    BY <1>1, <1>30, <1>2, <1>12, <2>2
<1>16. {j \in IsSQL(f, funcs) : IsAt(f, j, At(src, q))} = {i}
  BY <1>15, SQLIsLiteral
<1> QED
  BY <1>1, <1>30, <1>14, <1>15, <1>16 DEF FindSQL

\* A place in a literal is shown in it, also when carriage returns were taken out.
LEMMA PlaceWithin ==
  ASSUME NEW f \in File, PlacedIn(f), NEW i \in DOMAIN f.lits,
         NEW k \in 0 .. Len(Body(f, i)), NEW o, o = Bytes(Prefix(Body(f, i), k)),
         NEW p, p = ByteToLSP(f.src, Offset(f, f.lits[i].pos) + 1 + o)
  PROVE  /\ NotAfter(PositionAfter(f.src, f.lits[i].pos), p)
         /\ NotAfter(p, PositionAfter(f.src, f.lits[i].pos + f.lits[i].len - 2))
<1>1. PICK src \in Seq(Kinds) : src = f.src
  BY DEF File
<1>30. PICK b, lit : b = Body(f, i) /\ lit = f.lits[i]
  OBVIOUS
<1>2. PICK pos, len \in Nat : /\ pos = lit.pos /\ len = lit.len /\ Spans(f, i, src, pos, len, b)
  BY <1>1, <1>30, LiteralSpans DEF Spans
<1>3. /\ pos >= 1 /\ len >= 2 /\ pos + len - 1 <= Len(src) /\ Offset(f, pos) + 1 = At(src, pos)
      /\ Bytes(b) \in Nat /\ b \in Seq(Kinds)
      /\ At(src, pos) + Bytes(b) <= At(src, pos + len - 2)
  BY <1>2 DEF Spans
<1>4. PICK m \in Nat : m = Len(src)
  OBVIOUS
<1>5. pos \in 0 .. m /\ pos + len - 2 \in 0 .. m
  BY <1>3, <1>4
<1>6. o \in Nat /\ o <= Bytes(b)
  <2>1. o = At(b, k) /\ k \in 0 .. Len(b)
    BY <1>1, <1>30 DEF At
  <2>2. Len(b) \in 0 .. Len(b) /\ k <= Len(b)
    BY <1>3, <2>1
  <2>3. At(b, k) <= At(b, Len(b)) /\ At(b, k) \in Nat
    BY <1>3, <2>1, <2>2, AtWeakly, AtStep
  <2>4. At(b, Len(b)) = Bytes(b)
    BY <1>3, AtStep
  <2> QED
    BY <2>1, <2>3, <2>4
<1>7. At(src, pos) \in Nat /\ At(src, pos + len - 2) \in Nat
  BY <1>4, <1>5, AtStep
<1>8. PICK e \in Nat : e = At(src, pos) + o /\ At(src, pos) <= e /\ e <= At(src, pos + len - 2)
  BY <1>3, <1>6, <1>7
<1>9. p = ByteToLSP(src, e)
  BY <1>1, <1>30, <1>2, <1>3, <1>8
<1>10. PICK g \in 0 .. m : g = pos + len - 2
  BY <1>5
<1>11. pos \in 0 .. Len(src) /\ g \in 0 .. Len(src) /\ e <= At(src, g)
  BY <1>4, <1>5, <1>8, <1>10
<1>12. NotAfter(PositionAfter(src, pos), p) /\ NotAfter(p, PositionAfter(src, g))
  BY <1>8, <1>9, <1>11, ByteToLSPBetween
<1> QED
  BY <1>1, <1>30, <1>2, <1>10, <1>12

\* Two literals do not start at the same place.
LEMMA StartsApart ==
  ASSUME NEW f \in File, PlacedIn(f), NEW i \in DOMAIN f.lits, NEW j \in DOMAIN f.lits,
         Bytes(Prefix(f.src, f.lits[j].pos)) = Offset(f, f.lits[i].pos) + 1
  PROVE  i = j
<1>1. PICK src \in Seq(Kinds) : src = f.src
  BY DEF File
<1>30. PICK b, c : b = Body(f, i) /\ c = Body(f, j)
  OBVIOUS
<1>2. PICK p, l \in Nat : /\ p = f.lits[i].pos /\ l = f.lits[i].len /\ Spans(f, i, src, p, l, b)
  BY <1>1, <1>30, LiteralSpans DEF Spans
<1>3. PICK q, n \in Nat : /\ q = f.lits[j].pos /\ n = f.lits[j].len /\ Spans(f, j, src, q, n, c)
  BY <1>1, <1>30, LiteralSpans DEF Spans
<1>4. At(src, q) = At(src, p)
  BY <1>1, <1>30, <1>2, <1>3 DEF Spans, At
<1>5. p \in 0 .. Len(src) /\ q \in 0 .. Len(src) /\ l >= 2 /\ n >= 2
  <2>1. p + l - 1 <= Len(src) /\ l >= 2 /\ q + n - 1 <= Len(src) /\ n >= 2
    BY <1>2, <1>3, Zenon DEF Spans
  <2>2. PICK m \in Nat : m = Len(src)
    OBVIOUS
  <2>3. p <= m /\ q <= m
    BY <2>1, <2>2
  <2> QED
    BY <2>1, <2>2, <2>3
<1>6. At(src, p) \in Nat
  BY <1>5, AtStep
<1>7. p <= q /\ q <= p
  BY <1>4, <1>5, <1>6, AtWeakly
<1>8. i \in Nat /\ j \in Nat
  BY DEF File
<1>9. i < j => p + l <= q
  BY <1>2, <1>3 DEF PlacedIn
<1>10. j < i => q + n <= p
  BY <1>2, <1>3 DEF PlacedIn
<1> QED
  BY <1>5, <1>7, <1>8, <1>9, <1>10

\* A text that is no Go file has no literals, and all of it is SQL.
LEMMA PlainShown ==
  ASSUME FileOK, ~IsCode, NEW k \in 0 .. Len(file.src), NEW o, o = Bytes(Prefix(file.src, k)),
         NEW p, p = ByteToLSP(file.src, 0 + o)
  PROVE  SqlAt(file, IsCode, p.line, p.character, Funcs)
           = {[sql |-> file.src, offset |-> o]}
<1>1. PICK src \in Seq(Kinds) : src = file.src
  BY DEF FileOK, File
<1>2. o \in Nat
  <2>1. At(src, k) \in Nat
    BY <1>1, AtStep
  <2> QED
    BY <1>1, <2>1 DEF At
<1>3. p = ByteToLSP(src, Bytes(Prefix(src, k)))
  <2>1. 0 + o = o
    BY <1>2
  <2> QED
    BY <1>1, <2>1
<1>4. LSPToByte(src, p.line, p.character) = o
  BY <1>1, <1>3, RoundTripAt
<1> QED
  BY <1>1, <1>4 DEF SqlAt

\* Literals in their places are shown where they are found.
LEMMA PlacedShows == FileOK /\ PlacedIn(file) => ShownWhereFound
<1> SUFFICES ASSUME FileOK, PlacedIn(file), NEW b \in Blocks(file, IsCode, Funcs),
                    NEW k \in 0 .. Len(b.sql),
                    NEW o, o = Bytes(Prefix(b.sql, k)),
                    NEW p, p = MakeDiagnostic(file, b.start + o, b.start + o).start
             PROVE  /\ Drifts(b) = {} =>
                         SqlAt(file, IsCode, p.line, p.character, Funcs)
                           = {[sql |-> b.sql, offset |-> o]}
                    /\ \A lit \in Drifts(b) :
                         /\ NotAfter(PositionAfter(file.src, lit.pos), p)
                         /\ NotAfter(p, PositionAfter(file.src, lit.pos + lit.len - 2))
  BY DEF ShownWhereFound
<1>1. p = ByteToLSP(file.src, b.start + o) /\ file \in File
  BY DEF MakeDiagnostic, FileOK
<1>2. CASE ~IsCode
  <2>1. b = [sql |-> file.src, start |-> 0]
    BY <1>2 DEF Blocks
  <2>2. Drifts(b) = {}
    BY <1>2 DEF Drifts, IsCode, ToSet
  <2>3. k \in 0 .. Len(file.src) /\ o = Bytes(Prefix(file.src, k)) /\ p = ByteToLSP(file.src, 0 + o)
    BY <1>1, <2>1
  <2> QED
    BY <1>2, <2>1, <2>2, <2>3, PlainShown
<1>3. CASE IsCode
  <2>1. PICK i \in IsSQL(file, Funcs) :
          b = [sql |-> StripQuotes(Value(file, file.lits[i])),
               start |-> Offset(file, file.lits[i].pos) + 1]
    BY <1>3 DEF Blocks, FindAllSQL
  <2>2. i \in DOMAIN file.lits
    BY SQLIsLiteral
  <2>3. StripQuotes(Value(file, file.lits[i])) = Body(file, i)
    BY <1>1, <2>2, LiteralSpans DEF Spans
  <2>4. b.sql = Body(file, i) /\ b.start = Offset(file, file.lits[i].pos) + 1
    BY <2>1, <2>3
  <2>5. /\ k \in 0 .. Len(Body(file, i)) /\ o = Bytes(Prefix(Body(file, i), k))
        /\ p = ByteToLSP(file.src, Offset(file, file.lits[i].pos) + 1 + o)
    BY <1>1, <2>4
  <2>6. Bytes(Prefix(file.src, file.lits[i].pos)) = b.start
    <3>1. Offset(file, file.lits[i].pos) + 1 = At(file.src, file.lits[i].pos)
      BY <1>1, <2>2, LiteralSpans DEF Spans
    <3> QED
      BY <2>4, <3>1 DEF At
  <2>7. ASSUME Drifts(b) = {}
        PROVE  SqlAt(file, IsCode, p.line, p.character, Funcs) = {[sql |-> b.sql, offset |-> o]}
    <3>1. "cr" \notin ToSet(Written(file, file.lits[i]))
      <4>1. file.lits[i] \in ToSet(file.lits)
        BY <2>2 DEF ToSet
      <4> QED
        BY <2>6, <2>7, <4>1 DEF Drifts
    <3>2. FindSQL(file, p.line, p.character, Funcs) = {[sql |-> Body(file, i), offset |-> o]}
      BY <1>1, <2>5, <3>1, PlaceFound
    <3> QED
      BY <1>3, <2>4, <3>2 DEF SqlAt
  <2>8. ASSUME NEW lit \in Drifts(b)
        PROVE  /\ NotAfter(PositionAfter(file.src, lit.pos), p)
               /\ NotAfter(p, PositionAfter(file.src, lit.pos + lit.len - 2))
    <3>1. PICK j \in DOMAIN file.lits : lit = file.lits[j]
      BY DEF Drifts, ToSet
    <3>2. Bytes(Prefix(file.src, file.lits[j].pos)) = Offset(file, file.lits[i].pos) + 1
      BY <2>4, <3>1 DEF Drifts
    <3>3. i = j
      BY <1>1, <2>2, <3>2, StartsApart
    <3> QED
      BY <1>1, <2>2, <2>5, <3>1, <3>3, PlaceWithin
  <2> QED
    BY <2>7, <2>8
<1> QED
  BY <1>2, <1>3

\* A part between quotes stays where it is when more is written.
LEMMA QuotesStay ==
  ASSUME NEW src \in Seq(Kinds), NEW u \in Seq(Kinds), NEW lit \in Literal,
         Quotes(src, lit.pos, lit.len)
  PROVE  Quotes(src \o u, lit.pos, lit.len) /\ Inner(src \o u, lit) = Inner(src, lit)
<1>1. PICK p, l \in Nat : p = lit.pos /\ l = lit.len
  BY DEF Literal
<1>2. PICK m, n \in Nat : m = Len(src) /\ n = Len(u)
  OBVIOUS
<1>3. /\ p >= 1 /\ p <= m /\ l >= 2 /\ p + l - 1 <= m
      /\ src[p] = "x" /\ src[p + l - 1] = "x"
  BY <1>1, <1>2 DEF Quotes
<1>4. PICK t \in Seq(Kinds) : t = src \o u
  BY ConcatIs
<1>5. Len(t) = m + n /\ \A i \in 1 .. m : t[i] = src[i]
  <2>1. Len(t) = m + n /\ \A i \in 1 .. m + n : t[i] = IF i <= m THEN src[i] ELSE u[i - m]
    BY <1>2, <1>4, ConcatIs
  <2>2. \A i \in 1 .. m : i \in 1 .. m + n /\ i <= m
    OBVIOUS
  <2> QED
    BY <2>1, <2>2
<1>6. p \in 1 .. m /\ p + l - 1 \in 1 .. m
  BY <1>3
<1>7. p \in 1 .. m + n /\ p + l - 1 <= m + n /\ t[p] = "x" /\ t[p + l - 1] = "x"
  BY <1>3, <1>5, <1>6
<1>8. Quotes(t, p, l)
  BY <1>3, <1>5, <1>7 DEF Quotes
<1>9. PICK e \in Nat : e = p + l - 2 /\ e <= m /\ e >= p
  BY <1>3
<1>10. SubSeq(t, p + 1, e) = SubSeq(src, p + 1, e)
  <2>1. p \in 0 .. Len(src) /\ e \in p .. Len(src) /\ p \in 0 .. Len(t) /\ e \in p .. Len(t)
    BY <1>2, <1>3, <1>5, <1>9
  <2>2. PICK a, b : a = SubSeq(t, p + 1, e) /\ b = SubSeq(src, p + 1, e)
    OBVIOUS
  <2>3. a \in Seq(Kinds) /\ Len(a) = e - p /\ \A i \in 1 .. e - p : a[i] = t[p + i]
    BY <2>1, <2>2, PartBytes
  <2>4. b \in Seq(Kinds) /\ Len(b) = e - p /\ \A i \in 1 .. e - p : b[i] = src[p + i]
    BY <2>1, <2>2, PartBytes
  <2>5. \A i \in 1 .. e - p : p + i \in 1 .. m
    BY <1>9
  <2>6. \A i \in 1 .. Len(a) : a[i] = b[i]
    BY <1>5, <2>3, <2>4, <2>5
  <2>7. a = b
    BY <2>3, <2>4, <2>6, SeqEqual
  <2> QED
    BY <2>2, <2>7
<1> QED
  BY <1>1, <1>4, <1>8, <1>9, <1>10 DEF Inner

\* Literals stay where they are when text is added, and comments and calls are no matter.
LEMMA LitsStay ==
  ASSUME NEW f \in File, PlacedIn(f), NEW u \in Seq(Kinds), NEW h,
         h.src = f.src \o u, h.lits = f.lits
  PROVE  PlacedIn(h)
<1>1. PICK src \in Seq(Kinds), lits \in Seq(Literal) : src = f.src /\ lits = f.lits
  BY DEF File
<1>2. ASSUME NEW i \in DOMAIN lits
      PROVE  /\ Quotes(src \o u, lits[i].pos, lits[i].len)
             /\ ~lits[i].raw => "cr" \notin ToSet(Inner(src \o u, lits[i]))
  <2>1. lits[i] \in Literal
    OBVIOUS
  <2>2. /\ Quotes(src, lits[i].pos, lits[i].len)
        /\ ~lits[i].raw => "cr" \notin ToSet(Inner(src, lits[i]))
    BY <1>1, <1>2, Zenon DEF PlacedIn
  <2>3. Quotes(src \o u, lits[i].pos, lits[i].len) /\ Inner(src \o u, lits[i]) = Inner(src, lits[i])
    BY <2>1, <2>2, QuotesStay
  <2> QED
    BY <2>2, <2>3, Zenon
<1>3. \A i, j \in DOMAIN lits : i < j => lits[i].pos + lits[i].len <= lits[j].pos
  BY <1>1, Zenon DEF PlacedIn
<1>4. h.src = src \o u /\ h.lits = lits
  BY <1>1
<1> QED
  BY <1>2, <1>3, <1>4 DEF PlacedIn

\* Writing runes, comments and calls.
LEMMA PutPlaced ==
  ASSUME NEW f \in File, PlacedIn(f), NEW u \in Seq(Kinds)
  PROVE  PlacedIn(Put(f, u))
<1>1. PICK h : h = Put(f, u)
  OBVIOUS
<1>2. h.src = f.src \o u /\ h.lits = f.lits
  BY <1>1 DEF Put, File
<1> QED
  BY <1>1, <1>2, LitsStay, Zenon

\* A comment at the end leaves the literals in their places.
LEMMA PutCommentPlaced ==
  ASSUME NEW f \in File, PlacedIn(f), NEW marker, NEW own
  PROVE  PlacedIn(PutComment(f, marker, own))
<1>1. PICK u \in Seq(Kinds) : u = <<"x">>
  BY KindsAre
<1>2. PICK h : h = PutComment(f, marker, own)
  OBVIOUS
<1>3. h.src = f.src \o u /\ h.lits = f.lits
  BY <1>1, <1>2 DEF PutComment, Put, File
<1> QED
  BY <1>2, <1>3, LitsStay, Zenon

\* So does a call.
LEMMA PutCallPlaced ==
  ASSUME NEW f \in File, PlacedIn(f), NEW fun, NEW name, NEW args
  PROVE  PlacedIn(PutCall(f, fun, name, args))
<1>1. PICK h : h = PutCall(f, fun, name, args)
  OBVIOUS
<1>2. h.src = f.src \o <<>> /\ h.lits = f.lits
  BY <1>1 DEF PutCall, File
<1>3. <<>> \in Seq(Kinds)
  OBVIOUS
<1> QED
  BY <1>1, <1>2, <1>3, LitsStay, Zenon

\* What is written with its quotes is between quotes.
LEMMA NewQuotes ==
  ASSUME NEW src \in Seq(Kinds), NEW b \in Seq(Kinds), NEW u \in Seq(Kinds), u = <<"x">>,
         NEW q, q = (u \o b) \o u,
         NEW lit \in Literal, lit.pos = Len(src) + 1, lit.len = Len(b) + 2
  PROVE  /\ q \in Seq(Kinds) /\ Quotes(src \o q, lit.pos, lit.len)
         /\ "cr" \notin ToSet(b) => "cr" \notin ToSet(Inner(src \o q, lit))
<1>0. "x" \in Kinds
  BY KindsAre
<1>1. PICK m, n \in Nat : m = Len(src) /\ n = Len(b)
  OBVIOUS
<1>2. /\ q \in Seq(Kinds) /\ Len(q) = n + 2 /\ q[1] = "x" /\ q[n + 2] = "x"
      /\ \A i \in 1 .. n : q[i + 1] = b[i]
  BY <1>0, <1>1, QuotedIs
<1>3. PICK t \in Seq(Kinds) : t = src \o q
  BY <1>2, ConcatIs
<1>4. Len(t) = m + (n + 2) /\ \A i \in 1 .. n + 2 : t[m + i] = q[i]
  <2>1. /\ Len(t) = m + (n + 2)
        /\ \A i \in 1 .. m + (n + 2) : t[i] = IF i <= m THEN src[i] ELSE q[i - m]
    BY <1>1, <1>2, <1>3, ConcatIs
  <2>2. ASSUME NEW i \in 1 .. n + 2 PROVE t[m + i] = q[i]
    <3>1. PICK k \in 1 .. m + (n + 2) : k = m + i /\ ~(k <= m) /\ k - m = i
      OBVIOUS
    <3>2. t[k] = q[k - m]
      BY <2>1, <3>1
    <3> QED
      BY <3>1, <3>2, Zenon
  <2> QED
    BY <2>1, <2>2
<1>5. t[m + 1] = "x" /\ t[m + (n + 2)] = "x"
  BY <1>2, <1>4
<1>6. lit.pos = m + 1 /\ lit.len = n + 2
  BY <1>1
<1>7. Quotes(t, m + 1, n + 2)
  <2>1. m + 1 + (n + 2) - 1 = m + (n + 2) /\ m + 1 \in 1 .. m + (n + 2)
    OBVIOUS
  <2>2. n + 2 \in Nat /\ n + 2 >= 2
    OBVIOUS
  <2> QED
    BY <1>4, <1>5, <2>1, <2>2 DEF Quotes
<1>8. SubSeq(t, (m + 1) + 1, m + 1 + n) = b
  <2>1. m + 1 \in 0 .. Len(t) /\ m + 1 + n \in m + 1 .. Len(t) /\ m + 1 + n - (m + 1) = n
    BY <1>4
  <2>2. PICK v : v = SubSeq(t, (m + 1) + 1, m + 1 + n)
    OBVIOUS
  <2>3. v \in Seq(Kinds) /\ Len(v) = n /\ \A i \in 1 .. n : v[i] = t[m + 1 + i]
    BY <2>1, <2>2, PartBytes
  <2>5. ASSUME NEW i \in 1 .. n PROVE v[i] = b[i]
    <3>1. i + 1 \in 1 .. n + 2 /\ m + 1 + i = m + (i + 1)
      OBVIOUS
    <3>2. v[i] = t[m + (i + 1)]
      BY <2>3, <3>1, Zenon
    <3>3. t[m + (i + 1)] = q[i + 1] /\ q[i + 1] = b[i]
      BY <1>2, <1>4, <3>1, Zenon
    <3> QED
      BY <3>2, <3>3, Zenon
  <2>6. v = b
    BY <1>1, <2>3, <2>5, SeqEqual
  <2> QED
    BY <2>2, <2>6
<1>9. m + 1 + (n + 2) - 2 = m + 1 + n
  OBVIOUS
<1> QED
  BY <1>2, <1>3, <1>6, <1>7, <1>8, <1>9 DEF Inner

\* The literals of the lines have no carriage returns outside of raw strings.
LEMMA LiteralsAre == \A lit \in Literals : ~lit.raw => "cr" \notin ToSet(lit.body)
<1>1. ToSet(<<>>) = {}
  BY DEF ToSet
<1>2. ToSet(<<"emoji">>) = {"emoji"}
  BY DEF ToSet
<1> QED
  BY <1>1, <1>2 DEF Literals, Emoji, Empty, TwoLines, Returns

\* A new literal comes after the others.
LEMMA PutLitPlaced ==
  ASSUME NEW f \in File, PlacedIn(f), NEW lit \in Bodies, ~lit.raw => "cr" \notin ToSet(lit.body)
  PROVE  PlacedIn(PutLit(f, lit))
<1>1. PICK src \in Seq(Kinds), lits \in Seq(Literal) : src = f.src /\ lits = f.lits
  BY DEF File
<1>2. PICK b \in Seq(Kinds), u \in Seq(Kinds) : b = lit.body /\ u = <<"x">>
  BY KindsAre DEF Bodies
<1>3. PICK l \in Literal : /\ l = [pos |-> Len(src) + 1, len |-> Len(b) + 2, raw |-> lit.raw]
                           /\ l.pos = Len(src) + 1 /\ l.len = Len(b) + 2 /\ l.raw = lit.raw
  <2>1. PICK x \in Nat, y \in Nat, z \in BOOLEAN :
          x = Len(src) + 1 /\ y = Len(b) + 2 /\ z = lit.raw
    BY DEF Bodies
  <2>2. PICK l : l = [pos |-> x, len |-> y, raw |-> z]
    OBVIOUS
  <2>3. l \in Literal /\ l.pos = x /\ l.len = y /\ l.raw = z
    BY <2>2 DEF Literal
  <2> QED
    BY <2>1, <2>2, <2>3, Zenon
<1>4. PICK q : q = (u \o b) \o u
  OBVIOUS
<1>5. /\ q \in Seq(Kinds) /\ Quotes(src \o q, l.pos, l.len)
      /\ "cr" \notin ToSet(b) => "cr" \notin ToSet(Inner(src \o q, l))
  <2>1. l.pos = Len(src) + 1 /\ l.len = Len(b) + 2 /\ u = <<"x">>
    BY <1>2, <1>3
  <2> QED
    BY <1>4, <2>1, NewQuotes
<1>6. PICK h : h = PutLit(f, lit)
  OBVIOUS
<1>7. h.src = src \o q /\ h.lits = Append(lits, l)
  <2>1. f = [f EXCEPT !.src = f.src]
    BY DEF File
  <2> QED
    BY <1>1, <1>2, <1>3, <1>4, <1>6 DEF PutLit, Put, File
<1>8. PICK n \in Nat : n = Len(lits)
  OBVIOUS
<1>9. PICK t, ls : t = src \o q /\ ls = Append(lits, l)
  OBVIOUS
<1>10. DOMAIN ls = 1 .. n + 1 /\ ls[n + 1] = l /\ \A i \in 1 .. n : ls[i] = lits[i]
       /\ DOMAIN lits = 1 .. n
  BY <1>8, <1>9
<1>11. ASSUME NEW i \in 1 .. n
       PROVE  /\ lits[i] \in Literal
              /\ Quotes(src, lits[i].pos, lits[i].len) /\ Quotes(t, lits[i].pos, lits[i].len)
              /\ ~lits[i].raw => "cr" \notin ToSet(Inner(t, lits[i]))
  <2>1. lits[i] \in Literal
    BY <1>8
  <2>2. /\ Quotes(src, lits[i].pos, lits[i].len)
        /\ ~lits[i].raw => "cr" \notin ToSet(Inner(src, lits[i]))
    BY <1>1, <1>10, Zenon DEF PlacedIn
  <2>3. Quotes(src \o q, lits[i].pos, lits[i].len) /\ Inner(src \o q, lits[i]) = Inner(src, lits[i])
    BY <1>5, <2>1, <2>2, QuotesStay
  <2> QED
    BY <1>9, <2>1, <2>2, <2>3, Zenon
<1>12. ASSUME NEW i \in DOMAIN ls
       PROVE  /\ Quotes(t, ls[i].pos, ls[i].len)
              /\ ~ls[i].raw => "cr" \notin ToSet(Inner(t, ls[i]))
  <2>1. i = n + 1 \/ i \in 1 .. n
    BY <1>10
  <2>2. CASE i = n + 1
    BY <1>2, <1>3, <1>5, <1>9, <1>10, <2>2
  <2>3. CASE i \in 1 .. n
    BY <1>10, <1>11, <2>3
  <2> QED
    BY <2>1, <2>2, <2>3
<1>13. ASSUME NEW i \in DOMAIN ls, NEW j \in DOMAIN ls, i < j
       PROVE  ls[i].pos + ls[i].len <= ls[j].pos
  <2>1. i \in 1 .. n /\ (j = n + 1 \/ j \in 1 .. n)
    BY <1>10, <1>13
  <2>2. CASE j = n + 1
    <3>1. PICK p, k \in Nat : p = lits[i].pos /\ k = lits[i].len
      BY <1>11, <2>1 DEF Literal
    <3>2. p + k - 1 <= Len(src)
      BY <1>11, <2>1, <3>1 DEF Quotes
    <3>3. p + k <= Len(src) + 1
      BY <3>2
    <3> QED
      BY <1>3, <1>10, <2>1, <2>2, <3>1, <3>3
  <2>3. CASE j \in 1 .. n
    <3>1. lits[i].pos + lits[i].len <= lits[j].pos
      BY <1>1, <1>10, <1>13, <2>1, <2>3, Zenon DEF PlacedIn
    <3> QED
      BY <1>10, <2>1, <2>3, <3>1
  <2> QED
    BY <2>1, <2>2, <2>3
<1> QED
  BY <1>6, <1>7, <1>9, <1>12, <1>13 DEF PlacedIn
-----------------------------------------------------------------------------
(* The place of an issue. *)

\* The inductive invariant: the literals of the file are in their places.
Placed == FileOK /\ PlacedIn(file)

\* Every line that is written leaves the literals in their places.
LEMMA PlacedStep == Placed /\ [MCNext]_MCvars => Placed'
<1> SUFFICES ASSUME FileOK, PlacedIn(file), [MCNext]_MCvars PROVE PlacedIn(file')
  BY FileStep DEF Placed
<1>0. file \in File
  BY DEF FileOK
<1>1. ASSUME NEW r \in Runes, TypeRune(r) PROVE PlacedIn(file')
  <2>1. <<r>> \in Seq(Kinds)
    BY KindsAre
  <2> QED
    BY <1>0, <1>1, <2>1, PutPlaced DEF TypeRune
<1>2. CASE BlankLine
  BY <1>0, <1>2, KindsAre, PutPlaced DEF BlankLine
<1>3. ASSUME NEW marker \in BOOLEAN, CommentLine(marker) PROVE PlacedIn(file')
  <2>1. PICK u \in Seq(Kinds) : u = <<"x", "nl">>
    BY KindsAre
  <2>2. PICK cs, h : h = file' /\ h = [Put(file, u) EXCEPT !.comments = cs]
    BY <1>3, <2>1 DEF CommentLine
  <2>3. h.src = file.src \o u /\ h.lits = file.lits
    BY <1>0, <2>2 DEF Put, File
  <2>4. PlacedIn(h)
    BY <1>0, <2>3, LitsStay
  <2> QED
    BY <2>2, <2>4
<1>4. ASSUME NEW lit \in Literals, NEW comment, AssignLine(lit, comment) PROVE PlacedIn(file')
  <2> DEFINE g == IF comment = "before" THEN PutComment(file, TRUE, FALSE) ELSE file
             k == Put(g, <<"kana">>)
             f == PutLit(k, lit)
             h == IF comment \in {"marker", "other"}
                    THEN PutComment(f, comment = "marker", FALSE) ELSE f
  <2>1. g \in File /\ PlacedIn(g)
    BY <1>0, PutCommentType, PutCommentPlaced
  <2>2. k \in File /\ PlacedIn(k)
    <3> HIDE DEF g
    <3> QED
      BY <2>1, KindsAre, PutType, PutPlaced
  <2>3. f \in File /\ PlacedIn(f)
    <3> HIDE DEF k
    <3>1. lit \in Bodies /\ (~lit.raw => "cr" \notin ToSet(lit.body))
      BY KindsAre, LiteralsAre
    <3> QED
      BY <2>2, <3>1, PutLitType, PutLitPlaced
  <2>4. h \in File /\ PlacedIn(h)
    <3> HIDE DEF f
    <3>1. (comment = "marker") \in BOOLEAN
      OBVIOUS
    <3> QED
      BY <2>3, <3>1, PutCommentType, PutCommentPlaced
  <2>5. file' = Put(h, <<"nl">>)
    BY <1>4 DEF AssignLine
  <2> HIDE DEF h
  <2> QED
    BY <2>4, <2>5, KindsAre, PutPlaced
<1>5. ASSUME NEW fun \in {<<"selector">>, <<"index", "selector">>, <<"ident">>},
             NEW name \in {"Query", "QueryContext", "Get"}, NEW skipped \in {0, 1},
             NEW lit \in Literals, NEW rest \in {<<>>, <<Emoji>>}, NEW nested \in BOOLEAN,
             CallLine(fun, name, skipped, <<lit>> \o rest, nested)
      PROVE  PlacedIn(file')
  <2>1. PICK lits \in Seq(Literals) : lits = <<lit>> \o rest
    BY CallLits
  <2> DEFINE n == Len(file.lits)
             args == [k \in 1 .. skipped + Len(lits) |->
                        IF k <= skipped THEN 0 ELSE n + k - skipped]
             outer == IF nested THEN PutCall(file, <<"selector">>, "Query", <<0>>) ELSE file
             k == Put(outer, <<"kana">>)
             f == PutCall(k, fun, name, args)
             W == {g \in File : PlacedIn(g)}
  <2>2. outer \in File /\ PlacedIn(outer)
    <3>1. <<"selector">> \in Seq({"selector", "index", "ident"}) /\ <<0>> \in Seq(Int)
      OBVIOUS
    <3> QED
      BY <1>0, <3>1, PutCallType, PutCallPlaced
  <2>3. k \in File /\ PlacedIn(k)
    <3> HIDE DEF outer
    <3> QED
      BY <2>2, KindsAre, PutType, PutPlaced
  <2>4. fun \in Seq({"selector", "index", "ident"}) /\ args \in Seq(Int)
    <3>1. n \in Nat
      BY <1>0 DEF File
    <3> HIDE DEF n
    <3> QED
      BY <3>1, ArgsAre
  <2>5. f \in W
    <3> HIDE DEF k, args
    <3> QED
      BY <2>3, <2>4, PutCallType, PutCallPlaced
  <2>6. file' = FoldLeft(LAMBDA g, l : Put(PutLit(g, l), <<"x">>), f, lits)
    BY <1>5, <2>1 DEF CallLine
  <2> HIDE DEF f
  <2>7. file' = Writing!Fold(f, lits)
    BY <2>6 DEF Writing!Fold, FoldLeft, Writing!FoldLeft, MapThenFoldSet,
             Writing!MapThenFoldSet, Max, Writing!Max
  <2>8. ASSUME NEW g \in W, NEW l \in Literals PROVE Put(PutLit(g, l), <<"x">>) \in W
    <3>1. l \in Bodies /\ (~l.raw => "cr" \notin ToSet(l.body))
      BY KindsAre, LiteralsAre
    <3>2. PutLit(g, l) \in File /\ PlacedIn(PutLit(g, l))
      BY <3>1, PutLitType, PutLitPlaced
    <3> QED
      BY <3>2, KindsAre, PutType, PutPlaced
  <2> HIDE DEF W
  <2>9. Writing!Fold(f, lits) \in W
    BY <2>1, <2>5, <2>8, Writing!FoldType
  <2> QED
    BY <2>7, <2>9 DEF W
<1>6. CASE UNCHANGED MCvars
  BY <1>6 DEF MCvars
<1>7. CASE AssignLines
  <2>1. {Emoji, TwoLines} \subseteq Literals
    BY DEF Literals
  <2>2. CASE \E lit \in Literals : AssignLine(lit, "none")
    BY <1>4, <2>2
  <2>3. CASE \E lit \in {Emoji, TwoLines}, comment \in {"before", "marker", "other"} :
               AssignLine(lit, comment)
    <3>1. PICK lit \in {Emoji, TwoLines}, comment \in {"before", "marker", "other"} :
                 AssignLine(lit, comment)
      BY <2>3
    <3>2. lit \in Literals
      BY <2>1
    <3> QED
      BY <1>4, <3>1, <3>2
  <2> QED
    BY <1>7, <2>2, <2>3 DEF AssignLines
<1>8. CASE CallLines
  <2>1. PICK fun \in {<<"selector">>, <<"index", "selector">>, <<"ident">>},
             name \in {"Query", "QueryContext", "Get"}, skipped \in {0, 1}, lit \in Literals,
             rest \in {<<>>, <<Emoji>>}, nested \in BOOLEAN :
          /\ (name = "Get" \/ nested \/ lit = Empty) => fun = <<"selector">>
          /\ fun = <<"ident">> \/ rest # <<>> => lit \in {Emoji, TwoLines}
          /\ nested => lit = Emoji /\ skipped = 1
          /\ CallLine(fun, name, skipped, <<lit>> \o rest, nested)
    BY <1>8, Zenon DEF CallLines
  <2> QED
    BY <1>5, <2>1
<1> QED
  BY <1>1, <1>2, <1>3, <1>6, <1>7, <1>8 DEF MCNext

\* The empty file has none.
LEMMA PlacedInit == MCInit => Placed
<1>1. <<>> = NoFile.lits /\ DOMAIN <<>> = {}
  BY DEF NoFile
<1> QED
  BY <1>1, FileInit DEF MCInit, PlacedIn, Placed

\* In every Go file and every plain text that can be written, an issue is shown at the
\* place where hover, completion and definition find the same offset of the same SQL;
\* in a raw string with carriage returns, which go/scanner takes out (goast.go:67), it
\* is shown within the literal all the same (server.go:665-666).
THEOREM ShownThere == MCSpec => []ShownWhereFound
<1>1. Placed => ShownWhereFound
  BY PlacedShows DEF Placed
<1> QED
  BY <1>1, PlacedInit, PlacedStep, PTL DEF MCSpec
-----------------------------------------------------------------------------
(* Which literals are SQL: lines. *)

NewLines(s) == Cardinality(Breaks(s))

\* A line more for a line break.
LEMMA NewLinesAppend ==
  ASSUME NEW s \in Seq(Kinds), NEW r \in Kinds
  PROVE  /\ NewLines(s) \in Nat
         /\ NewLines(Append(s, r)) = IF r = "nl" THEN NewLines(s) + 1 ELSE NewLines(s)
<1>1. PICK n \in Nat : n = Len(s)
  OBVIOUS
<1>2. PICK w \in Seq(Kinds) : w = Append(s, r)
  <2>1. Append(s, r) \in Seq(Kinds)
    BY ConcatAppend
  <2> QED
    BY <2>1
<1>3. Len(w) = n + 1 /\ w[n + 1] = r
  BY <1>1, <1>2
<1>4. PICK u \in Seq(Kinds) : u = <<r>> /\ w = s \o u
  <2>1. Append(s, r) = s \o <<r>> /\ <<r>> \in Seq(Kinds)
    OBVIOUS
  <2> QED
    BY <1>2, <2>1
<1>5. LineAt(w, n) = LineAt(s, n)
  <2>1. n \in 0 .. Len(s)
    BY <1>1
  <2> QED
    BY <1>4, <2>1, PlacesStay
<1>6. n \in 0 .. Len(w) - 1
  BY <1>3
<1>7. LineAt(w, n + 1) = IF w[n + 1] = "nl" THEN LineAt(w, n) + 1 ELSE LineAt(w, n)
  BY <1>6, LineStep
<1>8. /\ LineAt(s, n) = NewLines(s) /\ LineAt(w, n + 1) = NewLines(w)
      /\ LineAt(s, n) \in Nat
  <2>1. LineAt(s, Len(s)) = Cardinality(Breaks(s)) /\ LineAt(w, Len(w)) = Cardinality(Breaks(w))
    BY LineStep
  <2>2. n \in 0 .. Len(s)
    BY <1>1
  <2>3. LineAt(s, n) \in Nat
    BY <2>2, LineStep
  <2> QED
    BY <1>1, <1>3, <2>1, <2>3 DEF NewLines
<1> QED
  BY <1>2, <1>3, <1>5, <1>7, <1>8, Zenon

\* The lines of two texts add up.
LEMMA NewLinesConcat ==
  ASSUME NEW s \in Seq(Kinds), NEW u \in Seq(Kinds)
  PROVE  NewLines(s \o u) = NewLines(s) + NewLines(u) /\ NewLines(s) \in Nat /\ NewLines(u) \in Nat
<1> DEFINE T == {r \in Seq(Kinds) : NewLines(s \o r) = NewLines(s) + NewLines(r)
                                    /\ NewLines(r) \in Nat}
<1>0. NewLines(s) \in Nat
  BY KindsAre, NewLinesAppend
<1>1. <<>> \in T
  <2>1. s \o <<>> = s /\ <<>> \in Seq(Kinds)
    OBVIOUS
  <2>2. NewLines(<<>>) = 0
    <3>1. Breaks(<<>>) = {}
      BY DEF Breaks
    <3> QED
      BY <3>1, FS_EmptySet DEF NewLines
  <2> QED
    BY <1>0, <2>1, <2>2
<1>2. ASSUME NEW r \in Seq(Kinds), NEW e \in Kinds, r \in T PROVE Append(r, e) \in T
  <2>1. s \o r \in Seq(Kinds) /\ s \o Append(r, e) = Append(s \o r, e) /\ Append(r, e) \in Seq(Kinds)
    BY ConcatAppend
  <2>2. PICK w \in Seq(Kinds) : w = s \o r
    BY <2>1
  <2>3. NewLines(w) = NewLines(s) + NewLines(r) /\ NewLines(r) \in Nat
    BY <1>2, <2>2
  <2>4. NewLines(Append(w, e)) = IF e = "nl" THEN NewLines(w) + 1 ELSE NewLines(w)
    BY NewLinesAppend
  <2>5. NewLines(Append(r, e)) = IF e = "nl" THEN NewLines(r) + 1 ELSE NewLines(r)
    BY NewLinesAppend
  <2>6. NewLines(Append(w, e)) = NewLines(s) + NewLines(Append(r, e)) /\ NewLines(Append(r, e)) \in Nat
    BY <1>0, <2>3, <2>4, <2>5
  <2> QED
    BY <2>1, <2>2, <2>6
<1> HIDE DEF T
<1>3. Seq(Kinds) \subseteq T
  BY <1>1, <1>2, Sizes!SeqSet
<1> QED
  BY <1>0, <1>3 DEF T

\* Texts on one line, and others.
LEMMA NewLinesAre ==
  /\ NewLines(<<"x">>) = 0 /\ NewLines(<<"kana">>) = 0 /\ NewLines(<<"nl">>) = 1
  /\ NewLines(<<"x", "nl">>) = 1
  /\ \A b \in Seq(Kinds) : NewLines(b) = 0 <=> "nl" \notin ToSet(b)
<1>1. Breaks(<<"x">>) = {} /\ Breaks(<<"kana">>) = {} /\ Breaks(<<"nl">>) = {1}
  BY DEF Breaks
<1>2. Breaks(<<"x", "nl">>) = {2}
  BY DEF Breaks
<1>3. ASSUME NEW b \in Seq(Kinds) PROVE NewLines(b) = 0 <=> "nl" \notin ToSet(b)
  <2>1. IsFiniteSet(Breaks(b))
    <3>1. IsFiniteSet(1 .. Len(b)) /\ Breaks(b) \subseteq 1 .. Len(b)
      BY FS_Interval DEF Breaks
    <3> QED
      BY <3>1, FS_Subset
  <2>2. NewLines(b) = 0 <=> Breaks(b) = {}
    BY <2>1, FS_EmptySet DEF NewLines
  <2>3. Breaks(b) = {} <=> "nl" \notin ToSet(b)
    BY DEF Breaks, ToSet
  <2> QED
    BY <2>2, <2>3
<1> QED
  BY <1>1, <1>2, <1>3, FS_EmptySet, FS_Singleton DEF NewLines
-----------------------------------------------------------------------------
(* Which literals are SQL: marker comments. *)

Mark == [line : Nat, marker : BOOLEAN]

\* Of the comments that end on the line above, the last one counts.
MarkedAt(marks, l) ==
  LET over == {j \in DOMAIN marks : marks[j].line = l - 1}
  IN  over # {} /\ marks[Max(over)].marker

\* A new comment counts where it is above, and nowhere else.
LEMMA MarkAdded ==
  ASSUME NEW marks \in Seq(Mark), NEW m \in Mark, NEW l \in Nat
  PROVE  MarkedAt(Append(marks, m), l) <=> IF m.line = l - 1 THEN m.marker ELSE MarkedAt(marks, l)
<1>1. PICK n \in Nat : n = Len(marks)
  OBVIOUS
<1>2. PICK s : s = Append(marks, m)
  OBVIOUS
<1>3. /\ DOMAIN s = 1 .. n + 1 /\ s[n + 1] = m /\ DOMAIN marks = 1 .. n
      /\ \A j \in 1 .. n : s[j] = marks[j]
  BY <1>1, <1>2
<1> DEFINE over == {j \in DOMAIN marks : marks[j].line = l - 1}
           then == {j \in DOMAIN s : s[j].line = l - 1}
<1>4. CASE m.line = l - 1
  <2>1. n + 1 \in then /\ \A y \in then : n + 1 >= y
    BY <1>3, <1>4
  <2>2. \A x \in then : (\A y \in then : x >= y) => x = n + 1
    BY <1>3, <2>1
  <2> HIDE DEF then
  <2>3. Max(then) = n + 1
    BY <2>1, <2>2, Zenon DEF Max
  <2>4. MarkedAt(s, l) <=> then # {} /\ s[Max(then)].marker
    BY DEF MarkedAt, then
  <2> QED
    BY <1>2, <1>3, <1>4, <2>1, <2>3, <2>4
<1>5. CASE m.line # l - 1
  <2>1. then = over
    <3>1. \A j \in 1 .. n + 1 : j = n + 1 \/ j \in 1 .. n
      OBVIOUS
    <3>2. \A j \in 1 .. n : j \in 1 .. n + 1
      OBVIOUS
    <3> QED
      BY <1>3, <1>5, <3>1, <3>2, Zenon
  <2>2. over # {} => s[Max(over)] = marks[Max(over)]
    <3> SUFFICES ASSUME over # {} PROVE s[Max(over)] = marks[Max(over)]
      OBVIOUS
    <3>1. over \subseteq 1 .. n
      BY <1>3
    <3>2. over \in SUBSET (0 .. n)
      BY <3>1
    <3> HIDE DEF over
    <3>3. Max(over) \in over
      <4>1. Sizes!Max(over) \in over
        BY <3>2, Sizes!MaxOf
      <4> QED
        BY <4>1 DEF Max, Sizes!Max
    <3> QED
      BY <1>3, <3>1, <3>3
  <2> HIDE DEF over, then
  <2>3. (MarkedAt(s, l) <=> then # {} /\ s[Max(then)].marker)
        /\ (MarkedAt(marks, l) <=> over # {} /\ marks[Max(over)].marker)
    BY DEF MarkedAt, over, then
  <2> QED
    BY <1>2, <1>5, <2>1, <2>2, <2>3, Zenon
<1> QED
  BY <1>4, <1>5

\* No comment above, no marker.
LEMMA NoMarkAbove ==
  ASSUME NEW marks, NEW l, \A j \in DOMAIN marks : marks[j].line # l - 1
  PROVE  ~MarkedAt(marks, l)
BY DEF MarkedAt

-----------------------------------------------------------------------------
(* Which literals are SQL: the lines of literals and comments. *)

\* The lines of the literals, and those that the comments end on.
LitLines(src, lits) == [i \in DOMAIN lits |-> LineAt(src, lits[i].pos - 1)]
Marks(src, comments) ==
  [j \in DOMAIN comments |-> [line |-> LineAt(src, comments[j].end - 1),
                              marker |-> comments[j].marker]]
LastLine(src) == LineAt(src, Len(src))

InText(src, lits) == \A i \in DOMAIN lits : lits[i].pos \in 1 .. Len(src) + 1
EndsIn(src, comments) == \A j \in DOMAIN comments : comments[j].end \in 1 .. Len(src) + 1

\* Which literals are below a marker is a matter of their lines.
LEMMA MarkedIs ==
  ASSUME NEW f \in File
  PROVE  Marked(f) = {i \in DOMAIN f.lits :
                        MarkedAt(Marks(f.src, f.comments), LitLines(f.src, f.lits)[i])}
<1>1. PICK marks, ls : marks = Marks(f.src, f.comments) /\ ls = LitLines(f.src, f.lits)
  OBVIOUS
<1>2. /\ DOMAIN marks = DOMAIN f.comments
      /\ \A j \in DOMAIN f.comments : /\ marks[j].line = Line(f, f.comments[j].end)
                                      /\ marks[j].marker = f.comments[j].marker
  BY <1>1 DEF Marks, Line, LineAt
<1>3. \A i \in DOMAIN f.lits : ls[i] = Line(f, f.lits[i].pos)
  BY <1>1 DEF LitLines, Line, LineAt
<1>4. PICK n \in Nat : DOMAIN f.comments = 1 .. n
  BY DEF File
<1>5. ASSUME NEW i \in DOMAIN f.lits PROVE i \in Marked(f) <=> MarkedAt(marks, ls[i])
  <2> DEFINE over == {j \in DOMAIN marks : marks[j].line = ls[i] - 1}
             near == {j \in DOMAIN f.comments :
                        Line(f, f.comments[j].end) = Line(f, f.lits[i].pos) - 1}
  <2>1. over = near
    BY <1>2, <1>3
  <2>2. over # {} => Max(over) \in DOMAIN f.comments
    <3>1. over \in SUBSET (0 .. n) /\ over \subseteq DOMAIN f.comments
      BY <1>2, <1>4
    <3> HIDE DEF over
    <3>2. over # {} => Sizes!Max(over) \in over
      BY <3>1, Sizes!MaxOf
    <3> QED
      BY <3>1, <3>2 DEF Max, Sizes!Max
  <2> HIDE DEF over
  <2>3. i \in Marked(f) <=> near # {} /\ f.comments[Max(near)].marker
    BY DEF Marked
  <2>4. MarkedAt(marks, ls[i]) <=> over # {} /\ marks[Max(over)].marker
    BY DEF MarkedAt, over
  <2> HIDE DEF near
  <2>5. over # {} => marks[Max(over)].marker = f.comments[Max(over)].marker
    BY <1>2, <2>2
  <2> QED
    BY <2>1, <2>3, <2>4, <2>5, Zenon
<1>6. Marked(f) \subseteq DOMAIN f.lits
  BY DEF Marked
<1> QED
  BY <1>1, <1>5, <1>6

\* What is written already stays on its line.
LEMMA LinesStay ==
  ASSUME NEW src \in Seq(Kinds), NEW u \in Seq(Kinds), NEW lits \in Seq(Literal), InText(src, lits)
  PROVE  LitLines(src \o u, lits) = LitLines(src, lits) /\ InText(src \o u, lits)
<1>1. PICK m, n \in Nat : m = Len(src) /\ n = Len(u)
  OBVIOUS
<1>2. Len(src \o u) = m + n
  BY <1>1, ConcatIs
<1>3. ASSUME NEW i \in DOMAIN lits
      PROVE  /\ LineAt(src \o u, lits[i].pos - 1) = LineAt(src, lits[i].pos - 1)
             /\ lits[i].pos \in 1 .. Len(src \o u) + 1
  <2>1. PICK p : p = lits[i].pos
    OBVIOUS
  <2>2. p \in 1 .. m + 1
    BY <1>1, <2>1 DEF InText
  <2>3. p - 1 \in 0 .. Len(src) /\ p \in 1 .. m + n + 1
    BY <1>1, <2>2
  <2>4. LineAt(src \o u, p - 1) = LineAt(src, p - 1)
    BY <2>3, PlacesStay
  <2> QED
    BY <1>2, <2>1, <2>3, <2>4
<1>4. LitLines(src \o u, lits) = LitLines(src, lits)
  BY <1>3, Zenon DEF LitLines
<1> QED
  BY <1>3, <1>4 DEF InText

\* The same for comments.
LEMMA MarksStay ==
  ASSUME NEW src \in Seq(Kinds), NEW u \in Seq(Kinds), NEW comments \in Seq(Group),
         EndsIn(src, comments)
  PROVE  Marks(src \o u, comments) = Marks(src, comments) /\ EndsIn(src \o u, comments)
<1>1. PICK m, n \in Nat : m = Len(src) /\ n = Len(u)
  OBVIOUS
<1>2. Len(src \o u) = m + n
  BY <1>1, ConcatIs
<1>3. ASSUME NEW j \in DOMAIN comments
      PROVE  /\ LineAt(src \o u, comments[j].end - 1) = LineAt(src, comments[j].end - 1)
             /\ comments[j].end \in 1 .. Len(src \o u) + 1
  <2>1. PICK p : p = comments[j].end
    OBVIOUS
  <2>2. p \in 1 .. m + 1
    BY <1>1, <2>1 DEF EndsIn
  <2>3. p - 1 \in 0 .. Len(src) /\ p \in 1 .. m + n + 1
    BY <1>1, <2>2
  <2>4. LineAt(src \o u, p - 1) = LineAt(src, p - 1)
    BY <2>3, PlacesStay
  <2> QED
    BY <1>2, <2>1, <2>3, <2>4
<1>4. Marks(src \o u, comments) = Marks(src, comments)
  BY <1>3, Zenon DEF Marks
<1> QED
  BY <1>3, <1>4 DEF EndsIn

\* Lines are numbers.
LEMMA LinesAre ==
  ASSUME NEW src \in Seq(Kinds), NEW lits \in Seq(Literal), InText(src, lits),
         NEW comments \in Seq(Group), EndsIn(src, comments)
  PROVE  /\ LitLines(src, lits) \in Seq(Nat) /\ Len(LitLines(src, lits)) = Len(lits)
         /\ Marks(src, comments) \in Seq(Mark) /\ Len(Marks(src, comments)) = Len(comments)
         /\ LastLine(src) \in Nat
<1>1. PICK m, n, c \in Nat : m = Len(src) /\ n = Len(lits) /\ c = Len(comments)
  OBVIOUS
<1>2. DOMAIN lits = 1 .. n /\ DOMAIN comments = 1 .. c
  BY <1>1
<1>3. ASSUME NEW i \in 1 .. n PROVE LineAt(src, lits[i].pos - 1) \in Nat
  <2>1. PICK p : p = lits[i].pos
    OBVIOUS
  <2>2. p \in 1 .. m + 1
    BY <1>1, <1>2, <2>1 DEF InText
  <2>3. p - 1 \in 0 .. Len(src)
    BY <1>1, <2>2
  <2> QED
    BY <2>1, <2>3, LineStep
<1>4. LitLines(src, lits) \in Seq(Nat) /\ Len(LitLines(src, lits)) = n
  <2>1. LitLines(src, lits) \in [1 .. n -> Nat]
    BY <1>2, <1>3 DEF LitLines
  <2> QED
    BY <2>1
<1>5. ASSUME NEW j \in 1 .. c
      PROVE  [line |-> LineAt(src, comments[j].end - 1), marker |-> comments[j].marker] \in Mark
  <2>1. PICK p : p = comments[j].end
    OBVIOUS
  <2>2. p \in 1 .. m + 1
    BY <1>1, <1>2, <2>1 DEF EndsIn
  <2>3. p - 1 \in 0 .. Len(src)
    BY <1>1, <2>2
  <2>4. LineAt(src, p - 1) \in Nat
    BY <2>3, LineStep
  <2>5. comments[j].marker \in BOOLEAN
    <3>1. comments[j] \in Group
      BY <1>2
    <3> QED
      BY <3>1 DEF Group
  <2> QED
    BY <2>1, <2>4, <2>5 DEF Mark
<1>6. Marks(src, comments) \in Seq(Mark) /\ Len(Marks(src, comments)) = c
  <2>1. Marks(src, comments) \in [1 .. c -> Mark]
    BY <1>2, <1>5, Zenon DEF Marks
  <2> QED
    BY <2>1
<1>7. LastLine(src) \in Nat
  BY LineStep DEF LastLine
<1> QED
  BY <1>1, <1>4, <1>6, <1>7

\* One more literal, on the last line.
LEMMA LitLinesAppend ==
  ASSUME NEW src \in Seq(Kinds), NEW lits \in Seq(Literal), InText(src, lits),
         NEW l \in Literal, l.pos = Len(src) + 1
  PROVE  /\ LitLines(src, Append(lits, l)) = Append(LitLines(src, lits), LastLine(src))
         /\ InText(src, Append(lits, l))
<1>1. PICK n \in Nat : n = Len(lits)
  OBVIOUS
<1>2. PICK s, a, b : s = Append(lits, l) /\ a = LitLines(src, s) /\ b = LitLines(src, lits)
  OBVIOUS
<1>3. /\ DOMAIN lits = 1 .. n /\ DOMAIN s = 1 .. n + 1 /\ s[n + 1] = l
      /\ \A i \in 1 .. n : s[i] = lits[i]
  BY <1>1, <1>2
<1>4. PICK o \in Nat : o = Len(src) /\ l.pos = o + 1 /\ l.pos - 1 = o
  OBVIOUS
<1>5. LastLine(src) \in Nat /\ b \in Seq(Nat) /\ Len(b) = n
  <2>1. PICK c : c = <<>>
    OBVIOUS
  <2>2. c \in Seq(Group) /\ EndsIn(src, c)
    BY <2>1 DEF EndsIn
  <2> QED
    BY <1>1, <1>2, <2>2, LinesAre
<1>6. PICK e : e = Append(b, LastLine(src))
  OBVIOUS
<1>7. /\ DOMAIN e = 1 .. n + 1 /\ e \in Seq(Nat) /\ e[n + 1] = LastLine(src)
      /\ \A i \in 1 .. n : e[i] = b[i]
  BY <1>5, <1>6
<1>8. DOMAIN a = 1 .. n + 1 /\ \A i \in 1 .. n + 1 : a[i] = LineAt(src, s[i].pos - 1)
  BY <1>2, <1>3 DEF LitLines
<1>9. \A i \in 1 .. n : b[i] = LineAt(src, lits[i].pos - 1)
  BY <1>2, <1>3 DEF LitLines
<1>10. ASSUME NEW i \in 1 .. n + 1 PROVE a[i] = e[i]
  <2>1. CASE i = n + 1
    BY <1>3, <1>4, <1>7, <1>8, <2>1 DEF LastLine
  <2>2. CASE i \in 1 .. n
    BY <1>3, <1>7, <1>8, <1>9, <2>2
  <2> QED
    BY <2>1, <2>2
<1>11. a = e
  <2>1. a = [i \in 1 .. n + 1 |-> a[i]] /\ e = [i \in 1 .. n + 1 |-> e[i]]
    <3>1. a = [i \in DOMAIN s |-> LineAt(src, s[i].pos - 1)]
      BY <1>2 DEF LitLines
    <3> QED
      BY <1>3, <1>7, <3>1
  <2> QED
    BY <1>10, <2>1, Zenon
<1>12. InText(src, s)
  <2> SUFFICES ASSUME NEW i \in DOMAIN s PROVE s[i].pos \in 1 .. Len(src) + 1
    BY DEF InText
  <2>1. CASE i = n + 1
    BY <1>3, <1>4, <2>1
  <2>2. CASE i \in 1 .. n
    BY <1>3, <2>2 DEF InText
  <2> QED
    BY <1>3, <2>1, <2>2
<1> QED
  BY <1>2, <1>6, <1>11, <1>12

\* One more comment.
LEMMA MarksAppend ==
  ASSUME NEW src \in Seq(Kinds), NEW comments \in Seq(Group), EndsIn(src, comments),
         NEW c \in Group, c.end \in 1 .. Len(src) + 1
  PROVE  /\ Marks(src, Append(comments, c)) =
              Append(Marks(src, comments), [line |-> LineAt(src, c.end - 1), marker |-> c.marker])
         /\ EndsIn(src, Append(comments, c))
         /\ [line |-> LineAt(src, c.end - 1), marker |-> c.marker] \in Mark
<1>0. PICK m : m = [line |-> LineAt(src, c.end - 1), marker |-> c.marker]
  OBVIOUS
<1>1. PICK n \in Nat : n = Len(comments)
  OBVIOUS
<1>2. PICK s, a, b : s = Append(comments, c) /\ a = Marks(src, s) /\ b = Marks(src, comments)
  OBVIOUS
<1>3. /\ DOMAIN comments = 1 .. n /\ DOMAIN s = 1 .. n + 1 /\ s[n + 1] = c
      /\ \A i \in 1 .. n : s[i] = comments[i]
  BY <1>1, <1>2
<1>4. m \in Mark
  <2>1. PICK p, o \in Nat : p = c.end /\ o = Len(src)
    BY DEF Group
  <2>2. p - 1 \in 0 .. o
    BY <2>1
  <2>3. LineAt(src, p - 1) \in Nat
    BY <2>1, <2>2, LineStep
  <2>4. c.marker \in BOOLEAN
    BY DEF Group
  <2> QED
    BY <1>0, <2>1, <2>3, <2>4 DEF Mark
<1>5. b \in Seq(Mark) /\ Len(b) = n
  <2>1. PICK d : d = <<>>
    OBVIOUS
  <2>2. d \in Seq(Literal) /\ InText(src, d)
    BY <2>1 DEF InText
  <2> QED
    BY <1>1, <1>2, <2>2, LinesAre
<1>6. PICK e : e = Append(b, m)
  OBVIOUS
<1>7. /\ DOMAIN e = 1 .. n + 1 /\ e \in Seq(Mark) /\ e[n + 1] = m
      /\ \A i \in 1 .. n : e[i] = b[i]
  BY <1>4, <1>5, <1>6
<1>8. /\ DOMAIN a = 1 .. n + 1
      /\ \A i \in 1 .. n + 1 : a[i] = [line |-> LineAt(src, s[i].end - 1), marker |-> s[i].marker]
  BY <1>2, <1>3 DEF Marks
<1>9. \A i \in 1 .. n :
        b[i] = [line |-> LineAt(src, comments[i].end - 1), marker |-> comments[i].marker]
  BY <1>2, <1>3 DEF Marks
<1>10. ASSUME NEW i \in 1 .. n + 1 PROVE a[i] = e[i]
  <2>1. CASE i = n + 1
    BY <1>0, <1>3, <1>7, <1>8, <2>1, Zenon
  <2>2. CASE i \in 1 .. n
    BY <1>3, <1>7, <1>8, <1>9, <2>2, Zenon
  <2>3. i = n + 1 \/ i \in 1 .. n
    OBVIOUS
  <2> QED
    BY <2>1, <2>2, <2>3
<1>11. a = e
  <2>1. a = [i \in 1 .. n + 1 |-> a[i]] /\ e = [i \in 1 .. n + 1 |-> e[i]]
    <3>1. a = [j \in DOMAIN s |-> [line |-> LineAt(src, s[j].end - 1), marker |-> s[j].marker]]
      BY <1>2 DEF Marks
    <3> QED
      BY <1>3, <1>7, <3>1
  <2> QED
    BY <1>10, <2>1, Zenon
<1>12. EndsIn(src, s)
  <2> SUFFICES ASSUME NEW i \in DOMAIN s PROVE s[i].end \in 1 .. Len(src) + 1
    BY DEF EndsIn
  <2>1. CASE i = n + 1
    BY <1>3, <2>1
  <2>2. CASE i \in 1 .. n
    BY <1>3, <2>2 DEF EndsIn
  <2> QED
    BY <1>3, <2>1, <2>2
<1> QED
  BY <1>0, <1>2, <1>4, <1>6, <1>11, <1>12

\* A file whose parts are in their places, and what of it says which literals are marked.
InPlace(f) == f \in File /\ PlacedIn(f) /\ EndsIn(f.src, f.comments)

Shows(f, lines, marks, last) ==
  InPlace(f) /\ LitLines(f.src, f.lits) = lines /\ Marks(f.src, f.comments) = marks
  /\ LastLine(f.src) = last

\* Literals in their places are in the text.
LEMMA InPlaceIs ==
  ASSUME NEW f, InPlace(f)
  PROVE  /\ f.src \in Seq(Kinds) /\ f.lits \in Seq(Literal) /\ f.comments \in Seq(Group)
         /\ InText(f.src, f.lits) /\ EndsIn(f.src, f.comments)
<1>1. f.src \in Seq(Kinds) /\ f.lits \in Seq(Literal) /\ f.comments \in Seq(Group)
  BY DEF InPlace, File
<1>2. PICK src, lits : src = f.src /\ lits = f.lits
  OBVIOUS
<1>3. ASSUME NEW i \in DOMAIN lits PROVE lits[i].pos \in 1 .. Len(src) + 1
  <2>1. Quotes(src, lits[i].pos, lits[i].len)
    BY <1>2, <1>3, Zenon DEF InPlace, PlacedIn
  <2>2. lits[i].pos \in 1 .. Len(src)
    BY <2>1, Zenon DEF Quotes
  <2>3. PICK m \in Nat : m = Len(src)
    BY <1>1, <1>2
  <2> QED
    BY <2>2, <2>3
<1> QED
  BY <1>1, <1>2, <1>3 DEF InText, InPlace

\* Runes at the end.
LEMMA PutShows ==
  ASSUME NEW f, NEW lines, NEW marks, NEW last, Shows(f, lines, marks, last), NEW u \in Seq(Kinds)
  PROVE  Shows(Put(f, u), lines, marks, last + NewLines(u)) /\ last \in Nat /\ NewLines(u) \in Nat
<1>1. InPlace(f)
  BY DEF Shows
<1>2. PICK src \in Seq(Kinds), lits \in Seq(Literal), comments \in Seq(Group) :
        /\ src = f.src /\ lits = f.lits /\ comments = f.comments
        /\ InText(src, lits) /\ EndsIn(src, comments)
  BY <1>1, InPlaceIs
<1>3. PICK h : h = Put(f, u)
  OBVIOUS
<1>4. h.src = src \o u /\ h.lits = lits /\ h.comments = comments
  BY <1>1, <1>2, <1>3 DEF Put, InPlace, File
<1>5. h \in File /\ PlacedIn(h)
  BY <1>1, <1>3, PutType, PutPlaced DEF InPlace
<1>6. LitLines(src \o u, lits) = LitLines(src, lits)
  BY <1>2, LinesStay
<1>7. Marks(src \o u, comments) = Marks(src, comments) /\ EndsIn(src \o u, comments)
  BY <1>2, MarksStay
<1>8. LastLine(src \o u) = LastLine(src) + NewLines(u) /\ LastLine(src) \in Nat
      /\ NewLines(u) \in Nat
  <2>1. src \o u \in Seq(Kinds)
    BY ConcatIs
  <2>2. LastLine(src \o u) = NewLines(src \o u) /\ LastLine(src) = NewLines(src)
    BY <2>1, LineStep DEF LastLine, NewLines
  <2> QED
    BY <2>2, NewLinesConcat
<1> QED
  BY <1>2, <1>3, <1>4, <1>5, <1>6, <1>7, <1>8 DEF Shows, InPlace

\* A literal at the end is on the last line, and adds the lines of its text.
LEMMA PutLitShows ==
  ASSUME NEW f, NEW lines, NEW marks, NEW last, Shows(f, lines, marks, last), NEW lit \in Literals
  PROVE  /\ Shows(PutLit(f, lit), Append(lines, last), marks, last + NewLines(lit.body))
         /\ last \in Nat /\ NewLines(lit.body) \in Nat
<1>1. InPlace(f)
  BY DEF Shows
<1>2. PICK src \in Seq(Kinds), lits \in Seq(Literal), comments \in Seq(Group) :
        /\ src = f.src /\ lits = f.lits /\ comments = f.comments
        /\ InText(src, lits) /\ EndsIn(src, comments)
  BY <1>1, InPlaceIs
<1>3. lit \in Bodies /\ (~lit.raw => "cr" \notin ToSet(lit.body))
  BY KindsAre, LiteralsAre
<1>4. PICK h : h = PutLit(f, lit)
  OBVIOUS
<1>5. h \in File /\ PlacedIn(h)
  BY <1>1, <1>3, <1>4, PutLitType, PutLitPlaced DEF InPlace
<1>6. PICK b \in Seq(Kinds), u \in Seq(Kinds) : b = lit.body /\ u = <<"x">>
  BY <1>3, KindsAre DEF Bodies
<1>7. PICK l : l = [pos |-> Len(src) + 1, len |-> Len(b) + 2, raw |-> lit.raw]
  OBVIOUS
<1>8. l \in Literal /\ l.pos = Len(src) + 1
  <2>1. PICK x \in Nat, y \in Nat, z \in BOOLEAN :
          x = Len(src) + 1 /\ y = Len(b) + 2 /\ z = lit.raw
    BY <1>3 DEF Bodies
  <2>2. l = [pos |-> x, len |-> y, raw |-> z]
    BY <1>7, <2>1
  <2>3. l \in Literal /\ l.pos = x
    BY <2>2 DEF Literal
  <2> QED
    BY <2>1, <2>3
<1>9. PICK q : q = (u \o b) \o u
  OBVIOUS
<1>10. h.src = src \o q /\ h.lits = Append(lits, l) /\ h.comments = comments
  BY <1>1, <1>2, <1>4, <1>6, <1>7, <1>9 DEF PutLit, Put, InPlace, File
<1>11. q \in Seq(Kinds) /\ u \o b \in Seq(Kinds)
  BY <1>9, ConcatIs
<1>12. NewLines(q) = NewLines(b) /\ NewLines(b) \in Nat
  <2>1. NewLines(u) = 0
    BY <1>6, NewLinesAre
  <2>2. NewLines(u \o b) = NewLines(u) + NewLines(b) /\ NewLines(b) \in Nat
    BY NewLinesConcat
  <2>3. NewLines((u \o b) \o u) = NewLines(u \o b) + NewLines(u)
    BY <1>11, NewLinesConcat
  <2> QED
    BY <1>9, <2>1, <2>2, <2>3
<1>13. LastLine(src \o q) = LastLine(src) + NewLines(q) /\ LastLine(src) \in Nat
  <2>1. src \o q \in Seq(Kinds)
    BY <1>11, ConcatIs
  <2>2. LastLine(src \o q) = NewLines(src \o q) /\ LastLine(src) = NewLines(src)
    BY <2>1, LineStep DEF LastLine, NewLines
  <2> QED
    BY <1>11, <2>2, NewLinesConcat
<1>14. PICK ls \in Seq(Literal) : ls = Append(lits, l)
  <2>1. Append(lits, l) \in Seq(Literal)
    BY <1>8
  <2> QED
    BY <2>1
<1>15. LitLines(src, ls) = Append(LitLines(src, lits), LastLine(src)) /\ InText(src, ls)
  BY <1>2, <1>8, <1>14, LitLinesAppend
<1>16. LitLines(src \o q, ls) = LitLines(src, ls)
  BY <1>11, <1>15, LinesStay
<1>17. Marks(src \o q, comments) = Marks(src, comments) /\ EndsIn(src \o q, comments)
  BY <1>2, <1>11, MarksStay
<1>18. LitLines(src, lits) = lines /\ Marks(src, comments) = marks /\ LastLine(src) = last
  BY <1>2 DEF Shows
<1>19. LastLine(src \o q) = last + NewLines(b) /\ last \in Nat
  BY <1>12, <1>13, <1>18
<1>20. InPlace(h)
  BY <1>5, <1>10, <1>17 DEF InPlace
<1>21. Shows(h, Append(lines, last), marks, last + NewLines(b))
  BY <1>10, <1>14, <1>15, <1>16, <1>17, <1>18, <1>19, <1>20, Zenon DEF Shows
<1> QED
  BY <1>4, <1>6, <1>12, <1>19, <1>21

\* So is a comment.
LEMMA PutCommentShows ==
  ASSUME NEW f, NEW lines, NEW marks, NEW last, Shows(f, lines, marks, last),
         NEW marker \in BOOLEAN, NEW own \in BOOLEAN
  PROVE  /\ Shows(PutComment(f, marker, own), lines,
                  Append(marks, [line |-> last, marker |-> marker]), last)
         /\ last \in Nat /\ [line |-> last, marker |-> marker] \in Mark
<1>1. InPlace(f)
  BY DEF Shows
<1>2. PICK src \in Seq(Kinds), lits \in Seq(Literal), comments \in Seq(Group) :
        /\ src = f.src /\ lits = f.lits /\ comments = f.comments
        /\ InText(src, lits) /\ EndsIn(src, comments)
  BY <1>1, InPlaceIs
<1>3. PICK h : h = PutComment(f, marker, own)
  OBVIOUS
<1>4. h \in File /\ PlacedIn(h)
  BY <1>1, <1>3, PutCommentType, PutCommentPlaced DEF InPlace
<1>5. PICK u \in Seq(Kinds), o \in Nat : u = <<"x">> /\ o = Len(src)
  <2>1. <<"x">> \in Seq(Kinds) /\ Len(src) \in Nat
    BY KindsAre
  <2> QED
    BY <2>1
<1>6. PICK c : c = [end |-> o + 2, marker |-> marker, own |-> own]
  OBVIOUS
<1>7. c \in Group /\ c.end = o + 2 /\ c.marker = marker
  BY <1>6 DEF Group
<1>8. h.src = src \o u /\ h.lits = lits /\ h.comments = Append(comments, c)
  BY <1>1, <1>2, <1>3, <1>5, <1>6 DEF PutComment, Put, InPlace, File
<1>9. PICK t \in Seq(Kinds) : t = src \o u
  BY ConcatIs
<1>10. Len(t) = o + 1
  <2>1. Len(u) = 1
    BY <1>5
  <2> QED
    BY <1>5, <1>9, <2>1, ConcatIs
<1>11. LastLine(t) = LastLine(src) /\ LastLine(src) \in Nat
  <2>1. LastLine(t) = NewLines(t) /\ LastLine(src) = NewLines(src)
    BY LineStep DEF LastLine, NewLines
  <2>2. NewLines(u) = 0
    BY <1>5, NewLinesAre
  <2> QED
    BY <1>9, <2>1, <2>2, NewLinesConcat
<1>12. LitLines(t, lits) = LitLines(src, lits)
  BY <1>2, <1>9, LinesStay
<1>13. Marks(t, comments) = Marks(src, comments) /\ EndsIn(t, comments)
  BY <1>2, <1>9, MarksStay
<1>14. PICK m : m = [line |-> LineAt(t, c.end - 1), marker |-> c.marker]
  OBVIOUS
<1>15. m = [line |-> LastLine(src), marker |-> marker]
  <2>1. c.end - 1 = Len(t)
    BY <1>7, <1>10
  <2> QED
    BY <1>7, <1>11, <1>14, <2>1 DEF LastLine
<1>16. c.end \in 1 .. Len(t) + 1
  BY <1>7, <1>10
<1>17. /\ Marks(t, Append(comments, c)) = Append(Marks(t, comments), m)
       /\ EndsIn(t, Append(comments, c)) /\ m \in Mark
  BY <1>7, <1>13, <1>14, <1>16, MarksAppend
<1>18. LitLines(src, lits) = lines /\ Marks(src, comments) = marks /\ LastLine(src) = last
  BY <1>2 DEF Shows
<1>19. InPlace(h)
  BY <1>4, <1>8, <1>9, <1>17 DEF InPlace
<1>20. Shows(h, lines, Append(marks, m), last)
  BY <1>8, <1>9, <1>11, <1>12, <1>13, <1>17, <1>18, <1>19, Zenon DEF Shows
<1> QED
  BY <1>3, <1>11, <1>15, <1>17, <1>18, <1>20

\* A call changes none of this.
LEMMA PutCallShows ==
  ASSUME NEW f, NEW lines, NEW marks, NEW last, Shows(f, lines, marks, last),
         NEW fun \in Seq({"selector", "index", "ident"}),
         NEW name \in {"Query", "QueryContext", "Get"}, NEW args \in Seq(Int)
  PROVE  Shows(PutCall(f, fun, name, args), lines, marks, last)
<1>1. f \in File /\ PlacedIn(f)
  BY DEF Shows, InPlace
<1>2. PICK h : h = PutCall(f, fun, name, args)
  OBVIOUS
<1>3. h \in File /\ PlacedIn(h)
  BY <1>1, <1>2, PutCallType, PutCallPlaced
<1>4. h.src = f.src /\ h.lits = f.lits /\ h.comments = f.comments
  BY <1>1, <1>2 DEF PutCall, File
<1> QED
  BY <1>2, <1>3, <1>4 DEF Shows, InPlace

\* Which literals are said to be SQL for a marker above, with all of them on lines
\* that are written.
Follows(s, lines, marks, last) ==
  /\ s \in Seq(BOOLEAN) /\ lines \in Seq(Nat) /\ marks \in Seq(Mark) /\ last \in Nat
  /\ Len(s) = Len(lines)
  /\ \A i \in DOMAIN lines : lines[i] < last /\ (s[i] <=> MarkedAt(marks, lines[i]))
  /\ \A j \in DOMAIN marks : marks[j].line < last

\* No marker is above a line that no comment has come near.
LEMMA FarBelow ==
  ASSUME NEW marks \in Seq(Mark), NEW last \in Nat, \A j \in DOMAIN marks : marks[j].line < last,
         NEW l \in Nat, last < l
  PROVE  ~MarkedAt(marks, l)
<1>1. ASSUME NEW j \in DOMAIN marks PROVE marks[j].line # l - 1
  <2>1. PICK k \in Nat : k = marks[j].line
    <3>1. marks[j] \in Mark
      OBVIOUS
    <3> QED
      BY <3>1 DEF Mark
  <2>2. k < last
    BY <2>1
  <2>3. k # l - 1
    BY <2>2
  <2> QED
    BY <2>1, <2>3
<1> QED
  BY <1>1, NoMarkAbove

\* A line more.
LEMMA FollowsBlank ==
  ASSUME NEW s, NEW lines, NEW marks, NEW last, Follows(s, lines, marks, last)
  PROVE  Follows(s, lines, marks, last + 1) /\ ~MarkedAt(marks, last + 1)
<1>1. /\ s \in Seq(BOOLEAN) /\ lines \in Seq(Nat) /\ marks \in Seq(Mark) /\ last \in Nat
      /\ Len(s) = Len(lines)
      /\ \A i \in DOMAIN lines : lines[i] < last /\ (s[i] <=> MarkedAt(marks, lines[i]))
      /\ \A j \in DOMAIN marks : marks[j].line < last
  BY DEF Follows
<1>2. ~MarkedAt(marks, last + 1)
  BY <1>1, FarBelow
<1>3. \A i \in DOMAIN lines : lines[i] < last + 1
  BY <1>1
<1>4. \A j \in DOMAIN marks : marks[j].line < last + 1
  <2> SUFFICES ASSUME NEW j \in DOMAIN marks PROVE marks[j].line < last + 1
    OBVIOUS
  <2>1. PICK k \in Nat : k = marks[j].line
    <3>1. marks[j] \in Mark
      BY <1>1
    <3> QED
      BY <3>1 DEF Mark
  <2>2. k < last
    BY <1>1, <2>1
  <2>3. k < last + 1
    BY <1>1, <2>2
  <2> QED
    BY <2>1, <2>3
<1>5. last + 1 \in Nat
  BY <1>1
<1> QED
  BY <1>1, <1>2, <1>3, <1>4, <1>5 DEF Follows

\* A comment on the last line matters for the next one only.
LEMMA FollowsComment ==
  ASSUME NEW s, NEW lines, NEW marks, NEW last, Follows(s, lines, marks, last),
         NEW marker \in BOOLEAN
  PROVE  LET m == [line |-> last, marker |-> marker]
         IN  /\ Follows(s, lines, Append(marks, m), last + 1)
             /\ MarkedAt(Append(marks, m), last + 1) <=> marker
<1>1. /\ s \in Seq(BOOLEAN) /\ lines \in Seq(Nat) /\ marks \in Seq(Mark) /\ last \in Nat
      /\ Len(s) = Len(lines)
      /\ \A i \in DOMAIN lines : lines[i] < last /\ (s[i] <=> MarkedAt(marks, lines[i]))
      /\ \A j \in DOMAIN marks : marks[j].line < last
  BY DEF Follows
<1>2. PICK m \in Mark : m = [line |-> last, marker |-> marker] /\ m.line = last /\ m.marker = marker
  <2>1. [line |-> last, marker |-> marker] \in Mark
    BY <1>1 DEF Mark
  <2> QED
    BY <2>1
<1>3. PICK t \in Seq(Mark) : t = Append(marks, m)
  <2>1. Append(marks, m) \in Seq(Mark)
    BY <1>1
  <2> QED
    BY <2>1
<1>4. PICK n \in Nat : n = Len(marks)
  BY <1>1
<1>5. /\ DOMAIN t = 1 .. n + 1 /\ t[n + 1] = m /\ DOMAIN marks = 1 .. n
      /\ \A j \in 1 .. n : t[j] = marks[j]
  BY <1>1, <1>3, <1>4
<1>6. ASSUME NEW j \in DOMAIN t PROVE t[j].line < last + 1
  <2>1. PICK k \in Nat : k = t[j].line
    <3>1. t[j] \in Mark
      OBVIOUS
    <3> QED
      BY <3>1 DEF Mark
  <2>2. k <= last
    <3>1. CASE j = n + 1
      BY <1>2, <1>5, <2>1, <3>1
    <3>2. CASE j \in 1 .. n
      BY <1>1, <1>5, <2>1, <3>2
    <3> QED
      BY <1>5, <3>1, <3>2
  <2>3. k < last + 1
    BY <1>1, <2>2
  <2> QED
    BY <2>1, <2>3
<1>7. MarkedAt(t, last + 1) <=> marker
  <2>1. PICK k \in Nat : k = last + 1 /\ m.line = k - 1
    BY <1>1, <1>2
  <2>2. MarkedAt(t, k) <=> m.marker
    BY <1>1, <1>3, <2>1, MarkAdded
  <2> QED
    BY <1>2, <2>1, <2>2
<1>8. ASSUME NEW i \in DOMAIN lines
      PROVE  lines[i] < last + 1 /\ (s[i] <=> MarkedAt(t, lines[i]))
  <2>1. PICK l \in Nat : l = lines[i]
    BY <1>1
  <2>2. l < last
    BY <1>1, <2>1
  <2>3. l < last + 1 /\ m.line # l - 1
    BY <1>1, <1>2, <2>2
  <2>4. MarkedAt(t, l) <=> MarkedAt(marks, l)
    BY <1>1, <1>3, <2>3, MarkAdded
  <2> QED
    BY <1>1, <2>1, <2>3, <2>4
<1>9. last + 1 \in Nat
  BY <1>1
<1> QED
  BY <1>1, <1>2, <1>3, <1>6, <1>7, <1>8, <1>9 DEF Follows

\* Nor does the comment above, for the lines that are written.
LEMMA FollowsFront ==
  ASSUME NEW s, NEW lines, NEW marks \in Seq(Mark), NEW last, NEW m \in Mark, m.line = last - 1,
         Follows(s, lines, Append(marks, m), last)
  PROVE  Follows(s, lines, marks, last)
<1>1. PICK t : t = Append(marks, m)
  OBVIOUS
<1>2. /\ s \in Seq(BOOLEAN) /\ lines \in Seq(Nat) /\ last \in Nat
      /\ Len(s) = Len(lines)
      /\ \A i \in DOMAIN lines : lines[i] < last /\ (s[i] <=> MarkedAt(t, lines[i]))
      /\ \A j \in DOMAIN t : t[j].line < last
  BY <1>1 DEF Follows
<1>3. ASSUME NEW i \in DOMAIN lines PROVE MarkedAt(t, lines[i]) <=> MarkedAt(marks, lines[i])
  <2>1. PICK l \in Nat : l = lines[i]
    BY <1>2
  <2>2. l < last
    BY <1>2, <2>1
  <2>3. m.line # l - 1
    BY <1>2, <2>2
  <2> QED
    BY <1>1, <2>1, <2>3, MarkAdded
<1>4. \A j \in DOMAIN marks : marks[j] = t[j] /\ j \in DOMAIN t
  BY <1>1
<1> QED
  BY <1>2, <1>3, <1>4 DEF Follows

\* A literal on the last line is SQL if a marker is above, whatever follows on its line.
LEMMA FollowsLiteral ==
  ASSUME NEW s, NEW lines, NEW marks, NEW last, Follows(s, lines, marks, last),
         NEW a \in BOOLEAN, a <=> MarkedAt(marks, last),
         NEW then \in Seq(Mark), NEW l \in Nat, last < l,
         \A k \in 0 .. last : MarkedAt(then, k) <=> MarkedAt(marks, k),
         \A j \in DOMAIN then : then[j].line < l
  PROVE  Follows(Append(s, a), Append(lines, last), then, l)
<1>1. /\ s \in Seq(BOOLEAN) /\ lines \in Seq(Nat) /\ marks \in Seq(Mark) /\ last \in Nat
      /\ Len(s) = Len(lines)
      /\ \A i \in DOMAIN lines : lines[i] < last /\ (s[i] <=> MarkedAt(marks, lines[i]))
  BY DEF Follows
<1>2. PICK n \in Nat : n = Len(lines)
  BY <1>1
<1>3. PICK t, ls : t = Append(s, a) /\ ls = Append(lines, last)
  OBVIOUS
<1>4. /\ t \in Seq(BOOLEAN) /\ Len(t) = n + 1 /\ t[n + 1] = a /\ \A i \in 1 .. n : t[i] = s[i]
      /\ DOMAIN s = 1 .. n /\ DOMAIN lines = 1 .. n
  BY <1>1, <1>2, <1>3
<1>5. /\ ls \in Seq(Nat) /\ Len(ls) = n + 1 /\ ls[n + 1] = last
      /\ \A i \in 1 .. n : ls[i] = lines[i]
  BY <1>1, <1>2, <1>3
<1>6. DOMAIN ls = 1 .. n + 1
  BY <1>5
<1>7. ASSUME NEW i \in 1 .. n + 1 PROVE ls[i] < l /\ (t[i] <=> MarkedAt(then, ls[i]))
  <2>1. CASE i = n + 1
    <3>1. last \in 0 .. last
      BY <1>1
    <3> QED
      BY <1>4, <1>5, <2>1, <3>1
  <2>2. CASE i \in 1 .. n
    <3>1. PICK k \in Nat : k = lines[i]
      BY <1>1, <1>4, <2>2
    <3>2. k < last /\ (s[i] <=> MarkedAt(marks, k))
      BY <1>1, <1>4, <2>2, <3>1
    <3>3. k \in 0 .. last /\ k < l
      BY <1>1, <3>2
    <3> QED
      BY <1>4, <1>5, <2>2, <3>1, <3>2, <3>3
  <2> QED
    BY <2>1, <2>2
<1> QED
  BY <1>3, <1>4, <1>5, <1>6, <1>7 DEF Follows

\* A comment on the line of a literal.
LEMMA MarkBelow ==
  ASSUME NEW marks \in Seq(Mark), NEW last \in Nat, \A j \in DOMAIN marks : marks[j].line < last,
         NEW m \in Mark, last <= m.line, NEW l \in Nat, m.line < l
  PROVE  /\ Append(marks, m) \in Seq(Mark)
         /\ \A k \in 0 .. last : MarkedAt(Append(marks, m), k) <=> MarkedAt(marks, k)
         /\ \A j \in DOMAIN Append(marks, m) : Append(marks, m)[j].line < l
         /\ MarkedAt(Append(marks, m), l) <=> m.line = l - 1 /\ m.marker
<1>1. PICK t \in Seq(Mark) : t = Append(marks, m)
  <2>1. Append(marks, m) \in Seq(Mark)
    OBVIOUS
  <2> QED
    BY <2>1
<1>2. PICK n \in Nat : n = Len(marks)
  OBVIOUS
<1>3. /\ DOMAIN t = 1 .. n + 1 /\ t[n + 1] = m /\ DOMAIN marks = 1 .. n
      /\ \A j \in 1 .. n : t[j] = marks[j]
  BY <1>1, <1>2
<1>4. PICK o \in Nat : o = m.line /\ last <= o /\ o < l
  BY DEF Mark
<1>5. ASSUME NEW k \in 0 .. last PROVE MarkedAt(t, k) <=> MarkedAt(marks, k)
  <2>1. k \in Nat /\ m.line # k - 1
    BY <1>4
  <2> QED
    BY <1>1, <2>1, MarkAdded
<1>6. ASSUME NEW j \in DOMAIN t PROVE t[j].line < l
  <2>1. CASE j = n + 1
    BY <1>3, <1>4, <2>1
  <2>2. CASE j \in 1 .. n
    <3>1. marks[j] \in Mark /\ marks[j].line < last
      BY <1>3, <2>2
    <3>2. PICK k \in Nat : k = marks[j].line /\ k < last
      BY <3>1 DEF Mark
    <3>3. k < l
      BY <1>4, <3>2
    <3> QED
      BY <1>3, <2>2, <3>2, <3>3
  <2> QED
    BY <1>3, <2>1, <2>2
<1>7. MarkedAt(t, l) <=> m.line = l - 1 /\ m.marker
  <2>1. ~MarkedAt(marks, l)
    <3>1. last < l
      BY <1>4
    <3> QED
      BY <3>1, FarBelow
  <2>2. MarkedAt(t, l) <=> IF m.line = l - 1 THEN m.marker ELSE MarkedAt(marks, l)
    BY <1>1, MarkAdded
  <2> QED
    BY <2>1, <2>2
<1> QED
  BY <1>1, <1>5, <1>6, <1>7

-----------------------------------------------------------------------------
(* Which literals are SQL: what is said of a file without calls. *)

\* What is said of a file without calls.
Told(f, s, a) ==
  /\ f.calls = <<>>
  /\ \E lines, marks, last :
       Shows(f, lines, marks, last) /\ Follows(s, lines, marks, last)
       /\ (a <=> MarkedAt(marks, last))

\* It is said of the literals that are marked.
LEMMA ToldIs ==
  ASSUME NEW f, NEW s, NEW a, Told(f, s, a)
  PROVE  {i \in DOMAIN s : s[i]} = IsSQL(f, Funcs)
<1>1. PICK lines, marks, last : Shows(f, lines, marks, last) /\ Follows(s, lines, marks, last)
  BY DEF Told
<1>2. f \in File /\ LitLines(f.src, f.lits) = lines /\ Marks(f.src, f.comments) = marks
  BY <1>1 DEF Shows, InPlace
<1>3. Marked(f) = {i \in DOMAIN f.lits : MarkedAt(marks, lines[i])}
  BY <1>2, MarkedIs
<1>4. DOMAIN lines = DOMAIN f.lits
  BY <1>2 DEF LitLines
<1>5. DOMAIN s = DOMAIN lines /\ \A i \in DOMAIN lines : s[i] <=> MarkedAt(marks, lines[i])
  BY <1>1 DEF Follows
<1>6. CallSQLPositions(f, Funcs) = {}
  <2>1. ToSet(f.calls) = {}
    BY DEF Told, ToSet
  <2> QED
    BY <2>1 DEF CallSQLPositions
<1> QED
  BY <1>3, <1>4, <1>5, <1>6 DEF IsSQL

\* A blank line.
LEMMA ToldBlank ==
  ASSUME NEW f, NEW s, NEW a, Told(f, s, a)
  PROVE  Told(Put(f, <<"nl">>), s, FALSE)
<1>1. PICK lines, marks, last : Shows(f, lines, marks, last) /\ Follows(s, lines, marks, last)
  BY DEF Told
<1>2. PICK u \in Seq(Kinds) : u = <<"nl">> /\ NewLines(u) = 1
  BY KindsAre, NewLinesAre
<1>3. Shows(Put(f, u), lines, marks, last + 1)
  BY <1>1, <1>2, PutShows
<1>4. Follows(s, lines, marks, last + 1) /\ ~MarkedAt(marks, last + 1)
  BY <1>1, FollowsBlank
<1>5. Put(f, u).calls = <<>>
  <2>1. f \in File
    BY <1>1 DEF Shows, InPlace
  <2> QED
    BY <2>1 DEF Told, Put, File
<1> QED
  BY <1>2, <1>3, <1>4, <1>5 DEF Told

\* A plain text.
LEMMA ToldRune ==
  ASSUME NEW f, NEW s, NEW a, Told(f, s, a), f.lits = <<>>, f.comments = <<>>, NEW r \in Kinds
  PROVE  Told(Put(f, <<r>>), s, a)
<1>1. PICK lines, marks, last :
        /\ Shows(f, lines, marks, last) /\ Follows(s, lines, marks, last)
        /\ (a <=> MarkedAt(marks, last))
  BY DEF Told
<1>2. PICK u \in Seq(Kinds) : u = <<r>>
  <2>1. <<r>> \in Seq(Kinds)
    OBVIOUS
  <2> QED
    BY <2>1
<1>3. Shows(Put(f, u), lines, marks, last + NewLines(u)) /\ last + NewLines(u) \in Nat
  BY <1>1, PutShows
<1>4. DOMAIN lines = {} /\ DOMAIN marks = {}
  <2>1. LitLines(f.src, f.lits) = lines /\ Marks(f.src, f.comments) = marks
    BY <1>1 DEF Shows
  <2> QED
    BY <2>1 DEF LitLines, Marks
<1>5. \A l : ~MarkedAt(marks, l)
  BY <1>4 DEF MarkedAt
<1>6. Follows(s, lines, marks, last + NewLines(u))
  BY <1>1, <1>3, <1>4 DEF Follows
<1>7. Put(f, u).calls = <<>>
  <2>1. f \in File
    BY <1>1 DEF Shows, InPlace
  <2> QED
    BY <2>1 DEF Told, Put, File
<1> QED
  BY <1>1, <1>2, <1>3, <1>5, <1>6, <1>7 DEF Told

\* A literal on a line of its own, with or without a comment.
LEMMA LiteralShows ==
  ASSUME NEW f, NEW lines, NEW marks, NEW last, Shows(f, lines, marks, last),
         NEW lit \in Literals
  PROVE  Shows(PutLit(Put(f, <<"kana">>), lit), Append(lines, last), marks,
               last + NewLines(lit.body))
<1>1. PICK u \in Seq(Kinds) : u = <<"kana">> /\ NewLines(u) = 0
  BY KindsAre, NewLinesAre
<1>2. Shows(Put(f, u), lines, marks, last + NewLines(u)) /\ last \in Nat
  BY PutShows
<1>3. last + NewLines(u) = last
  BY <1>1, <1>2
<1>4. Shows(Put(f, u), lines, marks, last)
  BY <1>2, <1>3
<1>5. Shows(PutLit(Put(f, u), lit), Append(lines, last), marks, last + NewLines(lit.body))
  BY <1>4, PutLitShows
<1> QED
  BY <1>1, <1>5

\* A sequence is its front and its last element.
LEMMA FrontLast ==
  ASSUME NEW S, NEW s \in Seq(S), s # <<>>
  PROVE  Front(s) \in Seq(S) /\ Last(s) \in S /\ s = Append(Front(s), Last(s))
<1>1. PICK n \in Nat : Len(s) = n + 1
  <2>1. PICK m \in Nat : m = Len(s)
    OBVIOUS
  <2>2. m # 0
    BY <2>1
  <2>3. m - 1 \in Nat /\ m = (m - 1) + 1
    BY <2>1, <2>2
  <2> QED
    BY <2>1, <2>3
<1>2. PICK t : t = SubSeq(s, 1, n)
  OBVIOUS
<1>3. t \in Seq(S) /\ Len(t) = n /\ \A i \in 1 .. n : t[i] = s[i]
  BY <1>1, <1>2
<1>4. s[n + 1] \in S
  BY <1>1
<1>5. PICK e \in S : e = s[n + 1]
  BY <1>4
<1>6. PICK q : q = Append(t, e)
  OBVIOUS
<1>7. q \in Seq(S) /\ Len(q) = n + 1 /\ q[n + 1] = e /\ \A i \in 1 .. n : q[i] = t[i]
  BY <1>3, <1>6
<1>8. \A i \in 1 .. n + 1 : q[i] = s[i]
  <2> SUFFICES ASSUME NEW i \in 1 .. n + 1 PROVE q[i] = s[i]
    OBVIOUS
  <2>1. i = n + 1 \/ i \in 1 .. n
    OBVIOUS
  <2> QED
    BY <1>3, <1>5, <1>7, <2>1
<1>9. q = s
  BY <1>1, <1>7, <1>8, SeqEqual
<1>10. Len(s) - 1 = n
  BY <1>1
<1> QED
  BY <1>1, <1>2, <1>3, <1>5, <1>6, <1>9, <1>10 DEF Front, Last

\* A comment that goes on in the next line is a comment that ends there: the one before
\* ended right above, and no literal is below it.
LEMMA ToldJoined ==
  ASSUME NEW f, NEW s, NEW lines, NEW marks, NEW last,
         Shows(f, lines, marks, last), Follows(s, lines, marks, last),
         f.comments # <<>>, Last(f.comments).end = Len(f.src)
  PROVE  LET h == [f EXCEPT !.comments = Front(@)]
         IN  \E front : Shows(h, lines, front, last) /\ Follows(s, lines, front, last)
<1>1. InPlace(f)
  BY DEF Shows
<1>2. PICK src \in Seq(Kinds), lits \in Seq(Literal), comments \in Seq(Group) :
        /\ src = f.src /\ lits = f.lits /\ comments = f.comments
        /\ InText(src, lits) /\ EndsIn(src, comments)
  BY <1>1, InPlaceIs
<1>3. PICK front \in Seq(Group), c \in Group :
        comments = Append(front, c) /\ front = Front(comments) /\ c = Last(comments)
  BY <1>2, FrontLast
<1>4. EndsIn(src, front) /\ c.end \in 1 .. Len(src) + 1
  <2>1. PICK n \in Nat : n = Len(front)
    OBVIOUS
  <2>2. /\ DOMAIN comments = 1 .. n + 1 /\ comments[n + 1] = c /\ DOMAIN front = 1 .. n
        /\ \A j \in 1 .. n : comments[j] = front[j]
    <3>1. PICK q : q = Append(front, c)
      OBVIOUS
    <3>2. /\ DOMAIN q = 1 .. n + 1 /\ q[n + 1] = c /\ DOMAIN front = 1 .. n
          /\ \A j \in 1 .. n : q[j] = front[j]
      BY <2>1, <3>1
    <3> QED
      BY <1>3, <3>1, <3>2, Zenon
  <2>3. \A j \in 1 .. n : j \in 1 .. n + 1
    OBVIOUS
  <2>4. n + 1 \in 1 .. n + 1
    OBVIOUS
  <2> QED
    BY <1>2, <2>2, <2>3, <2>4 DEF EndsIn
<1>5. PICK m \in Mark :
        /\ m.line = LineAt(src, c.end - 1)
        /\ Marks(src, comments) = Append(Marks(src, front), m)
  <2>1. PICK m \in Mark : m = [line |-> LineAt(src, c.end - 1), marker |-> c.marker]
    BY <1>4, MarksAppend
  <2>2. m.line = LineAt(src, c.end - 1)
    BY <2>1
  <2>3. Marks(src, Append(front, c)) = Append(Marks(src, front), m)
    BY <1>4, <2>1, MarksAppend
  <2> QED
    BY <1>3, <2>2, <2>3
<1>6. Marks(src, front) \in Seq(Mark) /\ LastLine(src) \in Nat
  BY <1>2, <1>4, LinesAre
<1>7. LitLines(src, lits) = lines /\ Marks(src, comments) = marks /\ LastLine(src) = last
  BY <1>2 DEF Shows
<1>8. m.line = last - 1
  <2>1. PICK n \in Nat : n = Len(src) /\ c.end = n /\ n >= 1
    BY <1>2, <1>3, <1>4
  <2>2. n - 1 \in 0 .. Len(src) - 1 /\ n - 1 + 1 = n
    BY <2>1
  <2>3. LineAt(src, n - 1 + 1)
          = IF src[n - 1 + 1] = "nl" THEN LineAt(src, n - 1) + 1 ELSE LineAt(src, n - 1)
    BY <2>2, LineStep
  <2>4. LineAt(src, n - 1) \in Nat /\ LineAt(src, n) = last
    BY <1>7, <2>1, <2>2, LineStep DEF LastLine
  <2>5. m.line < last
    <3>1. PICK k \in Nat : k = Len(Marks(src, front))
      BY <1>6
    <3>2. PICK ms : ms = Marks(src, front)
      OBVIOUS
    <3>3. k + 1 \in DOMAIN Append(ms, m) /\ Append(ms, m)[k + 1] = m
      BY <1>6, <3>1, <3>2
    <3>4. marks = Append(ms, m)
      BY <1>5, <1>7, <3>2
    <3> QED
      BY <3>3, <3>4 DEF Follows
  <2>6. m.line = LineAt(src, n - 1)
    BY <1>5, <2>1
  <2> QED
    BY <1>6, <1>7, <2>2, <2>3, <2>4, <2>5, <2>6
<1>9. Follows(s, lines, Marks(src, front), last)
  <2>1. PICK ms \in Seq(Mark) : ms = Marks(src, front)
    BY <1>6
  <2>2. Follows(s, lines, Append(ms, m), last)
    BY <1>5, <1>7, <2>1
  <2>3. Follows(s, lines, ms, last)
    BY <1>8, <2>2, FollowsFront
  <2> QED
    BY <2>1, <2>3
<1>10. PICK h : h = [f EXCEPT !.comments = Front(@)]
  OBVIOUS
<1>11. h.src = src /\ h.lits = lits /\ h.comments = front /\ h \in File
  BY <1>1, <1>2, <1>3, <1>10 DEF InPlace, File
<1>12. PlacedIn(h)
  <2>1. src = src \o <<>> /\ <<>> \in Seq(Kinds)
    OBVIOUS
  <2>2. f \in File /\ PlacedIn(f) /\ h.src = f.src \o <<>> /\ h.lits = f.lits
    BY <1>1, <1>2, <1>11, <2>1 DEF InPlace
  <2> QED
    BY <2>1, <2>2, LitsStay
<1>13. Shows(h, lines, Marks(src, front), last)
  BY <1>4, <1>7, <1>11, <1>12 DEF Shows, InPlace
<1> QED
  BY <1>9, <1>10, <1>13

\* A comment line: what is below it is SQL if it, or what it goes on from, is a marker.
LEMMA ToldComment ==
  ASSUME NEW f, NEW s, NEW a, Told(f, s, a), NEW marker \in BOOLEAN, NEW kept,
         \/ kept = f.comments
         \/ f.comments # <<>> /\ Last(f.comments).end = Len(f.src) /\ kept = Front(f.comments)
  PROVE  Told([Put(f, <<"x", "nl">>) EXCEPT
                 !.comments = Append(kept, [end |-> Len(f.src) + 2, marker |-> marker,
                                            own |-> TRUE])], s, marker)
<1>1. PICK lines, marks, last : Shows(f, lines, marks, last) /\ Follows(s, lines, marks, last)
  BY DEF Told
<1>2. f \in File
  BY <1>1 DEF Shows, InPlace
<1>3. PICK h : h = [f EXCEPT !.comments = kept]
  OBVIOUS
<1>4. PICK front : Shows(h, lines, front, last) /\ Follows(s, lines, front, last)
  <2>1. CASE kept = f.comments
    <3>1. h = f
      BY <1>2, <1>3, <2>1 DEF File
    <3> QED
      BY <1>1, <3>1
  <2>2. CASE f.comments # <<>> /\ Last(f.comments).end = Len(f.src) /\ kept = Front(f.comments)
    <3>1. h = [f EXCEPT !.comments = Front(@)]
      BY <1>3, <2>2
    <3> QED
      BY <1>1, <2>2, <3>1, ToldJoined
  <2> QED
    BY <2>1, <2>2
<1>5. PICK g : g = PutComment(h, marker, TRUE)
  OBVIOUS
<1>6. PICK m \in Mark : m = [line |-> last, marker |-> marker] /\ Shows(g, lines, Append(front, m), last)
  <2>1. /\ Shows(PutComment(h, marker, TRUE), lines,
                 Append(front, [line |-> last, marker |-> marker]), last)
        /\ [line |-> last, marker |-> marker] \in Mark
    BY <1>4, PutCommentShows
  <2> QED
    BY <1>5, <2>1
<1>7. PICK u \in Seq(Kinds) : u = <<"nl">> /\ NewLines(u) = 1
  BY KindsAre, NewLinesAre
<1>8. Shows(Put(g, u), lines, Append(front, m), last + 1)
  BY <1>6, <1>7, PutShows
<1>9. Follows(s, lines, Append(front, m), last + 1)
      /\ (MarkedAt(Append(front, m), last + 1) <=> marker)
  BY <1>4, <1>6, FollowsComment
<1>10. Put(g, u) = [Put(f, <<"x", "nl">>) EXCEPT
                      !.comments = Append(kept, [end |-> Len(f.src) + 2, marker |-> marker,
                                                 own |-> TRUE])]
  <2>1. PICK x : x = <<"x">>
    OBVIOUS
  <2>2. (f.src \o x) \o u = f.src \o <<"x", "nl">>
    <3>1. f.src \in Seq(Kinds) /\ x \in Seq(Kinds)
      BY <1>2, <2>1, KindsAre DEF File
    <3>2. PICK w : w = <<"x", "nl">>
      OBVIOUS
    <3>3. x \o u = w
      <4>1. PICK k, n \in Nat : k = Len(x) /\ k = 1 /\ x[k] = "x" /\ n = Len(u) /\ n = 1 /\ u[n] = "nl"
        <5>1. Len(x) = 1 /\ x[1] = "x" /\ Len(u) = 1 /\ u[1] = "nl"
          BY <1>7, <2>1
        <5> QED
          BY <5>1
      <4>2. PICK y : y = x \o u
        OBVIOUS
      <4>3. /\ y \in Seq(Kinds) /\ Len(y) = k + n
            /\ \A i \in 1 .. k + n : y[i] = IF i <= k THEN x[i] ELSE u[i - k]
        <5>1. /\ x \o u \in Seq(Kinds) /\ Len(x \o u) = Len(x) + Len(u)
              /\ \A i \in 1 .. Len(x) + Len(u) :
                   (x \o u)[i] = IF i <= Len(x) THEN x[i] ELSE u[i - Len(x)]
          BY <3>1, ConcatIs, Zenon
        <5> QED
          BY <4>1, <4>2, <5>1
      <4>4. y[k] = "x" /\ y[k + n] = "nl"
        BY <4>1, <4>3
      <4>5. w \in Seq(Kinds) /\ Len(w) = 2 /\ w[1] = "x" /\ w[2] = "nl"
        BY <3>2, KindsAre
      <4>6. Len(y) = 2 /\ y[1] = "x" /\ y[2] = "nl"
        BY <4>1, <4>3, <4>4
      <4>7. \A i \in 1 .. 2 : y[i] = w[i]
        BY <4>5, <4>6
      <4>8. y = w
        BY <4>3, <4>5, <4>6, <4>7, SeqEqual
      <4> QED
        BY <4>2, <4>8
    <3>4. (f.src \o x) \o u = f.src \o (x \o u)
      <4>1. PICK y \in Seq(Kinds) : y = f.src
        BY <3>1
      <4>2. (y \o x) \o u = y \o (x \o u)
        BY <3>1, ConcatAssociative
      <4> QED
        BY <4>1, <4>2, Zenon
    <3> QED
      BY <3>2, <3>3, <3>4, Zenon
  <2>3. PICK c : c = [end |-> Len(f.src) + 2, marker |-> marker, own |-> TRUE]
    OBVIOUS
  <2>4. PICK cs : cs = Append(kept, c)
    OBVIOUS
  <2>5. PICK t, w : t = f.src \o x /\ w = t \o u
    OBVIOUS
  <2>6. g = [src |-> t, lits |-> f.lits, comments |-> cs, calls |-> f.calls]
    BY <1>2, <1>3, <1>5, <2>1, <2>3, <2>4, <2>5 DEF PutComment, Put, File
  <2>7. g.src = t
    BY <2>6
  <2>8. Put(g, u) = [g EXCEPT !.src = w]
    BY <2>5, <2>7, Zenon DEF Put
  <2>9. PICK v : v = <<"x", "nl">>
    OBVIOUS
  <2>10. f.src \o v = w
    BY <2>2, <2>5, <2>9, Zenon
  <2>11. Put(f, v) = [f EXCEPT !.src = w]
    BY <2>10, Zenon DEF Put
  <2>12. [Put(f, v) EXCEPT !.comments = cs] = [g EXCEPT !.src = w]
    <3>1. PICK p, l, d, e : f = [src |-> p, lits |-> l, comments |-> d, calls |-> e]
      BY <1>2 DEF File
    <3>2. g = [src |-> t, lits |-> l, comments |-> cs, calls |-> e]
      BY <2>6, <3>1
    <3>3. PICK z : z = [f EXCEPT !.src = w]
      OBVIOUS
    <3>4. z = [src |-> w, lits |-> l, comments |-> d, calls |-> e]
      BY <3>1, <3>3
    <3>5. [z EXCEPT !.comments = cs] = [src |-> w, lits |-> l, comments |-> cs, calls |-> e]
      BY <3>4
    <3>6. [g EXCEPT !.src = w] = [src |-> w, lits |-> l, comments |-> cs, calls |-> e]
      BY <3>2
    <3> QED
      BY <2>11, <3>3, <3>5, <3>6, Zenon
  <2> QED
    BY <2>3, <2>4, <2>8, <2>9, <2>12, Zenon
<1>11. Put(g, u).calls = <<>>
  BY <1>2, <1>10 DEF Told, Put, File
<1> QED
  BY <1>8, <1>9, <1>10, <1>11 DEF Told

\* Text and literals are no calls.
LEMMA CallsKept ==
  ASSUME NEW f \in File
  PROVE  /\ \A u : Put(f, u).calls = f.calls
         /\ \A lit : PutLit(f, lit).calls = f.calls
 BY DEF Put, PutLit, File

\* A line with a literal, up to the literal, and all of it.
UpToLit(f, lit, comment) ==
  PutLit(Put(IF comment = "before" THEN PutComment(f, TRUE, FALSE) ELSE f, <<"kana">>), lit)
Assigned(f, lit, comment) ==
  Put(IF comment \in {"marker", "other"}
        THEN PutComment(UpToLit(f, lit, comment), comment = "marker", FALSE)
        ELSE UpToLit(f, lit, comment), <<"nl">>)

\* A line with a literal, and at most one comment.
LEMMA ToldAssign ==
  ASSUME NEW f, NEW s, NEW a \in BOOLEAN, Told(f, s, a), NEW lit \in Literals,
         NEW comment \in {"none", "before", "marker", "other"}
  PROVE  Told(Assigned(f, lit, comment), Append(s, a),
              comment = "marker" \/ (comment = "before" /\ OneLine(lit)))
<1>0. PICK g, h : g = UpToLit(f, lit, comment) /\ h = Assigned(f, lit, comment)
  OBVIOUS
<1>1. PICK lines, marks, last :
        /\ Shows(f, lines, marks, last) /\ Follows(s, lines, marks, last)
        /\ (a <=> MarkedAt(marks, last))
  BY DEF Told
<1>2. /\ lines \in Seq(Nat) /\ marks \in Seq(Mark) /\ last \in Nat
      /\ \A j \in DOMAIN marks : marks[j].line < last
  BY <1>1 DEF Follows
<1>3. PICK n \in Nat : n = NewLines(lit.body) /\ (n = 0 <=> OneLine(lit))
  <2>1. lit.body \in Seq(Kinds)
    BY KindsAre DEF Bodies
  <2>2. NewLines(lit.body) \in Nat
    BY <2>1, NewLinesConcat
  <2> QED
    BY <2>1, <2>2, NewLinesAre DEF OneLine
<1>4. PICK u \in Seq(Kinds) : u = <<"nl">> /\ NewLines(u) = 1
  BY KindsAre, NewLinesAre
<1>5. PICK l \in Nat : l = last + n + 1
  BY <1>2
<1>6. last < l /\ last + n + 1 = l /\ last + n < l
  BY <1>2, <1>5
<1>7. f \in File /\ f.calls = <<>>
  BY <1>1 DEF Told, Shows, InPlace
<1>8. CASE comment = "none"
  <2>1. g = PutLit(Put(f, <<"kana">>), lit) /\ h = Put(g, u)
    BY <1>0, <1>4, <1>8 DEF UpToLit, Assigned
  <2>2. Shows(g, Append(lines, last), marks, last + n)
    BY <1>1, <1>3, <2>1, LiteralShows
  <2>3. Shows(h, Append(lines, last), marks, last + n + 1)
    BY <1>4, <2>1, <2>2, PutShows
  <2>4. \A j \in DOMAIN marks : marks[j].line < l
    <3> SUFFICES ASSUME NEW j \in DOMAIN marks PROVE marks[j].line < l
      OBVIOUS
    <3>1. marks[j] \in Mark
      BY <1>2
    <3>2. PICK k \in Nat : k = marks[j].line /\ k < last
      BY <1>2, <3>1 DEF Mark
    <3>3. k < l
      BY <1>2, <1>6, <3>2
    <3> QED
      BY <3>2, <3>3
  <2>5. Follows(Append(s, a), Append(lines, last), marks, l)
    BY <1>1, <1>2, <1>6, <2>4, FollowsLiteral
  <2>6. ~MarkedAt(marks, l)
    BY <1>2, <1>6, FarBelow
  <2>7. h.calls = <<>>
    <3>1. PICK k : k = Put(f, <<"kana">>)
      OBVIOUS
    <3>2. g = PutLit(k, lit)
      BY <2>1, <3>1
    <3>3. k \in File /\ g \in File
      BY <1>7, <2>2, <3>1, KindsAre, PutType DEF Shows, InPlace
    <3>4. k.calls = <<>>
      BY <1>7, <3>1, CallsKept
    <3>5. g.calls = <<>>
      BY <3>2, <3>3, <3>4, CallsKept
    <3> QED
      BY <2>1, <3>3, <3>5, CallsKept
  <2> QED
    BY <1>0, <1>6, <1>8, <2>3, <2>5, <2>6, <2>7 DEF Told
<1>9. CASE comment = "before"
  <2>1. PICK k : k = PutComment(f, TRUE, FALSE)
    OBVIOUS
  <2>2. g = PutLit(Put(k, <<"kana">>), lit) /\ h = Put(g, u)
    BY <1>0, <1>4, <1>9, <2>1 DEF UpToLit, Assigned
  <2>3. PICK m \in Mark : m = [line |-> last, marker |-> TRUE] /\ m.line = last /\ m.marker
    <3>1. [line |-> last, marker |-> TRUE] \in Mark
      BY <1>2 DEF Mark
    <3> QED
      BY <3>1
  <2>4. Shows(k, lines, Append(marks, m), last)
    BY <1>1, <2>1, <2>3, PutCommentShows
  <2>5. Shows(g, Append(lines, last), Append(marks, m), last + n)
    BY <1>3, <2>2, <2>4, LiteralShows
  <2>6. Shows(h, Append(lines, last), Append(marks, m), last + n + 1)
    BY <1>4, <2>2, <2>5, PutShows
  <2>7. /\ Append(marks, m) \in Seq(Mark)
        /\ \A i \in 0 .. last : MarkedAt(Append(marks, m), i) <=> MarkedAt(marks, i)
        /\ \A j \in DOMAIN Append(marks, m) : Append(marks, m)[j].line < l
        /\ MarkedAt(Append(marks, m), l) <=> m.line = l - 1 /\ m.marker
    <3>1. last <= m.line /\ m.line < l
      BY <1>2, <1>6, <2>3
    <3> QED
      BY <1>2, <3>1, MarkBelow
  <2>8. PICK then \in Seq(Mark) : then = Append(marks, m)
    BY <2>7
  <2>9. Follows(Append(s, a), Append(lines, last), then, l)
    BY <1>1, <1>6, <2>7, <2>8, FollowsLiteral
  <2>10. MarkedAt(then, l) <=> OneLine(lit)
    <3>1. last = l - 1 <=> n = 0
      BY <1>2, <1>5
    <3> QED
      BY <1>3, <2>3, <2>7, <2>8, <3>1
  <2>11. h.calls = <<>>
    <3>1. PICK e : e = Put(k, <<"kana">>)
      OBVIOUS
    <3>2. g = PutLit(e, lit)
      BY <2>2, <3>1
    <3>3. k \in File /\ e \in File /\ g \in File
      BY <2>4, <2>5, <3>1, KindsAre, PutType DEF Shows, InPlace
    <3>4. k.calls = <<>>
      BY <1>7, <2>1 DEF PutComment, Put, File
    <3>5. e.calls = <<>>
      BY <3>1, <3>3, <3>4, CallsKept
    <3>6. g.calls = <<>>
      BY <3>2, <3>3, <3>5, CallsKept
    <3> QED
      BY <2>2, <3>3, <3>6, CallsKept
  <2> QED
    BY <1>0, <1>6, <1>9, <2>6, <2>8, <2>9, <2>10, <2>11 DEF Told
<1>10. CASE comment \in {"marker", "other"}
  <2>1. PICK b \in BOOLEAN : b <=> comment = "marker"
    OBVIOUS
  <2>2. PICK k : k = PutComment(g, comment = "marker", FALSE) /\ h = Put(k, u)
    BY <1>0, <1>4, <1>10 DEF Assigned
  <2>3. g = PutLit(Put(f, <<"kana">>), lit) /\ k = PutComment(g, b, FALSE)
    <3>1. b = (comment = "marker")
      BY <2>1
    <3> QED
      BY <1>0, <1>10, <2>2, <3>1 DEF UpToLit
  <2>4. Shows(g, Append(lines, last), marks, last + n)
    BY <1>1, <1>3, <2>3, LiteralShows
  <2>5. PICK m \in Mark : m = [line |-> last + n, marker |-> b] /\ m.line = last + n /\ m.marker = b
    <3>1. [line |-> last + n, marker |-> b] \in Mark
      BY <1>2 DEF Mark
    <3> QED
      BY <3>1
  <2>6. Shows(k, Append(lines, last), Append(marks, m), last + n)
    BY <2>3, <2>4, <2>5, PutCommentShows
  <2>7. Shows(h, Append(lines, last), Append(marks, m), last + n + 1)
    BY <1>4, <2>2, <2>6, PutShows
  <2>8. /\ Append(marks, m) \in Seq(Mark)
        /\ \A i \in 0 .. last : MarkedAt(Append(marks, m), i) <=> MarkedAt(marks, i)
        /\ \A j \in DOMAIN Append(marks, m) : Append(marks, m)[j].line < l
        /\ MarkedAt(Append(marks, m), l) <=> m.line = l - 1 /\ m.marker
    <3>1. last <= m.line /\ m.line < l
      BY <1>2, <1>6, <2>5
    <3> QED
      BY <1>2, <3>1, MarkBelow
  <2>9. PICK then \in Seq(Mark) : then = Append(marks, m)
    BY <2>8
  <2>10. Follows(Append(s, a), Append(lines, last), then, l)
    BY <1>1, <1>6, <2>8, <2>9, FollowsLiteral
  <2>11. MarkedAt(then, l) <=> comment = "marker"
    <3>1. m.line = l - 1
      BY <1>2, <1>5, <2>5
    <3> QED
      BY <2>1, <2>5, <2>8, <2>9, <3>1
  <2>12. h.calls = <<>>
    <3>1. PICK e : e = Put(f, <<"kana">>)
      OBVIOUS
    <3>2. g = PutLit(e, lit)
      BY <2>3, <3>1
    <3>3. e \in File /\ g \in File /\ k \in File
      BY <1>7, <2>4, <2>6, <3>1, KindsAre, PutType DEF Shows, InPlace
    <3>4. e.calls = <<>>
      BY <1>7, <3>1, CallsKept
    <3>5. g.calls = <<>>
      BY <3>2, <3>3, <3>4, CallsKept
    <3>6. k.calls = <<>>
      BY <2>3, <3>3, <3>5 DEF PutComment, Put, File
    <3> QED
      BY <2>2, <3>3, <3>6, CallsKept
  <2>13. comment # "before"
    BY <1>10
  <2> QED
    BY <1>0, <1>6, <2>7, <2>9, <2>10, <2>11, <2>12, <2>13 DEF Told
<1> QED
  BY <1>8, <1>9, <1>10

-----------------------------------------------------------------------------
(* Which literals are SQL: calls. *)

\* The functions that are called, and their names.
Funs == {<<"selector">>, <<"index", "selector">>, <<"ident">>}
CallNames == {"Query", "QueryContext", "Get"}

\* The arguments of a call after n literals: some that are none, and m new ones.
ArgsAfter(n, skipped, m) ==
  [k \in 1 .. skipped + m |-> IF k <= skipped THEN 0 ELSE n + k - skipped]

\* The k-th literal of a call is its query.
InSlot(fun, name, skipped, k) ==
  /\ fun \in {<<"selector">>, <<"index", "selector">>}
  /\ name \in DOMAIN Funcs /\ Funcs[name] + 1 = skipped + k

\* A call as go/parser sees it.
CallOf(fun, name, args) == [fun |-> fun, name |-> name, args |-> args]

\* The call that another may be the argument of.
OuterCall == CallOf(<<"selector">>, "Query", <<0>>)

\* The calls of a file are this one, and at most the one around it.
Makes(h, call) == \E outer \in SUBSET {OuterCall} : ToSet(h.calls) = outer \cup {call}

\* The literals after the first n that are.
SlotsAfter(h, n, fun, name, skipped) ==
  {i \in DOMAIN h.lits : i > n /\ InSlot(fun, name, skipped, i - n)}

\* The name of a call is that of its selector.
LEMMA NameIs ==
  ASSUME NEW fun \in Funs, NEW name \in CallNames, NEW args
  PROVE  CallFuncName(CallOf(fun, name, args)) =
           IF fun \in {<<"selector">>, <<"index", "selector">>} THEN name ELSE ""
<1>1. CASE fun = <<"selector">>
  <2>1. Last(fun) = "selector" /\ Front(fun) = <<>>
    BY <1>1 DEF Last, Front
  <2>2. ToSet(Front(fun)) = {}
    BY <2>1 DEF ToSet
  <2> QED
    BY <1>1, <2>1, <2>2 DEF CallFuncName, CallOf
<1>2. CASE fun = <<"index", "selector">>
  <2>1. Len(fun) = 2 /\ fun[1] = "index" /\ fun[2] = "selector"
    BY <1>2
  <2>2. Last(fun) = "selector"
    BY <2>1 DEF Last
  <2>3. ToSet(Front(fun)) \subseteq {"index"}
    <3>1. PICK one : one = Front(fun)
      OBVIOUS
    <3>2. one = SubSeq(fun, 1, 1) /\ fun \in Seq({"index", "selector"})
      BY <1>2, <2>1, <3>1 DEF Front
    <3>3. DOMAIN one = {1} /\ one[1] = "index"
      BY <2>1, <3>2
    <3> QED
      BY <3>1, <3>3 DEF ToSet
  <2> QED
    BY <1>2, <2>2, <2>3 DEF CallFuncName, CallOf
<1>3. CASE fun = <<"ident">>
  <2>1. Last(fun) = "ident"
    BY <1>3 DEF Last
  <2>2. fun \notin {<<"selector">>, <<"index", "selector">>}
    BY <1>3
  <2> QED
    BY <2>1, <2>2 DEF CallFuncName, CallOf
<1> QED
  BY <1>1, <1>2, <1>3 DEF Funs

\* The k-th argument is the literal i.
IsArg(args, k, i) == k \in DOMAIN args /\ args[k] = i

\* The literal an argument is.
LEMMA SlotIs ==
  ASSUME NEW n \in Nat, NEW skipped \in Nat, NEW m \in Nat, NEW k \in Nat, NEW i \in 1 .. n + m
  PROVE  IsArg(ArgsAfter(n, skipped, m), k, i) <=> i > n /\ k = skipped + (i - n)
<1>1. PICK args : args = ArgsAfter(n, skipped, m)
  OBVIOUS
<1>2. /\ DOMAIN args = 1 .. skipped + m
      /\ \A l \in 1 .. skipped + m : args[l] = IF l <= skipped THEN 0 ELSE n + l - skipped
  BY <1>1 DEF ArgsAfter
<1>3. IsArg(args, k, i) <=> i > n /\ k = skipped + (i - n)
  <2>1. CASE k \in 1 .. skipped
    BY <1>2, <2>1 DEF IsArg
  <2>2. CASE k \in skipped + 1 .. skipped + m
    <3>1. k \in DOMAIN args /\ args[k] = n + k - skipped
      BY <1>2, <2>2
    <3>2. n + k - skipped = i <=> i > n /\ k = skipped + (i - n)
      BY <2>2
    <3> QED
      BY <3>1, <3>2 DEF IsArg
  <2>3. CASE k = 0 \/ k > skipped + m
    <3>1. k \notin DOMAIN args /\ ~(i > n /\ k = skipped + (i - n))
      BY <1>2, <2>3
    <3> QED
      BY <3>1 DEF IsArg
  <2> QED
    BY <2>1, <2>2, <2>3
<1> QED
  BY <1>1, <1>3

\* The literals that are the query of a call.
LEMMA CallSlots ==
  ASSUME NEW h, NEW fun \in Funs, NEW name \in CallNames, NEW skipped \in Nat,
         NEW n \in Nat, NEW m \in Nat, DOMAIN h.lits = 1 .. n + m,
         Makes(h, CallOf(fun, name, ArgsAfter(n, skipped, m)))
  PROVE  CallSQLPositions(h, Funcs) = SlotsAfter(h, n, fun, name, skipped)
<1>1. PICK args : args = ArgsAfter(n, skipped, m)
  OBVIOUS
<1>2. PICK call : call = CallOf(fun, name, args)
  OBVIOUS
<1>7. PICK outer \in SUBSET {OuterCall} : ToSet(h.calls) = outer \cup {call}
  BY <1>1, <1>2 DEF Makes
<1>3. CallFuncName(call) = IF fun \in {<<"selector">>, <<"index", "selector">>} THEN name ELSE ""
  BY <1>2, NameIs
<1>4. name # "" /\ call.args = args
  BY <1>2 DEF CallNames, CallOf
<1>5. ASSUME NEW i \in 1 .. n + m, NEW o \in outer
      PROVE  ~(/\ Funcs[CallFuncName(o)] + 1 \in DOMAIN o.args
               /\ o.args[Funcs[CallFuncName(o)] + 1] = i)
  <2>1. PICK p : p = Funcs[CallFuncName(o)] + 1
    OBVIOUS
  <2>2. o.args = <<0>>
    BY DEF OuterCall, CallOf
  <2>3. p \in DOMAIN o.args => o.args[p] = 0
    BY <2>2
  <2> QED
    BY <2>1, <2>3
<1>6. ASSUME NEW i \in 1 .. n + m
      PROVE  (/\ CallFuncName(call) # "" /\ CallFuncName(call) \in DOMAIN Funcs
              /\ Funcs[CallFuncName(call)] + 1 \in DOMAIN call.args
              /\ call.args[Funcs[CallFuncName(call)] + 1] = i)
               <=> i > n /\ InSlot(fun, name, skipped, i - n)
  <2>1. CASE fun \in {<<"selector">>, <<"index", "selector">>} /\ name \in DOMAIN Funcs
    <3>1. CallFuncName(call) = name
      BY <1>3, <2>1
    <3>2. PICK k \in Nat : k = Funcs[name] + 1
      BY <2>1, FuncsAssumption
    <3>3. IsArg(args, k, i) <=> i > n /\ k = skipped + (i - n)
      <4>1. IsArg(ArgsAfter(n, skipped, m), k, i) <=> i > n /\ k = skipped + (i - n)
        BY <3>2, SlotIs, SMTT(60)
      <4> QED
        BY <1>1, <4>1
    <3>4. InSlot(fun, name, skipped, i - n) <=> k = skipped + (i - n)
      BY <2>1, <3>2 DEF InSlot
    <3> QED
      BY <1>4, <2>1, <3>1, <3>2, <3>3, <3>4 DEF IsArg
  <2>2. CASE ~(fun \in {<<"selector">>, <<"index", "selector">>} /\ name \in DOMAIN Funcs)
    <3>1. ~InSlot(fun, name, skipped, i - n)
      BY <2>2 DEF InSlot
    <3>2. ~(CallFuncName(call) # "" /\ CallFuncName(call) \in DOMAIN Funcs)
      BY <1>3, <2>2
    <3> QED
      BY <3>1, <3>2
  <2> QED
    BY <2>1, <2>2
<1>8. ASSUME NEW i \in 1 .. n + m
      PROVE  (\E c \in ToSet(h.calls) :
                LET q == CallFuncName(c)
                IN  /\ q # "" /\ q \in DOMAIN Funcs
                    /\ Funcs[q] + 1 \in DOMAIN c.args /\ c.args[Funcs[q] + 1] = i)
               <=> i > n /\ InSlot(fun, name, skipped, i - n)
  BY <1>5, <1>6, <1>7, Zenon
<1> QED
  BY <1>8 DEF CallSQLPositions, SlotsAfter

\* A literal of a call.
LEMMA ArgumentShows ==
  ASSUME NEW f, NEW lines, NEW marks, NEW last, Shows(f, lines, marks, last),
         NEW lit \in Literals
  PROVE  /\ Shows(Put(PutLit(f, lit), <<"x">>), Append(lines, last), marks,
                  last + NewLines(lit.body))
         /\ Put(PutLit(f, lit), <<"x">>).calls = f.calls
<1>1. PICK u \in Seq(Kinds) : u = <<"x">> /\ NewLines(u) = 0
  BY KindsAre, NewLinesAre
<1>2. PICK g : g = PutLit(f, lit)
  OBVIOUS
<1>3. PICK l \in Nat : l = last + NewLines(lit.body) /\ Shows(g, Append(lines, last), marks, l)
  <2>1. last \in Nat /\ NewLines(lit.body) \in Nat
        /\ Shows(g, Append(lines, last), marks, last + NewLines(lit.body))
    BY <1>2, PutLitShows
  <2> QED
    BY <2>1
<1>4. Shows(Put(g, u), Append(lines, last), marks, l + NewLines(u))
  BY <1>3, PutShows
<1>5. l + NewLines(u) = l
  BY <1>1
<1>6. f \in File /\ g \in File
  BY <1>3 DEF Shows, InPlace
<1>7. g.calls = f.calls
  BY <1>2, <1>6, CallsKept
<1>8. Put(g, u).calls = g.calls
  BY <1>6, CallsKept
<1> QED
  BY <1>1, <1>2, <1>3, <1>4, <1>5, <1>7, <1>8

\* The lines of the literals, with those of a call.
WithArgs(lines, last, lit, rest) ==
  IF rest = <<>> THEN Append(lines, last)
                 ELSE Append(Append(lines, last), last + NewLines(lit.body))

\* The literals of a call.
LEMMA ArgumentsShow ==
  ASSUME NEW f, NEW lines, NEW marks, NEW last, Shows(f, lines, marks, last),
         NEW lit \in Literals, NEW rest \in {<<>>, <<Emoji>>}
  PROVE  /\ \E l : Shows(Writing!Fold(f, <<lit>> \o rest), WithArgs(lines, last, lit, rest),
                         marks, l)
         /\ Writing!Fold(f, <<lit>> \o rest).calls = f.calls
<1>1. PICK one \in Seq(Literals) : one = <<lit>>
  <2>1. <<lit>> \in Seq(Literals)
    OBVIOUS
  <2> QED
    BY <2>1
<1>2. PICK g : g = Put(PutLit(f, lit), <<"x">>)
  OBVIOUS
<1>3. Writing!Fold(f, one) = g
  BY <1>1, <1>2, Writing!FoldOne
<1>4. Shows(g, Append(lines, last), marks, last + NewLines(lit.body)) /\ g.calls = f.calls
  BY <1>2, ArgumentShows
<1>5. CASE rest = <<>>
  <2>1. one \o rest = one
    BY <1>5
  <2> QED
    BY <1>1, <1>3, <1>4, <1>5, <2>1 DEF WithArgs
<1>6. CASE rest = <<Emoji>>
  <2>1. PICK e \in Literals : e = Emoji
    BY DEF Literals
  <2>2. rest = <<e>> /\ rest # <<>>
    BY <1>6, <2>1
  <2>3. PICK r \in Seq(Literals) : r = rest
    <3>1. <<e>> \in Seq(Literals)
      OBVIOUS
    <3> QED
      BY <2>2, <3>1
  <2>4. Writing!Fold(f, one \o r) = Writing!Fold(g, r)
    BY <1>3, Writing!FoldConcat
  <2>5. PICK h : h = Put(PutLit(g, e), <<"x">>)
    OBVIOUS
  <2>6. Writing!Fold(g, r) = h
    BY <2>2, <2>3, <2>5, Writing!FoldOne
  <2>7. /\ Shows(h, Append(Append(lines, last), last + NewLines(lit.body)), marks,
                 last + NewLines(lit.body) + NewLines(e.body))
        /\ h.calls = g.calls
    BY <1>4, <2>5, ArgumentShows
  <2> QED
    BY <1>1, <1>4, <2>2, <2>3, <2>4, <2>6, <2>7 DEF WithArgs
<1> QED
  BY <1>5, <1>6

\* What is said of the literals of a call.
SaidOf(fun, name, skipped, lits, a) ==
  [k \in DOMAIN lits |->
     InSlot(fun, name, skipped, k) \/ (a /\ \A j \in 1 .. k - 1 : OneLine(lits[j]))]

\* One literal, or two.
LEMMA ArgumentsAre ==
  ASSUME NEW lit \in Literals, NEW rest \in {<<>>, <<Emoji>>}
  PROVE  /\ <<lit>> \o rest \in Seq(Literals) /\ (<<lit>> \o rest)[1] = lit
         /\ Len(<<lit>> \o rest) = IF rest = <<>> THEN 1 ELSE 2
<1>1. PICK one \in Seq(Literals) : one = <<lit>> /\ Len(one) = 1 /\ one[1] = lit
  <2>1. <<lit>> \in Seq(Literals)
    OBVIOUS
  <2> QED
    BY <2>1
<1>2. rest \in Seq(Literals) /\ Len(rest) = IF rest = <<>> THEN 0 ELSE 1
  <2>1. PICK e : e = Emoji /\ e \in Literals
    BY DEF Literals
  <2>2. CASE rest = <<>>
    BY <2>2
  <2>3. CASE rest = <<e>>
    BY <2>1, <2>3
  <2> QED
    BY <2>1, <2>2, <2>3
<1>3. /\ one \o rest \in Seq(Literals) /\ Len(one \o rest) = Len(one) + Len(rest)
      /\ (one \o rest)[1] = one[1]
  BY <1>1, <1>2, ConcatIs
<1> QED
  BY <1>1, <1>2, <1>3

\* It is said of literals in the slot and of those that a marker is above.
SaysOf(t, then, marks, n, m, fun, name, skipped) ==
  /\ DOMAIN t = 1 .. n + m /\ DOMAIN then = 1 .. n + m
  /\ \A i \in 1 .. n + m :
       t[i] <=> MarkedAt(marks, then[i]) \/ (i > n /\ InSlot(fun, name, skipped, i - n))

\* They are in its slot, or a marker is above their line.
LEMMA SaidIs ==
  ASSUME NEW s, NEW lines, NEW marks, NEW last, Follows(s, lines, marks, last),
         NEW a \in BOOLEAN, a <=> MarkedAt(marks, last),
         NEW lit \in Literals, NEW rest \in {<<>>, <<Emoji>>},
         NEW fun, NEW name, NEW skipped
  PROVE  SaysOf(s \o SaidOf(fun, name, skipped, <<lit>> \o rest, a),
                WithArgs(lines, last, lit, rest), marks, Len(lines), Len(<<lit>> \o rest),
                fun, name, skipped)
<1>1. /\ s \in Seq(BOOLEAN) /\ lines \in Seq(Nat) /\ marks \in Seq(Mark) /\ last \in Nat
      /\ Len(s) = Len(lines)
      /\ \A i \in DOMAIN lines : s[i] <=> MarkedAt(marks, lines[i])
      /\ \A j \in DOMAIN marks : marks[j].line < last
  BY DEF Follows
<1>2. PICK lits : lits = <<lit>> \o rest
  OBVIOUS
<1>3. PICK e : e = SaidOf(fun, name, skipped, lits, a)
  OBVIOUS
<1>13. PICK n \in Nat : n = Len(lines)
  BY <1>1
<1>14. PICK m \in Nat : m = IF rest = <<>> THEN 1 ELSE 2
  OBVIOUS
<1>15. PICK t : t = s \o e
  OBVIOUS
<1>4. /\ lits \in Seq(Literals) /\ Len(lits) = m /\ DOMAIN lits = 1 .. m /\ lits[1] = lit
  <2>1. lits \in Seq(Literals) /\ lits[1] = lit /\ Len(lits) = m
    BY <1>2, <1>14, ArgumentsAre
  <2> QED
    BY <2>1
<1>5. DOMAIN e = 1 .. m /\ e \in Seq(BOOLEAN) /\ Len(e) = m
  BY <1>3, <1>4 DEF SaidOf
<1>6. ASSUME NEW k \in 1 .. m
      PROVE  e[k] <=> \/ InSlot(fun, name, skipped, k)
                      \/ a /\ \A j \in 1 .. k - 1 : OneLine(lits[j])
  BY <1>3, <1>4 DEF SaidOf
<1>7. t \in Seq(BOOLEAN) /\ Len(t) = n + m
      /\ \A i \in 1 .. n + m : t[i] = IF i <= n THEN s[i] ELSE e[i - n]
  <2>1. PICK q : q = BOOLEAN
    OBVIOUS
  <2>2. s \in Seq(q) /\ e \in Seq(q) /\ Len(s) = n /\ Len(e) = m
    BY <1>1, <1>5, <1>13, <2>1
  <2>3. /\ s \o e \in Seq(q) /\ Len(s \o e) = n + m
        /\ \A i \in 1 .. n + m : (s \o e)[i] = IF i <= n THEN s[i] ELSE e[i - n]
    BY <2>2, ConcatIs, Zenon
  <2> QED
    BY <1>15, <2>1, <2>3, Zenon
<1>8. PICK then : then = WithArgs(lines, last, lit, rest)
  OBVIOUS
<1>9. PICK v \in Nat : v = NewLines(lit.body) /\ (v = 0 <=> OneLine(lit))
  <2>1. lit.body \in Seq(Kinds)
    BY KindsAre DEF Bodies
  <2>2. NewLines(lit.body) \in Nat
    BY <2>1, NewLinesConcat
  <2> QED
    BY <2>1, <2>2, NewLinesAre DEF OneLine
<1>10. /\ then \in Seq(Nat) /\ Len(then) = n + m
       /\ \A i \in 1 .. n : then[i] = lines[i]
       /\ then[n + 1] = last /\ (m = 2 => then[n + 2] = last + v)
  <2>1. PICK w \in Seq(Nat) : /\ w = Append(lines, last) /\ Len(w) = n + 1
                              /\ w[n + 1] = last /\ \A i \in 1 .. n : w[i] = lines[i]
    <3>1. PICK w : w = Append(lines, last)
      OBVIOUS
    <3>2. w \in Seq(Nat) /\ Len(w) = n + 1
      BY <1>1, <1>13, <3>1
    <3>3. w[n + 1] = last /\ \A i \in 1 .. n : w[i] = lines[i]
      BY <1>1, <1>13, <3>1
    <3> QED
      BY <3>1, <3>2, <3>3
  <2>2. CASE rest = <<>>
    <3>1. then = w
      BY <1>8, <2>1, <2>2 DEF WithArgs
    <3>2. m = 1
      BY <1>14, <2>2
    <3> QED
      BY <2>1, <3>1, <3>2
  <2>3. CASE rest # <<>>
    <3>1. then = Append(w, last + v)
      BY <1>8, <1>9, <2>1, <2>3 DEF WithArgs
    <3>2. m = 2
      BY <1>14, <2>3
    <3>3. last + v \in Nat
      BY <1>1
    <3> QED
      BY <2>1, <3>1, <3>2, <3>3
  <2> QED
    BY <2>2, <2>3
<1>11. MarkedAt(marks, last + v) <=> a /\ OneLine(lit)
  <2>1. CASE v = 0
    <3>1. last + v = last
      BY <1>1, <2>1
    <3> QED
      BY <1>9, <2>1, <3>1
  <2>2. CASE v # 0
    <3>1. last < last + v /\ last + v \in Nat
      BY <1>1, <2>2
    <3>2. ~MarkedAt(marks, last + v)
      BY <1>1, <3>1, FarBelow
    <3> QED
      BY <1>9, <2>2, <3>2
  <2> QED
    BY <2>1, <2>2
<1>12. ASSUME NEW i \in 1 .. n + m
       PROVE  t[i] <=> MarkedAt(marks, then[i]) \/ (i > n /\ InSlot(fun, name, skipped, i - n))
  <2>1. CASE i \in 1 .. n
    <3>1. t[i] = s[i] /\ then[i] = lines[i] /\ ~(i > n) /\ i \in DOMAIN lines
      BY <1>1, <1>7, <1>10, <1>13, <2>1
    <3> QED
      BY <1>1, <3>1
  <2>2. CASE i = n + 1
    <3>1. t[i] = e[1] /\ then[i] = last /\ i > n /\ i - n = 1
      BY <1>7, <1>10, <2>2
    <3>2. e[1] <=> InSlot(fun, name, skipped, 1) \/ a
      <4>1. 1 \in 1 .. m /\ \A j \in 1 .. 1 - 1 : OneLine(lits[j])
        BY <1>14
      <4> QED
        BY <1>6, <4>1
    <3> QED
      BY <3>1, <3>2
  <2>3. CASE i = n + 2 /\ m = 2
    <3>1. t[i] = e[2] /\ then[i] = last + v /\ i > n /\ i - n = 2
      BY <1>7, <1>10, <2>3
    <3>2. e[2] <=> InSlot(fun, name, skipped, 2) \/ (a /\ OneLine(lit))
      <4>1. (\A j \in 1 .. 2 - 1 : OneLine(lits[j])) <=> OneLine(lit)
        <5>1. 1 .. 2 - 1 = {1}
          OBVIOUS
        <5> QED
          BY <1>4, <5>1, Zenon
      <4>2. 2 \in 1 .. m
        BY <2>3
      <4> QED
        BY <1>6, <4>1, <4>2
    <3> QED
      BY <1>11, <3>1, <3>2
  <2>4. i \in 1 .. n \/ i = n + 1 \/ (i = n + 2 /\ m = 2)
    BY <1>14
  <2> QED
    BY <2>1, <2>2, <2>3, <2>4
<1>16. DOMAIN t = 1 .. n + m /\ DOMAIN then = 1 .. n + m
  BY <1>7, <1>10
<1> QED
  BY <1>2, <1>3, <1>4, <1>8, <1>12, <1>13, <1>15, <1>16 DEF SaysOf

\* A call, up to its literals.
Calling(f, fun, name, args, nested) ==
  PutCall(Put(IF nested THEN PutCall(f, <<"selector">>, "Query", <<0>>) ELSE f, <<"kana">>),
          fun, name, args)

\* It may be the argument of another.
LEMMA CallingShows ==
  ASSUME NEW f, NEW lines, NEW marks, NEW last, Shows(f, lines, marks, last), f.calls = <<>>,
         NEW fun \in Funs, NEW name \in CallNames, NEW args \in Seq(Int), NEW nested \in BOOLEAN
  PROVE  /\ Shows(Calling(f, fun, name, args, nested), lines, marks, last)
         /\ Makes(Calling(f, fun, name, args, nested), CallOf(fun, name, args))
<1>1. PICK u \in Seq(Kinds) : u = <<"kana">> /\ NewLines(u) = 0
  BY KindsAre, NewLinesAre
<1>2. PICK sel, zero, o, c :
        /\ sel = <<"selector">> /\ zero = <<0>>
        /\ o = [fun |-> sel, name |-> "Query", args |-> zero]
        /\ c = [fun |-> fun, name |-> name, args |-> args]
  OBVIOUS
<1>3. sel \in Seq({"selector", "index", "ident"}) /\ zero \in Seq(Int)
  BY <1>2
<1>4. PICK g : g = IF nested THEN PutCall(f, sel, "Query", zero) ELSE f
  OBVIOUS
<1>5. Shows(g, lines, marks, last)
  BY <1>3, <1>4, PutCallShows
<1>6. g.calls = IF nested THEN <<o>> ELSE <<>>
  <2>1. f \in File
    BY DEF Shows, InPlace
  <2>2. CASE nested
    <3>1. g.calls = Append(<<>>, o)
      BY <1>2, <1>4, <2>1, <2>2 DEF PutCall, File
    <3> QED
      BY <2>2, <3>1
  <2>3. CASE ~nested
    BY <1>4, <2>3
  <2> QED
    BY <2>2, <2>3
<1>7. PICK k : k = Put(g, u)
  OBVIOUS
<1>8. Shows(k, lines, marks, last)
  <2>1. Shows(k, lines, marks, last + NewLines(u)) /\ last \in Nat
    BY <1>5, <1>7, PutShows
  <2>2. last + NewLines(u) = last
    BY <1>1, <2>1
  <2> QED
    BY <2>1, <2>2
<1>9. k \in File /\ k.calls = g.calls
  <2>1. g \in File /\ k \in File
    BY <1>5, <1>8 DEF Shows, InPlace
  <2> QED
    BY <1>7, <2>1, CallsKept
<1>10. PICK h : h = PutCall(k, fun, name, args)
  OBVIOUS
<1>16. fun \in Seq({"selector", "index", "ident"})
  <2>1. CASE fun = <<"selector">>
    BY <2>1
  <2>2. CASE fun = <<"index", "selector">>
    BY <2>2
  <2>3. CASE fun = <<"ident">>
    BY <2>3
  <2> QED
    BY <2>1, <2>2, <2>3 DEF Funs
<1>11. Shows(h, lines, marks, last)
  BY <1>8, <1>10, <1>16, PutCallShows DEF CallNames
<1>12. h.calls = Append(k.calls, c)
  BY <1>2, <1>9, <1>10 DEF PutCall, File
<1>13. ToSet(h.calls) = (IF nested THEN {o} ELSE {}) \cup {c}
  <2>1. PICK q : q = k.calls
    OBVIOUS
  <2>2. ToSet(q) = IF nested THEN {o} ELSE {}
    <3>1. CASE nested
      <4>1. q = <<o>>
        BY <1>6, <1>9, <2>1, <3>1
      <4> QED
        BY <3>1, <4>1 DEF ToSet
    <3>2. CASE ~nested
      <4>1. q = <<>>
        BY <1>6, <1>9, <2>1, <3>2
      <4> QED
        BY <3>2, <4>1 DEF ToSet
    <3> QED
      BY <3>1, <3>2
  <2>3. q \in Seq(Call) /\ c \in Call
    <3>1. k \in File /\ h \in File
      BY <1>9, <1>11 DEF Shows, InPlace
    <3>2. fun \in Seq({"selector", "index", "ident"})
      BY <1>16
    <3> QED
      BY <1>2, <2>1, <3>1, <3>2 DEF File, Call, CallNames
  <2>4. ToSet(Append(q, c)) = ToSet(q) \cup {c}
    BY <2>3, AppendSet
  <2> QED
    BY <1>12, <2>1, <2>2, <2>4, Zenon
<1>14. h = Calling(f, fun, name, args, nested)
  BY <1>1, <1>2, <1>4, <1>7, <1>10 DEF Calling
<1>15. (IF nested THEN {o} ELSE {}) \in SUBSET {OuterCall} /\ c = CallOf(fun, name, args)
  BY <1>2 DEF OuterCall, CallOf
<1> QED
  BY <1>11, <1>13, <1>14, <1>15 DEF Makes

\* What is said of a file with a call.
Called(f, s) ==
  /\ f.calls # <<>> /\ f.lits # <<>> /\ InPlace(f)
  /\ {i \in DOMAIN s : s[i]} = IsSQL(f, Funcs)

\* A line with a call.
LEMMA ToldCall ==
  ASSUME NEW f, NEW s, NEW a \in BOOLEAN, Told(f, s, a),
         NEW fun \in Funs, NEW name \in CallNames, NEW skipped \in {0, 1},
         NEW lit \in Literals, NEW rest \in {<<>>, <<Emoji>>}, NEW nested \in BOOLEAN
  PROVE  LET lits == <<lit>> \o rest
             args == ArgsAfter(Len(f.lits), skipped, Len(lits))
         IN  Called(Writing!Fold(Calling(f, fun, name, args, nested), lits),
                    s \o SaidOf(fun, name, skipped, lits, a))
<1>1. PICK lines, marks, last :
        /\ Shows(f, lines, marks, last) /\ Follows(s, lines, marks, last)
        /\ (a <=> MarkedAt(marks, last)) /\ f.calls = <<>>
  BY DEF Told
<1>2. PICK lits : lits = <<lit>> \o rest
  OBVIOUS
<1>3. PICK m \in Nat : m = Len(lits) /\ m # 0 /\ lits \in Seq(Literals)
  <2>1. lits \in Seq(Literals) /\ Len(lits) = IF rest = <<>> THEN 1 ELSE 2
    BY <1>2, ArgumentsAre
  <2> QED
    BY <2>1
<1>4. PICK n \in Nat : n = Len(f.lits) /\ Len(lines) = n
  <2>1. lines \in Seq(Nat) /\ lines = LitLines(f.src, f.lits) /\ f.lits \in Seq(Literal)
    BY <1>1 DEF Follows, Shows, InPlace, File
  <2>2. DOMAIN lines = DOMAIN f.lits
    BY <2>1 DEF LitLines
  <2> QED
    BY <2>1, <2>2
<1>5. PICK args \in Seq(Int) : args = ArgsAfter(n, skipped, m)
  <2>1. ArgsAfter(n, skipped, m) \in Seq(Int)
    BY <1>3, ArgsAre DEF ArgsAfter, Funs
  <2> QED
    BY <2>1
<1>6. PICK g, h : g = Calling(f, fun, name, args, nested) /\ h = Writing!Fold(g, lits)
  OBVIOUS
<1>7. Shows(g, lines, marks, last) /\ Makes(g, CallOf(fun, name, args))
  BY <1>1, <1>6, CallingShows
<1>8. PICK then, l : then = WithArgs(lines, last, lit, rest) /\ Shows(h, then, marks, l)
                     /\ h.calls = g.calls
  <2>1. h = Writing!Fold(g, <<lit>> \o rest)
    BY <1>2, <1>6
  <2>2. Shows(g, lines, marks, last)
    BY <1>7
  <2>3. /\ \E l : Shows(Writing!Fold(g, <<lit>> \o rest), WithArgs(lines, last, lit, rest),
                       marks, l)
        /\ Writing!Fold(g, <<lit>> \o rest).calls = g.calls
    BY <2>2, ArgumentsShow, Zenon
  <2> QED
    BY <2>1, <2>3, Zenon
<1>9. PICK t : t = s \o SaidOf(fun, name, skipped, lits, a)
  OBVIOUS
<1>10. SaysOf(t, then, marks, n, m, fun, name, skipped)
  BY <1>1, <1>2, <1>3, <1>4, <1>8, <1>9, SaidIs
<1>11. h \in File /\ InPlace(h)
  BY <1>8 DEF Shows, InPlace
<1>12. DOMAIN h.lits = 1 .. n + m
  <2>1. then = LitLines(h.src, h.lits)
    BY <1>8 DEF Shows
  <2> QED
    BY <1>10, <2>1 DEF LitLines, SaysOf
<1>13. Marked(h) = {i \in 1 .. n + m : MarkedAt(marks, then[i])}
  <2>1. LitLines(h.src, h.lits) = then /\ Marks(h.src, h.comments) = marks
    BY <1>8 DEF Shows
  <2> QED
    BY <1>11, <1>12, <2>1, MarkedIs
<1>14. CallSQLPositions(h, Funcs) = SlotsAfter(h, n, fun, name, skipped)
  <2>1. Makes(h, CallOf(fun, name, ArgsAfter(n, skipped, m)))
    BY <1>5, <1>7, <1>8 DEF Makes
  <2>2. skipped \in Nat
    OBVIOUS
  <2> QED
    BY <1>12, <2>1, <2>2, CallSlots
<1>15. {i \in DOMAIN t : t[i]} = IsSQL(h, Funcs)
  BY <1>10, <1>12, <1>13, <1>14 DEF IsSQL, SaysOf, SlotsAfter
<1>16. h.lits # <<>> /\ h.calls # <<>>
  <2>1. 1 \in DOMAIN h.lits
    BY <1>3, <1>12
  <2>2. h.calls # <<>>
    <3>1. ToSet(h.calls) # {}
      BY <1>7, <1>8 DEF Makes
    <3> QED
      BY <3>1 DEF ToSet
  <2> QED
    BY <2>1, <2>2
<1>17. Called(h, t)
  BY <1>11, <1>15, <1>16 DEF Called
<1> QED
  BY <1>2, <1>3, <1>4, <1>5, <1>6, <1>9, <1>17

-----------------------------------------------------------------------------
(* Which literals are SQL: every file that can be written. *)

\* The inductive invariant: until there is a call, the lines of the literals and of the
\* markers say of each literal what is said of it; after the call, which is the last
\* line, the literals that are said to be SQL are those that are found.
Tells == Placed /\ (Told(file, may, grouped) \/ Called(file, may))

\* Nothing is said of the empty file.
LEMMA TellsInit == MCInit => Tells
<1> SUFFICES ASSUME MCInit PROVE Tells
  OBVIOUS
<1>1. PICK e : e = <<>>
  OBVIOUS
<1>2. /\ file.src = e /\ file.lits = e /\ file.comments = e /\ file.calls = e
      /\ may = e /\ grouped = FALSE
  BY <1>1 DEF MCInit, NoFile
<1>3. e \in Seq(Kinds) /\ e \in Seq(Nat) /\ e \in Seq(Mark) /\ e \in Seq(BOOLEAN)
      /\ DOMAIN e = {} /\ Len(e) = 0
  BY <1>1
<1>4. Placed
  BY PlacedInit
<1>5. LitLines(e, e) = e /\ Marks(e, e) = e
  BY <1>1 DEF LitLines, Marks
<1>6. PICK last \in Nat : last = LastLine(e)
  <2>1. 0 \in 0 .. Len(e)
    BY <1>3
  <2>2. LineAt(e, 0) \in Nat
    BY <1>3, <2>1, LineStep
  <2> QED
    BY <1>3, <2>2 DEF LastLine
<1>7. Shows(file, e, e, last)
  <2>1. EndsIn(e, e)
    BY <1>3 DEF EndsIn
  <2> QED
    BY <1>2, <1>4, <1>5, <1>6, <2>1 DEF Shows, InPlace, Placed, FileOK
<1>8. Follows(may, e, e, last)
  BY <1>2, <1>3, <1>6 DEF Follows
<1>9. ~MarkedAt(e, last)
  BY <1>3 DEF MarkedAt
<1> QED
  BY <1>1, <1>2, <1>4, <1>7, <1>8, <1>9 DEF Tells, Told

\* Every line that is written keeps it so.
LEMMA TellsStep == Tells /\ [MCNext]_MCvars => Tells'
<1> SUFFICES ASSUME Tells, [MCNext]_MCvars PROVE Told(file', may', grouped') \/ Called(file', may')
  BY PlacedStep DEF Tells
<1>0. grouped \in BOOLEAN
  BY DEF Tells, Placed, FileOK
<1>1. MoreLines \/ ~IsCode => Told(file, may, grouped)
  BY DEF Tells, MoreLines, IsCode, Called
<1>2. ASSUME NEW r \in Runes, TypeRune(r) PROVE Told(file', may', grouped')
  <2>1. /\ file' = Put(file, <<r>>) /\ may' = may /\ grouped' = grouped
        /\ file.lits = <<>> /\ file.comments = <<>> /\ ~IsCode
    BY <1>2 DEF TypeRune, IsCode
  <2>2. r \in Kinds
    BY KindsAre
  <2>3. Told(Put(file, <<r>>), may, grouped)
    BY <1>1, <2>1, <2>2, ToldRune
  <2> QED
    BY <2>1, <2>3
<1>3. CASE BlankLine
  <2>1. /\ file' = Put(file, <<"nl">>) /\ may' = may /\ grouped' = FALSE
        /\ Told(file, may, grouped)
    BY <1>1, <1>3 DEF BlankLine
  <2> QED
    BY <2>1, ToldBlank
<1>4. ASSUME NEW marker \in BOOLEAN, CommentLine(marker) PROVE Told(file', may', grouped')
  <2>1. PICK joined \in BOOLEAN :
          joined <=> /\ file.comments # <<>> /\ Last(file.comments).own
                     /\ Last(file.comments).end = Len(file.src)
    OBVIOUS
  <2>2. PICK m \in BOOLEAN : m = (marker \/ (joined /\ grouped))
    OBVIOUS
  <2>3. PICK kept : kept = IF joined THEN Front(file.comments) ELSE file.comments
    OBVIOUS
  <2>4. /\ file' = [Put(file, <<"x", "nl">>) EXCEPT
                      !.comments = Append(kept, [end |-> Len(file.src) + 2, marker |-> m,
                                                 own |-> TRUE])]
        /\ may' = may /\ grouped' = m /\ Told(file, may, grouped)
    BY <1>1, <1>4, <2>1, <2>2, <2>3 DEF CommentLine
  <2>5. \/ kept = file.comments
        \/ /\ file.comments # <<>> /\ Last(file.comments).end = Len(file.src)
           /\ kept = Front(file.comments)
    BY <2>1, <2>3
  <2>6. Told([Put(file, <<"x", "nl">>) EXCEPT
                !.comments = Append(kept, [end |-> Len(file.src) + 2, marker |-> m,
                                           own |-> TRUE])], may, m)
    BY <2>4, <2>5, ToldComment
  <2> QED
    BY <2>4, <2>6, Zenon
<1>5. ASSUME NEW lit \in Literals, NEW comment \in {"none", "before", "marker", "other"},
             AssignLine(lit, comment)
      PROVE  Told(file', may', grouped')
  <2>1. /\ file' = Assigned(file, lit, comment) /\ may' = Append(may, grouped)
        /\ grouped' = (comment = "marker" \/ (comment = "before" /\ OneLine(lit)))
        /\ MoreLines
    BY <1>5 DEF AssignLine, Assigned, UpToLit
  <2>2. Told(Assigned(file, lit, comment), Append(may, grouped),
             comment = "marker" \/ (comment = "before" /\ OneLine(lit)))
    BY <1>0, <1>1, <2>1, ToldAssign
  <2> QED
    BY <2>1, <2>2, Zenon
<1>6. ASSUME NEW fun \in Funs, NEW name \in CallNames, NEW skipped \in {0, 1},
             NEW lit \in Literals, NEW rest \in {<<>>, <<Emoji>>}, NEW nested \in BOOLEAN,
             CallLine(fun, name, skipped, <<lit>> \o rest, nested)
      PROVE  Called(file', may')
  <2>1. PICK lits : lits = <<lit>> \o rest
    OBVIOUS
  <2>2. PICK f : f = Calling(file, fun, name, ArgsAfter(Len(file.lits), skipped, Len(lits)),
                             nested)
    OBVIOUS
  <2>3. /\ file' = FoldLeft(LAMBDA g, l : Put(PutLit(g, l), <<"x">>), f, lits)
        /\ may' = may \o SaidOf(fun, name, skipped, lits, grouped)
        /\ MoreLines
    BY <1>6, <2>1, <2>2 DEF CallLine, Calling, ArgsAfter, SaidOf, InSlot
  <2>4. file' = Writing!Fold(f, lits)
    BY <2>3 DEF Writing!Fold, FoldLeft, Writing!FoldLeft, MapThenFoldSet,
             Writing!MapThenFoldSet, Max, Writing!Max
  <2>5. Called(Writing!Fold(f, lits), may \o SaidOf(fun, name, skipped, lits, grouped))
    BY <1>0, <1>1, <2>1, <2>2, <2>3, ToldCall
  <2> QED
    BY <2>3, <2>4, <2>5
<1>7. CASE UNCHANGED MCvars
  BY <1>7 DEF MCvars, Tells
<1>8. CASE AssignLines
  <2>1. {Emoji, TwoLines} \subseteq Literals
    BY DEF Literals
  <2>2. CASE \E lit \in Literals : AssignLine(lit, "none")
    BY <1>5, <2>2
  <2>3. CASE \E lit \in {Emoji, TwoLines}, comment \in {"before", "marker", "other"} :
               AssignLine(lit, comment)
    <3>1. PICK lit \in {Emoji, TwoLines}, comment \in {"before", "marker", "other"} :
                 AssignLine(lit, comment)
      BY <2>3
    <3>2. lit \in Literals
      BY <2>1
    <3> QED
      BY <1>5, <3>1, <3>2
  <2> QED
    BY <1>8, <2>2, <2>3 DEF AssignLines
<1>9. CASE CallLines
  <2>1. PICK fun \in Funs, name \in CallNames, skipped \in {0, 1}, lit \in Literals,
             rest \in {<<>>, <<Emoji>>}, nested \in BOOLEAN :
          /\ (name = "Get" \/ nested \/ lit = Empty) => fun = <<"selector">>
          /\ fun = <<"ident">> \/ rest # <<>> => lit \in {Emoji, TwoLines}
          /\ nested => lit = Emoji /\ skipped = 1
          /\ CallLine(fun, name, skipped, <<lit>> \o rest, nested)
    BY <1>9, Zenon DEF CallLines, Funs, CallNames
  <2> QED
    BY <1>6, <2>1
<1> QED
  BY <1>2, <1>3, <1>4, <1>7, <1>8, <1>9 DEF MCNext

\* A literal that is found has the text that it has in the file, at its place.
LEMMA BlockIs ==
  ASSUME NEW f \in File, PlacedIn(f), NEW i \in DOMAIN f.lits
  PROVE  /\ StripQuotes(Value(f, f.lits[i])) = StripCR(Inner(f.src, f.lits[i]))
         /\ Offset(f, f.lits[i].pos) + 1 = Bytes(Prefix(f.src, f.lits[i].pos))
BY LiteralSpans DEF Spans, Body, At

\* What README.md says of the literals is among what may be.
Flag == BOOLEAN
Within(a, b) == \A i \in DOMAIN a : a[i] => b[i]

Narrower ==
  /\ says \in Seq(Flag) /\ may \in Seq(Flag) /\ Len(says) = Len(may)
  /\ Within(says, may)
  /\ above \in Flag /\ grouped \in Flag /\ (above => grouped)

\* Adding to both what is narrower in one keeps it so.
LEMMA NarrowerTogether ==
  ASSUME NEW a \in Seq(Flag), NEW b \in Seq(Flag), Len(a) = Len(b), Within(a, b),
         NEW c \in Seq(Flag), NEW d \in Seq(Flag), Len(c) = Len(d), Within(c, d)
  PROVE  /\ a \o c \in Seq(Flag) /\ b \o d \in Seq(Flag)
         /\ Len(a \o c) = Len(b \o d)
         /\ Within(a \o c, b \o d)
<1>1. PICK n, m \in Nat : n = Len(a) /\ m = Len(c)
  OBVIOUS
<1>2. /\ a \o c \in Seq(Flag) /\ Len(a \o c) = n + m
      /\ \A i \in 1 .. n : (a \o c)[i] = a[i]
      /\ \A i \in n + 1 .. n + m : (a \o c)[i] = c[i - n]
  BY <1>1
<1>3. /\ b \o d \in Seq(Flag) /\ Len(b \o d) = n + m
      /\ \A i \in 1 .. n : (b \o d)[i] = b[i]
      /\ \A i \in n + 1 .. n + m : (b \o d)[i] = d[i - n]
  BY <1>1
<1>4. DOMAIN a = 1 .. n /\ DOMAIN c = 1 .. m
  BY <1>1
<1>5. ASSUME NEW i \in 1 .. n + m, (a \o c)[i] PROVE (b \o d)[i]
  <2>1. CASE i \in 1 .. n
    BY <1>2, <1>3, <1>4, <1>5, <2>1, Zenon DEF Within
  <2>2. CASE i \in n + 1 .. n + m
    <3>1. i - n \in 1 .. m
      BY <2>2
    <3> QED
      BY <1>2, <1>3, <1>4, <1>5, <2>2, <3>1, Zenon DEF Within
  <2> QED
    BY <1>1, <2>1, <2>2
<1>6. DOMAIN (a \o c) = 1 .. n + m
  BY <1>2
<1> QED
  BY <1>2, <1>3, <1>5, <1>6, Zenon DEF Within

\* A sequence and one more element, or a sequence of one.
LEMMA AppendIs ==
  ASSUME NEW S, NEW a \in Seq(S), NEW x \in S
  PROVE  Append(a, x) = a \o <<x>>
OBVIOUS

\* Each line written keeps it: the marker of the line above is never forgotten by the
\* comment groups, which only add to it.
LEMMA NarrowerStep == Narrower /\ [MCNext]_MCvars => Narrower'
<1> SUFFICES ASSUME Narrower, [MCNext]_MCvars PROVE Narrower'
  OBVIOUS
<1>1. ASSUME UNCHANGED <<says, may>>, above' \in Flag, grouped' \in Flag,
             above' => grouped'
      PROVE  Narrower'
  BY <1>1 DEF Narrower
<1>2. ASSUME NEW c \in Seq(Flag), NEW d \in Seq(Flag), Len(c) = Len(d),
             Within(c, d),
             says' = says \o c, may' = may \o d, above' \in Flag,
             grouped' \in Flag, above' => grouped'
      PROVE  Narrower'
  <2>1. /\ says \in Seq(Flag) /\ may \in Seq(Flag) /\ Len(says) = Len(may)
        /\ Within(says, may)
    BY DEF Narrower
  <2>2. /\ says \o c \in Seq(Flag) /\ may \o d \in Seq(Flag)
        /\ Len(says \o c) = Len(may \o d)
        /\ Within(says \o c, may \o d)
    BY <1>2, <2>1, NarrowerTogether, Zenon
  <2> QED
    BY <1>2, <2>2, Zenon DEF Narrower
<1>3. ASSUME NEW r \in Runes, TypeRune(r) PROVE Narrower'
  BY <1>1, <1>3 DEF TypeRune, Narrower
<1>4. CASE BlankLine
  BY <1>1, <1>4 DEF BlankLine, Flag
<1>5. ASSUME NEW marker \in BOOLEAN, CommentLine(marker) PROVE Narrower'
  <2>1. PICK joined \in BOOLEAN :
          joined <=> /\ file.comments # <<>> /\ Last(file.comments).own
                     /\ Last(file.comments).end = Len(file.src)
    OBVIOUS
  <2>2. UNCHANGED <<says, may>> /\ above' = marker /\ grouped' = (marker \/ (joined /\ grouped))
    BY <1>5, <2>1 DEF CommentLine
  <2>3. grouped' \in Flag
    BY <2>2, Zenon DEF Flag
  <2>4. above' => grouped'
    BY <2>2, Zenon
  <2>5. above' \in Flag
    BY <2>2 DEF Flag
  <2> QED
    BY <1>1, <2>2, <2>3, <2>4, <2>5, Zenon
<1>6. ASSUME NEW lit, NEW comment, AssignLine(lit, comment) PROVE Narrower'
  <2>1. /\ says' = Append(says, above) /\ may' = Append(may, grouped)
        /\ above' \in Flag /\ grouped' = above'
    BY <1>6 DEF AssignLine, Flag
  <2>2. /\ says \in Seq(Flag) /\ may \in Seq(Flag)
        /\ above \in Flag /\ grouped \in Flag
    BY DEF Narrower
  <2>3. /\ <<above>> \in Seq(Flag) /\ <<grouped>> \in Seq(Flag)
        /\ Len(<<above>>) = Len(<<grouped>>)
    BY <2>2
  <2>4. Within(<<above>>, <<grouped>>)
    BY DEF Narrower, Within
  <2>5. /\ Append(says, above) = says \o <<above>>
        /\ Append(may, grouped) = may \o <<grouped>>
    BY <2>2, AppendIs, Zenon
  <2>6. /\ says' = says \o <<above>> /\ may' = may \o <<grouped>>
        /\ grouped' \in Flag /\ (above' => grouped')
    BY <2>1, <2>5, Zenon
  <2> QED
    BY <1>2, <2>1, <2>3, <2>4, <2>6, Zenon
<1>7. ASSUME NEW fun, NEW name, NEW skipped, NEW lit \in Literals,
             NEW rest \in {<<>>, <<Emoji>>}, NEW nested,
             CallLine(fun, name, skipped, <<lit>> \o rest, nested)
      PROVE  Narrower'
  <2>1. PICK lits \in Seq(Literals) : lits = <<lit>> \o rest
    BY CallLits
  <2> DEFINE Slot(k) == /\ fun \in {<<"selector">>, <<"index", "selector">>}
                        /\ name \in DOMAIN Funcs /\ Funcs[name] + 1 = skipped + k
             One(k) == \A j \in 1 .. k - 1 : OneLine(lits[j])
             Said(up) == [k \in DOMAIN lits |-> Slot(k) \/ (up /\ One(k))]
  <2>2. /\ says' = says \o Said(above) /\ may' = may \o Said(grouped)
        /\ above' = FALSE /\ grouped' = FALSE
    BY <1>7, <2>1 DEF CallLine
  <2>3. PICK n \in Nat : n = Len(lits) /\ DOMAIN lits = 1 .. n
    BY <2>1
  <2> HIDE DEF Slot, One
  <2>4. ASSUME NEW up PROVE Said(up) \in Seq(Flag) /\ Len(Said(up)) = n
    <3>1. \A k \in 1 .. n : (Slot(k) \/ (up /\ One(k))) \in Flag
      BY DEF Flag
    <3> QED
      BY <2>3, <3>1
  <2>5. Within(Said(above), Said(grouped))
    BY Zenon DEF Narrower, Within
  <2>6. FALSE \in Flag
    BY DEF Flag
  <2> HIDE DEF Said
  <2> QED
    BY <1>2, <2>2, <2>4, <2>5, <2>6, Zenon
<1>8. CASE UNCHANGED MCvars
  BY <1>8 DEF MCvars, Narrower
<1>9. CASE AssignLines
  BY <1>6, <1>9 DEF AssignLines
<1>10. CASE CallLines
  <2>1. PICK fun \in Funs, name \in CallNames, skipped \in {0, 1}, lit \in Literals,
             rest \in {<<>>, <<Emoji>>}, nested \in BOOLEAN :
          /\ (name = "Get" \/ nested \/ lit = Empty) => fun = <<"selector">>
          /\ fun = <<"ident">> \/ rest # <<>> => lit \in {Emoji, TwoLines}
          /\ nested => lit = Emoji /\ skipped = 1
          /\ CallLine(fun, name, skipped, <<lit>> \o rest, nested)
    BY <1>10, Zenon DEF CallLines, Funs, CallNames
  <2> QED
    BY <1>7, <2>1
<1> QED
  BY <1>3, <1>4, <1>5, <1>8, <1>9, <1>10 DEF MCNext

\* What is found is what is said.
LEMMA TellsFinds == Tells /\ Narrower => FindsWhatItSays
<1> SUFFICES ASSUME Tells, Narrower PROVE FindsWhatItSays
  OBVIOUS
<1>1. file \in File /\ PlacedIn(file)
  BY DEF Tells, Placed, FileOK
<1>2. {i \in DOMAIN may : may[i]} = IsSQL(file, Funcs)
  BY ToldIs DEF Tells, Called
<1>3. PICK sql : sql = IsSQL(file, Funcs)
  OBVIOUS
<1>4. sql \subseteq DOMAIN file.lits
  BY <1>3, SQLIsLiteral
<1>5. FindAllSQL(file, Funcs) =
        {[sql |-> StripCR(Inner(file.src, file.lits[i])),
          start |-> Bytes(Prefix(file.src, file.lits[i].pos))] : i \in sql}
  <2>1. ASSUME NEW i \in sql
        PROVE  [sql |-> StripQuotes(Value(file, file.lits[i])),
                start |-> Offset(file, file.lits[i].pos) + 1] =
               [sql |-> StripCR(Inner(file.src, file.lits[i])),
                start |-> Bytes(Prefix(file.src, file.lits[i].pos))]
    BY <1>1, <1>4, BlockIs
  <2> QED
    BY <1>3, <2>1 DEF FindAllSQL
<1>6. {file.lits[i] : i \in {j \in DOMAIN may : may[j]}} = {file.lits[i] : i \in sql}
  BY <1>2, <1>3
<1>7. FindAllSQL(file, Funcs) = BlocksOf(may)
  BY <1>5, <1>6 DEF BlocksOf, Inner
<1>8. BlocksOf(says) \subseteq BlocksOf(may)
  <2>1. DOMAIN says = DOMAIN may
    BY DEF Narrower
  <2>2. {j \in DOMAIN says : says[j]} \subseteq {j \in DOMAIN may : may[j]}
    BY <2>1, Zenon DEF Narrower, Within
  <2> QED
    BY <2>2 DEF BlocksOf
<1> QED
  BY <1>7, <1>8 DEF FindsWhatItSays

\* No place outside of a literal is in it.
LEMMA OutsideIs ==
  ASSUME NEW f \in File, PlacedIn(f), NEW k \in 0 .. Len(f.src), NEW i \in DOMAIN f.lits,
         IsAt(f, i, At(f.src, k))
  PROVE  k + 1 \in f.lits[i].pos .. f.lits[i].pos + f.lits[i].len
<1>1. PICK src \in Seq(Kinds) : src = f.src
  BY DEF File
<1>30. PICK c : c = Body(f, i)
  OBVIOUS
<1>2. PICK p, l \in Nat : p = f.lits[i].pos /\ l = f.lits[i].len /\ Spans(f, i, src, p, l, c)
  BY <1>1, <1>30, LiteralSpans DEF Spans
<1>3. PICK m \in Nat : m = Len(src)
  OBVIOUS
<1>4. /\ p >= 1 /\ l >= 2 /\ p + l - 1 <= m /\ Bytes(c) \in Nat
      /\ Offset(f, p) = At(src, p - 1) /\ EndOffset(f, f.lits[i]) = At(src, p) + Bytes(c) + 1
      /\ At(src, p) + Bytes(c) <= At(src, p + l - 2)
      /\ At(src, p + l - 2) + 1 = At(src, p + l - 1)
  BY <1>2, <1>3 DEF Spans
<1>5. k \in 0 .. m
  BY <1>1, <1>30, <1>3
<1>6. p - 1 \in 0 .. m /\ p \in 0 .. m /\ p + l - 2 \in 0 .. m /\ p + l - 1 \in 0 .. m
  BY <1>4
<1>7. At(src, p - 1) <= At(src, k) /\ At(src, k) <= At(src, p) + Bytes(c) + 1
  BY <1>1, <1>30, <1>2, <1>4 DEF IsAt
<1>8. At(src, k) <= At(src, p + l - 1)
  <2>1. /\ At(src, p) \in Nat /\ At(src, p + l - 2) \in Nat /\ At(src, p + l - 1) \in Nat
        /\ At(src, k) \in Nat
    BY <1>3, <1>5, <1>6, AtStep
  <2> QED
    BY <1>4, <1>7, <2>1
<1>9. p - 1 <= k /\ k <= p + l - 1
  BY <1>3, <1>5, <1>6, <1>7, <1>8, AtWeakly
<1>10. k + 1 \in p .. p + l
  BY <1>5, <1>9
<1> QED
  BY <1>2, <1>10

\* What is found at a place outside of all that is said to be SQL is nothing.
LEMMA TellsOutside == Tells => NothingOutside
<1> SUFFICES ASSUME Tells, NEW k \in 0 .. Len(file.src),
                    NEW p, p = PositionAfter(file.src, k),
                    FindSQL(file, p.line, p.character, Funcs) # {}
             PROVE  \E i \in DOMAIN may :
                      may[i] /\ k + 1 \in file.lits[i].pos .. file.lits[i].pos + file.lits[i].len
  BY DEF NothingOutside
<1>1. file \in File /\ PlacedIn(file) /\ file.src \in Seq(Kinds)
  BY DEF Tells, Placed, FileOK, File
<1>2. {i \in DOMAIN may : may[i]} = IsSQL(file, Funcs)
  BY ToldIs DEF Tells, Called
<1>3. LSPToByte(file.src, p.line, p.character) = At(file.src, k)
  <2>1. p = ByteToLSP(file.src, Bytes(Prefix(file.src, k)))
    BY <1>1, ByteToLSPIs
  <2> QED
    BY <1>1, <2>1, RoundTripAt DEF At
<1>4. PICK i \in IsSQL(file, Funcs) : IsAt(file, i, At(file.src, k))
  BY <1>3 DEF FindSQL
<1>5. i \in DOMAIN file.lits
  BY SQLIsLiteral
<1>6. k + 1 \in file.lits[i].pos .. file.lits[i].pos + file.lits[i].len
  BY <1>1, <1>4, <1>5, OutsideIs
<1> QED
  BY <1>2, <1>6

\* In every Go file that can be written, with any SQL functions, the literals are
\* checked of which README.md:185-197 says so, those directly below a marker comment
\* and those in the query slot of a call, and no others but below a group of comments
\* with a marker; each has its text and its place (goast.go:53-79, 148-241).
THEOREM FindsThem == MCSpec => []FindsWhatItSays
<1>1. ASSUME MCInit PROVE Narrower
  <2>1. <<>> \in Seq(Flag) /\ Within(<<>>, <<>>)
    BY DEF Within
  <2>2. /\ says = <<>> /\ may = <<>> /\ above = FALSE /\ grouped = FALSE
    BY <1>1 DEF MCInit
  <2>3. FALSE \in Flag
    BY DEF Flag
  <2> QED
    BY <2>1, <2>2, <2>3, Zenon DEF Narrower
<1> QED
  BY <1>1, TellsFinds, TellsInit, TellsStep, NarrowerStep, PTL DEF MCSpec

\* With the cursor neither in a literal that is SQL nor right before or after its
\* quotes, hover, completion and definition find no SQL (goast.go:89-131).
THEOREM NothingFoundOutside == MCSpec => []NothingOutside
<1> QED
  BY TellsOutside, TellsInit, TellsStep, PTL DEF MCSpec
-----------------------------------------------------------------------------
(* The copy and the buffer. *)

Meanings == INSTANCE FoldFacts WITH Op <- Meaning
Applying == INSTANCE FoldFacts WITH Op <- ApplyContentChange
Handling == INSTANCE FoldFacts WITH Op <- Handled

Change == [whole : BOOLEAN, start : LspPosition, end : LspPosition, text : Seq(Kinds)]
Message == [op : {"didOpen", "didChange", "didClose"}, text : Seq(Kinds), changes : Seq(Change)]
Entry == [open : BOOLEAN, text : Seq(Kinds)]

\* The three folds of the module are those of FoldFacts.
LEMMA FoldsAre ==
  /\ \A text, cs : FoldLeft(Meaning, text, cs) = Meanings!Fold(text, cs)
  /\ \A text, cs : FoldLeft(ApplyContentChange, text, cs) = Applying!Fold(text, cs)
  /\ \A e, ms : FoldLeft(Handled, e, ms) = Handling!Fold(e, ms)
<1>1. \A text, cs : FoldLeft(Meaning, text, cs) = Meanings!Fold(text, cs)
  BY DEF Meanings!Fold, FoldLeft, Meanings!FoldLeft, MapThenFoldSet, Meanings!MapThenFoldSet,
         Max, Meanings!Max
<1>2. \A text, cs : FoldLeft(ApplyContentChange, text, cs) = Applying!Fold(text, cs)
  BY DEF Applying!Fold, FoldLeft, Applying!FoldLeft, MapThenFoldSet, Applying!MapThenFoldSet,
         Max, Applying!Max
<1>3. \A e, ms : FoldLeft(Handled, e, ms) = Handling!Fold(e, ms)
  BY DEF Handling!Fold, FoldLeft, Handling!FoldLeft, MapThenFoldSet, Handling!MapThenFoldSet,
         Max, Handling!Max
<1> QED
  BY <1>1, <1>2, <1>3
-----------------------------------------------------------------------------
(* One edit. *)

\* An edit the editor may make in a text.
Legal(text, c) ==
  c.whole \/ (NotAfter(c.start, c.end) /\ ~SplitsPair(text, c.start) /\ ~SplitsPair(text, c.end))

\* The text is cut where the offset is.
LEMMA CutIs ==
  ASSUME NEW text \in Seq(Kinds), NEW k \in 0 .. Len(text)
  PROVE  /\ Before(text, At(text, k)) = Prefix(text, k)
         /\ After(text, At(text, k)) = SubSeq(text, k + 1, Len(text))
<1>1. ASSUME NEW j \in 1 .. Len(text) PROVE At(text, j) <= At(text, k) <=> j <= k
  <2>1. At(text, j) \in Nat /\ At(text, k) \in Nat
    BY AtStep
  <2>2. j < k => At(text, j) < At(text, k)
    BY AtGrows
  <2>3. k < j => At(text, k) < At(text, j)
    BY AtGrows
  <2> QED
    BY <2>1, <2>2, <2>3
<1>2. {j \in DOMAIN text : At(text, j) <= At(text, k)} = 1 .. k
  BY <1>1
<1>3. Cardinality(1 .. k) = k
  BY FS_Interval
<1>4. Before(text, At(text, k)) = Prefix(text, k)
  BY <1>2, <1>3 DEF Before, At
<1>5. Len(Prefix(text, k)) = k
  BY PrefixIs
<1> QED
  BY <1>4, <1>5 DEF After

\* A legal edit of a text means a text.
LEMMA MeaningType ==
  ASSUME NEW text \in Seq(Kinds), NEW c \in Change, Legal(text, c)
  PROVE  Meaning(text, c) \in Seq(Kinds)
<1>1. CASE c.whole
  BY <1>1 DEF Meaning, Change
<1>2. CASE ~c.whole
  <2>1. c.start \in LspPosition /\ c.end \in LspPosition /\ c.text \in Seq(Kinds)
    BY DEF Change
  <2>2. ~SplitsPair(text, c.start) /\ ~SplitsPair(text, c.end)
    BY <1>2 DEF Legal
  <2>3. PICK a \in 0 .. Len(text) : a = RunesBefore(text, c.start)
    BY <2>1, <2>2, ScanMeans, RunesAtType
  <2>4. PICK b \in 0 .. Len(text) : b = RunesBefore(text, c.end)
    BY <2>1, <2>2, ScanMeans, RunesAtType
  <2>5. Prefix(text, a) \in Seq(Kinds) /\ SubSeq(text, b + 1, Len(text)) \in Seq(Kinds)
    BY PrefixIs
  <2>6. Meaning(text, c) = Prefix(text, a) \o c.text \o SubSeq(text, b + 1, Len(text))
    BY <1>2, <2>3, <2>4 DEF Meaning
  <2> QED
    BY <2>1, <2>5, <2>6
<1> QED
  BY <1>1, <1>2

\* The server applies an edit as it is meant.
LEMMA ApplyMeans ==
  ASSUME NEW text \in Seq(Kinds), NEW c \in Change, Legal(text, c)
  PROVE  ApplyContentChange(text, c) = Meaning(text, c)
<1>1. CASE c.whole
  BY <1>1 DEF Meaning, ApplyContentChange
<1>2. CASE ~c.whole
  <2>1. c.start \in LspPosition /\ c.end \in LspPosition
    BY DEF Change
  <2>2. NotAfter(c.start, c.end) /\ ~SplitsPair(text, c.start) /\ ~SplitsPair(text, c.end)
    BY <1>2 DEF Legal
  <2>3. PICK a \in 0 .. Len(text) :
          a = RunesBefore(text, c.start) /\ a = RunesAt(text, c.start.line, c.start.character)
    BY <2>1, <2>2, ScanMeans, RunesAtType
  <2>4. PICK b \in 0 .. Len(text) :
          b = RunesBefore(text, c.end) /\ b = RunesAt(text, c.end.line, c.end.character)
    BY <2>1, <2>2, ScanMeans, RunesAtType
  <2>5. /\ LSPToByte(text, c.start.line, c.start.character) = At(text, a)
        /\ LSPToByte(text, c.end.line, c.end.character) = At(text, b)
    BY <2>1, <2>3, <2>4, LSPToByteIs DEF LspPosition
  <2>6. At(text, a) \in Nat /\ At(text, b) \in Nat /\ At(text, a) <= At(text, b)
    BY <2>1, <2>2, <2>5, LSPToByteMonotone
  <2>7. Max({At(text, a), At(text, b)}) = At(text, b)
    <3>1. PICK x, y \in Nat : x = At(text, a) /\ y = At(text, b) /\ x <= y
      BY <2>6
    <3>2. Max({x, y}) = y
      BY <3>1 DEF Max
    <3> QED
      BY <3>1, <3>2
  <2>8. ApplyContentChange(text, c)
          = Before(text, At(text, a)) \o c.text \o After(text, At(text, b))
    BY <1>2, <2>5, <2>7 DEF ApplyContentChange
  <2>9. Meaning(text, c) = Prefix(text, a) \o c.text \o SubSeq(text, b + 1, Len(text))
    BY <1>2, <2>3, <2>4 DEF Meaning
  <2> QED
    BY <2>8, <2>9, CutIs
<1> QED
  BY <1>1, <1>2
-----------------------------------------------------------------------------
(* Batches. *)

\* Each edit is made in the text the ones before it leave.
LegalAll(text, cs) ==
  \A i \in DOMAIN cs : Legal(Meanings!Fold(text, Prefix(cs, i - 1)), cs[i])

\* On legal edits the server does what LSP means, a batch of any length at a time.
LEMMA BatchApplies ==
  ASSUME NEW text \in Seq(Kinds), NEW cs \in Seq(Change), LegalAll(text, cs)
  PROVE  Meanings!Fold(text, cs) \in Seq(Kinds) /\ Applying!Fold(text, cs) = Meanings!Fold(text, cs)
<1> DEFINE M(n) == Meanings!Fold(text, Prefix(cs, n))
           A(n) == Applying!Fold(text, Prefix(cs, n))
           T == {n \in Nat : n <= Len(cs) => M(n) \in Seq(Kinds) /\ A(n) = M(n)}
<1>1. 0 \in T
  <2>1. Prefix(cs, 0) = <<>>
    BY WholePrefix
  <2>2. M(0) = text /\ A(0) = text
    BY <2>1, Meanings!FoldEmpty, Applying!FoldEmpty
  <2> QED
    BY <2>2
<1>2. ASSUME NEW n \in Nat, n \in T PROVE n + 1 \in T
  <2> SUFFICES ASSUME n + 1 <= Len(cs) PROVE M(n + 1) \in Seq(Kinds) /\ A(n + 1) = M(n + 1)
    OBVIOUS
  <2> DEFINE c == cs[n + 1]
  <2>1. /\ n \in 0 .. Len(cs) - 1 /\ n \in 0 .. Len(cs) /\ n + 1 \in DOMAIN cs /\ n + 1 - 1 = n
        /\ c \in Change /\ M(n) \in Seq(Kinds) /\ A(n) = M(n)
    BY <1>2
  <2>2. Prefix(cs, n) \in Seq(Change) /\ Prefix(cs, n + 1) = Append(Prefix(cs, n), c)
    BY <2>1, PrefixIs, PrefixGrows
  <2>3. Legal(M(n), c)
    BY <2>1 DEF LegalAll
  <2>4. M(n + 1) = Meaning(M(n), c)
    <3>1. PICK p \in Seq(Change) : p = Prefix(cs, n)
      BY <2>2
    <3>2. Meanings!Fold(text, Append(p, c)) = Meaning(Meanings!Fold(text, p), c)
      BY <2>1, Meanings!FoldAppend
    <3> QED
      BY <2>2, <3>1, <3>2
  <2>5. A(n + 1) = ApplyContentChange(A(n), c)
    <3>1. PICK p \in Seq(Change) : p = Prefix(cs, n)
      BY <2>2
    <3>2. Applying!Fold(text, Append(p, c)) = ApplyContentChange(Applying!Fold(text, p), c)
      BY <2>1, Applying!FoldAppend
    <3> QED
      BY <2>2, <3>1, <3>2
  <2> HIDE DEF M, A, c
  <2> QED
    BY <2>1, <2>3, <2>4, <2>5, ApplyMeans, MeaningType
<1> HIDE DEF T
<1>3. Len(cs) \in T
  BY <1>1, <1>2, Sizes!NatSet
<1> QED
  BY <1>3, WholePrefix DEF T

\* An edit more.
LEMMA LegalMore ==
  ASSUME NEW text, NEW cs \in Seq(Change), NEW c \in Change, LegalAll(text, cs),
         Legal(Meanings!Fold(text, cs), c)
  PROVE  LegalAll(text, Append(cs, c))
<1> SUFFICES ASSUME NEW i \in DOMAIN Append(cs, c)
             PROVE  Legal(Meanings!Fold(text, Prefix(Append(cs, c), i - 1)), Append(cs, c)[i])
  BY DEF LegalAll
<1>1. PICK n : n = Len(cs)
  OBVIOUS
<1>2. i \in 1 .. n + 1 /\ n \in Nat
  BY <1>1
<1>3. Prefix(Append(cs, c), i - 1) = Prefix(cs, i - 1)
  BY <1>1, <1>2 DEF Prefix
<1>4. CASE i \in 1 .. n
  <2>1. Append(cs, c)[i] = cs[i] /\ i \in DOMAIN cs
    BY <1>1, <1>4
  <2> QED
    BY <1>3, <2>1 DEF LegalAll
<1>5. CASE i = n + 1
  <2>1. Append(cs, c)[i] = c /\ i - 1 = n
    BY <1>1, <1>2, <1>5
  <2>2. Prefix(cs, n) = cs
    BY <1>1, WholePrefix
  <2> QED
    BY <1>3, <2>1, <2>2
<1> QED
  BY <1>2, <1>4, <1>5

-----------------------------------------------------------------------------
(* Notifications. *)

\* Each batch is made in the text the notifications before it leave.
Sound(e, ms) ==
  \A i \in DOMAIN ms :
    ms[i].op = "didChange" =>
      LegalAll(Handling!Fold(e, Prefix(ms, i - 1)).text, ms[i].changes)

\* A handler whose message is legal leaves an entry of docs.
LEMMA HandledType ==
  ASSUME NEW e \in Entry, NEW m \in Message,
         m.op = "didChange" => LegalAll(e.text, m.changes)
  PROVE  Handled(e, m) \in Entry
<1>1. CASE m.op = "didOpen"
  BY <1>1 DEF Handled, Message, Entry
<1>2. CASE m.op = "didChange"
  <2>1. e.text \in Seq(Kinds) /\ m.changes \in Seq(Change)
    BY DEF Entry, Message
  <2>2. Meanings!Fold(e.text, m.changes) \in Seq(Kinds)
    BY <1>2, <2>1, BatchApplies
  <2> QED
    BY <1>2, <2>2, FoldsAre DEF Handled, Entry
<1>3. CASE m.op = "didClose"
  <2>1. NoEntry \in Entry
    BY DEF NoEntry, Entry
  <2> QED
    BY <1>3, <2>1 DEF Handled
<1> QED
  BY <1>1, <1>2, <1>3 DEF Message

\* So do the handlers of a whole inbox.
LEMMA InboxType ==
  ASSUME NEW e \in Entry, NEW ms \in Seq(Message), Sound(e, ms)
  PROVE  Handling!Fold(e, ms) \in Entry
<1> DEFINE H(n) == Handling!Fold(e, Prefix(ms, n))
           T == {n \in Nat : n <= Len(ms) => H(n) \in Entry}
<1>1. 0 \in T
  <2>1. Prefix(ms, 0) = <<>>
    BY WholePrefix
  <2>2. H(0) = e
    BY <2>1, Handling!FoldEmpty
  <2> QED
    BY <2>2
<1>2. ASSUME NEW n \in Nat, n \in T PROVE n + 1 \in T
  <2> SUFFICES ASSUME n + 1 <= Len(ms) PROVE H(n + 1) \in Entry
    OBVIOUS
  <2>1. PICK m : m = ms[n + 1]
    OBVIOUS
  <2>2. /\ n \in 0 .. Len(ms) - 1 /\ n \in 0 .. Len(ms) /\ n + 1 \in DOMAIN ms /\ n + 1 - 1 = n
        /\ m \in Message /\ H(n) \in Entry
    BY <1>2, <2>1
  <2>3. PICK p \in Seq(Message) : p = Prefix(ms, n) /\ Prefix(ms, n + 1) = Append(p, m)
    BY <2>1, <2>2, PrefixIs, PrefixGrows
  <2>4. H(n + 1) = Handled(H(n), m)
    <3>1. Handling!Fold(e, Append(p, m)) = Handled(Handling!Fold(e, p), m)
      BY <2>2, Handling!FoldAppend
    <3> QED
      BY <2>3, <3>1
  <2>5. m.op = "didChange" => LegalAll(H(n).text, m.changes)
    <3>1. ms[n + 1].op = "didChange" =>
            LegalAll(Handling!Fold(e, Prefix(ms, n + 1 - 1)).text, ms[n + 1].changes)
      BY <2>2 DEF Sound
    <3> QED
      BY <2>1, <2>2, <3>1
  <2> HIDE DEF H
  <2> QED
    BY <2>2, <2>4, <2>5, HandledType
<1> HIDE DEF T
<1>3. Len(ms) \in T
  BY <1>1, <1>2, Sizes!NatSet
<1> QED
  BY <1>3, WholePrefix DEF T

\* A notification more,
LEMMA SoundMore ==
  ASSUME NEW e, NEW ms \in Seq(Message), NEW m \in Message, Sound(e, ms),
         m.op = "didChange" => LegalAll(Handling!Fold(e, ms).text, m.changes)
  PROVE  Sound(e, Append(ms, m))
<1> SUFFICES ASSUME NEW i \in DOMAIN Append(ms, m), Append(ms, m)[i].op = "didChange"
             PROVE  LegalAll(Handling!Fold(e, Prefix(Append(ms, m), i - 1)).text,
                             Append(ms, m)[i].changes)
  BY DEF Sound
<1>1. PICK n : n = Len(ms)
  OBVIOUS
<1>2. i \in 1 .. n + 1 /\ n \in Nat
  BY <1>1
<1>3. Prefix(Append(ms, m), i - 1) = Prefix(ms, i - 1)
  BY <1>1, <1>2 DEF Prefix
<1>4. CASE i \in 1 .. n
  <2>1. Append(ms, m)[i] = ms[i] /\ i \in DOMAIN ms
    BY <1>1, <1>4
  <2> QED
    BY <1>3, <2>1 DEF Sound
<1>5. CASE i = n + 1
  <2>1. Append(ms, m)[i] = m /\ i - 1 = n
    BY <1>1, <1>2, <1>5
  <2>2. Prefix(ms, n) = ms
    BY <1>1, WholePrefix
  <2> QED
    BY <1>3, <2>1, <2>2
<1> QED
  BY <1>2, <1>4, <1>5

\* and one less.
LEMMA SoundLess ==
  ASSUME NEW e, NEW ms \in Seq(Message), ms # <<>>, Sound(e, ms)
  PROVE  /\ Head(ms) \in Message /\ Tail(ms) \in Seq(Message)
         /\ Handling!Fold(e, ms) = Handling!Fold(Handled(e, Head(ms)), Tail(ms))
         /\ Head(ms).op = "didChange" => LegalAll(e.text, Head(ms).changes)
         /\ Sound(Handled(e, Head(ms)), Tail(ms))
<1>1. PICK h, r : h = Head(ms) /\ r = Tail(ms)
  OBVIOUS
<1>2. h \in Message /\ r \in Seq(Message) /\ h = ms[1] /\ 1 \in DOMAIN ms
      /\ Len(ms) = Len(r) + 1 /\ \A i \in DOMAIN r : r[i] = ms[i + 1]
  BY <1>1
<1>3. PICK u : u = <<h>>
  OBVIOUS
<1>4. u \in Seq(Message) /\ ms = u \o r
  BY <1>1, <1>2, <1>3
<1>5. Handling!Fold(e, ms) = Handling!Fold(Handled(e, h), r)
  BY <1>2, <1>3, <1>4, Handling!FoldCons
<1>6. h.op = "didChange" => LegalAll(e.text, h.changes)
  <2>1. Prefix(ms, 1 - 1) = <<>>
    BY WholePrefix
  <2>2. Handling!Fold(e, <<>>) = e
    BY Handling!FoldEmpty
  <2> QED
    BY <1>2, <2>1, <2>2 DEF Sound
<1>7. ASSUME NEW i \in DOMAIN r, r[i].op = "didChange"
      PROVE  LegalAll(Handling!Fold(Handled(e, h), Prefix(r, i - 1)).text, r[i].changes)
  <2>1. i + 1 \in DOMAIN ms /\ r[i] = ms[i + 1] /\ i + 1 - 1 = i
    BY <1>2
  <2>2. PICK p \in Seq(Message) : p = Prefix(r, i - 1)
    BY <1>2, PrefixIs
  <2>3. Prefix(ms, i) = u \o p
    BY <1>2, <1>3, <1>4, <2>1, <2>2 DEF Prefix
  <2>4. Handling!Fold(e, u \o p) = Handling!Fold(Handled(e, h), p)
    BY <1>2, <1>3, Handling!FoldCons
  <2>5. LegalAll(Handling!Fold(e, Prefix(ms, i)).text, ms[i + 1].changes)
    <3>1. PICK j : j = i + 1
      OBVIOUS
    <3>2. j \in DOMAIN ms /\ ms[j].op = "didChange" /\ j - 1 = i
      <4>1. j \in DOMAIN ms /\ r[i] = ms[j] /\ j - 1 = i
        BY <1>2, <2>1, <3>1
      <4> QED
        BY <1>7, <4>1
    <3>3. LegalAll(Handling!Fold(e, Prefix(ms, j - 1)).text, ms[j].changes)
      BY <3>2 DEF Sound
    <3> QED
      BY <3>1, <3>2, <3>3
  <2> QED
    BY <2>1, <2>2, <2>3, <2>4, <2>5
<1>8. Sound(Handled(e, h), r)
  BY <1>7 DEF Sound
<1> QED
  BY <1>1, <1>2, <1>5, <1>6, <1>8

-----------------------------------------------------------------------------
(* The invariant. *)

\* The entry once the inbox was handled.
Ahead == Handling!Fold(docs, inbox)

Kept ==
  /\ open \in BOOLEAN /\ buffer \in Seq(Kinds) /\ batch \in Seq(Change)
  /\ inbox \in Seq(Message) /\ docs \in Entry
  /\ ~open => batch = <<>> /\ buffer = <<>>

\* All edits on their way are made in the text they will meet, and lead to the buffer.
InStep ==
  /\ Sound(docs, inbox) /\ LegalAll(Ahead.text, batch)
  /\ Ahead.open = open /\ Meanings!Fold(Ahead.text, batch) = buffer

\* What is typed are kinds of runes.
LEMMA RunesAreKinds == Runes \subseteq Kinds
BY DEF Runes, Kinds, Size

\* So is what is inserted.
LEMMA InsertType ==
  ASSUME NEW t \in Inserts
  PROVE  t \in Seq(Kinds)
BY InsertsAssumption, RunesAreKinds

\* The editor sends LSP positions.
LEMMA PlaceType ==
  ASSUME Kept
  PROVE  Places \subseteq LspPosition
<1>1. buffer \in Seq(Kinds) /\ MaxRunes \in Nat
  BY BoundsAssumption DEF Kept
<1>2. Cardinality(Breaks(buffer)) \in Nat
  BY <1>1, LineStep
<1>3. {PositionAfter(buffer, k) : k \in 0 .. Len(buffer)} \subseteq LspPosition
  <2>1. \A k \in 0 .. Len(buffer) : PositionAfter(buffer, k) = Pos(buffer, k)
    BY <1>1, PositionIs
  <2>2. \A k \in 0 .. Len(buffer) : LineAt(buffer, k) \in Nat /\ CharAt(buffer, k) \in Nat
    BY <1>1, LineStep, CharStep
  <2> QED
    BY <2>1, <2>2 DEF Pos, LspPosition
<1>4. Cardinality(0 .. Cardinality(Breaks(buffer))) \in Nat
  BY <1>2, FS_Interval
<1>5. [line : 0 .. Cardinality(Breaks(buffer)), character : {2 * MaxRunes + 1}]
        \subseteq LspPosition
  BY <1>1, <1>2 DEF LspPosition
<1>6. [line : {Cardinality(0 .. Cardinality(Breaks(buffer)))}, character : {0}]
        \subseteq LspPosition
  BY <1>4 DEF LspPosition
<1> QED
  BY <1>3, <1>5, <1>6 DEF Places

\* An edit is a change notification of the right type.
LEMMA EditType ==
  ASSUME Kept, NEW c \in Edits
  PROVE  c \in Change
<1>1. CASE c \in {Ranged(p, q, t) : p, q \in Places, t \in Inserts}
  <2>1. PICK p \in Places, q \in Places, t \in Inserts : c = Ranged(p, q, t)
    BY <1>1
  <2>2. p \in LspPosition /\ q \in LspPosition /\ t \in Seq(Kinds)
    BY PlaceType, InsertType
  <2> QED
    BY <2>1, <2>2 DEF Ranged, Change
<1>2. CASE c \in {Whole(t) : t \in Inserts}
  <2>1. PICK t \in Inserts : c = Whole(t)
    BY <1>2
  <2>2. t \in Seq(Kinds) /\ [line |-> 0, character |-> 0] \in LspPosition
    BY InsertType DEF LspPosition
  <2> QED
    BY <2>1, <2>2 DEF Whole, Change
<1> QED
  BY <1>1, <1>2 DEF Edits

\* An edit waits for the next notification and keeps what the server will have.
LEMMA EditInStep == Kept /\ InStep /\ Edit => Kept' /\ InStep'
<1> SUFFICES ASSUME Kept, InStep, Edit PROVE Kept' /\ InStep'
  OBVIOUS
<1>1. PICK c \in Edits :
        /\ ~c.whole => /\ NotAfter(c.start, c.end)
                       /\ ~SplitsPair(buffer, c.start) /\ ~SplitsPair(buffer, c.end)
        /\ buffer' = Meaning(buffer, c)
        /\ batch' = Append(batch, c)
  BY DEF Edit
<1>2. open /\ open' = open /\ inbox' = inbox /\ docs' = docs
  BY DEF Edit
<1>3. c \in Change
  BY EditType
<1>4. Legal(buffer, c)
  BY <1>1 DEF Legal
<1>5. batch \in Seq(Change) /\ buffer \in Seq(Kinds)
  BY DEF Kept
<1>6. Kept'
  <2>1. buffer' \in Seq(Kinds)
    BY <1>1, <1>3, <1>4, <1>5, MeaningType
  <2>2. batch' \in Seq(Change)
    BY <1>1, <1>3, <1>5
  <2> QED
    BY <1>2, <2>1, <2>2 DEF Kept
<1>7. Ahead' = Ahead
  BY <1>2 DEF Ahead
<1>8. LegalAll(Ahead.text, batch')
  BY <1>1, <1>3, <1>4, <1>5, LegalMore DEF InStep
<1>9. Meanings!Fold(Ahead.text, batch') = buffer'
  <2>1. Meanings!Fold(Ahead.text, Append(batch, c)) = Meaning(Meanings!Fold(Ahead.text, batch), c)
    BY <1>3, <1>5, Meanings!FoldAppend
  <2> QED
    BY <1>1, <2>1 DEF InStep
<1> QED
  BY <1>2, <1>6, <1>7, <1>8, <1>9 DEF InStep

\* One more notification in the inbox.
LEMMA Posted ==
  ASSUME Kept, InStep, NEW m \in Message, inbox' = Append(inbox, m), UNCHANGED docs,
         m.op = "didChange" => LegalAll(Ahead.text, m.changes)
  PROVE  inbox' \in Seq(Message) /\ Sound(docs', inbox') /\ Ahead' = Handled(Ahead, m)
<1>1. inbox \in Seq(Message)
  BY DEF Kept
<1>2. Handling!Fold(docs, Append(inbox, m)) = Handled(Handling!Fold(docs, inbox), m)
  BY <1>1, Handling!FoldAppend
<1>3. Ahead' = Handled(Ahead, m)
  BY <1>2 DEF Ahead
<1>4. Sound(docs, Append(inbox, m))
  BY <1>1, SoundMore DEF InStep, Ahead
<1> QED
  BY <1>1, <1>3, <1>4

\* No edit changes nothing.
LEMMA NoEdits ==
  ASSUME NEW text
  PROVE  <<>> \in Seq(Change) /\ LegalAll(text, <<>>) /\ Meanings!Fold(text, <<>>) = text
BY Meanings!FoldEmpty DEF LegalAll

\* Opening the document.
LEMMA OpenInStep == Kept /\ InStep /\ Open => Kept' /\ InStep'
<1> SUFFICES ASSUME Kept, InStep, Open PROVE Kept' /\ InStep'
  OBVIOUS
<1> DEFINE m == [op |-> "didOpen", text |-> buffer', changes |-> <<>>]
<1>1. /\ ~open /\ open' = TRUE /\ buffer' \in Inserts /\ batch' = batch /\ docs' = docs
      /\ inbox' = Append(inbox, m)
  BY DEF Open
<1>2. batch = <<>> /\ docs \in Entry
  BY <1>1 DEF Kept
<1>3. buffer' \in Seq(Kinds)
  BY <1>1, InsertType
<1>4. m \in Message /\ m.op = "didOpen" /\ m.text = buffer'
  BY <1>3, NoEdits DEF Message
<1> HIDE DEF m
<1>5. inbox' \in Seq(Message) /\ Sound(docs', inbox') /\ Ahead' = Handled(Ahead, m)
  BY <1>1, <1>4, Posted
<1>6. Ahead'.open = TRUE /\ Ahead'.text = buffer'
  BY <1>4, <1>5 DEF Handled
<1>7. Kept'
  BY <1>1, <1>2, <1>3, <1>5, NoEdits DEF Kept
<1> QED
  BY <1>1, <1>2, <1>5, <1>6, <1>7, NoEdits DEF InStep

\* Sending the edits that wait.
LEMMA FlushInStep == Kept /\ InStep /\ Flush => Kept' /\ InStep'
<1> SUFFICES ASSUME Kept, InStep, Flush PROVE Kept' /\ InStep'
  OBVIOUS
<1> DEFINE m == [op |-> "didChange", text |-> buffer, changes |-> batch]
<1>1. /\ batch # <<>> /\ batch' = <<>> /\ open' = open /\ buffer' = buffer /\ docs' = docs
      /\ inbox' = Append(inbox, m)
  BY DEF Flush, Post
<1>2. open = TRUE /\ buffer \in Seq(Kinds) /\ batch \in Seq(Change) /\ docs \in Entry
  BY <1>1 DEF Kept
<1>3. m \in Message /\ m.op = "didChange" /\ m.changes = batch
  BY <1>2 DEF Message
<1> HIDE DEF m
<1>4. inbox' \in Seq(Message) /\ Sound(docs', inbox') /\ Ahead' = Handled(Ahead, m)
  BY <1>1, <1>3, Posted DEF InStep
<1>5. Ahead'.open = TRUE /\ Ahead'.text = buffer
  BY <1>3, <1>4, FoldsAre DEF Handled, InStep
<1>6. Kept'
  BY <1>1, <1>2, <1>4, NoEdits DEF Kept
<1> QED
  BY <1>1, <1>2, <1>4, <1>5, <1>6, NoEdits DEF InStep

\* Closing the document.
LEMMA CloseInStep == Kept /\ InStep /\ Close => Kept' /\ InStep'
<1> SUFFICES ASSUME Kept, InStep, Close PROVE Kept' /\ InStep'
  OBVIOUS
<1> DEFINE m == [op |-> "didClose", text |-> buffer, changes |-> <<>>]
<1>1. /\ batch = <<>> /\ batch' = batch /\ open' = FALSE /\ buffer' = <<>> /\ docs' = docs
      /\ inbox' = Append(inbox, m)
  BY DEF Close, Post
<1>2. buffer \in Seq(Kinds) /\ docs \in Entry
  BY DEF Kept
<1>3. m \in Message /\ m.op = "didClose"
  BY <1>2, NoEdits DEF Message
<1> HIDE DEF m
<1>4. inbox' \in Seq(Message) /\ Sound(docs', inbox') /\ Ahead' = Handled(Ahead, m)
  BY <1>1, <1>3, Posted
<1>5. Ahead'.open = FALSE /\ Ahead'.text = <<>>
  BY <1>3, <1>4 DEF Handled, NoEntry
<1>6. Kept'
  <2>1. buffer' \in Seq(Kinds)
    BY <1>1
  <2> QED
    BY <1>1, <1>2, <1>4, <2>1, NoEdits DEF Kept
<1> QED
  BY <1>1, <1>4, <1>5, <1>6, NoEdits DEF InStep

\* A handler does to the entry what the notification means.
LEMMA ReceivedInStep ==
  ASSUME Kept, InStep, NEW op, Receive(op), docs' = Handled(docs, Head(inbox))
  PROVE  Kept' /\ InStep'
<1>1. /\ inbox # <<>> /\ inbox' = Tail(inbox) /\ open' = open /\ buffer' = buffer
      /\ batch' = batch
  BY DEF Receive
<1>2. inbox \in Seq(Message) /\ docs \in Entry /\ Sound(docs, inbox)
  BY DEF Kept, InStep
<1>3. /\ Head(inbox) \in Message /\ Tail(inbox) \in Seq(Message)
      /\ Handling!Fold(docs, inbox) = Handling!Fold(Handled(docs, Head(inbox)), Tail(inbox))
      /\ Head(inbox).op = "didChange" => LegalAll(docs.text, Head(inbox).changes)
      /\ Sound(Handled(docs, Head(inbox)), Tail(inbox))
  BY <1>1, <1>2, SoundLess
<1>4. docs' \in Entry
  BY <1>2, <1>3, HandledType
<1>5. Ahead' = Ahead /\ Sound(docs', inbox')
  BY <1>1, <1>3 DEF Ahead
<1>6. Kept'
  BY <1>1, <1>3, <1>4 DEF Kept
<1> QED
  BY <1>1, <1>5, <1>6 DEF InStep

\* Every step keeps both; a handler takes the first message of the inbox.
LEMMA NextInStep == Kept /\ InStep /\ [Next]_vars => Kept' /\ InStep'
<1> SUFFICES ASSUME Kept, InStep, [Next]_vars PROVE Kept' /\ InStep'
  OBVIOUS
<1>1. CASE DidOpen
  <2>1. Receive("didOpen") /\ docs' = Handled(docs, Head(inbox))
    BY <1>1 DEF DidOpen, Receive, Handled
  <2> QED
    BY <2>1, ReceivedInStep
<1>2. CASE DidChange
  <2>1. Receive("didChange") /\ inbox # <<>> /\ Head(inbox).op = "didChange"
        /\ docs' = [open |-> TRUE,
                    text |-> FoldLeft(ApplyContentChange, docs.text, Head(inbox).changes)]
    BY <1>2 DEF DidChange, Receive
  <2>2. PICK m : m = Head(inbox)
    OBVIOUS
  <2>3. m \in Message /\ LegalAll(docs.text, m.changes)
    BY <2>1, <2>2, SoundLess DEF Kept, InStep
  <2>4. docs.text \in Seq(Kinds) /\ m.changes \in Seq(Change)
    BY <2>3 DEF Kept, Entry, Message
  <2>5. Applying!Fold(docs.text, m.changes) = Meanings!Fold(docs.text, m.changes)
    BY <2>3, <2>4, BatchApplies
  <2>6. docs' = [open |-> TRUE, text |-> Meanings!Fold(docs.text, m.changes)]
    BY <2>1, <2>2, <2>5, FoldsAre
  <2>7. docs' = Handled(docs, m)
    BY <2>1, <2>2, <2>6, FoldsAre DEF Handled
  <2> QED
    BY <2>1, <2>2, <2>7, ReceivedInStep
<1>3. CASE DidClose
  <2>1. Receive("didClose") /\ docs' = Handled(docs, Head(inbox))
    BY <1>3 DEF DidClose, Receive, Handled
  <2> QED
    BY <2>1, ReceivedInStep
<1>4. CASE UNCHANGED vars
  BY <1>4 DEF vars, Kept, InStep, Ahead
<1> QED
  BY <1>1, <1>2, <1>3, <1>4, EditInStep, OpenInStep, FlushInStep, CloseInStep DEF Next

\* Both hold when nothing is open.
LEMMA InitInStep == Init => Kept /\ InStep
<1> SUFFICES ASSUME Init PROVE Kept /\ InStep
  OBVIOUS
<1>1. /\ open = FALSE /\ buffer = <<>> /\ batch = <<>> /\ inbox = <<>>
      /\ docs = [open |-> FALSE, text |-> <<>>]
  BY DEF Init, NoEntry
<1>2. \A S : <<>> \in Seq(S)
  OBVIOUS
<1>3. Kept
  BY <1>1, <1>2 DEF Kept, Entry
<1>4. Ahead = docs
  BY <1>1, Handling!FoldEmpty DEF Ahead
<1>5. Sound(docs, inbox)
  BY <1>1 DEF Sound
<1> QED
  BY <1>1, <1>3, <1>4, <1>5, NoEdits DEF InStep

\* With nothing under way, what the server will have is what it has.
LEMMA InStepMirrors == Kept /\ InStep => Mirror
<1> SUFFICES ASSUME Kept, InStep PROVE Mirror
  OBVIOUS
<1>1. Ahead \in Entry
  BY InboxType DEF Kept, InStep, Ahead
<1>2. FoldLeft(Handled, docs, inbox) = Ahead
  BY FoldsAre DEF Ahead
<1>3. Upcoming = [Ahead EXCEPT !.text = Meanings!Fold(Ahead.text, batch)]
  BY <1>1, <1>2, FoldsAre DEF Upcoming, Entry
<1> QED
  BY <1>1, <1>3 DEF Mirror, InStep, Entry

\* The server never loses the editor's text: the entry of docs, with the edits on
\* their way, is the buffer, for texts, inserts and batches of any length
\* (server.go:584-601).
THEOREM BufferMirrored == Spec => []Mirror
<1> QED
  BY InitInStep, NextInStep, InStepMirrors, PTL DEF Spec
=============================================================================
