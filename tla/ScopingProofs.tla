---------------------------- MODULE ScopingProofs ----------------------------
(* The texts of MCSqlctx: what they are made of, what each token is to the tokens *)
(* around it, and what the extractor reads of a query.                            *)
EXTENDS MCSqlctx, FiniteSetTheorems, SequenceTheorems, TLAPS

Noting == INSTANCE FoldFacts WITH Op <- Note

\* p stands in w from token o + 1 on.
Occurs(w, o, p) ==
  /\ o \in Nat /\ o + Len(p) <= Len(w)
  /\ \A j \in 1 .. Len(p) : w[o + j] = p[j]

\* Concatenation, element by element.
LEMMA Concat ==
  ASSUME NEW X, NEW s \in Seq(X), NEW t \in Seq(X)
  PROVE  /\ s \o t \in Seq(X)
         /\ Len(s) \in Nat /\ Len(t) \in Nat /\ Len(s \o t) = Len(s) + Len(t)
         /\ \A j \in 1 .. Len(s) : (s \o t)[j] = s[j]
         /\ \A j \in 1 .. Len(t) : (s \o t)[Len(s) + j] = t[j]
BY ConcatProperties

Flattens(g, parts) ==
  g = [i \in 1 .. Len(parts) |-> IF i = 1 THEN parts[i] ELSE g[i - 1] \o parts[i]]
FlattensTo(k, g, parts) ==
  \A i \in 1 .. k : g[i] = IF i = 1 THEN parts[i] ELSE g[i - 1] \o parts[i]

\* An element of a sequence of sequences.
LEMMA PartOf ==
  ASSUME NEW X, NEW parts \in Seq(Seq(X)), NEW i \in 1 .. Len(parts)
  PROVE  parts[i] \in Seq(X)
OBVIOUS

\* The function that FlattenSeq is computed with exists.
LEMMA Flattened ==
  ASSUME NEW X, NEW parts \in Seq(Seq(X)), parts # <<>>
  PROVE  \E g \in [1 .. Len(parts) -> Seq(X)] :
           FlattensTo(Len(parts), g, parts) /\ FlattenSeq(parts) = g[Len(parts)]
<1> DEFINE n == Len(parts)
           T == {k \in Nat : k <= n => \E g \in [1 .. n -> Seq(X)] : FlattensTo(k, g, parts)}
<1>0. n \in Nat /\ n >= 1
  OBVIOUS
<1>1. 0 \in T
  <2> DEFINE g == [i \in 1 .. n |-> parts[i]]
  <2>1. g \in [1 .. n -> Seq(X)]
    BY PartOf
  <2>2. FlattensTo(0, g, parts)
    BY DEF FlattensTo
  <2> QED
    BY <2>1, <2>2
<1>2. ASSUME NEW k \in Nat, k \in T PROVE k + 1 \in T
  <2> SUFFICES ASSUME k + 1 <= n
               PROVE  \E g \in [1 .. n -> Seq(X)] : FlattensTo(k + 1, g, parts)
    OBVIOUS
  <2>0. k <= n /\ k + 1 \in 1 .. n
    BY <1>0
  <2>1. PICK g \in [1 .. n -> Seq(X)] : FlattensTo(k, g, parts)
    BY <1>2, <2>0
  <2> DEFINE e == IF k + 1 = 1 THEN parts[k + 1] ELSE g[k] \o parts[k + 1]
             h == [g EXCEPT ![k + 1] = e]
  <2>2. e \in Seq(X)
    <3>1. parts[k + 1] \in Seq(X)
      BY <2>0, PartOf
    <3>2. CASE k = 0
      BY <3>1, <3>2
    <3>3. CASE k # 0
      <4>1. g[k] \in Seq(X)
        BY <2>0, <3>3
      <4>2. g[k] \o parts[k + 1] \in Seq(X)
        BY <4>1, <3>1, Concat
      <4> QED
        BY <3>3, <4>2
    <3> QED
      BY <3>2, <3>3
  <2> HIDE DEF e
  <2>3. h \in [1 .. n -> Seq(X)] /\ h[k + 1] = e /\ \A i \in 1 .. k : h[i] = g[i]
    BY <2>2, <2>0, <2>1
  <2> HIDE DEF h
  <2>4. FlattensTo(k + 1, h, parts)
    <3> SUFFICES ASSUME NEW i \in 1 .. k + 1
                 PROVE  h[i] = IF i = 1 THEN parts[i] ELSE h[i - 1] \o parts[i]
      BY DEF FlattensTo
    <3>1. CASE i = k + 1
      <4>1. i # 1 => i - 1 \in 1 .. k /\ h[i - 1] = g[k]
        BY <3>1, <2>3
      <4> QED
        BY <3>1, <4>1, <2>3 DEF e
    <3>2. CASE i # k + 1
      <4>1. i \in 1 .. k /\ (i # 1 => i - 1 \in 1 .. k)
        BY <3>2
      <4>2. g[i] = IF i = 1 THEN parts[i] ELSE g[i - 1] \o parts[i]
        BY <4>1, <2>1 DEF FlattensTo
      <4> QED
        BY <4>1, <4>2, <2>3
    <3> QED
      BY <3>1, <3>2
  <2> QED
    BY <2>3, <2>4
<1> HIDE DEF T
<1>3. n \in T
  BY <1>0, <1>1, <1>2, Noting!NatSet
<1>4. PICK g \in [1 .. n -> Seq(X)] : FlattensTo(n, g, parts)
  BY <1>3, <1>0 DEF T
<1> DEFINE f == CHOOSE f : Flattens(f, parts)
<1>5. Flattens(g, parts)
  BY <1>4 DEF Flattens, FlattensTo
<1>6. Flattens(f, parts)
  BY <1>5
<1>7. FlattenSeq(parts) = f[n]
  BY <1>0 DEF FlattenSeq, Flattens
<1> HIDE DEF f
<1>8. FlattensTo(n, f, parts) /\ f = [i \in 1 .. n |-> f[i]]
  BY <1>6 DEF Flattens, FlattensTo
<1> DEFINE U == {k \in Nat : \A i \in 1 .. k : i <= n => f[i] = g[i]}
<1>9. 0 \in U
  OBVIOUS
<1>10. ASSUME NEW k \in Nat, k \in U PROVE k + 1 \in U
  <2> SUFFICES ASSUME NEW i \in 1 .. k + 1, i <= n PROVE f[i] = g[i]
    OBVIOUS
  <2>1. CASE i = 1
    <3>1. i \in 1 .. n
      BY <2>1, <1>0
    <3>2. f[i] = parts[i] /\ g[i] = parts[i]
      BY <3>1, <2>1, <1>8, <1>4 DEF FlattensTo
    <3> QED
      BY <3>2
  <2>2. CASE i # 1
    <3>1. i - 1 \in 1 .. k /\ i - 1 <= n /\ i \in 1 .. n
      BY <2>2
    <3>2. f[i - 1] = g[i - 1]
      BY <3>1, <1>10
    <3> QED
      BY <2>2, <3>1, <3>2, <1>8, <1>4 DEF FlattensTo
  <2> QED
    BY <2>1, <2>2
<1> HIDE DEF U
<1>11. n \in U
  BY <1>0, <1>9, <1>10, Noting!NatSet
<1>12. FlattenSeq(parts) = g[n]
  BY <1>11, <1>7, <1>0 DEF U
<1> QED
  BY <1>4, <1>12

\* off is where the first k parts stand in w.
Offsets(off, w, k, parts) ==
  /\ off \in [1 .. k + 1 -> Nat] /\ off[1] = 0 /\ off[k + 1] = Len(w)
  /\ \A m \in 1 .. k : off[m + 1] = off[m] + Len(parts[m]) /\ Occurs(w, off[m], parts[m])

\* One more part moves the end of the text by its length.
LEMMA OffsetsStep ==
  ASSUME NEW X, NEW parts \in Seq(Seq(X)), NEW k \in Nat, k + 1 <= Len(parts),
         NEW w \in Seq(X), NEW off, Offsets(off, w, k, parts),
         NEW v, v = w \o parts[k + 1]
  PROVE  v \in Seq(X) /\ \E new : Offsets(new, v, k + 1, parts)
<1> DEFINE p == parts[k + 1]
<1>1. p \in Seq(X)
  BY PartOf
<1> HIDE DEF p
<1>2. /\ v \in Seq(X) /\ Len(w) \in Nat /\ Len(p) \in Nat /\ Len(v) = Len(w) + Len(p)
      /\ \A j \in 1 .. Len(w) : v[j] = w[j]
      /\ \A j \in 1 .. Len(p) : v[Len(w) + j] = p[j]
  BY <1>1, Concat DEF p
<1> DEFINE new == [m \in 1 .. k + 2 |-> IF m = k + 2 THEN Len(v) ELSE off[m]]
<1>3. off \in [1 .. k + 1 -> Nat] /\ off[1] = 0 /\ off[k + 1] = Len(w)
  BY DEF Offsets
<1>4. /\ new \in [1 .. k + 2 -> Nat] /\ new[k + 2] = Len(v)
      /\ \A m \in 1 .. k + 1 : new[m] = off[m]
  <2>1. Len(v) \in Nat
    BY <1>2
  <2>2. \A m \in 1 .. k + 2 : new[m] \in Nat
    BY <2>1, <1>3
  <2> QED
    BY <2>2
<1> HIDE DEF new
<1>5. ASSUME NEW m \in 1 .. k + 1
      PROVE  new[m + 1] = new[m] + Len(parts[m]) /\ Occurs(v, new[m], parts[m])
  <2>1. CASE m = k + 1
    <3>1. new[m] = Len(w) /\ new[m + 1] = Len(v) /\ parts[m] = p
      BY <2>1, <1>3, <1>4 DEF p
    <3> QED
      BY <3>1, <1>2 DEF Occurs
  <2>2. CASE m # k + 1
    <3>1. m \in 1 .. k /\ m + 1 \in 1 .. k + 1 /\ m \in 1 .. Len(parts)
      BY <2>2
    <3>2. new[m] = off[m] /\ new[m + 1] = off[m + 1]
      BY <3>1, <1>4
    <3>3. off[m + 1] = off[m] + Len(parts[m]) /\ Occurs(w, off[m], parts[m])
      BY <3>1 DEF Offsets
    <3>4. Len(parts[m]) \in Nat
      BY <3>1, PartOf
    <3>5. Occurs(v, off[m], parts[m])
      <4>1. off[m] \in Nat /\ off[m] + Len(parts[m]) <= Len(w)
        BY <3>3 DEF Occurs
      <4>2. off[m] + Len(parts[m]) <= Len(v)
        BY <4>1, <3>4, <1>2
      <4>3. ASSUME NEW j \in 1 .. Len(parts[m]) PROVE v[off[m] + j] = parts[m][j]
        <5>1. off[m] + j \in 1 .. Len(w)
          <6>1. PICK o : o = off[m]
            OBVIOUS
          <6>2. PICK d : d = Len(parts[m])
            OBVIOUS
          <6>3. o \in Nat /\ d \in Nat /\ o + d <= Len(w) /\ j \in 1 .. d /\ Len(w) \in Nat
            BY <4>1, <3>4, <1>2, <6>1, <6>2
          <6>4. o + j \in 1 .. Len(w)
            BY <6>3
          <6> QED
            BY <6>1, <6>4
        <5>2. w[off[m] + j] = parts[m][j]
          BY <3>3 DEF Occurs
        <5> QED
          BY <5>1, <5>2, <1>2
      <4> QED
        BY <4>1, <4>2, <4>3 DEF Occurs
    <3> QED
      BY <3>2, <3>3, <3>5
  <2> QED
    BY <2>1, <2>2
<1>6. new[1] = 0 /\ (k + 1) + 1 = k + 2
  BY <1>3, <1>4
<1>7. Offsets(new, v, k + 1, parts)
  BY <1>4, <1>5, <1>6 DEF Offsets
<1> QED
  BY <1>2, <1>7

\* The parts of a flattened sequence stand in it one after the other.
LEMMA FlattenAt ==
  ASSUME NEW X, NEW parts \in Seq(Seq(X))
  PROVE  /\ FlattenSeq(parts) \in Seq(X)
         /\ \E off : Offsets(off, FlattenSeq(parts), Len(parts), parts)
<1>1. CASE parts = <<>>
  <2>1. FlattenSeq(parts) = <<>> /\ Len(parts) = 0
    BY <1>1 DEF FlattenSeq
  <2> DEFINE off == [k \in 1 .. 0 + 1 |-> 0]
  <2>2. Offsets(off, <<>>, 0, parts)
    BY DEF Offsets
  <2> QED
    BY <2>1, <2>2
<1>2. CASE parts # <<>>
  <2> DEFINE n == Len(parts)
  <2>0. n \in Nat /\ n >= 1
    BY <1>2
  <2>1. PICK g \in [1 .. n -> Seq(X)] : FlattensTo(n, g, parts) /\ FlattenSeq(parts) = g[n]
    BY <1>2, Flattened
  <2> DEFINE T == {k \in Nat : 1 <= k /\ k <= n => \E off : Offsets(off, g[k], k, parts)}
  <2>2. 0 \in T
    OBVIOUS
  <2>3. ASSUME NEW k \in Nat, k \in T PROVE k + 1 \in T
    <3> SUFFICES ASSUME k + 1 <= n PROVE \E off : Offsets(off, g[k + 1], k + 1, parts)
      OBVIOUS
    <3>1. CASE k = 0
      <4>1. PICK e : e = <<>>
        OBVIOUS
      <4> DEFINE off == [m \in 1 .. 0 + 1 |-> 0]
      <4>2. Offsets(off, e, 0, parts) /\ e \in Seq(X)
        BY <4>1 DEF Offsets
      <4>0. 1 \in 1 .. n
        BY <2>0
      <4>3. g[1] = parts[1]
        BY <4>0, <2>1 DEF FlattensTo
      <4>3a. parts[1] \in Seq(X)
        BY <4>0, PartOf
      <4>4. g[1] = e \o parts[0 + 1]
        BY <4>1, <4>3, <4>3a, ConcatEmptySeq
      <4>5. \E new : Offsets(new, g[1], 0 + 1, parts)
        <5>1. 0 + 1 <= Len(parts) /\ 0 \in Nat
          BY <2>0
        <5>2. PICK z : z = 0
          OBVIOUS
        <5>3. PICK off1 : Offsets(off1, e, z, parts)
          BY <4>2, <5>2
        <5>4. \E new : Offsets(new, g[1], z + 1, parts)
          BY <4>2, <4>4, <5>1, <5>2, <5>3, OffsetsStep
        <5> QED
          BY <5>4, <5>2
      <4> QED
        BY <4>5, <3>1
    <3>2. CASE k # 0
      <4>1. k \in 1 .. n /\ k + 1 \in 1 .. n /\ k + 1 # 1 /\ (k + 1) - 1 = k
        BY <3>2, <2>0
      <4>2. PICK off : Offsets(off, g[k], k, parts)
        BY <4>1, <2>3
      <4>3. g[k + 1] = g[k] \o parts[k + 1]
        BY <4>1, <2>1 DEF FlattensTo
      <4>4. g[k] \in Seq(X)
        BY <4>1
      <4> QED
        BY <4>2, <4>3, <4>4, OffsetsStep
    <3> QED
      BY <3>1, <3>2
  <2> HIDE DEF T
  <2>4. n \in T
    BY <2>0, <2>2, <2>3, Noting!NatSet
  <2>5. \E off : Offsets(off, g[n], n, parts)
    BY <2>4, <2>0 DEF T
  <2>6. g[n] \in Seq(X)
    BY <2>0
  <2> QED
    BY <2>5, <2>6, <2>1
<1> QED
  BY <1>1, <1>2
-----------------------------------------------------------------------------
(* The reader. *)

\* The least of a set of numbers.
LEMMA MinIn ==
  ASSUME NEW t \in SUBSET Nat, t # {}
  PROVE  Min(t) \in t /\ \A y \in t : Min(t) <= y
BY Noting!MinOf DEF Min, Noting!Min

\* i is a token of the range that ends at e, or its end.
Within(X, i, e) == i \in Nat /\ e \in Nat /\ 1 <= i /\ i <= e /\ e <= Len(X) + 1

\* Skip moves by at most one token, and not beyond the end.
LEMMA SkipBound ==
  ASSUME NEW X, NEW i, NEW e, Within(X, i, e), NEW text
  PROVE  Skip(X, i, e, text) \in i .. e /\ Skip(X, i, e, text) \in {i, i + 1}
BY DEF Within, Skip, Is

\* SkipBalancedParens stays in the range, and moves if it is at a parenthesis.
LEMMA ParensBound ==
  ASSUME NEW X, NEW i, NEW e, Within(X, i, e)
  PROVE  /\ SkipBalancedParens(X, i, e) \in i .. e
         /\ Is(X, i, e, "(") => SkipBalancedParens(X, i, e) > i
<1>1. i \in Nat /\ e \in Nat /\ i <= e
  BY DEF Within
<1>2. CASE Is(X, i, e, "(")
  <2> DEFINE t == {e} \cup {k \in i + 1 .. e : Depth(X, i, k) = 0}
  <2>1. t \in SUBSET Nat /\ t # {} /\ t \subseteq i + 1 .. e
    BY <1>1, <1>2 DEF Is
  <2>2. SkipBalancedParens(X, i, e) = Min(t)
    BY <1>2 DEF SkipBalancedParens
  <2> HIDE DEF t
  <2>3. Min(t) \in i + 1 .. e
    BY <2>1, MinIn
  <2> QED
    BY <2>2, <2>3, <1>1
<1>3. CASE ~Is(X, i, e, "(")
  BY <1>1, <1>3 DEF SkipBalancedParens
<1> QED
  BY <1>2, <1>3

\* What readTableList and readCTEDefinitions find of an entry.
QualifiedAt(X, i, e) == Is(X, i + 1, e, ".") /\ IsNameAt(X, i + 2, e)
AsAt(X, i, e) ==
  Skip(X, IF X[i] = "(" THEN SkipBalancedParens(X, i, e)
          ELSE IF QualifiedAt(X, i, e) THEN i + 3 ELSE i + 1, e, "AS")
ListNext(X, i, e) == IF IsNameAt(X, AsAt(X, i, e), e) THEN AsAt(X, i, e) + 1 ELSE AsAt(X, i, e)
RealAt(X, i, e) ==
  LET table == IF QualifiedAt(X, i, e) THEN X[i + 2] ELSE X[i]
  IN  Real(table, IF IsNameAt(X, AsAt(X, i, e), e) THEN X[AsAt(X, i, e)] ELSE table)
VirtualAt(X, i, e) ==
  IF IsNameAt(X, AsAt(X, i, e), e) THEN <<Virtual(X[AsAt(X, i, e)])>> ELSE <<>>
BodyAt(X, i, e) ==
  Skip(X, Skip(X, Skip(X, SkipBalancedParens(X, i + 1, e), e, "AS"), e, "NOT"),
       e, "MATERIALIZED")
BodyNext(X, i, e) == SkipBalancedParens(X, BodyAt(X, i, e), e)

\* What is read of a subquery in a list of tables.
LEMMA SubqueryIs ==
  ASSUME NEW X, NEW i, NEW e, NEW g, X[i] = "("
  PROVE  ReadTableList(X, i, e, g) =
           g[<<"range", i + 1, SkipBalancedParens(X, i, e) - 1>>]
             \o VirtualAt(X, i, e) \o g[Onward(X, "tables", ListNext(X, i, e), e)]
<1>1. ~IsName("(")
  BY DEF IsName, IsIdent, Punctuation
<1> QED
  BY <1>1 DEF ReadTableList, QualifiedAt, AsAt, ListNext, VirtualAt

\* What is read of a table in a list of tables.
LEMMA TableIs ==
  ASSUME NEW X, NEW i, NEW e, NEW g, X[i] # "(", IsName(X[i])
  PROVE  ReadTableList(X, i, e, g) =
           <<RealAt(X, i, e)>> \o g[Onward(X, "tables", ListNext(X, i, e), e)]
BY DEF ReadTableList, QualifiedAt, AsAt, ListNext, RealAt

\* A list of tables that begins with neither is no list.
LEMMA NoTableIs ==
  ASSUME NEW X, NEW i, NEW e, NEW g, X[i] # "(", ~IsName(X[i])
  PROVE  ReadTableList(X, i, e, g) = g[<<"range", i, e>>]
BY DEF ReadTableList

\* What is read of the body of a name of WITH.
InBody(X, i, e, g) ==
  IF Is(X, BodyAt(X, i, e), e, "(")
    THEN g[<<"range", BodyAt(X, i, e) + 1, BodyNext(X, i, e) - 1>>]
    ELSE <<>>

\* What is read of a definition in WITH.
LEMMA CTEIs ==
  ASSUME NEW X, NEW i, NEW e, NEW g, IsName(X[i])
  PROVE  ReadCTEDefinitions(X, i, e, g) =
           InBody(X, i, e, g) \o <<Virtual(X[i])>>
             \o g[Onward(X, "ctes", BodyNext(X, i, e), e)]
BY DEF ReadCTEDefinitions, BodyAt, BodyNext, InBody

\* A list of definitions that begins with no name is no list.
LEMMA NoCTEIs ==
  ASSUME NEW X, NEW i, NEW e, NEW g, ~IsName(X[i])
  PROVE  ReadCTEDefinitions(X, i, e, g) = g[<<"range", i, e>>]
BY DEF ReadCTEDefinitions

\* An element of a list of tables has at least one token.
LEMMA ListNextBound ==
  ASSUME NEW X, NEW i, NEW e, Within(X, i, e), i < e
  PROVE  ListNext(X, i, e) \in i + 1 .. e
<1> DEFINE start == IF X[i] = "(" THEN SkipBalancedParens(X, i, e)
                    ELSE IF QualifiedAt(X, i, e) THEN i + 3 ELSE i + 1
<1>1. i \in Nat /\ e \in Nat
  BY DEF Within
<1>2. start \in i + 1 .. e
  <2>1. CASE X[i] = "("
    <3>1. Is(X, i, e, "(")
      BY <2>1 DEF Is
    <3>2. SkipBalancedParens(X, i, e) \in i .. e /\ SkipBalancedParens(X, i, e) > i
      BY <3>1, ParensBound
    <3> QED
      BY <2>1, <3>2, <1>1
  <2>2. CASE X[i] # "("
    BY <2>2, <1>1 DEF QualifiedAt, Is, IsNameAt
  <2> QED
    BY <2>1, <2>2
<1>3. Within(X, start, e) /\ AsAt(X, i, e) = Skip(X, start, e, "AS")
  BY <1>2, <1>1 DEF Within, AsAt
<1> HIDE DEF start
<1>4. AsAt(X, i, e) \in start .. e
  BY <1>3, SkipBound
<1> QED
  BY <1>1, <1>2, <1>4 DEF ListNext, IsNameAt

\* So has a definition, and its body lies in the range.
LEMMA BodyBound ==
  ASSUME NEW X, NEW i, NEW e, Within(X, i, e), i < e
  PROVE  BodyAt(X, i, e) \in i + 1 .. e /\ BodyNext(X, i, e) \in BodyAt(X, i, e) .. e
<1> DEFINE a == SkipBalancedParens(X, i + 1, e)
           b == Skip(X, a, e, "AS")
           c == Skip(X, b, e, "NOT")
           d == Skip(X, c, e, "MATERIALIZED")
<1>0. i \in Nat /\ e \in Nat /\ Within(X, i + 1, e)
  BY DEF Within
<1>1. a \in i + 1 .. e /\ Within(X, a, e)
  <2>1. a \in i + 1 .. e
    BY <1>0, ParensBound
  <2> QED
    BY <2>1, <1>0 DEF Within
<1> HIDE DEF a
<1>2. b \in i + 1 .. e /\ Within(X, b, e)
  <2>1. b \in a .. e
    BY <1>1, SkipBound
  <2> QED
    BY <2>1, <1>1, <1>0 DEF Within
<1> HIDE DEF b
<1>3. c \in i + 1 .. e /\ Within(X, c, e)
  <2>1. c \in b .. e
    BY <1>2, SkipBound
  <2> QED
    BY <2>1, <1>2, <1>0 DEF Within
<1> HIDE DEF c
<1>4. d \in i + 1 .. e /\ Within(X, d, e)
  <2>1. d \in c .. e
    BY <1>3, SkipBound
  <2> QED
    BY <2>1, <1>3, <1>0 DEF Within
<1>5. BodyAt(X, i, e) = d
  BY DEF BodyAt, a, b, c
<1> HIDE DEF d
<1>6. SkipBalancedParens(X, d, e) \in d .. e
  BY <1>4, ParensBound
<1> QED
  BY <1>4, <1>5, <1>6 DEF BodyNext
-----------------------------------------------------------------------------
\* How far a place is from the end of what is read.
Ahead(place) ==
  (IF place[3] > place[2] THEN 2 * (place[3] - place[2]) ELSE 0)
    + (IF place[1] = "range" THEN 0 ELSE 1)

\* q is a place with less ahead than there is at token i of a range to e.
Nearer(X, q, list, i, e) == q \in ReadPlaces(X) /\ Ahead(q) < Ahead(<<list, i, e>>)

\* The places of a text.
LEMMA PlaceIs ==
  ASSUME NEW S, NEW X \in Seq(S), NEW list \in {"range", "tables", "ctes"}, NEW i, NEW e
  PROVE  /\ <<list, i, e>> \in ReadPlaces(X)
              <=> i \in 1 .. Len(X) + 1 /\ e \in 0 .. Len(X) + 1
         /\ <<list, i, e>> \in ReadPlaces(X) /\ i < e => Within(X, i, e)
BY DEF ReadPlaces, Within

\* A place further on in the range is nearer to the end.
LEMMA NearerPlace ==
  ASSUME NEW S, NEW X \in Seq(S),
         NEW list \in {"range", "tables", "ctes"}, NEW i \in Nat, NEW e \in Nat,
         Within(X, i, e), i < e,
         NEW inner \in {"range", "tables", "ctes"}, NEW j \in Nat, NEW d \in Nat,
         j \in i .. e, d <= e, j > i \/ (inner = "range" /\ list # "range")
  PROVE  Nearer(X, <<inner, j, d>>, list, i, e)
<1>1. <<inner, j, d>> \in ReadPlaces(X)
  BY PlaceIs DEF Within
<1>2. Ahead(<<inner, j, d>>) < Ahead(<<list, i, e>>)
  <2>1. CASE j > i
    BY <2>1 DEF Ahead
  <2>2. CASE ~(j > i)
    BY <2>2 DEF Ahead
  <2> QED
    BY <2>1, <2>2
<1> QED
  BY <1>1, <1>2 DEF Nearer

\* What follows an element of a list is nearer to the end.
LEMMA NearerOnward ==
  ASSUME NEW S, NEW X \in Seq(S),
         NEW list \in {"tables", "ctes"}, NEW i \in Nat, NEW e \in Nat,
         Within(X, i, e), i < e, NEW next \in i + 1 .. e
  PROVE  Nearer(X, Onward(X, list, next, e), list, i, e)
<1>0. /\ next \in Nat /\ next > i /\ next <= e /\ i <= e /\ e <= e
      /\ list \in {"range", "tables", "ctes"} /\ "range" \in {"range", "tables", "ctes"}
  OBVIOUS
<1>1. CASE Is(X, next, e, ",")
  <2>1. next < e /\ Onward(X, list, next, e) = <<list, next + 1, e>>
    BY <1>1 DEF Is, Onward
  <2>2. next + 1 \in i .. e /\ next + 1 > i /\ next + 1 \in Nat
    BY <1>0, <2>1
  <2>3. Nearer(X, <<list, next + 1, e>>, list, i, e)
    BY <1>0, <2>2, NearerPlace
  <2> QED
    BY <2>1, <2>3
<1>2. CASE ~Is(X, next, e, ",")
  <2>1. Onward(X, list, next, e) = <<"range", next, e>>
    BY <1>2 DEF Onward
  <2>2. next \in i .. e
    BY <1>0
  <2>3. Nearer(X, <<"range", next, e>>, list, i, e)
    BY <1>0, <2>2, NearerPlace
  <2> QED
    BY <2>1, <2>3
<1> QED
  BY <1>1, <1>2

\* The places that are read from next.
LEMMA RangeCalls ==
  ASSUME NEW S, NEW X \in Seq(S), NEW i \in Nat, NEW e \in Nat, Within(X, i, e), i < e
  PROVE  /\ Nearer(X, <<"tables", i + 1, e>>, "range", i, e)
         /\ Nearer(X, <<"ctes", Skip(X, i + 1, e, "RECURSIVE"), e>>, "range", i, e)
         /\ Nearer(X, <<"range", i + 1, e>>, "range", i, e)
<1>1. i + 1 \in i .. e /\ i + 1 > i /\ i + 1 \in Nat /\ Within(X, i + 1, e)
  BY DEF Within
<1>2. Skip(X, i + 1, e, "RECURSIVE") \in i + 1 .. e
  BY <1>1, SkipBound
<1> DEFINE s == Skip(X, i + 1, e, "RECURSIVE")
<1>3. s \in i .. e /\ s > i /\ s \in Nat
  BY <1>2
<1> HIDE DEF s
<1>4. Nearer(X, <<"ctes", s, e>>, "range", i, e)
  BY <1>3, NearerPlace
<1>5. Nearer(X, <<"tables", i + 1, e>>, "range", i, e)
  BY <1>1, NearerPlace
<1>6. Nearer(X, <<"range", i + 1, e>>, "range", i, e)
  BY <1>1, NearerPlace
<1> QED
  BY <1>4, <1>5, <1>6 DEF s

\* So is all that a list of tables goes on with.
LEMMA TableCalls ==
  ASSUME NEW S, NEW X \in Seq(S), NEW i \in Nat, NEW e \in Nat, Within(X, i, e), i < e
  PROVE  /\ X[i] = "(" => Nearer(X, <<"range", i + 1, SkipBalancedParens(X, i, e) - 1>>,
                                 "tables", i, e)
         /\ Nearer(X, Onward(X, "tables", ListNext(X, i, e), e), "tables", i, e)
         /\ Nearer(X, <<"range", i, e>>, "tables", i, e)
<1>1. ASSUME X[i] = "("
      PROVE  Nearer(X, <<"range", i + 1, SkipBalancedParens(X, i, e) - 1>>, "tables", i, e)
  <2> DEFINE c == SkipBalancedParens(X, i, e) - 1
  <2>1. SkipBalancedParens(X, i, e) \in i .. e /\ SkipBalancedParens(X, i, e) > i
    BY <1>1, ParensBound DEF Is
  <2>2. c \in Nat /\ c <= e
    BY <2>1
  <2> HIDE DEF c
  <2>3. i + 1 \in i .. e /\ i + 1 > i /\ i + 1 \in Nat
    OBVIOUS
  <2>4. Nearer(X, <<"range", i + 1, c>>, "tables", i, e)
    BY <2>2, <2>3, NearerPlace
  <2> QED
    BY <2>4 DEF c
<1>2. Nearer(X, Onward(X, "tables", ListNext(X, i, e), e), "tables", i, e)
  BY ListNextBound, NearerOnward
<1>3. Nearer(X, <<"range", i, e>>, "tables", i, e)
  <2>1. i \in i .. e /\ "range" # "tables"
    OBVIOUS
  <2> QED
    BY <2>1, NearerPlace
<1> QED
  BY <1>1, <1>2, <1>3

\* And all that a list of definitions goes on with.
LEMMA CTECalls ==
  ASSUME NEW S, NEW X \in Seq(S), NEW i \in Nat, NEW e \in Nat, Within(X, i, e), i < e
  PROVE  /\ Is(X, BodyAt(X, i, e), e, "(") =>
              Nearer(X, <<"range", BodyAt(X, i, e) + 1, BodyNext(X, i, e) - 1>>,
                     "ctes", i, e)
         /\ Nearer(X, Onward(X, "ctes", BodyNext(X, i, e), e), "ctes", i, e)
         /\ Nearer(X, <<"range", i, e>>, "ctes", i, e)
<1> DEFINE b == BodyAt(X, i, e)
           n == BodyNext(X, i, e)
<1>0. b \in i + 1 .. e /\ n \in b .. e
  BY BodyBound
<1>1. ASSUME Is(X, b, e, "(")
      PROVE  Nearer(X, <<"range", b + 1, n - 1>>, "ctes", i, e)
  <2>1. b + 1 \in i .. e /\ b + 1 > i /\ b + 1 \in Nat
    BY <1>0, <1>1 DEF Is
  <2>2. n - 1 \in Nat /\ n - 1 <= e
    BY <1>0
  <2> HIDE DEF b, n
  <2> QED
    BY <2>1, <2>2, NearerPlace
<1>2. Nearer(X, Onward(X, "ctes", n, e), "ctes", i, e)
  <2>1. n \in i + 1 .. e
    BY <1>0
  <2> HIDE DEF b, n
  <2> QED
    BY <2>1, NearerOnward
<1>3. Nearer(X, <<"range", i, e>>, "ctes", i, e)
  <2>1. i \in i .. e /\ "range" # "ctes"
    OBVIOUS
  <2> QED
    BY <2>1, NearerPlace
<1> QED
  BY <1>1, <1>2, <1>3

\* What is read at a place depends on what is read at nearer ones only.
LEMMA ReadAtLocal ==
  ASSUME NEW S, NEW X \in Seq(S), NEW place \in ReadPlaces(X), NEW g, NEW h,
         \A q \in ReadPlaces(X) : Ahead(q) < Ahead(place) => g[q] = h[q]
  PROVE  ReadAt(X, place, g) = ReadAt(X, place, h)
<1>1. PICK list \in {"range", "tables", "ctes"}, i \in 1 .. Len(X) + 1, e \in 0 .. Len(X) + 1 :
        place = <<list, i, e>>
  BY DEF ReadPlaces
<1>2. \A q : Nearer(X, q, list, i, e) => g[q] = h[q]
  BY <1>1 DEF Nearer
<1>3. CASE i >= e
  BY <1>1, <1>3 DEF ReadAt
<1>4. CASE ~(i >= e)
  <2>1. i \in Nat /\ e \in Nat /\ i < e /\ Within(X, i, e)
    BY <1>4 DEF Within
  <2>2. CASE list = "range"
    <3>1. ExtractTablesRange(X, i, e, g) = ExtractTablesRange(X, i, e, h)
      BY <1>2, <2>1, <2>2, RangeCalls DEF ExtractTablesRange
    <3> QED
      BY <1>1, <2>1, <2>2, <3>1 DEF ReadAt
  <2>3. CASE list = "tables"
    <3> DEFINE inner == <<"range", i + 1, SkipBalancedParens(X, i, e) - 1>>
               onward == Onward(X, "tables", ListNext(X, i, e), e)
               here == <<"range", i, e>>
    <3>1. /\ X[i] = "(" => g[inner] = h[inner]
          /\ g[onward] = h[onward] /\ g[here] = h[here]
      BY <1>2, <2>1, <2>3, TableCalls
    <3>2. ASSUME X[i] = "(" PROVE ReadTableList(X, i, e, g) = ReadTableList(X, i, e, h)
      <4>1. ReadTableList(X, i, e, g) = g[inner] \o VirtualAt(X, i, e) \o g[onward]
        BY <3>2, SubqueryIs
      <4>2. ReadTableList(X, i, e, h) = h[inner] \o VirtualAt(X, i, e) \o h[onward]
        BY <3>2, SubqueryIs
      <4> HIDE DEF inner, onward
      <4> QED
        BY <3>1, <3>2, <4>1, <4>2
    <3>3. ASSUME X[i] # "(", IsName(X[i])
          PROVE  ReadTableList(X, i, e, g) = ReadTableList(X, i, e, h)
      <4>1. ReadTableList(X, i, e, g) = <<RealAt(X, i, e)>> \o g[onward]
        BY <3>3, TableIs
      <4>2. ReadTableList(X, i, e, h) = <<RealAt(X, i, e)>> \o h[onward]
        BY <3>3, TableIs
      <4> HIDE DEF inner, onward
      <4> QED
        BY <3>1, <4>1, <4>2
    <3>4. ASSUME X[i] # "(", ~IsName(X[i])
          PROVE  ReadTableList(X, i, e, g) = ReadTableList(X, i, e, h)
      <4>1. ReadTableList(X, i, e, g) = g[here] /\ ReadTableList(X, i, e, h) = h[here]
        BY <3>4, NoTableIs
      <4> HIDE DEF here
      <4> QED
        BY <3>1, <4>1
    <3>5. ReadTableList(X, i, e, g) = ReadTableList(X, i, e, h)
      BY <3>2, <3>3, <3>4
    <3> QED
      BY <1>1, <2>1, <2>3, <3>5 DEF ReadAt
  <2>4. CASE list = "ctes"
    <3> DEFINE onward == Onward(X, "ctes", BodyNext(X, i, e), e)
               here == <<"range", i, e>>
    <3>1. /\ g[onward] = h[onward] /\ g[here] = h[here]
          /\ InBody(X, i, e, g) = InBody(X, i, e, h)
      BY <1>2, <2>1, <2>4, CTECalls DEF InBody
    <3>2. ASSUME IsName(X[i])
          PROVE  ReadCTEDefinitions(X, i, e, g) = ReadCTEDefinitions(X, i, e, h)
      <4>1. ReadCTEDefinitions(X, i, e, g) =
              InBody(X, i, e, g) \o <<Virtual(X[i])>> \o g[onward]
        BY <3>2, CTEIs
      <4>2. ReadCTEDefinitions(X, i, e, h) =
              InBody(X, i, e, h) \o <<Virtual(X[i])>> \o h[onward]
        BY <3>2, CTEIs
      <4> HIDE DEF onward
      <4> QED
        BY <3>1, <4>1, <4>2
    <3>3. ASSUME ~IsName(X[i])
          PROVE  ReadCTEDefinitions(X, i, e, g) = ReadCTEDefinitions(X, i, e, h)
      <4>1. /\ ReadCTEDefinitions(X, i, e, g) = g[here]
            /\ ReadCTEDefinitions(X, i, e, h) = h[here]
        BY <3>3, NoCTEIs
      <4> HIDE DEF here
      <4> QED
        BY <3>1, <4>1
    <3>4. ReadCTEDefinitions(X, i, e, g) = ReadCTEDefinitions(X, i, e, h)
      BY <3>2, <3>3
    <3> QED
      BY <1>1, <2>1, <2>4, <3>4 DEF ReadAt
  <2> QED
    BY <2>2, <2>3, <2>4
<1> QED
  BY <1>3, <1>4
-----------------------------------------------------------------------------
\* What lies ahead is bounded by the length of the text.
LEMMA AheadBound ==
  ASSUME NEW S, NEW X \in Seq(S), NEW q \in ReadPlaces(X)
  PROVE  Ahead(q) \in Nat /\ Ahead(q) < 2 * Len(X) + 4
<1>1. PICK list \in {"range", "tables", "ctes"}, i \in 1 .. Len(X) + 1, e \in 0 .. Len(X) + 1 :
        q = <<list, i, e>>
  BY DEF ReadPlaces
<1> QED
  BY <1>1 DEF Ahead

\* The recursive function that the extractor is exists: what is read at a place is what
\* its code reads there, given what is read at the others.
LEMMA ReadsIs ==
  ASSUME NEW S, NEW X \in Seq(S)
  PROVE  \A p \in ReadPlaces(X) : Reads(X)[p] = ReadAt(X, p, Reads(X))
<1> DEFINE P == ReadPlaces(X)
           Good(k, g) == \A q \in P : Ahead(q) < k => g[q] = ReadAt(X, q, g)
           T == {k \in Nat : \E g : g = [q \in P |-> g[q]] /\ Good(k, g)}
<1>0. \A q \in P : Ahead(q) \in Nat /\ Ahead(q) < 2 * Len(X) + 4
  BY AheadBound
<1>1. 0 \in T
  <2> DEFINE g == [q \in P |-> q]
  <2>1. g = [q \in P |-> g[q]] /\ Good(0, g)
    BY <1>0
  <2> HIDE DEF g
  <2> QED
    BY <2>1
<1>2. ASSUME NEW k \in Nat, k \in T PROVE k + 1 \in T
  <2>1. PICK g : g = [q \in P |-> g[q]] /\ Good(k, g)
    BY <1>2
  <2> DEFINE h == [q \in P |-> IF Ahead(q) = k THEN ReadAt(X, q, g) ELSE g[q]]
  <2>2. h = [q \in P |-> h[q]]
    OBVIOUS
  <2>3. \A q \in P : h[q] = IF Ahead(q) = k THEN ReadAt(X, q, g) ELSE g[q]
    OBVIOUS
  <2> HIDE DEF h, P
  <2>4. Good(k + 1, h)
    <3> SUFFICES ASSUME NEW q \in P, Ahead(q) < k + 1
                 PROVE  h[q] = ReadAt(X, q, h)
      OBVIOUS
    <3>1. Ahead(q) \in Nat /\ Ahead(q) <= k
      BY <1>0
    <3>2. \A r \in P : Ahead(r) < Ahead(q) => g[r] = h[r]
      BY <1>0, <3>1, <2>3
    <3>3. ReadAt(X, q, g) = ReadAt(X, q, h)
      BY <3>2, ReadAtLocal DEF P
    <3>4. CASE Ahead(q) = k
      BY <3>3, <3>4, <2>3
    <3>5. CASE Ahead(q) # k
      <4>1. Ahead(q) < k
        BY <3>1, <3>5
      <4>2. g[q] = ReadAt(X, q, g)
        BY <4>1, <2>1
      <4> QED
        BY <3>3, <3>5, <2>3, <4>2
    <3> QED
      BY <3>4, <3>5
  <2> QED
    BY <2>2, <2>4
<1> HIDE DEF T
<1>3. 2 * Len(X) + 4 \in Nat
  OBVIOUS
<1>4. 2 * Len(X) + 4 \in T
  BY <1>1, <1>2, <1>3, Noting!NatSet
<1>5. PICK g : g = [q \in P |-> g[q]] /\ Good(2 * Len(X) + 4, g)
  BY <1>4 DEF T
<1>6. \A q \in P : g[q] = ReadAt(X, q, g)
  BY <1>0, <1>5
<1> DEFINE Fix(f) == f = [q \in P |-> ReadAt(X, q, f)]
           r == CHOOSE f : Fix(f)
<1> HIDE DEF P
<1>7. g = [q \in P |-> ReadAt(X, q, g)]
  <2>1. [q \in P |-> g[q]] = [q \in P |-> ReadAt(X, q, g)]
    BY <1>6
  <2> QED
    BY <1>5, <2>1
<1>8. Fix(r)
  BY <1>7
<1>9. Reads(X) = r
  BY DEF Reads, P
<1> HIDE DEF r
<1>10. \A q \in P : r[q] = ReadAt(X, q, r)
  <2>1. r = [q \in P |-> ReadAt(X, q, r)]
    BY <1>8
  <2> QED
    BY <2>1
<1> QED
  BY <1>9, <1>10 DEF P
-----------------------------------------------------------------------------
\* Reads of names of S.
ReadSet(S) ==
  LET N == {x \in S : IsName(x)}
  IN  [table : N, alias : N, virtual : BOOLEAN]

\* What is read of names is among the reads.
LEMMA ReadSetHas ==
  ASSUME NEW S, NEW n \in S, IsName(n), NEW m \in S, IsName(m)
  PROVE  /\ Real(n, m) \in ReadSet(S) /\ Virtual(n) \in ReadSet(S)
         /\ <<Real(n, m)>> \in Seq(ReadSet(S)) /\ <<Virtual(n)>> \in Seq(ReadSet(S))
<1>1. Real(n, m) \in ReadSet(S) /\ Virtual(n) \in ReadSet(S)
  BY DEF ReadSet, Real, Virtual
<1> QED
  BY <1>1

\* A token of a range is one of the text.
LEMMA TokenAt ==
  ASSUME NEW S, NEW X \in Seq(S), NEW i \in Nat, NEW e \in Nat, Within(X, i, e), i < e
  PROVE  X[i] \in S
BY DEF Within

\* An entry of a list of tables is read as names.
LEMMA EntryNames ==
  ASSUME NEW S, NEW X \in Seq(S), NEW i \in Nat, NEW e \in Nat, Within(X, i, e), i < e
  PROVE  /\ IsName(X[i]) => <<RealAt(X, i, e)>> \in Seq(ReadSet(S))
         /\ VirtualAt(X, i, e) \in Seq(ReadSet(S))
         /\ IsName(X[i]) => <<Virtual(X[i])>> \in Seq(ReadSet(S))
<1> DEFINE a == AsAt(X, i, e)
<1>0. X[i] \in S
  BY TokenAt
<1>1. ASSUME IsNameAt(X, a, e) PROVE X[a] \in S /\ IsName(X[a])
  <2>1. ListNext(X, i, e) = a + 1
    BY <1>1 DEF ListNext
  <2>2. a + 1 \in i + 1 .. e
    BY <2>1, ListNextBound
  <2>3. a \in Nat \/ a \in Int
    <3> DEFINE b == IF X[i] = "(" THEN SkipBalancedParens(X, i, e)
                    ELSE IF QualifiedAt(X, i, e) THEN i + 3 ELSE i + 1
    <3>1. a \in {b, b + 1}
      BY DEF AsAt, Skip
    <3>2. b \in Nat
      BY ParensBound
    <3> HIDE DEF b
    <3> QED
      BY <3>1, <3>2
  <2>4. a \in i .. e /\ a < e
    BY <2>2, <2>3, <1>1 DEF IsNameAt
  <2>5. a \in 1 .. Len(X)
    BY <2>4 DEF Within
  <2> QED
    BY <2>5, <1>1 DEF IsNameAt
<1> HIDE DEF a
<1>2. ASSUME IsName(X[i]) PROVE <<RealAt(X, i, e)>> \in Seq(ReadSet(S))
  <2> DEFINE t == IF QualifiedAt(X, i, e) THEN X[i + 2] ELSE X[i]
             n == IF IsNameAt(X, a, e) THEN X[a] ELSE t
  <2>1. t \in S /\ IsName(t)
    <3>1. CASE QualifiedAt(X, i, e)
      <4>1. i + 2 < e /\ IsName(X[i + 2])
        BY <3>1 DEF QualifiedAt, IsNameAt
      <4>2. X[i + 2] \in S
        BY <4>1 DEF Within
      <4> QED
        BY <3>1, <4>1, <4>2
    <3>2. CASE ~QualifiedAt(X, i, e)
      BY <3>2, <1>2, <1>0
    <3> QED
      BY <3>1, <3>2
  <2>2. n \in S /\ IsName(n)
    BY <2>1, <1>1
  <2>3. RealAt(X, i, e) = Real(t, n)
    BY DEF RealAt, a
  <2> HIDE DEF t, n
  <2> QED
    BY <2>1, <2>2, <2>3, ReadSetHas
<1>3. VirtualAt(X, i, e) \in Seq(ReadSet(S))
  <2>1. CASE IsNameAt(X, a, e)
    <3>1. <<Virtual(X[a])>> \in Seq(ReadSet(S))
      BY <1>1, <2>1, ReadSetHas
    <3> QED
      BY <2>1, <3>1 DEF VirtualAt, a
  <2>2. CASE ~IsNameAt(X, a, e)
    BY <2>2 DEF VirtualAt, a
  <2> QED
    BY <2>1, <2>2
<1> QED
  BY <1>0, <1>2, <1>3, ReadSetHas
-----------------------------------------------------------------------------
\* The type of what is read at a place, given that of the places nearer to the end.
LEMMA ReadAtType ==
  ASSUME NEW S, NEW X \in Seq(S), NEW place \in ReadPlaces(X), NEW g,
         \A q \in ReadPlaces(X) : Ahead(q) < Ahead(place) => g[q] \in Seq(ReadSet(S))
  PROVE  ReadAt(X, place, g) \in Seq(ReadSet(S))
<1> DEFINE R == ReadSet(S)
<1>1. PICK list \in {"range", "tables", "ctes"}, i \in 1 .. Len(X) + 1, e \in 0 .. Len(X) + 1 :
        place = <<list, i, e>>
  BY DEF ReadPlaces
<1>2. \A q : Nearer(X, q, list, i, e) => g[q] \in Seq(R)
  BY <1>1 DEF Nearer
<1> HIDE DEF R
<1>3. CASE i >= e
  <2>1. ReadAt(X, place, g) = <<>>
    BY <1>1, <1>3 DEF ReadAt
  <2> QED
    BY <2>1
<1>4. CASE ~(i >= e)
  <2>1. i \in Nat /\ e \in Nat /\ i < e /\ Within(X, i, e)
    BY <1>4 DEF Within
  <2>0. /\ IsName(X[i]) => <<RealAt(X, i, e)>> \in Seq(R)
        /\ VirtualAt(X, i, e) \in Seq(R)
        /\ IsName(X[i]) => <<Virtual(X[i])>> \in Seq(R)
    BY <2>1, EntryNames DEF R
  <2>2. CASE list = "range"
    <3>1. ExtractTablesRange(X, i, e, g) \in Seq(R)
      BY <1>2, <2>1, <2>2, RangeCalls DEF ExtractTablesRange
    <3> QED
      BY <1>1, <2>1, <2>2, <3>1 DEF ReadAt, R
  <2>3. CASE list = "tables"
    <3> DEFINE inner == <<"range", i + 1, SkipBalancedParens(X, i, e) - 1>>
               onward == Onward(X, "tables", ListNext(X, i, e), e)
               here == <<"range", i, e>>
    <3>1. /\ X[i] = "(" => g[inner] \in Seq(R)
          /\ g[onward] \in Seq(R) /\ g[here] \in Seq(R)
      BY <1>2, <2>1, <2>3, TableCalls
    <3>2. ASSUME X[i] = "(" PROVE ReadTableList(X, i, e, g) \in Seq(R)
      <4>1. ReadTableList(X, i, e, g) = g[inner] \o VirtualAt(X, i, e) \o g[onward]
        BY <3>2, SubqueryIs
      <4> HIDE DEF inner, onward
      <4>2. g[inner] \o VirtualAt(X, i, e) \in Seq(R)
        BY <3>1, <3>2, <2>0, Concat
      <4> QED
        BY <3>1, <4>1, <4>2, Concat
    <3>3. ASSUME X[i] # "(", IsName(X[i]) PROVE ReadTableList(X, i, e, g) \in Seq(R)
      <4>1. ReadTableList(X, i, e, g) = <<RealAt(X, i, e)>> \o g[onward]
        BY <3>3, TableIs
      <4> HIDE DEF inner, onward
      <4>2. <<RealAt(X, i, e)>> \in Seq(R)
        BY <3>3, <2>0
      <4> QED
        BY <3>1, <4>1, <4>2, Concat
    <3>4. ASSUME X[i] # "(", ~IsName(X[i]) PROVE ReadTableList(X, i, e, g) \in Seq(R)
      BY <3>1, <3>4, NoTableIs
    <3>5. ReadTableList(X, i, e, g) \in Seq(R)
      BY <3>2, <3>3, <3>4
    <3> QED
      BY <1>1, <2>1, <2>3, <3>5 DEF ReadAt, R
  <2>4. CASE list = "ctes"
    <3> DEFINE onward == Onward(X, "ctes", BodyNext(X, i, e), e)
               here == <<"range", i, e>>
    <3> DEFINE inner == <<"range", BodyAt(X, i, e) + 1, BodyNext(X, i, e) - 1>>
    <3>0. /\ g[onward] \in Seq(R) /\ g[here] \in Seq(R)
          /\ Is(X, BodyAt(X, i, e), e, "(") => g[inner] \in Seq(R)
      BY <1>2, <2>1, <2>4, CTECalls
    <3>a. InBody(X, i, e, g) \in Seq(R)
      <4>1. CASE Is(X, BodyAt(X, i, e), e, "(")
        <5>1. InBody(X, i, e, g) = g[inner]
          BY <4>1 DEF InBody
        <5> QED
          BY <3>0, <4>1, <5>1
      <4>2. CASE ~Is(X, BodyAt(X, i, e), e, "(")
        <5>1. InBody(X, i, e, g) = <<>>
          BY <4>2 DEF InBody
        <5>2. <<>> \in Seq(R)
          OBVIOUS
        <5> QED
          BY <5>1, <5>2
      <4> QED
        BY <4>1, <4>2
    <3>1. g[onward] \in Seq(R) /\ g[here] \in Seq(R) /\ InBody(X, i, e, g) \in Seq(R)
      BY <3>0, <3>a
    <3>2. ASSUME IsName(X[i]) PROVE ReadCTEDefinitions(X, i, e, g) \in Seq(R)
      <4>1. ReadCTEDefinitions(X, i, e, g) =
              InBody(X, i, e, g) \o <<Virtual(X[i])>> \o g[onward]
        BY <3>2, CTEIs
      <4> HIDE DEF onward
      <4>2. <<Virtual(X[i])>> \in Seq(R)
        BY <3>2, <2>0
      <4>3. InBody(X, i, e, g) \o <<Virtual(X[i])>> \in Seq(R)
        BY <3>1, <4>2, Concat
      <4> QED
        BY <3>1, <4>1, <4>3, Concat
    <3>3. ASSUME ~IsName(X[i]) PROVE ReadCTEDefinitions(X, i, e, g) \in Seq(R)
      BY <3>1, <3>3, NoCTEIs
    <3>4. ReadCTEDefinitions(X, i, e, g) \in Seq(R)
      BY <3>2, <3>3
    <3> QED
      BY <1>1, <2>1, <2>4, <3>4 DEF ReadAt, R
  <2> QED
    BY <2>2, <2>3, <2>4
<1> QED
  BY <1>3, <1>4 DEF R

\* The type of what is read.
LEMMA ReadsType ==
  ASSUME NEW S, NEW X \in Seq(S)
  PROVE  \A p \in ReadPlaces(X) : Reads(X)[p] \in Seq(ReadSet(S))
<1> DEFINE P == ReadPlaces(X)
           g == Reads(X)
           T == {k \in Nat : \A q \in P : Ahead(q) < k => g[q] \in Seq(ReadSet(S))}
<1> HIDE DEF P, g
<1>0. \A q \in P : Ahead(q) \in Nat /\ Ahead(q) < 2 * Len(X) + 4
  BY AheadBound DEF P
<1>1. 0 \in T
  BY <1>0
<1>2. ASSUME NEW k \in Nat, k \in T PROVE k + 1 \in T
  <2> SUFFICES ASSUME NEW q \in P, Ahead(q) < k + 1 PROVE g[q] \in Seq(ReadSet(S))
    OBVIOUS
  <2>1. \A r \in P : Ahead(r) < Ahead(q) => g[r] \in Seq(ReadSet(S))
    <3>1. Ahead(q) \in Nat /\ Ahead(q) <= k
      BY <1>0
    <3>2. \A r \in P : Ahead(r) < Ahead(q) => Ahead(r) < k
      BY <3>1, <1>0
    <3> QED
      BY <3>2, <1>2
  <2>2. g[q] = ReadAt(X, q, g)
    BY ReadsIs DEF P, g
  <2>3. ReadAt(X, q, g) \in Seq(ReadSet(S))
    BY <2>1, ReadAtType DEF P
  <2> QED
    BY <2>2, <2>3
<1> HIDE DEF T
<1>3. 2 * Len(X) + 4 \in Nat
  OBVIOUS
<1>4. 2 * Len(X) + 4 \in T
  BY <1>1, <1>2, <1>3, Noting!NatSet
<1> QED
  BY <1>0, <1>4 DEF T, P, g
-----------------------------------------------------------------------------
\* The elements of a concatenation.
LEMMA ToSetConcat ==
  ASSUME NEW X, NEW s \in Seq(X), NEW t \in Seq(X)
  PROVE  ToSet(s \o t) = ToSet(s) \cup ToSet(t)
<1>1. /\ Len(s) \in Nat /\ Len(t) \in Nat /\ Len(s \o t) = Len(s) + Len(t)
      /\ \A j \in 1 .. Len(s) : (s \o t)[j] = s[j]
      /\ \A j \in 1 .. Len(t) : (s \o t)[Len(s) + j] = t[j]
      /\ s \o t \in Seq(X)
  BY Concat
<1>2. PICK u : u = s \o t
  OBVIOUS
<1>3. u \in Seq(X) /\ DOMAIN u = 1 .. Len(s) + Len(t) /\ DOMAIN s = 1 .. Len(s)
      /\ DOMAIN t = 1 .. Len(t)
  BY <1>1, <1>2
<1>4. ASSUME NEW x \in ToSet(u) PROVE x \in ToSet(s) \cup ToSet(t)
  <2>1. PICK k \in 1 .. Len(s) + Len(t) : x = u[k]
    BY <1>3, <1>4 DEF ToSet
  <2>2. CASE k <= Len(s)
    BY <2>1, <2>2, <1>1, <1>2, <1>3 DEF ToSet
  <2>3. CASE ~(k <= Len(s))
    <3>1. k - Len(s) \in 1 .. Len(t) /\ Len(s) + (k - Len(s)) = k
      BY <2>3, <1>1
    <3>2. x = t[k - Len(s)]
      BY <3>1, <2>1, <1>1, <1>2
    <3> QED
      BY <3>1, <3>2, <1>3 DEF ToSet
  <2> QED
    BY <2>2, <2>3
<1>5. ASSUME NEW x \in ToSet(s) PROVE x \in ToSet(u)
  <2>1. PICK k \in 1 .. Len(s) : x = s[k]
    BY <1>3, <1>5 DEF ToSet
  <2>2. x = u[k] /\ k \in DOMAIN u
    BY <2>1, <1>1, <1>2, <1>3
  <2> QED
    BY <2>2 DEF ToSet
<1>6. ASSUME NEW x \in ToSet(t) PROVE x \in ToSet(u)
  <2>1. PICK k \in 1 .. Len(t) : x = t[k]
    BY <1>3, <1>6 DEF ToSet
  <2>2. x = u[Len(s) + k] /\ Len(s) + k \in DOMAIN u
    BY <2>1, <1>1, <1>2, <1>3
  <2> QED
    BY <2>2 DEF ToSet
<1> QED
  BY <1>2, <1>4, <1>5, <1>6

\* The elements of no and of one.
LEMMA ToSetSmall ==
  /\ ToSet(<<>>) = {}
  /\ \A x : ToSet(<<x>>) = {x}
BY DEF ToSet
-----------------------------------------------------------------------------
\* What is read from a place on, as a set.
Got(X, list, i, e) == ToSet(Reads(X)[<<list, i, e>>])

\* What is read from a place on, by the function of the extractor that is there.
LEMMA GotAt ==
  ASSUME NEW S, NEW X \in Seq(S), NEW list \in {"range", "tables", "ctes"},
         NEW i \in 1 .. Len(X) + 1, NEW e \in 0 .. Len(X) + 1
  PROVE  /\ i >= e => Got(X, list, i, e) = {}
         /\ i < e => Within(X, i, e) /\ i \in Nat /\ e \in Nat
         /\ i < e /\ list = "range" =>
              Got(X, list, i, e) = ToSet(ExtractTablesRange(X, i, e, Reads(X)))
         /\ i < e /\ list = "tables" =>
              Got(X, list, i, e) = ToSet(ReadTableList(X, i, e, Reads(X)))
         /\ i < e /\ list = "ctes" =>
              Got(X, list, i, e) = ToSet(ReadCTEDefinitions(X, i, e, Reads(X)))
<1>1. <<list, i, e>> \in ReadPlaces(X)
  BY PlaceIs
<1>2. Reads(X)[<<list, i, e>>] = ReadAt(X, <<list, i, e>>, Reads(X))
  BY <1>1, ReadsIs
<1>3. i >= e => ReadAt(X, <<list, i, e>>, Reads(X)) = <<>>
  BY DEF ReadAt
<1>4. i < e => Within(X, i, e) /\ i \in Nat /\ e \in Nat
  BY DEF Within
<1>5. i < e /\ list = "range" =>
        ReadAt(X, <<list, i, e>>, Reads(X)) = ExtractTablesRange(X, i, e, Reads(X))
  BY DEF ReadAt
<1>6. i < e /\ list = "tables" =>
        ReadAt(X, <<list, i, e>>, Reads(X)) = ReadTableList(X, i, e, Reads(X))
  BY DEF ReadAt
<1>7. i < e /\ list = "ctes" =>
        ReadAt(X, <<list, i, e>>, Reads(X)) = ReadCTEDefinitions(X, i, e, Reads(X))
  BY DEF ReadAt
<1> QED
  BY <1>2, <1>3, <1>4, <1>5, <1>6, <1>7, ToSetSmall DEF Got

\* extractTablesRange at one token.
LEMMA GotRange ==
  ASSUME NEW S, NEW X \in Seq(S),
         NEW i \in 1 .. Len(X) + 1, NEW e \in 0 .. Len(X) + 1, i < e
  PROVE  /\ X[i] \notin FromKeywords /\ X[i] # "WITH" =>
              Got(X, "range", i, e) = Got(X, "range", i + 1, e)
         /\ X[i] \in FromKeywords => Got(X, "range", i, e) = Got(X, "tables", i + 1, e)
         /\ X[i] = "WITH" /\ ~Is(X, i + 1, e, "RECURSIVE") =>
              Got(X, "range", i, e) = Got(X, "ctes", i + 1, e)
<1>1. Got(X, "range", i, e) = ToSet(ExtractTablesRange(X, i, e, Reads(X)))
  BY GotAt
<1>2. "WITH" \notin FromKeywords
  BY DEF FromKeywords
<1> QED
  BY <1>1, <1>2 DEF ExtractTablesRange, Got, Skip

\* The elements of three sequences.
LEMMA ToSetConcat3 ==
  ASSUME NEW X, NEW s \in Seq(X), NEW t \in Seq(X), NEW u \in Seq(X)
  PROVE  ToSet(s \o t \o u) = ToSet(s) \cup ToSet(t) \cup ToSet(u)
<1>1. s \o t \in Seq(X) /\ ToSet(s \o t) = ToSet(s) \cup ToSet(t)
  BY Concat, ToSetConcat
<1>2. PICK w : w = s \o t
  OBVIOUS
<1>3. w \in Seq(X) /\ ToSet(w) = ToSet(s) \cup ToSet(t)
  BY <1>1, <1>2
<1>4. ToSet(w \o u) = ToSet(w) \cup ToSet(u)
  BY <1>3, ToSetConcat
<1> QED
  BY <1>2, <1>3, <1>4

\* What is read after an entry of a list that ends before token next.
Rest(X, list, next, e) ==
  IF Is(X, next, e, ",") THEN Got(X, list, next + 1, e) ELSE Got(X, "range", next, e)

\* What is read after an element of a list.
LEMMA GotOnward ==
  ASSUME NEW S, NEW X \in Seq(S), NEW list \in {"tables", "ctes"},
         NEW i \in Nat, NEW e \in Nat, Within(X, i, e), i < e, NEW next \in i + 1 .. e,
         NEW r, r = Reads(X)[Onward(X, list, next, e)]
  PROVE  r \in Seq(ReadSet(S)) /\ ToSet(r) = Rest(X, list, next, e)
<1>1. Onward(X, list, next, e) \in ReadPlaces(X)
  BY NearerOnward DEF Nearer
<1>2. r \in Seq(ReadSet(S))
  BY <1>1, ReadsType
<1>3. ASSUME Is(X, next, e, ",") PROVE ToSet(r) = Rest(X, list, next, e)
  <2>1. Onward(X, list, next, e) = <<list, next + 1, e>>
    BY <1>3 DEF Onward
  <2>2. r = Reads(X)[<<list, next + 1, e>>]
    BY <2>1
  <2>3. Rest(X, list, next, e) = Got(X, list, next + 1, e)
    BY <1>3 DEF Rest
  <2> QED
    BY <2>2, <2>3 DEF Got
<1>4. ASSUME ~Is(X, next, e, ",") PROVE ToSet(r) = Rest(X, list, next, e)
  <2>1. Onward(X, list, next, e) = <<"range", next, e>>
    BY <1>4 DEF Onward
  <2>2. r = Reads(X)[<<"range", next, e>>]
    BY <2>1
  <2>3. Rest(X, list, next, e) = Got(X, "range", next, e)
    BY <1>4 DEF Rest
  <2> QED
    BY <2>2, <2>3 DEF Got
<1> QED
  BY <1>2, <1>3, <1>4

\* readTableList at a table, that ends before token next.
LEMMA GotTable ==
  ASSUME NEW S, NEW X \in Seq(S),
         NEW i \in 1 .. Len(X) + 1, NEW e \in 0 .. Len(X) + 1, i < e,
         X[i] # "(", IsName(X[i]), NEW next, next = ListNext(X, i, e)
  PROVE  /\ next \in i + 1 .. e
         /\ Got(X, "tables", i, e) = {RealAt(X, i, e)} \cup Rest(X, "tables", next, e)
<1>0. i \in Nat /\ e \in Nat /\ Within(X, i, e)
  BY GotAt
<1>1. next \in i + 1 .. e
  BY <1>0, ListNextBound
<1>2. PICK r : r = Reads(X)[Onward(X, "tables", next, e)]
  OBVIOUS
<1>3. PICK t : t = <<RealAt(X, i, e)>>
  OBVIOUS
<1>4. Got(X, "tables", i, e) = ToSet(t \o r)
  <2>1. ReadTableList(X, i, e, Reads(X)) = t \o r
    BY <1>2, <1>3, TableIs
  <2>2. Got(X, "tables", i, e) = ToSet(ReadTableList(X, i, e, Reads(X)))
    BY GotAt
  <2> QED
    BY <2>1, <2>2
<1>5. t \in Seq(ReadSet(S)) /\ r \in Seq(ReadSet(S)) /\ ToSet(r) = Rest(X, "tables", next, e)
  <2>1. t \in Seq(ReadSet(S))
    BY <1>0, <1>3, EntryNames
  <2>2. r \in Seq(ReadSet(S)) /\ ToSet(r) = Rest(X, "tables", next, e)
    BY <1>0, <1>1, <1>2, GotOnward
  <2> QED
    BY <2>1, <2>2
<1>6. ToSet(t \o r) = ToSet(t) \cup ToSet(r)
  BY <1>5, ToSetConcat
<1> QED
  BY <1>1, <1>3, <1>4, <1>5, <1>6, ToSetSmall

\* readTableList at a subquery, with the parenthesis closed before token close.
LEMMA GotSub ==
  ASSUME NEW S, NEW X \in Seq(S),
         NEW i \in 1 .. Len(X) + 1, NEW e \in 0 .. Len(X) + 1, i < e, X[i] = "(",
         NEW close, close = SkipBalancedParens(X, i, e), NEW next, next = ListNext(X, i, e)
  PROVE  /\ next \in i + 1 .. e
         /\ Got(X, "tables", i, e) =
              Got(X, "range", i + 1, close - 1) \cup ToSet(VirtualAt(X, i, e))
                \cup Rest(X, "tables", next, e)
<1>0. i \in Nat /\ e \in Nat /\ Within(X, i, e)
  BY GotAt
<1>1. next \in i + 1 .. e
  BY <1>0, ListNextBound
<1>2. PICK r : r = Reads(X)[Onward(X, "tables", next, e)]
  OBVIOUS
<1>3. PICK t : t = Reads(X)[<<"range", i + 1, close - 1>>]
  OBVIOUS
<1>4. PICK v : v = VirtualAt(X, i, e)
  OBVIOUS
<1>5. Got(X, "tables", i, e) = ToSet(t \o v \o r)
  <2>1. ReadTableList(X, i, e, Reads(X)) = t \o v \o r
    BY <1>2, <1>3, <1>4, SubqueryIs
  <2>2. Got(X, "tables", i, e) = ToSet(ReadTableList(X, i, e, Reads(X)))
    BY GotAt
  <2> QED
    BY <2>1, <2>2
<1>6. /\ t \in Seq(ReadSet(S)) /\ v \in Seq(ReadSet(S)) /\ r \in Seq(ReadSet(S))
      /\ ToSet(r) = Rest(X, "tables", next, e)
  <2>1. <<"range", i + 1, close - 1>> \in ReadPlaces(X)
    BY <1>0, TableCalls DEF Nearer
  <2>2. t \in Seq(ReadSet(S))
    BY <2>1, <1>3, ReadsType
  <2>3. v \in Seq(ReadSet(S))
    BY <1>0, <1>4, EntryNames
  <2>4. r \in Seq(ReadSet(S)) /\ ToSet(r) = Rest(X, "tables", next, e)
    BY <1>0, <1>1, <1>2, GotOnward
  <2> QED
    BY <2>2, <2>3, <2>4
<1>7. ToSet(t \o v \o r) = ToSet(t) \cup ToSet(v) \cup ToSet(r)
  BY <1>6, ToSetConcat3
<1> QED
  BY <1>1, <1>3, <1>4, <1>5, <1>6, <1>7 DEF Got

\* readCTEDefinitions at a name whose body is between parentheses.
LEMMA GotCTE ==
  ASSUME NEW S, NEW X \in Seq(S),
         NEW i \in 1 .. Len(X) + 1, NEW e \in 0 .. Len(X) + 1, i < e, IsName(X[i]),
         NEW body, body = BodyAt(X, i, e), NEW next, next = BodyNext(X, i, e),
         Is(X, body, e, "(")
  PROVE  /\ next \in i + 1 .. e
         /\ Got(X, "ctes", i, e) =
              Got(X, "range", body + 1, next - 1) \cup {Virtual(X[i])}
                \cup Rest(X, "ctes", next, e)
<1>0. i \in Nat /\ e \in Nat /\ Within(X, i, e)
  BY GotAt
<1>1. next \in i + 1 .. e
  BY <1>0, BodyBound
<1>2. PICK r : r = Reads(X)[Onward(X, "ctes", next, e)]
  OBVIOUS
<1>3. PICK t : t = Reads(X)[<<"range", body + 1, next - 1>>]
  OBVIOUS
<1>4. PICK v : v = <<Virtual(X[i])>>
  OBVIOUS
<1>5. Got(X, "ctes", i, e) = ToSet(t \o v \o r)
  <2>1. InBody(X, i, e, Reads(X)) = t
    BY <1>3 DEF InBody
  <2>2. ReadCTEDefinitions(X, i, e, Reads(X)) = t \o v \o r
    BY <2>1, <1>2, <1>4, CTEIs
  <2>3. Got(X, "ctes", i, e) = ToSet(ReadCTEDefinitions(X, i, e, Reads(X)))
    BY GotAt
  <2> QED
    BY <2>2, <2>3
<1>6. /\ t \in Seq(ReadSet(S)) /\ v \in Seq(ReadSet(S)) /\ r \in Seq(ReadSet(S))
      /\ ToSet(r) = Rest(X, "ctes", next, e)
  <2>1. <<"range", body + 1, next - 1>> \in ReadPlaces(X)
    BY <1>0, CTECalls DEF Nearer
  <2>2. t \in Seq(ReadSet(S))
    BY <2>1, <1>3, ReadsType
  <2>3. v \in Seq(ReadSet(S))
    BY <1>0, <1>4, EntryNames
  <2>4. r \in Seq(ReadSet(S)) /\ ToSet(r) = Rest(X, "ctes", next, e)
    BY <1>0, <1>1, <1>2, GotOnward
  <2> QED
    BY <2>2, <2>3, <2>4
<1>7. ToSet(t \o v \o r) = ToSet(t) \cup ToSet(v) \cup ToSet(r)
  BY <1>6, ToSetConcat3
<1> QED
  BY <1>1, <1>3, <1>4, <1>5, <1>6, <1>7, ToSetSmall DEF Got
-----------------------------------------------------------------------------
(* The statements of a text, and their tokens. *)

\* Everything a text calls something.
AnyName ==
  Names \cup Aliases \cup WithNames \cup FlatNames \cup {"a", "id", "orders", "total", "v"}
AnySchema == Schemas \ {""}

\* A schema name is the name of nothing else.
LEMMA SchemaIsNoName ==
  ASSUME NEW n \in AnySchema
  PROVE  n \notin AnyName /\ ~HasTable(n)
BY SchemasAssumption DEF AnySchema, AnyName

\* Names are no keywords and no punctuation.
LEMMA NamesAre ==
  ASSUME NEW n \in AnyName \cup AnySchema
  PROVE  /\ IsName(n) /\ IsIdent(n)
         /\ n \notin StopWords \cup FromKeywords \cup Punctuation
                       \cup {"", "RECURSIVE", "NOT", "MATERIALIZED", "VALUES", "SET"}
<1>1. IsName(n) /\ n \notin {"", "RECURSIVE", "NOT", "MATERIALIZED"}
  BY NamesAssumption DEF AnyName, AnySchema, IsName, IsIdent, Punctuation, StopWords, FromKeywords
<1> QED
  BY <1>1 DEF IsName, IsIdent, StopWords

Syntax == {"SELECT", "FROM", "CROSS", "JOIN", "WITH", "AS", "WHERE", "EXISTS", "AND",
           "CREATE", "VIEW", "UPDATE", "SET", ".", ",", "(", ")", "=", ";"}
Word == AnyName \cup AnySchema \cup Syntax

\* No word is empty.
LEMMA NoEmptyWord == "" \notin Word
BY NamesAre DEF Word, Syntax

RefSet == [qualifier : AnyName, column : AnyName]
TableSet == [kind : {"table"}, schema : Schemas \cup {""}, name : AnyName, alias : AnyName]
AliasesDiffer(from) ==
  Len(from) \in {1, 2} /\ \A i, j \in DOMAIN from : i # j => from[i].alias # from[j].alias
FlatSet ==
  {q \in [kind : {"query"}, with : {<<>>}, ref : RefSet, from : Seq(TableSet),
          comma : BOOLEAN, where : {<<>>}] : AliasesDiffer(q.from)}
SubSet == [kind : {"sub"}, query : FlatSet, alias : AnyName]
SourceSet == TableSet \cup SubSet
WithSet == [name : AnyName, query : FlatSet]
WhereSet == [query : FlatSet, last : RefSet]

QuerySet ==
  {q \in [kind : {"query"}, with : {<<>>} \cup {<<w>> : w \in WithSet}, ref : RefSet,
          from : Seq(SourceSet), comma : BOOLEAN,
          where : {<<>>} \cup {<<w>> : w \in WhereSet}] : AliasesDiffer(q.from)}
ViewSet == [kind : {"view"}, query : QuerySet]
UpdateSet == [kind : {"update"}, from : TableSet, ref : RefSet]
StatementSet == QuerySet \cup ViewSet \cup UpdateSet
DocType == doc \in Seq(StatementSet)

\* The type of a table in FROM.
LEMMA TableType ==
  ASSUME NEW s \in Schemas \cup {""}, NEW n \in AnyName, NEW a \in AnyName
  PROVE  Table(s, n, a) \in TableSet /\ Table(s, n, a).alias = a
BY DEF Table, TableSet

\* The type of the tables that are written.
LEMMA TablesType ==
  ASSUME NEW schemas \in SUBSET (Schemas \cup {""}), NEW names \in SUBSET AnyName,
         NEW aliases \in SUBSET AnyName
  PROVE  Tables(schemas, names, aliases) \in SUBSET TableSet
BY DEF Tables, TableSet

\* The type of the sources.
LEMMA SourcesType == Sources \in SUBSET TableSet
<1>1. Names \in SUBSET AnyName /\ Aliases \in SUBSET AnyName
      /\ {""} \in SUBSET (Schemas \cup {""})
  BY DEF AnyName
<1> QED
  BY <1>1, TablesType DEF Sources

\* One or two sources.
LEMMA OneSource ==
  ASSUME NEW S, NEW s \in S
  PROVE  <<s>> \in Seq(S) /\ AliasesDiffer(<<s>>)
BY DEF AliasesDiffer

\* Two sources with different aliases.
LEMMA TwoSources ==
  ASSUME NEW S, NEW s \in S, NEW t \in S, s.alias # t.alias
  PROVE  <<s, t>> \in Seq(S) /\ AliasesDiffer(<<s, t>>)
<1>1. PICK f : f = <<s, t>>
  OBVIOUS
<1>2. f \in Seq(S) /\ Len(f) = 2 /\ DOMAIN f = {1, 2} /\ f[1] = s /\ f[2] = t
  BY <1>1
<1> QED
  BY <1>1, <1>2 DEF AliasesDiffer

\* The type of a query from one table.
LEMMA FlatOne ==
  ASSUME NEW s \in TableSet, NEW r \in RefSet, NEW q, q = Query(<<>>, r, <<s>>, FALSE, <<>>)
  PROVE  q \in FlatSet /\ q.from = <<s>> /\ q.ref = r
<1>1. PICK f : f = <<s>>
  OBVIOUS
<1>2. f \in Seq(TableSet) /\ AliasesDiffer(f)
  BY <1>1, OneSource
<1>3. q = Query(<<>>, r, f, FALSE, <<>>) /\ q.from = f /\ q.ref = r
  BY <1>1 DEF Query
<1>4. q \in FlatSet
  BY <1>2, <1>3 DEF FlatSet, Query
<1> QED
  BY <1>1, <1>3, <1>4

\* The type of the flat queries, which are from one source each.
LEMMA FlatType ==
  ASSUME NEW sources \in SUBSET TableSet, NEW aliases \in SUBSET AnyName
  PROVE  \A q \in Flat(sources, aliases) :
           /\ q \in FlatSet
           /\ \E s \in sources : q.from = <<s>>
<1> SUFFICES ASSUME NEW q \in Flat(sources, aliases)
             PROVE  q \in FlatSet /\ \E t \in sources : q.from = <<t>>
  OBVIOUS
<1>0. PICK s \in sources :
        q \in {Query(<<>>, r, <<s>>, FALSE, <<>>) :
                 r \in [qualifier : aliases \cup {s.alias}, column : {"id", "total"}]}
  BY DEF Flat
<1>1. PICK r \in [qualifier : aliases \cup {s.alias}, column : {"id", "total"}] :
        q = Query(<<>>, r, <<s>>, FALSE, <<>>)
  BY <1>0
<1>2. s \in TableSet /\ s.alias \in AnyName
  BY DEF TableSet
<1>3. r \in RefSet
  BY <1>2 DEF RefSet, AnyName
<1>4. q \in FlatSet /\ q.from = <<s>>
  BY <1>1, <1>2, <1>3, FlatOne
<1> QED
  BY <1>4

\* A flat query is a query.
LEMMA FlatIsQuery ==
  ASSUME NEW q \in FlatSet
  PROVE  q \in QuerySet
<1>1. q.from \in Seq(TableSet) /\ TableSet \subseteq SourceSet
  BY DEF FlatSet, SourceSet
<1>2. q.from \in Seq(SourceSet)
  BY <1>1
<1> QED
  BY <1>2 DEF FlatSet, QuerySet

\* The type of the subqueries.
LEMMA InnerType ==
  /\ Inner \subseteq FlatSet
  /\ Joined \subseteq FlatSet
<1>1. FlatQueries \subseteq FlatSet /\ \A q \in FlatQueries : \E s \in Sources : q.from = <<s>>
  <2>1. Aliases \in SUBSET AnyName /\ Sources \in SUBSET TableSet
    BY SourcesType DEF AnyName
  <2> QED
    BY <2>1, FlatType DEF FlatQueries
<1>2. Inner \subseteq FlatQueries
  BY DEF Inner
<1>3. ASSUME NEW q \in Joined PROVE q \in FlatSet
  <2> DEFINE t == Table("", "orders", "orders")
  <2>0. t \in TableSet /\ t.alias = "orders"
    BY TableType DEF AnyName
  <2> HIDE DEF t
  <2>1. PICK p \in Inner : /\ p.from[1].alias # "orders"
                           /\ q = [p EXCEPT !.from = Append(@, t)]
    BY <1>3 DEF Joined, t
  <2>2. PICK s \in Sources : p.from = <<s>>
    BY <1>1, <1>2
  <2>3. s \in TableSet /\ s.alias # t.alias
    BY <2>0, <2>1, <2>2, SourcesType
  <2>4. PICK f : f = <<s, t>>
    OBVIOUS
  <2>5. f \in Seq(TableSet) /\ AliasesDiffer(f)
    BY <2>0, <2>3, <2>4, TwoSources
  <2>6. p \in FlatSet /\ q = [p EXCEPT !.from = f]
    BY <1>1, <1>2, <2>1, <2>2, <2>4
  <2> QED
    BY <2>5, <2>6 DEF FlatSet
<1> QED
  BY <1>1, <1>2, <1>3

\* The type of a query, by its parts.
LEMMA QueryType ==
  ASSUME NEW with \in {<<>>} \cup {<<w>> : w \in WithSet}, NEW r \in RefSet,
         NEW from \in Seq(SourceSet), AliasesDiffer(from), NEW comma \in BOOLEAN,
         NEW where \in {<<>>} \cup {<<w>> : w \in WhereSet}
  PROVE  Query(with, r, from, comma, where) \in QuerySet
BY DEF QuerySet, Query

\* Concatenation, element by element, for a name of the result.
LEMMA ConcatIs ==
  ASSUME NEW X, NEW s \in Seq(X), NEW t \in Seq(X), NEW w, w = s \o t
  PROVE  /\ w \in Seq(X)
         /\ Len(s) \in Nat /\ Len(t) \in Nat /\ Len(w) = Len(s) + Len(t)
         /\ \A j \in 1 .. Len(s) : w[j] = s[j]
         /\ \A j \in 1 .. Len(t) : w[Len(s) + j] = t[j]
BY Concat

\* A sequence of two.
LEMMA PairIs ==
  ASSUME NEW x, NEW y
  PROVE  /\ <<x>> \o <<y>> = <<x, y>> /\ Len(<<x, y>>) = 2
         /\ <<x, y>>[1] = x /\ <<x, y>>[2] = y
<1>0. PICK X, u, v : X = {x, y} /\ u = <<x>> /\ v = <<y>>
  OBVIOUS
<1>1. /\ u \in Seq(X) /\ Len(u) = 1 /\ u[1] = x
      /\ v \in Seq(X) /\ Len(v) = 1 /\ v[1] = y
  BY <1>0
<1>2. PICK w : w = u \o v
  OBVIOUS
<1>a. u \in Seq(X) /\ v \in Seq(X)
  BY <1>1
<1>3. /\ w \in Seq(X) /\ Len(w) = Len(u) + Len(v)
      /\ \A j \in 1 .. Len(u) : w[j] = u[j]
      /\ \A j \in 1 .. Len(v) : w[Len(u) + j] = v[j]
  BY <1>a, <1>2, ConcatIs
<1>4. w \in Seq(X) /\ Len(w) = 2 /\ w[1] = x /\ w[2] = y
  <2>1. 1 \in 1 .. Len(u) /\ 1 \in 1 .. Len(v) /\ Len(u) + 1 = 2
    BY <1>1
  <2> QED
    BY <1>1, <1>3, <2>1
<1>5. w = <<x, y>>
  BY <1>4
<1> QED
  BY <1>0, <1>2, <1>4, <1>5

\* Writing a statement, or one more, keeps the type.
LEMMA AppendType ==
  ASSUME DocType, NEW q \in StatementSet, doc' = Append(doc, q)
  PROVE  DocType'
<1>1. doc \in Seq(StatementSet)
  BY DEF DocType
<1>2. Append(doc, q) \in Seq(StatementSet)
  BY <1>1
<1> HIDE DEF StatementSet
<1> QED
  BY <1>2 DEF DocType

LEMMA WriteType ==
  ASSUME NEW q \in StatementSet, Write(q)
  PROVE  DocType'
<1>1. <<q>> \in Seq(StatementSet)
  OBVIOUS
<1>2. doc' = <<q>>
  BY DEF Write
<1> HIDE DEF StatementSet
<1> QED
  BY <1>1, <1>2 DEF DocType

\* Writing a query keeps the type.
LEMMA WriteQueryType ==
  ASSUME NEW first \in SourceSet, WriteQuery(first)
  PROVE  DocType'
<1>1. PICK r \in Refs, comma \in Commas,
           rest \in {<<>>} \cup {<<s>> : s \in Sources \cup Tables(Schemas \ {""}, FlatNames, {})} :
        LET from == <<first>> \o rest
        IN  /\ Len(from) = 2 => from[1].alias # from[2].alias
            /\ Write(Query(<<>>, r, from, comma, <<>>))
  BY DEF WriteQuery
<1> DEFINE from == <<first>> \o rest
<1>2. rest = <<>> \/ \E s \in TableSet : rest = <<s>>
  <2>1. Schemas \ {""} \in SUBSET (Schemas \cup {""}) /\ FlatNames \in SUBSET AnyName
        /\ {} \in SUBSET AnyName
    BY DEF AnyName
  <2>2. Tables(Schemas \ {""}, FlatNames, {}) \in SUBSET TableSet
    BY <2>1, TablesType
  <2> QED
    BY <2>2, SourcesType
<1>3. from \in Seq(SourceSet) /\ AliasesDiffer(from)
  <2>1. CASE rest = <<>>
    <3>1. from = <<first>>
      BY <2>1
    <3> QED
      BY <3>1, OneSource
  <2>2. ASSUME NEW s \in TableSet, rest = <<s>> PROVE from \in Seq(SourceSet) /\ AliasesDiffer(from)
    <3>0. Len(from) = 2 => from[1].alias # from[2].alias
      BY <1>1
    <3>1. from = <<first, s>>
      BY <2>2, PairIs
    <3>2. s \in SourceSet
      BY DEF SourceSet
    <3> HIDE DEF from
    <3>3. first.alias # s.alias
      BY <3>0, <3>1, PairIs
    <3> QED
      BY <3>1, <3>2, <3>3, TwoSources
  <2> QED
    BY <1>2, <2>1, <2>2
<1>4. r \in RefSet /\ comma \in BOOLEAN
  BY NamesAssumption DEF Refs, RefSet, AnyName
<1>5. PICK q : q = Query(<<>>, r, from, comma, <<>>)
  OBVIOUS
<1>6. Write(q)
  BY <1>1, <1>5
<1> HIDE DEF from
<1>7. q \in StatementSet
  BY <1>3, <1>4, <1>5, QueryType DEF StatementSet
<1> QED
  BY <1>6, <1>7, WriteType

\* The type of the references.
LEMMA RefsType == Refs \in SUBSET RefSet
BY DEF Refs, RefSet, AnyName

\* Writing a query with WITH keeps the type.
LEMMA WriteWithType ==
  ASSUME NEW p \in Inner, WriteWith(p)
  PROVE  DocType'
<1>1. PICK name \in WithNames, r \in Refs, s \in Sources :
        Write(Query(<<[name |-> name, query |-> p]>>, r, <<s>>, FALSE, <<>>))
  BY DEF WriteWith
<1>2. PICK w : w = [name |-> name, query |-> p]
  OBVIOUS
<1>3. w \in WithSet
  BY <1>2, InnerType DEF WithSet, AnyName
<1>4. PICK f : f = <<s>>
  OBVIOUS
<1>5. s \in SourceSet
  BY SourcesType DEF SourceSet
<1>6. f \in Seq(SourceSet) /\ AliasesDiffer(f)
  BY <1>4, <1>5, OneSource
<1>7. PICK q : q = Query(<<w>>, r, f, FALSE, <<>>)
  OBVIOUS
<1>8. Write(q)
  BY <1>1, <1>2, <1>4, <1>7
<1>9. r \in RefSet
  BY RefsType
<1>10. <<w>> \in {<<>>} \cup {<<x>> : x \in WithSet} /\ FALSE \in BOOLEAN
       /\ <<>> \in {<<>>} \cup {<<x>> : x \in WhereSet}
  BY <1>3
<1>11. q \in StatementSet
  BY <1>6, <1>7, <1>9, <1>10, QueryType DEF StatementSet
<1> QED
  BY <1>8, <1>11, WriteType

\* Writing a query with WHERE keeps the type.
LEMMA WriteWhereType ==
  ASSUME NEW p \in Inner, WriteWhere(p)
  PROVE  DocType'
<1>1. PICK a \in Aliases, r \in Refs, s \in Sources :
        Write(Query(<<>>, r, <<s>>, FALSE, <<[query |-> p, last |-> Ref(a, "id")]>>))
  BY DEF WriteWhere
<1>2. PICK w : w = [query |-> p, last |-> Ref(a, "id")]
  OBVIOUS
<1>3. w \in WhereSet
  BY <1>2, InnerType DEF WhereSet, AnyName, Ref, RefSet
<1>4. PICK f : f = <<s>>
  OBVIOUS
<1>5. s \in SourceSet
  BY SourcesType DEF SourceSet
<1>6. f \in Seq(SourceSet) /\ AliasesDiffer(f)
  BY <1>4, <1>5, OneSource
<1>7. PICK q : q = Query(<<>>, r, f, FALSE, <<w>>)
  OBVIOUS
<1>8. Write(q)
  BY <1>1, <1>2, <1>4, <1>7
<1>9. r \in RefSet
  BY RefsType
<1>10. <<w>> \in {<<>>} \cup {<<x>> : x \in WhereSet} /\ FALSE \in BOOLEAN
       /\ <<>> \in {<<>>} \cup {<<x>> : x \in WithSet}
  BY <1>3
<1>11. q \in StatementSet
  BY <1>6, <1>7, <1>9, <1>10, QueryType DEF StatementSet
<1> QED
  BY <1>8, <1>11, WriteType

\* The type of the statements that follow one another.
LEMMA FlatStatementsType == FlatStatements \subseteq StatementSet
<1> DEFINE queries == Flat(Tables(Schemas, FlatNames, {"a"}), {"a"})
<1>1. \A q \in queries : q \in FlatSet /\ \E s \in TableSet : q.from = <<s>>
  <2>1. Schemas \in SUBSET (Schemas \cup {""}) /\ FlatNames \in SUBSET AnyName
        /\ {"a"} \in SUBSET AnyName
    BY DEF AnyName
  <2>2. Tables(Schemas, FlatNames, {"a"}) \in SUBSET TableSet
    BY <2>1, TablesType
  <2> QED
    BY <2>1, <2>2, FlatType
<1>2. FlatStatements =
        queries \cup {View(q) : q \in queries} \cup {Update(q.from[1], q.ref) : q \in queries}
  BY DEF FlatStatements
<1> HIDE DEF queries
<1>3. ASSUME NEW q \in queries
      PROVE  q \in StatementSet /\ View(q) \in StatementSet
             /\ Update(q.from[1], q.ref) \in StatementSet
  <2>1. q \in QuerySet
    BY <1>1, FlatIsQuery
  <2>2. View(q) \in ViewSet
    BY <2>1 DEF View, ViewSet
  <2>3. Update(q.from[1], q.ref) \in UpdateSet
    <3>1. q.from[1] \in TableSet /\ q.ref \in RefSet
      BY <1>1 DEF FlatSet
    <3> QED
      BY <3>1 DEF Update, UpdateSet
  <2> QED
    BY <2>1, <2>2, <2>3 DEF StatementSet
<1> QED
  BY <1>2, <1>3

\* The texts are made of the statements that the references and tables of the query
\* language give, each with names only where a name stands (Scoping).
THEOREM DocTyping == MCSpec => []DocType
<1>1. MCInit => DocType
  BY DEF MCInit, DocType
<1>2. DocType /\ [MCNext]_doc => DocType'
  <2> SUFFICES ASSUME DocType, [MCNext]_doc PROVE DocType'
    OBVIOUS
  <2>1. ASSUME NEW s \in Sources, WriteQuery(s) PROVE DocType'
    <3>1. s \in SourceSet
      BY SourcesType DEF SourceSet
    <3> QED
      BY <2>1, <3>1, WriteQueryType
  <2>2. ASSUME NEW q \in Inner \cup Joined, NEW a \in Aliases, WriteQuery(Sub(q, a))
        PROVE  DocType'
    <3>1. q \in FlatSet /\ a \in AnyName
      BY InnerType DEF AnyName
    <3>2. Sub(q, a) \in SourceSet
      BY <3>1 DEF Sub, SourceSet, SubSet
    <3> QED
      BY <2>2, <3>2, WriteQueryType
  <2>3. ASSUME WriteFlat PROVE DocType'
    <3>1. PICK s \in FlatStatements : doc' = Append(doc, s)
      BY <2>3 DEF WriteFlat
    <3>2. s \in StatementSet
      BY FlatStatementsType
    <3> QED
      BY <3>1, <3>2, AppendType
  <2>4. CASE UNCHANGED doc
    BY <2>4 DEF DocType
  <2> QED
    BY <2>1, <2>2, <2>3, <2>4, WriteWithType, WriteWhereType DEF MCNext
<1> QED
  BY <1>1, <1>2, PTL DEF MCSpec
-----------------------------------------------------------------------------
(* Tokens and verdicts. *)

Tok == [text : Word, says : {"right", "wrong", "free"}, to : Seq(AnyName),
        at : {"", "table", "column"}]

\* A token of syntax.
LEMMA PlainTok ==
  ASSUME NEW x \in Word
  PROVE  /\ Plain(x) \in Tok /\ Plain(x).text = x /\ Plain(x).says = "right"
         /\ Plain(x).to = None /\ Plain(x).at = ""
<1>1. None \in Seq(AnyName)
  BY DEF None
<1> QED
  BY <1>1 DEF Plain, Token, Tok

\* The fields of an entry.
LEMMA EntryFields ==
  ASSUME NEW t, NEW c
  PROVE  Entry(t, c).table = t /\ Entry(t, c).columns = c
BY DEF Entry

\* A missing table has no columns.
LEMMA MissingIs == Missing.columns = {}
BY DEF Missing, Entry

\* Appending to a sequence of one.
LEMMA AppendOne ==
  ASSUME NEW x, NEW y
  PROVE  Append(<<x>>, y) = <<x, y>> /\ <<x>> # <<>>
<1>0. PICK X, u : X = {x, y} /\ u = <<x>>
  OBVIOUS
<1>1. u \in Seq(X) /\ Len(u) = 1 /\ u[1] = x /\ y \in X
  BY <1>0
<1>2. PICK v : v = Append(u, y)
  OBVIOUS
<1>3. v \in Seq(X) /\ Len(v) = 2 /\ v[1] = x /\ v[2] = y
  <2>1. u \in Seq(X) /\ y \in X
    BY <1>1
  <2>2. v \in Seq(X) /\ Len(v) = Len(u) + 1 /\ v[Len(u) + 1] = y
        /\ \A i \in 1 .. Len(u) : v[i] = u[i]
    BY <2>1, <1>2, AppendProperties
  <2>3. 1 \in 1 .. Len(u) /\ Len(u) + 1 = 2
    BY <1>1
  <2> QED
    BY <1>1, <2>2, <2>3
<1>4. v = <<x, y>>
  BY <1>3
<1> QED
  BY <1>0, <1>2, <1>4

\* What names are bound to.
Binds(B, name) == \E b \in B : b[1] = name
Means(B, name, table) == IF Binds(B, name) THEN <<name, table>> \in B ELSE name = table

\* No name is bound to two things, or hides a table.
Consistent(B) ==
  /\ \A b \in B : b = <<b[1], b[2]>> /\ ~HasTable(b[1])
  /\ \A b1, b2 \in B : b1[1] = b2[1] => b1[2] = b2[2]

\* A name means one thing.
LEMMA MeansOne ==
  ASSUME NEW B, Consistent(B), NEW n, NEW t, NEW u, Means(B, n, t), Means(B, n, u)
  PROVE  t = u
<1>1. CASE Binds(B, n)
  <2>1. <<n, t>> \in B /\ <<n, u>> \in B
    BY <1>1 DEF Means
  <2>2. <<n, t>>[1] = n /\ <<n, u>>[1] = n /\ <<n, t>>[2] = t /\ <<n, u>>[2] = u
    OBVIOUS
  <2> QED
    BY <2>1, <2>2 DEF Consistent
<1>2. CASE ~Binds(B, n)
  BY <1>2 DEF Means
<1> QED
  BY <1>1, <1>2

\* The entry of a name in a scope tells what the name means.
EntryMeans(B, name, entry) ==
  \/ entry = Missing
  \/ /\ entry.table = ""
     /\ Consistent(B) => Binds(B, name) /\ \E t : Means(B, name, t) /\ ~HasTable(t)
  \/ /\ entry.table \in AnyName /\ HasTable(entry.table)
     /\ entry.columns = Columns[entry.table]
     /\ Consistent(B) => Means(B, name, entry.table)

\* The names of WITH that are in scope.
CtesBound(B, ctes) == \A c \in DOMAIN ctes : <<c, c>> \in B

\* A source's entry is what its alias means.
LEMMA EntryOfMeans ==
  ASSUME NEW B, NEW ctes, CtesBound(B, ctes),
         NEW s \in SourceSet, BoundBySource(s) \subseteq B
  PROVE  EntryMeans(B, s.alias, EntryOf(s, ctes))
<1>0. "" \notin AnyName
  BY NamesAre
<1>1. CASE s \in SubSet
  <2>1. s.kind = "sub" /\ <<s.alias, s.alias>> \in B
    BY <1>1 DEF SubSet, BoundBySource
  <2>2. EntryOf(s, ctes) = Entry("", {s.query.ref.column})
    BY <2>1 DEF EntryOf
  <2>3. <<s.alias, s.alias>>[1] = s.alias
    OBVIOUS
  <2>4. Consistent(B) =>
          Binds(B, s.alias) /\ Means(B, s.alias, s.alias) /\ ~HasTable(s.alias)
    BY <2>1, <2>3 DEF Binds, Means, Consistent
  <2>5. EntryOf(s, ctes).table = ""
    <3>1. PICK en : en = EntryOf(s, ctes)
      OBVIOUS
    <3>2. en = Entry("", {s.query.ref.column})
      BY <2>2, <3>1
    <3>3. en.table = ""
      BY <3>2 DEF Entry
    <3> QED
      BY <3>1, <3>3
  <2> QED
    BY <2>4, <2>5 DEF EntryMeans
<1>2. CASE s \in TableSet
  <2>1. s.kind = "table" /\ s.name \in AnyName /\ s.alias \in AnyName
    BY <1>2 DEF TableSet
  <2>2. s.alias # s.name => <<s.alias, s.name>> \in B
    BY <2>1 DEF BoundBySource, BoundByTable
  <2>3. <<s.alias, s.name>>[1] = s.alias /\ <<s.name, s.name>>[1] = s.name
    OBVIOUS
  <2>4. CASE s.schema = "" /\ s.name \in DOMAIN ctes
    <3>1. EntryOf(s, ctes) = Entry("", ctes[s.name])
      BY <2>1, <2>4 DEF EntryOf
    <3>2. <<s.name, s.name>> \in B /\ (Consistent(B) => ~HasTable(s.name))
      BY <2>3, <2>4 DEF CtesBound, Consistent
    <3>3. Consistent(B) => Binds(B, s.alias) /\ Means(B, s.alias, s.name)
      BY <2>2, <2>3, <3>2 DEF Binds, Means
    <3>4. EntryOf(s, ctes).table = ""
      <4>1. PICK en : en = EntryOf(s, ctes)
        OBVIOUS
      <4>2. en = Entry("", ctes[s.name])
        BY <3>1, <4>1
      <4>3. en.table = ""
        BY <4>2 DEF Entry
      <4> QED
        BY <4>1, <4>3
    <3> QED
      BY <3>2, <3>3, <3>4 DEF EntryMeans
  <2>5. CASE ~(s.schema = "" /\ s.name \in DOMAIN ctes) /\ HasTable(s.name)
    <3>1. EntryOf(s, ctes) = Entry(s.name, Columns[s.name])
      BY <2>1, <2>5 DEF EntryOf
    <3>2. ASSUME Consistent(B) PROVE Means(B, s.alias, s.name)
      <4>1. CASE s.alias = s.name
        <5>1. ~Binds(B, s.name)
          BY <2>5, <3>2 DEF Consistent, Binds
        <5> QED
          BY <4>1, <5>1 DEF Means
      <4>2. CASE s.alias # s.name
        BY <4>2, <2>2, <2>3 DEF Means, Binds
      <4> QED
        BY <4>1, <4>2
    <3>3. EntryOf(s, ctes).table = s.name /\ EntryOf(s, ctes).columns = Columns[s.name]
      BY <3>1, EntryFields
    <3> QED
      BY <3>2, <3>3, <2>1, <2>5 DEF EntryMeans
  <2>6. CASE ~(s.schema = "" /\ s.name \in DOMAIN ctes) /\ ~HasTable(s.name)
    <3>1. EntryOf(s, ctes) = Missing
      BY <2>1, <2>6 DEF EntryOf
    <3> QED
      BY <3>1 DEF EntryMeans
  <2> QED
    BY <2>4, <2>5, <2>6
<1> QED
  BY <1>1, <1>2 DEF SourceSet

FrameMeans(B, frame) == \A a \in DOMAIN frame : EntryMeans(B, a, frame[a])

\* A frame has the aliases of its sources.
LEMMA FrameDomain ==
  ASSUME NEW from, NEW ctes
  PROVE  DOMAIN Frame(from, ctes) = {from[i].alias : i \in DOMAIN from}
BY DEF Frame

\* An entry of a frame is that of a source.
LEMMA FrameIs ==
  ASSUME NEW from, NEW ctes, NEW a \in DOMAIN Frame(from, ctes)
  PROVE  \E i \in DOMAIN from :
           from[i].alias = a /\ Frame(from, ctes)[a] = EntryOf(from[i], ctes)
<1> DEFINE k == CHOOSE i \in DOMAIN from : from[i].alias = a
<1>0. a \in {from[i].alias : i \in DOMAIN from}
  BY FrameDomain
<1>1. k \in DOMAIN from /\ from[k].alias = a
  BY <1>0
<1>2. Frame(from, ctes)[a] = EntryOf(from[k], ctes)
  BY <1>0 DEF Frame
<1> HIDE DEF k
<1> QED
  BY <1>1, <1>2

\* What a frame says of a name is what the name means.
LEMMA FrameOfMeans ==
  ASSUME NEW B, NEW ctes, CtesBound(B, ctes),
         NEW from \in Seq(SourceSet), \A i \in DOMAIN from : BoundBySource(from[i]) \subseteq B
  PROVE  FrameMeans(B, Frame(from, ctes))
<1> SUFFICES ASSUME NEW a \in DOMAIN Frame(from, ctes)
             PROVE  EntryMeans(B, a, Frame(from, ctes)[a])
  BY DEF FrameMeans
<1>1. PICK i \in DOMAIN from :
        from[i].alias = a /\ Frame(from, ctes)[a] = EntryOf(from[i], ctes)
  BY FrameIs
<1>2. from[i] \in SourceSet
  OBVIOUS
<1> QED
  BY <1>1, <1>2, EntryOfMeans

\* The verdict on a qualifier and on the column after it.
QualifierVerdict(B, known, l) ==
  Consistent(B) =>
  /\ l.says = "right" => HasTable(l.text) \/ Binds(B, l.text)
  /\ l.says = "wrong" => ~HasTable(l.text) /\ l.text \notin known
  /\ l.to # None => \E t : l.to = <<t>> /\ Means(B, l.text, t) /\ HasTable(t)

ColumnVerdict(B, qualifier, r) ==
  Consistent(B) =>
  /\ r.says = "right" => \A t : Means(B, qualifier, t) /\ HasTable(t) => HasColumn(t, r.text)
  /\ r.says = "wrong" =>
       \E t : Means(B, qualifier, t) /\ HasTable(t) /\ ~HasColumn(t, r.text)
  /\ r.to # None =>
       \E t : r.to = <<t, r.text>> /\ Means(B, qualifier, t) /\ HasColumn(t, r.text)
IsQualifier(B, known, name, l) ==
  l \in Tok /\ l.text = name /\ l.at = "column" /\ QualifierVerdict(B, known, l)
IsColumn(B, qualifier, name, r) ==
  r \in Tok /\ r.text = name /\ r.at = "" /\ ColumnVerdict(B, qualifier, r)

\* What a reference is written as.
LEMMA RefShape ==
  ASSUME NEW B, NEW known, NEW ref \in RefSet,
         NEW frames, DOMAIN frames \in SUBSET Nat,
         \A i \in DOMAIN frames : FrameMeans(B, frames[i])
  PROVE  \E l, r :
           /\ RefTokens(ref, frames, known) = <<l, Plain("."), r>>
           /\ IsQualifier(B, known, ref.qualifier, l)
           /\ IsColumn(B, ref.qualifier, ref.column, r)
<1> DEFINE q == ref.qualifier
           c == ref.column
           found == {i \in DOMAIN frames : q \in DOMAIN frames[i]}
           entry == frames[Min(found)][q]
           to == IF entry.table = "" THEN None ELSE <<entry.table>>
           leaked == q \in known \/ HasTable(q)
           Good(l, r) ==
             /\ l \in Tok /\ r \in Tok
             /\ RefTokens(ref, frames, known) = <<l, Plain("."), r>>
             /\ l.text = q /\ l.at = "column" /\ QualifierVerdict(B, known, l)
             /\ r.text = c /\ r.at = "" /\ ColumnVerdict(B, q, r)
<1> SUFFICES \E l, r : Good(l, r)
  <2>1. PICK l, r : Good(l, r)
    OBVIOUS
  <2>2. IsQualifier(B, known, q, l)
    BY <2>1 DEF IsQualifier
  <2>3. IsColumn(B, q, c, r)
    BY <2>1 DEF IsColumn
  <2> QED
    BY <2>1, <2>2, <2>3
<1>0. q \in AnyName /\ c \in AnyName /\ q \in Word /\ c \in Word /\ None \in Seq(AnyName)
  BY DEF RefSet, Word, None
<1>3. ASSUME found = {} PROVE \E l, r : Good(l, r)
  <2>0. PICK s : s = IF leaked THEN "free" ELSE "wrong"
    OBVIOUS
  <2>1. PICK l, r : l = Token(q, s, None, "column") /\ r = Token(c, "free", None, "")
    OBVIOUS
  <2>2. RefTokens(ref, frames, known) = <<l, Plain("."), r>>
    BY <1>3, <2>0, <2>1 DEF RefTokens
  <2> HIDE DEF q, c
  <2>3. s \in {"right", "wrong", "free"} /\ "free" \in {"right", "wrong", "free"}
    BY <2>0
  <2>4. l \in Tok /\ l.text = q /\ l.at = "column" /\ l.says = s /\ l.to = None
    BY <1>0, <2>1, <2>3 DEF Token, Tok
  <2>5. r \in Tok /\ r.text = c /\ r.at = "" /\ r.says = "free" /\ r.to = None
    BY <1>0, <2>1, <2>3 DEF Token, Tok
  <2>6. QualifierVerdict(B, known, l) /\ ColumnVerdict(B, q, r)
    BY <2>0, <2>4, <2>5 DEF QualifierVerdict, ColumnVerdict
  <2> QED
    BY <2>2, <2>4, <2>5, <2>6
<1>4. ASSUME found # {} PROVE \E l, r : Good(l, r)
  <2>0. EntryMeans(B, q, entry)
    <3>1. Min(found) \in found
      BY <1>4, MinIn
    <3> QED
      BY <3>1 DEF FrameMeans
  <2>r. /\ "right" \in {"right", "wrong", "free"} /\ "free" \in {"right", "wrong", "free"}
        /\ "wrong" \in {"right", "wrong", "free"} /\ "" \notin AnyName
    BY NamesAre
  <2>1. CASE entry = Missing
    <3>1. PICK l, r : l = Token(q, "free", None, "column") /\ r = Token(c, "free", None, "")
      OBVIOUS
    <3>2. RefTokens(ref, frames, known) = <<l, Plain("."), r>>
      BY <1>4, <2>1, <3>1, MissingIs DEF RefTokens
    <3> HIDE DEF q, c
    <3>3. l \in Tok /\ l.text = q /\ l.at = "column" /\ l.says = "free" /\ l.to = None
      BY <1>0, <2>r, <3>1 DEF Token, Tok
    <3>4. r \in Tok /\ r.text = c /\ r.at = "" /\ r.says = "free" /\ r.to = None
      BY <1>0, <2>r, <3>1 DEF Token, Tok
    <3>5. QualifierVerdict(B, known, l) /\ ColumnVerdict(B, q, r)
      BY <3>3, <3>4 DEF QualifierVerdict, ColumnVerdict
    <3> QED
      BY <3>2, <3>3, <3>4, <3>5
  <2>2. CASE entry # Missing /\ entry.table = ""
    <3>0. PICK s : s = IF c \in entry.columns THEN "right" ELSE "free"
      OBVIOUS
    <3>1. PICK l, r : l = Token(q, "right", None, "column") /\ r = Token(c, s, None, "")
      OBVIOUS
    <3>2. RefTokens(ref, frames, known) = <<l, Plain("."), r>>
      <4>1. CASE c \in entry.columns
        BY <1>4, <2>2, <3>0, <3>1, <4>1 DEF RefTokens
      <4>2. CASE c \notin entry.columns
        BY <1>4, <2>2, <3>0, <3>1, <4>2 DEF RefTokens
      <4> QED
        BY <4>1, <4>2
    <3>3. Consistent(B) => Binds(B, q) /\ \E t : Means(B, q, t) /\ ~HasTable(t)
      BY <2>0, <2>2, <2>r DEF EntryMeans
    <3>4. s \in {"right", "free"} /\ s \in {"right", "wrong", "free"}
      BY <3>0
    <3> HIDE DEF q, c
    <3>5. l \in Tok /\ l.text = q /\ l.at = "column" /\ l.says = "right" /\ l.to = None
      BY <1>0, <2>r, <3>1 DEF Token, Tok
    <3>6. r \in Tok /\ r.text = c /\ r.at = "" /\ r.says = s /\ r.to = None
      BY <1>0, <3>4, <3>1 DEF Token, Tok
    <3>7. QualifierVerdict(B, known, l) /\ ColumnVerdict(B, q, r)
      BY <3>3, <3>4, <3>5, <3>6, MeansOne DEF QualifierVerdict, ColumnVerdict
    <3> QED
      BY <3>2, <3>5, <3>6, <3>7
  <2>3. CASE entry # Missing /\ entry.table # ""
    <3>0. PICK t : t = entry.table
      OBVIOUS
    <3>1. t \in AnyName /\ HasTable(t) /\ entry.columns = Columns[t]
          /\ (Consistent(B) => Means(B, q, t))
      BY <2>0, <2>3, <3>0 DEF EntryMeans
    <3>2. /\ to = <<t>> /\ <<t>> # None /\ Append(<<t>>, c) = <<t, c>>
          /\ <<t>> \in Seq(AnyName) /\ <<t, c>> \in Seq(AnyName)
      <4>1. <<t>> # None /\ Append(<<t>>, c) = <<t, c>>
        BY AppendOne DEF None
      <4>2. <<t>> \in Seq(AnyName) /\ <<t, c>> \in Seq(AnyName)
        BY <3>1, <1>0
      <4> QED
        BY <2>3, <3>0, <4>1, <4>2
    <3>3. Consistent(B) => HasTable(q) \/ Binds(B, q)
      BY <3>1 DEF Means
    <3>4. CASE c \in entry.columns
      <4>1. PICK l, r : l = Token(q, "right", <<t>>, "column") /\ r = Token(c, "right", <<t, c>>, "")
        OBVIOUS
      <4>2. RefTokens(ref, frames, known) = <<l, Plain("."), r>>
        BY <1>4, <2>3, <3>2, <3>4, <4>1 DEF RefTokens
      <4>3. HasColumn(t, c)
        BY <3>1, <3>4 DEF HasColumn
      <4> HIDE DEF q, c
      <4>4. l \in Tok /\ l.text = q /\ l.at = "column" /\ l.says = "right" /\ l.to = <<t>>
        BY <1>0, <2>r, <3>2, <4>1 DEF Token, Tok
      <4>5. r \in Tok /\ r.text = c /\ r.at = "" /\ r.says = "right" /\ r.to = <<t, c>>
        BY <1>0, <2>r, <3>2, <4>1 DEF Token, Tok
      <4>6. QualifierVerdict(B, known, l)
        BY <3>1, <3>3, <4>4 DEF QualifierVerdict
      <4>7. ColumnVerdict(B, q, r)
        BY <3>1, <4>3, <4>5, MeansOne DEF ColumnVerdict
      <4> QED
        BY <4>2, <4>4, <4>5, <4>6, <4>7
    <3>5. CASE c \notin entry.columns
      <4>1. PICK l, r : l = Token(q, "right", <<t>>, "column") /\ r = Token(c, "wrong", None, "")
        OBVIOUS
      <4>2. RefTokens(ref, frames, known) = <<l, Plain("."), r>>
        BY <1>4, <2>3, <3>2, <3>5, <4>1 DEF RefTokens
      <4>3. ~HasColumn(t, c)
        BY <3>1, <3>5 DEF HasColumn
      <4> HIDE DEF q, c
      <4>4. l \in Tok /\ l.text = q /\ l.at = "column" /\ l.says = "right" /\ l.to = <<t>>
        BY <1>0, <2>r, <3>2, <4>1 DEF Token, Tok
      <4>5. r \in Tok /\ r.text = c /\ r.at = "" /\ r.says = "wrong" /\ r.to = None
        BY <1>0, <2>r, <4>1 DEF Token, Tok
      <4>6. QualifierVerdict(B, known, l)
        BY <3>1, <3>3, <4>4 DEF QualifierVerdict
      <4>7. ColumnVerdict(B, q, r)
        BY <3>1, <4>3, <4>5 DEF ColumnVerdict
      <4> QED
        BY <4>2, <4>4, <4>5, <4>6, <4>7
    <3> QED
      BY <3>4, <3>5
  <2> QED
    BY <2>1, <2>2, <2>3
<1> QED
  BY <1>3, <1>4
-----------------------------------------------------------------------------
\* The text of token i, "" if there is none.
At(W, i) == IF i \in DOMAIN W THEN W[i].text ELSE ""

\* The texts of tokens.
LEMMA AtIs ==
  ASSUME NEW W \in Seq(Tok)
  PROVE  /\ Texts(W) \in Seq(Word) /\ Len(Texts(W)) = Len(W) /\ Len(W) \in Nat
         /\ \A i \in 1 .. Len(W) : Texts(W)[i] = At(W, i) /\ At(W, i) \in Word
<1>1. DOMAIN W = 1 .. Len(W) /\ \A i \in 1 .. Len(W) : W[i] \in Tok
  OBVIOUS
<1>2. \A i \in 1 .. Len(W) : W[i].text \in Word
  BY <1>1 DEF Tok
<1>3. Texts(W) = [i \in 1 .. Len(W) |-> W[i].text]
  BY <1>1 DEF Texts
<1>4. Len(W) \in Nat
  OBVIOUS
<1>5. PICK X : X = Texts(W)
  OBVIOUS
<1>6. X \in Seq(Word) /\ Len(X) = Len(W) /\ \A i \in 1 .. Len(W) : X[i] = W[i].text
  BY <1>2, <1>3, <1>4, <1>5
<1> QED
  BY <1>1, <1>2, <1>4, <1>5, <1>6 DEF At

\* A token of what occurs in a text is a token of the text.
LEMMA OccursIn ==
  ASSUME NEW W \in Seq(Tok), NEW p, NEW o, Occurs(W, o, p), NEW j \in 1 .. Len(p), Len(p) \in Nat
  PROVE  /\ o \in Nat /\ o + j \in 1 .. Len(W) /\ o + j \in DOMAIN W /\ W[o + j] = p[j]
         /\ At(W, o + j) = p[j].text
<1>1. o \in Nat /\ o + Len(p) <= Len(W) /\ W[o + j] = p[j]
  BY DEF Occurs
<1>2. o + j \in 1 .. Len(W)
  <2>1. PICK n, m : n = Len(p) /\ m = Len(W)
    OBVIOUS
  <2>2. n \in Nat /\ m \in Nat /\ j \in 1 .. n /\ o + n <= m
    BY <2>1, <1>1
  <2>3. o + j \in 1 .. m
    BY <1>1, <2>2
  <2> QED
    BY <2>1, <2>3
<1>3. DOMAIN W = 1 .. Len(W)
  OBVIOUS
<1> QED
  BY <1>1, <1>2, <1>3 DEF At

IsJoin(p, s, t) == p = s \o t

\* Where a concatenation occurs, its parts do.
LEMMA OccursConcat ==
  ASSUME NEW W \in Seq(Tok), NEW s \in Seq(Tok), NEW t \in Seq(Tok), NEW o,
         NEW p, IsJoin(p, s, t), Occurs(W, o, p)
  PROVE  /\ Occurs(W, o, s) /\ Occurs(W, o + Len(s), t)
         /\ Len(p) = Len(s) + Len(t) /\ Len(s) \in Nat /\ Len(t) \in Nat /\ p \in Seq(Tok)
<1>1. /\ p \in Seq(Tok)
      /\ Len(s) \in Nat /\ Len(t) \in Nat /\ Len(p) = Len(s) + Len(t)
      /\ \A j \in 1 .. Len(s) : p[j] = s[j]
      /\ \A j \in 1 .. Len(t) : p[Len(s) + j] = t[j]
  BY ConcatIs DEF IsJoin
<1>2. o \in Nat /\ o + Len(p) <= Len(W) /\ \A j \in 1 .. Len(p) : W[o + j] = p[j]
  BY DEF Occurs
<1>3. PICK m, n, k : m = Len(s) /\ n = Len(t) /\ k = Len(W)
  OBVIOUS
<1>4. m \in Nat /\ n \in Nat /\ k \in Nat /\ o + (m + n) <= k
  BY <1>1, <1>2, <1>3
<1>5. Occurs(W, o, s)
  <2>1. o + m <= k
    BY <1>2, <1>4
  <2>2. ASSUME NEW j \in 1 .. m PROVE W[o + j] = s[j]
    <3>1. j \in 1 .. m + n
      BY <1>4
    <3>2. W[o + j] = p[j]
      BY <3>1, <1>1, <1>2, <1>3
    <3> QED
      BY <3>2, <1>1, <1>3
  <2> QED
    BY <1>2, <1>3, <2>1, <2>2 DEF Occurs
<1>6. Occurs(W, o + m, t)
  <2>1. o + m \in Nat /\ (o + m) + n <= k
    BY <1>2, <1>4
  <2>2. ASSUME NEW j \in 1 .. n PROVE W[(o + m) + j] = t[j]
    <3>1. m + j \in 1 .. m + n /\ o + (m + j) = (o + m) + j
      BY <1>2, <1>4
    <3>2. W[o + (m + j)] = p[m + j]
      BY <3>1, <1>1, <1>2, <1>3
    <3> QED
      BY <3>1, <3>2, <1>1, <1>3
  <2> QED
    BY <1>3, <2>1, <2>2 DEF Occurs
<1> QED
  BY <1>1, <1>3, <1>5, <1>6

\* Sequences of a few tokens.
LEMMA Few ==
  /\ \A a \in Tok : <<a>> \in Seq(Tok) /\ Len(<<a>>) = 1
  /\ \A a, b \in Tok : <<a, b>> \in Seq(Tok) /\ Len(<<a, b>>) = 2
  /\ \A a, b, c \in Tok : <<a, b, c>> \in Seq(Tok) /\ Len(<<a, b, c>>) = 3
  /\ \A a, b, c, d \in Tok : <<a, b, c, d>> \in Seq(Tok) /\ Len(<<a, b, c, d>>) = 4
OBVIOUS

\* One token that occurs.
LEMMA OccursOne ==
  ASSUME NEW W \in Seq(Tok), NEW o, NEW a, Occurs(W, o, <<a>>)
  PROVE  /\ o \in Nat /\ o + 1 <= Len(W) /\ W[o + 1] = a /\ At(W, o + 1) = a.text
<1>1. PICK p : p = <<a>>
  OBVIOUS
<1>2. Len(p) = 1 /\ p[1] = a
  BY <1>1
<1>3. 1 \in 1 .. Len(p) /\ Len(p) \in Nat /\ Occurs(W, o, p)
  BY <1>1, <1>2
<1>4. o \in Nat /\ o + 1 \in 1 .. Len(W) /\ W[o + 1] = p[1] /\ At(W, o + 1) = p[1].text
  BY ONLY W \in Seq(Tok), <1>3, OccursIn
<1> QED
  BY <1>2, <1>4

\* Two tokens that occur.
LEMMA OccursTwo ==
  ASSUME NEW W \in Seq(Tok), NEW o, NEW a, NEW b, Occurs(W, o, <<a, b>>)
  PROVE  /\ o \in Nat /\ o + 2 <= Len(W)
         /\ W[o + 1] = a /\ At(W, o + 1) = a.text
         /\ W[o + 2] = b /\ At(W, o + 2) = b.text
<1>1. PICK p : p = <<a, b>>
  OBVIOUS
<1>2. Len(p) = 2 /\ p[1] = a /\ p[2] = b
  BY <1>1
<1>3. 1 \in 1 .. Len(p) /\ 2 \in 1 .. Len(p) /\ Len(p) \in Nat /\ Occurs(W, o, p)
  BY <1>1, <1>2
<1>4. o \in Nat /\ o + 1 \in 1 .. Len(W) /\ W[o + 1] = p[1] /\ At(W, o + 1) = p[1].text
  BY ONLY W \in Seq(Tok), <1>3, OccursIn
<1>5. o \in Nat /\ o + 2 \in 1 .. Len(W) /\ W[o + 2] = p[2] /\ At(W, o + 2) = p[2].text
  BY ONLY W \in Seq(Tok), <1>3, OccursIn
<1> QED
  BY <1>2, <1>4, <1>5

\* Three tokens that occur.
LEMMA OccursThree ==
  ASSUME NEW W \in Seq(Tok), NEW o, NEW a, NEW b, NEW c, Occurs(W, o, <<a, b, c>>)
  PROVE  /\ o \in Nat /\ o + 3 <= Len(W)
         /\ W[o + 1] = a /\ At(W, o + 1) = a.text
         /\ W[o + 2] = b /\ At(W, o + 2) = b.text
         /\ W[o + 3] = c /\ At(W, o + 3) = c.text
<1>1. PICK p : p = <<a, b, c>>
  OBVIOUS
<1>2. Len(p) = 3 /\ p[1] = a /\ p[2] = b /\ p[3] = c
  BY <1>1
<1>3. 1 \in 1 .. Len(p) /\ 2 \in 1 .. Len(p) /\ 3 \in 1 .. Len(p) /\ Len(p) \in Nat /\ Occurs(W, o, p)
  BY <1>1, <1>2
<1>4. o \in Nat /\ o + 1 \in 1 .. Len(W) /\ W[o + 1] = p[1] /\ At(W, o + 1) = p[1].text
  BY ONLY W \in Seq(Tok), <1>3, OccursIn
<1>5. o \in Nat /\ o + 2 \in 1 .. Len(W) /\ W[o + 2] = p[2] /\ At(W, o + 2) = p[2].text
  BY ONLY W \in Seq(Tok), <1>3, OccursIn
<1>6. o \in Nat /\ o + 3 \in 1 .. Len(W) /\ W[o + 3] = p[3] /\ At(W, o + 3) = p[3].text
  BY ONLY W \in Seq(Tok), <1>3, OccursIn
<1> QED
  BY <1>2, <1>4, <1>5, <1>6

\* Words of two, three and four texts.
LEMMA WordsAre ==
  /\ \A a, b : Words(<<a, b>>) = <<Plain(a), Plain(b)>>
  /\ \A a, b, c : Words(<<a, b, c>>) = <<Plain(a), Plain(b), Plain(c)>>
  /\ \A a, b, c, d : Words(<<a, b, c, d>>) = <<Plain(a), Plain(b), Plain(c), Plain(d)>>
BY DEF Words
-----------------------------------------------------------------------------
(* The tokens that are said something of. *)

\* The verdict on a table, which a name of V may stand for.
TableVerdict(V, known, t) ==
  /\ t.says = "right" => HasTable(t.text) \/ t.text \in V
  /\ t.says = "wrong" => ~HasTable(t.text) /\ t.text \notin known
  /\ t.to # None => t.to = <<t.text>> /\ HasTable(t.text)
IsTable(V, known, name, t) ==
  t \in Tok /\ t.text = name /\ t.at = "table" /\ TableVerdict(V, known, t)
IsQualifiedTable(name, t) ==
  t \in Tok /\ t.text = name /\ t.at = "" /\ TableVerdict({}, {}, t)
IsSchema(name, c) ==
  c \in Tok /\ c.text = name /\ c.says = "right" /\ c.to = None /\ c.at = "table"
IsPlain(text, t) == t \in Tok /\ t.text = text /\ t.says = "right" /\ t.to = None /\ t.at = ""

\* What a token of syntax is.
LEMMA PlainIs ==
  ASSUME NEW x \in Word
  PROVE  IsPlain(x, Plain(x))
<1>1. None \in Seq(AnyName)
  BY DEF None
<1> QED
  BY <1>1 DEF Plain, Token, Tok, IsPlain

\* What a table is written as.
LEMMA TableIsWritten ==
  ASSUME NEW V, NEW known, NEW s \in TableSet, NEW ctes, DOMAIN ctes \subseteq V
  PROVE  \/ /\ s.schema = ""
            /\ \E t : /\ TableTokens(s, ctes, known) = <<t>> \o AliasTokens(s)
                      /\ IsTable(V, known, s.name, t)
         \/ /\ s.schema # ""
            /\ \E c, t :
                 /\ TableTokens(s, ctes, known) = <<c, Plain("."), t>> \o AliasTokens(s)
                 /\ IsSchema(s.schema, c) /\ IsQualifiedTable(s.name, t)
<1> DEFINE n == s.name
           cte == s.schema = "" /\ n \in DOMAIN ctes
           leaked == s.schema = "" /\ n \in known
<1>0. n \in AnyName /\ n \in Word /\ None \in Seq(AnyName) /\ <<n>> \in Seq(AnyName)
      /\ <<n>> # None
  <2>1. n \in AnyName /\ n \in Word
    BY DEF TableSet, Word
  <2> HIDE DEF n
  <2>2. <<n>> \in Seq(AnyName) /\ None \in Seq(AnyName) /\ <<n>> # None
    BY <2>1 DEF None
  <2> QED
    BY <2>1, <2>2
<1>1. PICK says : says = IF HasTable(n) \/ cte THEN "right" ELSE IF leaked THEN "free" ELSE "wrong"
  OBVIOUS
<1>2. PICK to : to = IF HasTable(n) /\ ~cte THEN <<n>> ELSE None
  OBVIOUS
<1>3. says \in {"right", "wrong", "free"} /\ to \in Seq(AnyName)
  BY <1>0, <1>1, <1>2
<1>4. CASE s.schema = ""
  <2>1. PICK t : t = Token(n, says, to, "table")
    OBVIOUS
  <2>2. TableTokens(s, ctes, known) = <<t>> \o AliasTokens(s)
    BY <1>1, <1>2, <1>4, <2>1 DEF TableTokens
  <2>3. t \in Tok /\ t.text = n /\ t.says = says /\ t.to = to /\ t.at = "table"
    <3> HIDE DEF n
    <3> QED
      BY <1>0, <1>3, <2>1 DEF Token, Tok
  <2>4. IsTable(V, known, n, t)
    BY <1>0, <1>1, <1>2, <1>4, <2>3 DEF IsTable, TableVerdict
  <2> QED
    BY <1>4, <2>2, <2>4
<1>5. CASE s.schema # ""
  <2>1. PICK c, t : c = Token(s.schema, "right", None, "table") /\ t = Token(n, says, to, "")
    OBVIOUS
  <2>2. TableTokens(s, ctes, known) = <<c, Plain("."), t>> \o AliasTokens(s)
    BY <1>1, <1>2, <1>5, <2>1 DEF TableTokens
  <2>3. t \in Tok /\ t.text = n /\ t.says = says /\ t.to = to /\ t.at = ""
    <3> HIDE DEF n
    <3> QED
      BY <1>0, <1>3, <2>1 DEF Token, Tok
  <2>4. IsQualifiedTable(n, t)
    BY <1>0, <1>1, <1>2, <1>5, <2>3 DEF IsQualifiedTable, TableVerdict
  <2>5. IsSchema(s.schema, c)
    <3>1. PICK x : x = s.schema
      OBVIOUS
    <3>2. x \in Word
      BY <1>5, <3>1 DEF TableSet, Word, AnySchema
    <3>3. c = Token(x, "right", None, "table")
      BY <2>1, <3>1
    <3>4. c \in Tok /\ c.text = x /\ c.says = "right" /\ c.to = None /\ c.at = "table"
      BY <1>0, <3>2, <3>3 DEF Token, Tok
    <3> QED
      BY <3>1, <3>4 DEF IsSchema
  <2> QED
    BY <1>5, <2>2, <2>4, <2>5
<1> QED
  BY <1>4, <1>5
-----------------------------------------------------------------------------
(* What a token of a text is, told from the tokens around it. *)

Clausing == INSTANCE FoldFacts WITH Op <- Clause

\* The clause after the first k tokens.
ClauseAfter(W, k) == FoldLeft(Clause, "unknown", SubSeq(Texts(W), 1, k))

\* The clause after one more token.
LEMMA ClauseStep ==
  ASSUME NEW W \in Seq(Tok), NEW k \in Nat, k + 1 <= Len(W)
  PROVE  ClauseAfter(W, k + 1) = Clause(ClauseAfter(W, k), At(W, k + 1))
<1>1. \A b, s : FoldLeft(Clause, b, s) = Clausing!Fold(b, s)
  BY DEF Clausing!Fold, FoldLeft, Clausing!FoldLeft, MapThenFoldSet, Clausing!MapThenFoldSet,
         Max, Clausing!Max
<1>2. PICK X : X = Texts(W)
  OBVIOUS
<1>3. X \in Seq(Word) /\ Len(X) = Len(W) /\ Len(W) \in Nat /\ X[k + 1] = At(W, k + 1)
  BY <1>2, AtIs
<1>4. PICK s, e : s = SubSeq(X, 1, k) /\ e = X[k + 1]
  OBVIOUS
<1>5. s \in Seq(Word) /\ e \in Word /\ SubSeq(X, 1, k + 1) = Append(s, e)
  BY <1>3, <1>4
<1>6. Clausing!Fold("unknown", Append(s, e)) = Clause(Clausing!Fold("unknown", s), e)
  BY <1>5, Clausing!FoldAppend
<1> QED
  BY <1>1, <1>2, <1>3, <1>4, <1>5, <1>6 DEF ClauseAfter

\* Tokens that leave the clause as it is.
Neutral(text) == text \notin FromKeywords \cup {"SELECT", "WHERE", "SET", "(", "VALUES"}

\* Tokens that do not change the clause.
LEMMA ClauseKept ==
  ASSUME NEW W \in Seq(Tok), NEW k \in Nat, k + 1 <= Len(W), Neutral(At(W, k + 1))
  PROVE  ClauseAfter(W, k + 1) = ClauseAfter(W, k)
BY ClauseStep DEF Clause, Neutral

\* Tokens that do.
LEMMA ClauseSet ==
  ASSUME NEW W \in Seq(Tok), NEW k \in Nat, k + 1 <= Len(W)
  PROVE  /\ At(W, k + 1) \in FromKeywords => ClauseAfter(W, k + 1) = "table"
         /\ At(W, k + 1) \in {"SELECT", "SET"} => ClauseAfter(W, k + 1) = "column"
BY ClauseStep DEF Clause, FromKeywords

\* Before a table of a list, and before a reference.
InList(W, o) ==
  At(W, o) \in FromKeywords \cup {","} /\ At(W, o - 1) # "." /\ ClauseAfter(W, o) = "table"
BeforeRef(W, o) ==
  /\ At(W, o) \in {"SELECT", "AND", "="} /\ At(W, o - 1) # "."
  /\ At(W, o) # "AND" => ClauseAfter(W, o) = "column"
OneName(W, i) == At(W, i) \in AnyName /\ At(W, i + 1) \notin {".", "("}
TableRole(W, V, known, i) ==
  OneName(W, i) /\ InList(W, i - 1) /\ IsTable(V, known, At(W, i), W[i])
SchemaRole(W, i) ==
  /\ At(W, i) \in AnySchema /\ At(W, i + 1) = "." /\ OneName(W, i + 2)
  /\ InList(W, i - 1) /\ IsSchema(At(W, i), W[i])
QualifiedTableRole(W, i) ==
  /\ OneName(W, i) /\ At(W, i - 1) = "." /\ At(W, i - 2) \in AnySchema
  /\ InList(W, i - 3) /\ IsQualifiedTable(At(W, i), W[i])
QualifierRole(W, B, known, i) ==
  /\ At(W, i) \in AnyName /\ At(W, i + 1) = "." /\ OneName(W, i + 2)
  /\ BeforeRef(W, i - 1) /\ IsQualifier(B, known, At(W, i), W[i])
ColumnRole(W, B, i) ==
  /\ OneName(W, i) /\ At(W, i - 1) = "." /\ At(W, i - 2) \in AnyName
  /\ BeforeRef(W, i - 3) /\ IsColumn(B, At(W, i - 2), At(W, i), W[i])
PlainRole(W, i) ==
  /\ IsPlain(At(W, i), W[i]) /\ At(W, i) # ";"
  /\ IsName(At(W, i)) => At(W, i - 1) \notin FromKeywords \cup {"."} /\ At(W, i + 1) # "."
Role(W, B, V, known, i) ==
  \/ TableRole(W, V, known, i) \/ SchemaRole(W, i) \/ QualifiedTableRole(W, i)
  \/ QualifierRole(W, B, known, i) \/ ColumnRole(W, B, i) \/ PlainRole(W, i)

\* What may come after a source, and after a statement or a query in parentheses.
AfterQuery == {"", ")", ";"}
AfterSource == AfterQuery \cup {",", "CROSS", "WHERE", "SET"}

\* A reference.
LEMMA RefRoles ==
  ASSUME NEW W \in Seq(Tok), NEW o, NEW B, NEW V, NEW known, NEW q \in AnyName, NEW c \in AnyName,
         NEW l, IsQualifier(B, known, q, l), NEW r, IsColumn(B, q, c, r),
         Occurs(W, o, <<l, Plain("."), r>>), BeforeRef(W, o), At(W, o + 4) \notin {".", "("}
  PROVE  /\ o \in Nat /\ o + 3 <= Len(W)
         /\ Role(W, B, V, known, o + 1) /\ Role(W, B, V, known, o + 2) /\ Role(W, B, V, known, o + 3)
         /\ At(W, o + 1) = q /\ At(W, o + 2) = "." /\ At(W, o + 3) = c
<1>1. PICK d : d = Plain(".")
  OBVIOUS
<1>2. IsPlain(".", d)
  <2>1. "." \in Word
    BY DEF Word, Syntax
  <2> QED
    BY <1>1, <2>1, PlainIs
<1>3. Occurs(W, o, <<l, d, r>>)
  BY <1>1
<1>4. /\ o \in Nat /\ o + 3 <= Len(W)
      /\ W[o + 1] = l /\ At(W, o + 1) = l.text
      /\ W[o + 2] = d /\ At(W, o + 2) = d.text
      /\ W[o + 3] = r /\ At(W, o + 3) = r.text
  BY <1>3, OccursThree
<1>5. At(W, o + 1) = q /\ At(W, o + 2) = "." /\ At(W, o + 3) = c
  BY <1>2, <1>4 DEF IsQualifier, IsColumn, IsPlain
<1>6. /\ (o + 1) - 1 = o /\ (o + 1) + 1 = o + 2 /\ (o + 1) + 2 = o + 3
      /\ (o + 3) - 1 = o + 2 /\ (o + 3) - 2 = o + 1 /\ (o + 3) - 3 = o
      /\ (o + 3) + 1 = o + 4
  BY <1>4
<1>7. OneName(W, o + 3)
  BY <1>5, <1>6 DEF OneName
<1>8. QualifierRole(W, B, known, o + 1)
  BY <1>4, <1>5, <1>6, <1>7 DEF QualifierRole
<1>9. ColumnRole(W, B, o + 3)
  BY <1>4, <1>5, <1>6, <1>7 DEF ColumnRole
<1>10. PlainRole(W, o + 2)
  <2>1. ~IsName(".")
    BY DEF IsName, IsIdent, Punctuation
  <2> QED
    BY <1>2, <1>4, <1>5, <2>1 DEF PlainRole
<1> QED
  BY <1>4, <1>5, <1>8, <1>9, <1>10 DEF Role
-----------------------------------------------------------------------------
\* A table in the text: its name is k tokens after o, and it takes n of them.
NamePlace(s) == IF s.schema = "" THEN 1 ELSE 3

TableAt(W, o, s, k, n) ==
  /\ k = NamePlace(s)
  /\ k = 3 => At(W, o + 1) \in AnySchema /\ At(W, o + 2) = "."
  /\ At(W, o + k) = s.name
  /\ n = (IF s.alias = s.name THEN k ELSE k + 1)
  /\ s.alias # s.name => At(W, o + k + 1) = s.alias

\* The alias of a source is one token, or none.
LEMMA AliasIs ==
  ASSUME NEW s \in TableSet
  PROVE  /\ AliasTokens(s) \in Seq(Tok)
         /\ s.alias = s.name => AliasTokens(s) = <<>> /\ Len(AliasTokens(s)) = 0
         /\ s.alias # s.name =>
              AliasTokens(s) = <<Plain(s.alias)>> /\ Len(AliasTokens(s)) = 1
<1>1. s.kind = "table" /\ s.alias \in Word
  BY DEF TableSet, Word
<1>2. PICK d : d = Plain(s.alias)
  OBVIOUS
<1>3. d \in Tok
  BY <1>1, <1>2, PlainIs DEF IsPlain
<1>4. <<d>> \in Seq(Tok) /\ Len(<<d>>) = 1 /\ <<>> \in Seq(Tok) /\ Len(<<>>) = 0
  BY <1>3
<1> QED
  BY <1>1, <1>2, <1>4 DEF AliasTokens

\* The tokens of a list of tables.
ListWord == AnyName \cup AnySchema \cup {".", ",", ")", "CROSS"}

\* After a name of a list the clause is still that of tables.
LEMMA NameKept ==
  ASSUME NEW W \in Seq(Tok), NEW k \in Nat, k + 1 <= Len(W), ClauseAfter(W, k) = "table",
         At(W, k + 1) \in ListWord
  PROVE  ClauseAfter(W, k + 1) = "table"
<1>1. Neutral(At(W, k + 1))
  BY NamesAre DEF ListWord, Neutral, FromKeywords, StopWords, Punctuation
<1> QED
  BY <1>1, ClauseKept

\* An alias is in its place.
LEMMA AliasRole ==
  ASSUME NEW W \in Seq(Tok), NEW B, NEW V, NEW known, NEW m, NEW a \in AnyName,
         Occurs(W, m, <<Plain(a)>>), ClauseAfter(W, m) = "table",
         At(W, m) \notin FromKeywords \cup {"."}, At(W, m + 2) # "."
  PROVE  /\ m \in Nat /\ m + 1 <= Len(W) /\ At(W, m + 1) = a
         /\ Role(W, B, V, known, m + 1) /\ ClauseAfter(W, m + 1) = "table"
<1>1. PICK d : d = Plain(a)
  OBVIOUS
<1>2. IsPlain(a, d)
  BY <1>1, PlainIs DEF Word
<1>3. m \in Nat /\ m + 1 <= Len(W) /\ W[m + 1] = d /\ At(W, m + 1) = d.text
  <2>1. Occurs(W, m, <<d>>)
    BY <1>1
  <2> QED
    BY <2>1, OccursOne
<1>4. At(W, m + 1) = a
  BY <1>2, <1>3 DEF IsPlain
<1>5. (m + 1) - 1 = m /\ (m + 1) + 1 = m + 2
  BY <1>3
<1>6. PlainRole(W, m + 1)
  <2>1. a # ";"
    BY NamesAre DEF Punctuation
  <2> QED
    BY <1>2, <1>3, <1>4, <1>5, <2>1 DEF PlainRole
<1>7. ClauseAfter(W, m + 1) = "table"
  BY <1>3, <1>4, NameKept DEF ListWord
<1> QED
  BY <1>3, <1>4, <1>6, <1>7 DEF Role

\* Each token of a table in FROM is in its place, and the clause is that of tables.
LEMMA TableRoles ==
  ASSUME NEW W \in Seq(Tok), NEW o, NEW B, NEW V, NEW known,
         NEW s \in TableSet, NEW ctes, DOMAIN ctes \subseteq V,
         NEW p, p = TableTokens(s, ctes, known), Occurs(W, o, p), InList(W, o),
         At(W, o + Len(p) + 1) \in AfterSource
  PROVE  /\ \E k : TableAt(W, o, s, k, Len(p))
         /\ p \in Seq(Tok) /\ Len(p) \in 1 .. 4 /\ o \in Nat /\ o + Len(p) <= Len(W)
         /\ \A i \in o + 1 .. o + Len(p) : Role(W, B, V, known, i)
         /\ ClauseAfter(W, o + Len(p)) = "table"
<1> DEFINE a == AliasTokens(s)
<1>1. s.name \in AnyName /\ s.alias \in AnyName /\ s.schema \in Schemas \cup {""}
  BY DEF TableSet
<1>2. /\ a \in Seq(Tok)
      /\ s.alias = s.name => a = <<>> /\ Len(a) = 0
      /\ s.alias # s.name => a = <<Plain(s.alias)>> /\ Len(a) = 1
  BY AliasIs
<1> HIDE DEF a
<1>a. a \in Seq(Tok)
  BY <1>2
<1>n. PICK n, b : n = Len(p) /\ b = Len(a)
  OBVIOUS
<1>b. b \in {0, 1} /\ (s.alias = s.name => b = 0) /\ (s.alias # s.name => b = 1)
  BY <1>2, <1>n
<1>3. ASSUME NEW k \in {1, 3}, k = NamePlace(s),
             o \in Nat, n = k + b, Occurs(W, o + k, a),
             o + n <= Len(W),
             k = 3 => At(W, o + 1) \in AnySchema /\ At(W, o + 2) = ".",
             At(W, o + k) = s.name,
             At(W, o + k + 1) \in AnyName \cup AfterSource =>
               \A i \in o + 1 .. o + k : Role(W, B, V, known, i),
             ClauseAfter(W, o + k) = "table"
      PROVE  /\ TableAt(W, o, s, k, n) /\ n \in 1 .. 4 /\ o + n <= Len(W)
             /\ \A i \in o + 1 .. o + n : Role(W, B, V, known, i)
             /\ ClauseAfter(W, o + n) = "table"
  <2>0. At(W, o + n + 1) \in AfterSource
    BY <1>n
  <2>1. CASE s.alias = s.name
    <3>1. n = k
      BY <2>1, <1>b, <1>3
    <3>2. TableAt(W, o, s, k, n)
      BY <2>1, <3>1, <1>3 DEF TableAt
    <3> QED
      BY <3>1, <3>2, <2>0, <1>3
  <2>2. CASE s.alias # s.name
    <3>1. n = k + 1 /\ Occurs(W, o + k, <<Plain(s.alias)>>)
      BY <2>2, <1>2, <1>b, <1>3
    <3>2. At(W, (o + k) + 2) # "."
      <4>1. o + n + 1 = (o + k) + 2
        BY <3>1, <1>3
      <4> QED
        BY <2>0, <4>1 DEF AfterSource, AfterQuery
    <3>3. At(W, o + k) \notin FromKeywords \cup {"."}
      BY <1>1, <1>3, NamesAre DEF Punctuation
    <3>4. PICK m : m = o + k
      OBVIOUS
    <3>5. /\ m \in Nat /\ m + 1 <= Len(W) /\ At(W, m + 1) = s.alias
          /\ Role(W, B, V, known, m + 1) /\ ClauseAfter(W, m + 1) = "table"
      BY <3>1, <3>2, <3>3, <3>4, <1>1, <1>3, AliasRole
    <3>6. TableAt(W, o, s, k, n)
      BY <2>2, <3>1, <3>4, <3>5, <1>3 DEF TableAt
    <3>7. \A i \in o + 1 .. o + k : Role(W, B, V, known, i)
      BY <3>4, <3>5, <1>1, <1>3
    <3>8. n \in 1 .. 4 /\ o + n = m + 1
          /\ \A i \in o + 1 .. o + n : i \in o + 1 .. o + k \/ i = m + 1
      BY <3>1, <3>4, <1>3
    <3> QED
      BY <3>5, <3>6, <3>7, <3>8, <1>3
  <2> QED
    BY <2>1, <2>2
<1>4. CASE s.schema = ""
  <2>1. PICK t : p = <<t>> \o a /\ IsTable(V, known, s.name, t)
    BY <1>4, TableIsWritten DEF a
  <2>2. PICK h : h = <<t>>
    OBVIOUS
  <2>3. t \in Tok /\ h \in Seq(Tok) /\ Len(h) = 1
    BY <2>1, <2>2, Few DEF IsTable
  <2>h. h \in Seq(Tok) /\ IsJoin(p, h, a)
    BY <2>1, <2>2, <2>3 DEF IsJoin
  <2>4. /\ Occurs(W, o, h) /\ Occurs(W, o + Len(h), a)
        /\ Len(p) = Len(h) + Len(a) /\ p \in Seq(Tok)
    BY ONLY <2>h, <1>a, W \in Seq(Tok), Occurs(W, o, p), OccursConcat
  <2>5. o \in Nat /\ o + 1 <= Len(W) /\ W[o + 1] = t /\ At(W, o + 1) = t.text
    BY <2>2, <2>4, OccursOne
  <2>6. At(W, o + 1) = s.name
    BY <2>1, <2>5 DEF IsTable
  <2>7. ClauseAfter(W, o + 1) = "table"
    BY <1>1, <2>5, <2>6, NameKept DEF ListWord, InList
  <2>8. At(W, o + 1 + 1) \in AnyName \cup AfterSource => Role(W, B, V, known, o + 1)
    <3>1. (o + 1) - 1 = o
      BY <2>5
    <3>2. \A x \in AnyName \cup AfterSource : x \notin {".", "("}
      BY NamesAre DEF AfterSource, AfterQuery, Punctuation
    <3> QED
      BY <1>1, <2>1, <2>5, <2>6, <3>1, <3>2 DEF Role, TableRole, OneName
  <2>9. n = 1 + b /\ o + n <= Len(W) /\ Occurs(W, o + 1, a)
    BY <2>3, <2>4, <1>n DEF Occurs
  <2>k. 1 = NamePlace(s)
    BY <1>4 DEF NamePlace
  <2>10. \A i \in o + 1 .. o + 1 : i = o + 1
    BY <2>5
  <2> QED
    BY <2>4, <2>5, <2>6, <2>7, <2>8, <2>9, <2>10, <2>k, <1>3, <1>n
<1>5. CASE s.schema # ""
  <2>1. PICK c, t : /\ p = <<c, Plain("."), t>> \o a
                    /\ IsSchema(s.schema, c) /\ IsQualifiedTable(s.name, t)
    BY <1>5, TableIsWritten DEF a
  <2>0. PICK d : d = Plain(".")
    OBVIOUS
  <2>d. IsPlain(".", d)
    <3>1. "." \in Word
      BY DEF Word, Syntax
    <3> QED
      BY <2>0, <3>1, PlainIs
  <2>2. PICK h : h = <<c, d, t>>
    OBVIOUS
  <2>3. c \in Tok /\ d \in Tok /\ t \in Tok
    BY <2>1, <2>d DEF IsSchema, IsPlain, IsQualifiedTable
  <2>h. h \in Seq(Tok) /\ IsJoin(p, h, a)
    BY <2>0, <2>1, <2>2, <2>3, Few DEF IsJoin
  <2>l. Len(h) = 3
    BY <2>2, <2>3, Few
  <2>4. /\ Occurs(W, o, h) /\ Occurs(W, o + Len(h), a)
        /\ Len(p) = Len(h) + Len(a) /\ p \in Seq(Tok)
    BY ONLY <2>h, <1>a, W \in Seq(Tok), Occurs(W, o, p), OccursConcat
  <2>5. /\ o \in Nat /\ o + 3 <= Len(W)
        /\ W[o + 1] = c /\ At(W, o + 1) = c.text
        /\ W[o + 2] = d /\ At(W, o + 2) = d.text
        /\ W[o + 3] = t /\ At(W, o + 3) = t.text
    BY <2>2, <2>4, OccursThree
  <2>6. At(W, o + 1) = s.schema /\ At(W, o + 2) = "." /\ At(W, o + 3) = s.name
    BY <2>1, <2>d, <2>5 DEF IsSchema, IsPlain, IsQualifiedTable
  <2>6s. s.schema \in AnySchema
    BY <1>1, <1>5 DEF AnySchema
  <2>7. ClauseAfter(W, o + 3) = "table"
    <3>1. Len(W) \in Nat
      OBVIOUS
    <3>2. o + 1 <= Len(W) /\ o + 2 <= Len(W) /\ o + 1 \in Nat /\ o + 2 \in Nat
          /\ (o + 1) + 1 = o + 2 /\ (o + 2) + 1 = o + 3
      BY <2>5, <3>1
    <3>3. ClauseAfter(W, o + 1) = "table"
      BY <2>5, <2>6, <2>6s, <3>2, NameKept DEF ListWord, InList
    <3>4. ClauseAfter(W, o + 2) = "table"
      BY <2>6, <3>2, <3>3, NameKept DEF ListWord
    <3> QED
      BY <1>1, <2>5, <2>6, <3>2, <3>4, NameKept DEF ListWord
  <2>8. ASSUME At(W, o + 3 + 1) \in AnyName \cup AfterSource, NEW i \in o + 1 .. o + 3
        PROVE  Role(W, B, V, known, i)
    <3>1. /\ (o + 1) - 1 = o /\ (o + 1) + 1 = o + 2 /\ (o + 1) + 2 = o + 3
          /\ (o + 3) - 1 = o + 2 /\ (o + 3) - 2 = o + 1 /\ (o + 3) - 3 = o
      BY <2>5
    <3>2. At(W, o + 3 + 1) \notin {".", "("}
      BY <2>8, NamesAre DEF AfterSource, AfterQuery, Punctuation
    <3>3. OneName(W, o + 3)
      BY <1>1, <2>6, <3>2 DEF OneName
    <3>4. SchemaRole(W, o + 1)
      BY <2>1, <2>5, <2>6, <2>6s, <3>1, <3>3 DEF SchemaRole
    <3>5. QualifiedTableRole(W, o + 3)
      BY <2>1, <2>5, <2>6, <2>6s, <3>1, <3>3 DEF QualifiedTableRole
    <3>6. PlainRole(W, o + 2)
      <4>1. ~IsName(".")
        BY DEF IsName, IsIdent, Punctuation
      <4> QED
        BY <2>d, <2>5, <2>6, <4>1 DEF PlainRole
    <3>7. i = o + 1 \/ i = o + 2 \/ i = o + 3
      BY <2>5
    <3> QED
      BY <3>4, <3>5, <3>6, <3>7 DEF Role
  <2>k. 3 = NamePlace(s)
    BY <1>5 DEF NamePlace
  <2>9. n = 3 + b /\ o + n <= Len(W) /\ Occurs(W, o + 3, a)
    BY <2>h, <2>l, <2>4, <1>n DEF Occurs
  <2> QED
    BY <2>4, <2>5, <2>6, <2>6s, <2>7, <2>8, <2>9, <2>k, <1>3, <1>n
<1> QED
  BY <1>4, <1>5
-----------------------------------------------------------------------------
(* What is read of a text. *)

\* The text of a token before the end of a range.
LEMMA TextAt ==
  ASSUME NEW W \in Seq(Tok), NEW e \in 0 .. Len(W) + 1, NEW j \in Nat, 1 <= j
  PROVE  /\ \A text : Is(Texts(W), j, e, text) <=> j < e /\ At(W, j) = text
         /\ IsNameAt(Texts(W), j, e) <=> j < e /\ IsName(At(W, j))
         /\ j < e => Texts(W)[j] = At(W, j) /\ At(W, j) \in Word
<1>1. Len(W) \in Nat
  OBVIOUS
<1>2. j < e => j \in 1 .. Len(W)
  BY <1>1
<1>3. j < e => Texts(W)[j] = At(W, j) /\ At(W, j) \in Word
  BY <1>2, AtIs
<1> QED
  BY <1>3 DEF Is, IsNameAt

\* What follows a source continues none of it.
LEMMA AfterSourceIs ==
  ASSUME NEW t \in AfterSource
  PROVE  t \notin {".", "(", "AS", "RECURSIVE", "WITH"} \cup FromKeywords /\ (t # "" => ~IsName(t))
BY DEF AfterSource, AfterQuery, IsName, IsIdent, Punctuation, StopWords, FromKeywords

\* The tokens of a table in FROM.
LEMMA TableAtIs ==
  ASSUME NEW W, NEW o, NEW s, NEW k, NEW n, TableAt(W, o, s, k, n)
  PROVE  /\ k \in {1, 3} /\ n \in {k, k + 1}
         /\ k = 3 => At(W, o + 1) \in AnySchema /\ At(W, o + 2) = "."
         /\ At(W, o + k) = s.name
         /\ s.alias = s.name => n = k
         /\ s.alias # s.name => n = k + 1 /\ At(W, o + k + 1) = s.alias
BY DEF TableAt, NamePlace

\* The extractor reads a table in FROM as the table and its alias.
LEMMA TableReads ==
  ASSUME NEW W \in Seq(Tok), NEW o \in Nat, NEW s \in TableSet, NEW k, NEW n \in 1 .. 4,
         TableAt(W, o, s, k, n), At(W, o + n + 1) \in AfterSource,
         NEW e \in o + n + 1 .. Len(W) + 1
  PROVE  Got(Texts(W), "tables", o + 1, e) =
           {Real(s.name, s.alias)} \cup Rest(Texts(W), "tables", o + n + 1, e)
<1> DEFINE X == Texts(W)
<1>1. s.name \in AnyName /\ s.alias \in AnyName
  BY DEF TableSet
<1>2. /\ k \in {1, 3} /\ n \in {k, k + 1}
      /\ k = 3 => At(W, o + 1) \in AnySchema /\ At(W, o + 2) = "."
      /\ At(W, o + k) = s.name
      /\ s.alias = s.name => n = k
      /\ s.alias # s.name => n = k + 1 /\ At(W, o + k + 1) = s.alias
  BY TableAtIs
<1>3. Len(W) \in Nat /\ e \in 0 .. Len(W) + 1 /\ e \in Nat /\ o + n < e
  OBVIOUS
<1>4. \A j \in Nat : 1 <= j =>
         /\ \A text : Is(X, j, e, text) <=> j < e /\ At(W, j) = text
         /\ IsNameAt(X, j, e) <=> j < e /\ IsName(At(W, j))
         /\ j < e => X[j] = At(W, j)
  BY <1>3, TextAt
<1>x. X \in Seq(Word) /\ Len(X) = Len(W)
  BY AtIs
<1> HIDE DEF X
<1>5. X[o + 1] # "(" /\ IsName(X[o + 1])
  <2>1. X[o + 1] = At(W, o + 1) /\ At(W, o + 1) \in AnyName \cup AnySchema
    BY <1>1, <1>2, <1>3, <1>4
  <2> QED
    BY <2>1, NamesAre DEF Punctuation
<1>6. At(W, o + k + 1) \in AfterSource \cup AnyName /\ At(W, o + k + 1) \notin {".", "AS"}
  <2>1. At(W, o + k + 1) \in AfterSource \cup AnyName
    BY <1>1, <1>2
  <2> QED
    BY <2>1, AfterSourceIs, NamesAre DEF Punctuation, StopWords
<1>7. QualifiedAt(X, o + 1, e) <=> k = 3
  <2>0. (o + 1) + 1 = o + 2 /\ (o + 1) + 2 = o + 3 /\ o + 2 \in Nat /\ o + 3 \in Nat
    OBVIOUS
  <2>1. CASE k = 3
    <3>1. o + 2 < e /\ o + 3 < e
      BY <2>1, <1>2, <1>3
    <3>2. At(W, o + 2) = "." /\ IsName(At(W, o + 3))
      BY <2>1, <1>1, <1>2, NamesAre
    <3> QED
      BY <2>0, <2>1, <3>1, <3>2, <1>4 DEF QualifiedAt
  <2>2. CASE k = 1
    <3>1. At(W, o + 2) # "."
      BY <2>2, <1>6
    <3>2. ~Is(X, o + 2, e, ".")
      BY <2>0, <3>1, <1>4
    <3> QED
      BY <2>0, <2>2, <3>2 DEF QualifiedAt
  <2> QED
    BY <2>1, <2>2, <1>2
<1>8. AsAt(X, o + 1, e) = o + k + 1
  <2>1. Skip(X, o + k + 1, e, "AS") = o + k + 1
    BY <1>2, <1>4, <1>6 DEF Skip
  <2>2. (IF QualifiedAt(X, o + 1, e) THEN (o + 1) + 3 ELSE (o + 1) + 1) = o + k + 1
    BY <1>2, <1>7
  <2> QED
    BY <2>1, <2>2, <1>5 DEF AsAt
<1>9. IsNameAt(X, o + k + 1, e) <=> s.alias # s.name
  <2>0. o + k + 1 \in Nat /\ 1 <= o + k + 1
    BY <1>2
  <2>1. CASE s.alias = s.name
    <3>1. At(W, o + k + 1) \in AfterSource
      BY <2>1, <1>2
    <3>2. At(W, o + k + 1) = "" => ~(o + k + 1 < e)
      <4>1. ASSUME o + k + 1 < e PROVE At(W, o + k + 1) # ""
        <5>1. At(W, o + k + 1) \in Word
          BY <2>0, <4>1, <1>3, TextAt
        <5> QED
          BY <5>1, NoEmptyWord
      <4> QED
        BY <4>1
    <3> QED
      BY <2>0, <2>1, <3>1, <3>2, <1>4, AfterSourceIs
  <2>2. CASE s.alias # s.name
    <3>1. o + k + 1 < e /\ At(W, o + k + 1) = s.alias
      BY <2>2, <1>2, <1>3
    <3> QED
      BY <2>0, <2>2, <3>1, <1>1, <1>4, NamesAre
  <2> QED
    BY <2>1, <2>2
<1>10. ListNext(X, o + 1, e) = o + n + 1
  BY <1>2, <1>8, <1>9 DEF ListNext
<1>11. RealAt(X, o + 1, e) = Real(s.name, s.alias)
  <2>1. (IF QualifiedAt(X, o + 1, e) THEN X[(o + 1) + 2] ELSE X[o + 1]) = s.name
    <3>1. X[o + k] = s.name
      BY <1>2, <1>3, <1>4
    <3>2. k = 3 => (o + 1) + 2 = o + k
      OBVIOUS
    <3> QED
      BY <1>2, <1>7, <3>1, <3>2
  <2>2. (IF IsNameAt(X, AsAt(X, o + 1, e), e) THEN X[AsAt(X, o + 1, e)] ELSE s.name) = s.alias
    <3>1. CASE s.alias # s.name
      <4>1. X[o + k + 1] = s.alias
        BY <3>1, <1>2, <1>3, <1>4
      <4> QED
        BY <3>1, <4>1, <1>8, <1>9
    <3>2. CASE s.alias = s.name
      BY <3>2, <1>8, <1>9
    <3> QED
      BY <3>1, <3>2
  <2> QED
    BY <2>1, <2>2 DEF RealAt
<1>12. o + 1 \in 1 .. Len(X) + 1 /\ e \in 0 .. Len(X) + 1 /\ o + 1 < e
  BY <1>3, <1>x
<1> QED
  BY <1>5, <1>10, <1>11, <1>12, <1>x, GotTable DEF X
-----------------------------------------------------------------------------
\* p is a source: where it stands in a list its tokens have their roles, and R is read.
FitsList(W, B, V, known, p, R) ==
  \A o : Occurs(W, o, p) /\ InList(W, o) /\ At(W, o + Len(p) + 1) \in AfterSource =>
    /\ \A i \in o + 1 .. o + Len(p) : Role(W, B, V, known, i)
    /\ ClauseAfter(W, o + Len(p)) = "table" /\ At(W, o + Len(p)) # "."
    /\ \A e \in o + Len(p) + 1 .. Len(W) + 1 :
         Got(Texts(W), "tables", o + 1, e) = R \cup Rest(Texts(W), "tables", o + Len(p) + 1, e)

\* p is a query, or what has the same place.
AfterRange == AfterSource \ {","}

\* A table in FROM fits in a list of tables.
LEMMA TableFits ==
  ASSUME NEW W \in Seq(Tok), NEW B, NEW V, NEW known,
         NEW s \in TableSet, NEW ctes, DOMAIN ctes \subseteq V,
         NEW p, p = TableTokens(s, ctes, known)
  PROVE  FitsList(W, B, V, known, p, {Real(s.name, s.alias)})
<1> SUFFICES ASSUME NEW o, Occurs(W, o, p), InList(W, o), At(W, o + Len(p) + 1) \in AfterSource
             PROVE  /\ \A i \in o + 1 .. o + Len(p) : Role(W, B, V, known, i)
                    /\ ClauseAfter(W, o + Len(p)) = "table" /\ At(W, o + Len(p)) # "."
                    /\ \A e \in o + Len(p) + 1 .. Len(W) + 1 :
                         Got(Texts(W), "tables", o + 1, e) =
                           {Real(s.name, s.alias)}
                             \cup Rest(Texts(W), "tables", o + Len(p) + 1, e)
  BY DEF FitsList
<1>1. PICK n : n = Len(p)
  OBVIOUS
<1>2. PICK k : TableAt(W, o, s, k, n)
  BY <1>1, TableRoles
<1>3. /\ n \in 1 .. 4 /\ o \in Nat /\ o + n <= Len(W)
      /\ \A i \in o + 1 .. o + n : Role(W, B, V, known, i)
      /\ ClauseAfter(W, o + n) = "table"
  BY <1>1, TableRoles
<1>4. At(W, o + n) # "."
  <2>1. At(W, o + n) \in {s.name, s.alias}
    <3>1. /\ k \in {1, 3} /\ At(W, o + k) = s.name
          /\ s.alias = s.name => n = k
          /\ s.alias # s.name => n = k + 1 /\ At(W, o + k + 1) = s.alias
      BY <1>2, TableAtIs
    <3>2. o + (k + 1) = o + k + 1
      BY <1>3, <3>1
    <3> QED
      BY <3>1, <3>2
  <2>2. s.name \in AnyName /\ s.alias \in AnyName
    BY DEF TableSet
  <2> QED
    BY <2>1, <2>2, NamesAre DEF Punctuation
<1>5. ASSUME NEW e \in o + n + 1 .. Len(W) + 1
      PROVE  Got(Texts(W), "tables", o + 1, e) =
               {Real(s.name, s.alias)} \cup Rest(Texts(W), "tables", o + n + 1, e)
  <2>1. At(W, o + n + 1) \in AfterSource
    BY <1>1
  <2> QED
    BY <2>1, <1>2, <1>3, TableReads
<1> QED
  BY <1>1, <1>3, <1>4, <1>5

\* Outside the lists of tables and of WITH.
LEMMA GotSkip ==
  ASSUME NEW W \in Seq(Tok), NEW j \in Nat, NEW m, m = j + 1, NEW e \in m .. Len(W) + 1, 1 <= j
  PROVE  /\ At(W, j) \notin FromKeywords \cup {"WITH"} =>
              Got(Texts(W), "range", j, e) = Got(Texts(W), "range", m, e)
         /\ At(W, j) \in FromKeywords =>
              Got(Texts(W), "range", j, e) = Got(Texts(W), "tables", m, e)
<1>1. Len(W) \in Nat /\ e \in 0 .. Len(W) + 1 /\ j < e /\ j \in 1 .. Len(W) + 1
  OBVIOUS
<1>2. PICK X : X = Texts(W)
  OBVIOUS
<1>3. X \in Seq(Word) /\ Len(X) = Len(W) /\ X[j] = At(W, j)
  BY <1>1, <1>2, AtIs, TextAt
<1> QED
  BY <1>1, <1>2, <1>3, GotRange
-----------------------------------------------------------------------------
\* Flattening one or two parts.
LEMMA FlattenFew ==
  ASSUME NEW parts \in Seq(Seq(Tok))
  PROVE  /\ Len(parts) = 1 => FlattenSeq(parts) = parts[1]
         /\ Len(parts) = 2 => FlattenSeq(parts) = parts[1] \o parts[2]
<1>1. ASSUME Len(parts) \in {1, 2}
      PROVE  \E g : FlattensTo(Len(parts), g, parts) /\ FlattenSeq(parts) = g[Len(parts)]
  <2>1. parts # <<>>
    <3>1. ASSUME parts = <<>> PROVE Len(parts) = 0
      BY <3>1
    <3>2. 0 \notin {1, 2}
      OBVIOUS
    <3> QED
      BY <1>1, <3>1, <3>2, Zenon
  <2> QED
    BY <2>1, Flattened
<1>2. CASE Len(parts) = 1
  <2>1. PICK g : FlattensTo(1, g, parts) /\ FlattenSeq(parts) = g[1]
    BY <1>1, <1>2
  <2>2. g[1] = parts[1]
    BY <2>1 DEF FlattensTo
  <2> QED
    BY <1>2, <2>1, <2>2
<1>3. CASE Len(parts) = 2
  <2>1. PICK g : FlattensTo(2, g, parts) /\ FlattenSeq(parts) = g[2]
    BY <1>1, <1>3
  <2>2. g[1] = parts[1] /\ g[2] = g[2 - 1] \o parts[2]
    <3>1. 1 \in 1 .. 2 /\ 2 \in 1 .. 2
      OBVIOUS
    <3>2. g[1] = parts[1]
      BY <2>1, <3>1 DEF FlattensTo
    <3>3. g[2] = IF 2 = 1 THEN parts[2] ELSE g[2 - 1] \o parts[2]
      BY <2>1, <3>1, Zenon DEF FlattensTo
    <3> QED
      BY <3>2, <3>3
  <2>3. 2 - 1 = 1
    OBVIOUS
  <2> QED
    BY <1>3, <2>1, <2>2, <2>3
<1> QED
  BY <1>2, <1>3

Separators == {<<Plain(",")>>, <<Plain("CROSS"), Plain("JOIN")>>}

\* Sequences of one token of syntax.
LEMMA PlainTokens ==
  \A x \in Word : Plain(x) \in Tok /\ <<Plain(x)>> \in Seq(Tok) /\ Len(<<Plain(x)>>) = 1
<1> SUFFICES ASSUME NEW x \in Word
             PROVE  Plain(x) \in Tok /\ <<Plain(x)>> \in Seq(Tok) /\ Len(<<Plain(x)>>) = 1
  OBVIOUS
<1>1. Plain(x) \in Tok
  BY PlainIs DEF IsPlain
<1> QED
  BY <1>1, Few

\* What stands between sources.
LEMMA SeparatorsType ==
  ASSUME NEW sep \in Separators
  PROVE  sep \in Seq(Tok) /\ Len(sep) \in {1, 2}
<1>1. PICK c, d, e : c = Plain(",") /\ d = Plain("CROSS") /\ e = Plain("JOIN")
  OBVIOUS
<1>2. c \in Tok /\ d \in Tok /\ e \in Tok
  <2>1. "," \in Word /\ "CROSS" \in Word /\ "JOIN" \in Word
    BY DEF Word, Syntax
  <2> QED
    BY <1>1, <2>1, PlainTokens
<1>3. sep = <<c>> \/ sep = <<d, e>>
  BY <1>1 DEF Separators
<1> QED
  BY <1>2, <1>3, Few

\* SELECT from one source or two.
IsSelect(p, r, sources, rest) ==
  /\ rest \in Seq(Tok)
  /\ p = <<Plain("SELECT")>> \o r \o <<Plain("FROM")>> \o rest
  /\ Len(sources) = 1 => rest = sources[1]
  /\ Len(sources) = 2 => \E sep \in Separators : rest = sources[1] \o (sep \o sources[2])

\* The parts of a SELECT.
LEMMA SelectIs ==
  ASSUME NEW q, NEW sources \in Seq(Seq(Tok)), Len(sources) \in {1, 2}, NEW frames, NEW known,
         NEW r, r = RefTokens(q.ref, frames, known),
         NEW p, p = SelectTokens(q, sources, frames, known)
  PROVE  \E rest : IsSelect(p, r, sources, rest)
<1>1. PICK sep : sep = IF q.comma THEN <<Plain(",")>> ELSE Words(<<"CROSS", "JOIN">>)
  OBVIOUS
<1>2. sep \in Separators
  BY <1>1, WordsAre DEF Separators
<1>3. PICK parts : parts = [i \in DOMAIN sources |-> (IF i = 1 THEN <<>> ELSE sep) \o sources[i]]
  OBVIOUS
<1>4. p = <<Plain("SELECT")>> \o r \o <<Plain("FROM")>> \o FlattenSeq(parts)
  BY <1>1, <1>3 DEF SelectTokens
<1>5. \A i \in DOMAIN sources : sources[i] \in Seq(Tok) /\ <<>> \o sources[i] = sources[i]
  <2> SUFFICES ASSUME NEW i \in DOMAIN sources
               PROVE  sources[i] \in Seq(Tok) /\ <<>> \o sources[i] = sources[i]
    OBVIOUS
  <2>1. PICK s : s = sources[i]
    OBVIOUS
  <2>2. s \in Seq(Tok)
    BY <2>1
  <2>3. <<>> \o s = s
    BY <2>2
  <2> QED
    BY <2>1, <2>2, <2>3
<1>6. sep \in Seq(Tok)
  BY <1>2, SeparatorsType
<1>7. parts \in Seq(Seq(Tok)) /\ Len(parts) = Len(sources)
      /\ parts[1] = sources[1]
      /\ (Len(sources) = 2 => parts[2] = sep \o sources[2])
  <2>1. ASSUME NEW i \in DOMAIN sources PROVE parts[i] \in Seq(Tok)
    <3>1. i # 1 => sep \o sources[i] \in Seq(Tok)
      <4>1. sources[i] \in Seq(Tok)
        BY <1>5
      <4> QED
        BY <4>1, <1>6, Concat
    <3>2. parts[i] = IF i = 1 THEN sources[i] ELSE sep \o sources[i]
      BY <1>3, <1>5
    <3> QED
      BY <1>5, <3>1, <3>2
  <2>2. DOMAIN parts = DOMAIN sources /\ DOMAIN sources = 1 .. Len(sources)
    BY <1>3
  <2>3. parts \in Seq(Seq(Tok)) /\ Len(parts) = Len(sources)
    BY <1>3, <2>1, <2>2
  <2>4. 1 \in DOMAIN sources /\ (Len(sources) = 2 => 2 \in DOMAIN sources)
    BY <2>2
  <2>5. parts[1] = sources[1]
    BY <1>3, <1>5, <2>4
  <2>6. Len(sources) = 2 => parts[2] = sep \o sources[2]
    BY <1>3, <2>4
  <2> QED
    BY <2>3, <2>5, <2>6
<1>8. FlattenSeq(parts) \in Seq(Tok)
  BY <1>7, FlattenAt
<1> QED
  <2>1. PICK rest : rest = FlattenSeq(parts)
    OBVIOUS
  <2>2. /\ rest \in Seq(Tok)
        /\ p = <<Plain("SELECT")>> \o r \o <<Plain("FROM")>> \o rest
        /\ Len(sources) = 1 => rest = sources[1]
        /\ Len(sources) = 2 => rest = sources[1] \o (sep \o sources[2])
    BY <1>4, <1>7, <1>8, <2>1, FlattenFew
  <2>3. IsSelect(p, r, sources, rest)
    BY <1>2, <2>2 DEF IsSelect
  <2> QED
    BY <2>3
-----------------------------------------------------------------------------
\* After an element the list goes on behind a comma, and only there.
LEMMA RestIs ==
  ASSUME NEW W \in Seq(Tok), NEW j \in Nat, NEW m, m = j + 1, NEW e \in j .. Len(W) + 1, 1 <= j
  PROVE  /\ At(W, j) # "," => Rest(Texts(W), "tables", j, e) = Got(Texts(W), "range", j, e)
         /\ At(W, j) = "," /\ j < e =>
              Rest(Texts(W), "tables", j, e) = Got(Texts(W), "tables", m, e)
<1>1. Len(W) \in Nat /\ e \in 0 .. Len(W) + 1
  OBVIOUS
<1> QED
  BY <1>1, TextAt DEF Rest

\* A token of syntax that occurs.
LEMMA PlainAt ==
  ASSUME NEW W \in Seq(Tok), NEW o, NEW x \in Word, Occurs(W, o, <<Plain(x)>>)
  PROVE  o \in Nat /\ o + 1 <= Len(W) /\ At(W, o + 1) = x /\ IsPlain(x, W[o + 1])
<1>1. PICK d : d = Plain(x)
  OBVIOUS
<1>2. IsPlain(x, d)
  BY <1>1, PlainIs
<1>3. o \in Nat /\ o + 1 <= Len(W) /\ W[o + 1] = d /\ At(W, o + 1) = d.text
  <2>1. Occurs(W, o, <<d>>)
    BY <1>1
  <2> QED
    BY <2>1, OccursOne
<1>4. At(W, o + 1) = x
  BY <1>2, <1>3 DEF IsPlain
<1> QED
  BY <1>2, <1>3, <1>4

\* Keywords and punctuation.
LEMMA SyntaxRole ==
  ASSUME NEW W, NEW B, NEW V, NEW known, NEW i, NEW x \in Syntax \ {"CREATE", "VIEW", ";"},
         At(W, i) = x, IsPlain(x, W[i])
  PROVE  Role(W, B, V, known, i)
<1>1. ~IsName(x)
  BY DEF Syntax, IsName, IsIdent, Punctuation, StopWords, FromKeywords
<1> QED
  BY <1>1 DEF Role, PlainRole

\* Syntax is in its place.
LEMMA SyntaxAt ==
  ASSUME NEW W \in Seq(Tok), NEW B, NEW V, NEW known, NEW o, NEW x \in Syntax \ {"CREATE", "VIEW", ";"},
         Occurs(W, o, <<Plain(x)>>)
  PROVE  o \in Nat /\ o + 1 <= Len(W) /\ At(W, o + 1) = x /\ Role(W, B, V, known, o + 1)
<1>1. x \in Word
  BY DEF Word
<1> QED
  BY <1>1, PlainAt, SyntaxRole

\* After a separator the list goes on.
LEMMA SeparatorAt ==
  ASSUME NEW W \in Seq(Tok), NEW B, NEW V, NEW known, NEW m, NEW sep \in Separators,
         Occurs(W, m, sep), ClauseAfter(W, m) = "table", At(W, m) # "."
  PROVE  /\ m \in Nat /\ m + Len(sep) <= Len(W) /\ At(W, m + 1) \in AfterSource
         /\ InList(W, m + Len(sep))
         /\ \A i \in m + 1 .. m + Len(sep) : Role(W, B, V, known, i)
         /\ \A e \in m + Len(sep) + 1 .. Len(W) + 1 :
              Rest(Texts(W), "tables", m + 1, e) =
                Got(Texts(W), "tables", m + Len(sep) + 1, e)
<1>0. /\ "," \in Syntax \ {"CREATE", "VIEW", ";"} /\ "CROSS" \in Syntax \ {"CREATE", "VIEW"}
      /\ "JOIN" \in Syntax \ {"CREATE", "VIEW", ";"}
  BY DEF Syntax
<1>w. "," \in Word /\ "CROSS" \in Word /\ "JOIN" \in Word
  BY <1>0 DEF Word
<1>1. CASE sep = <<Plain(",")>>
  <2>1. Len(sep) = 1
    BY <1>1, <1>w, PlainTokens
  <2>2. m \in Nat /\ m + 1 <= Len(W)
    BY <1>0, <1>1, SyntaxAt
  <2>c. At(W, m + 1) = ","
    BY <1>0, <1>1, SyntaxAt
  <2>r. Role(W, B, V, known, m + 1)
    BY <1>0, <1>1, SyntaxAt
  <2>n. At(W, m + 1) \in ListWord
    BY <2>c DEF ListWord
  <2>a. At(W, m + 1) \in AfterSource /\ At(W, m + 1) \in FromKeywords \cup {","}
    BY <2>c DEF AfterSource
  <2>3. ClauseAfter(W, m + 1) = "table" /\ (m + 1) - 1 = m
    BY <2>2, <2>n, NameKept
  <2>4. InList(W, m + 1) /\ At(W, m + 1) \in AfterSource
    BY <2>a, <2>3 DEF InList
  <2>5. \A i \in m + 1 .. m + 1 : i = m + 1
    BY <2>2
  <2>6. ASSUME NEW e \in m + 2 .. Len(W) + 1
        PROVE  Rest(Texts(W), "tables", m + 1, e) = Got(Texts(W), "tables", m + 2, e)
    <3>1. m + 1 \in Nat /\ 1 <= m + 1 /\ e \in m + 1 .. Len(W) + 1 /\ m + 1 < e
          /\ m + 2 = (m + 1) + 1
      BY <2>2
    <3>2. At(W, m + 1) = "," => Rest(Texts(W), "tables", m + 1, e) = Got(Texts(W), "tables", m + 2, e)
      BY <3>1, RestIs
    <3> QED
      BY <2>c, <3>2
  <2>7. m + 1 + 1 = m + 2
    BY <2>2
  <2> QED
    BY <2>1, <2>2, <2>r, <2>4, <2>5, <2>6, <2>7
<1>2. CASE sep = <<Plain("CROSS"), Plain("JOIN")>>
  <2>c. PICK c, d : c = Plain("CROSS") /\ d = Plain("JOIN")
    OBVIOUS
  <2>p. IsPlain("CROSS", c) /\ IsPlain("JOIN", d) /\ c \in Tok /\ d \in Tok
    BY <2>c, <1>w, PlainIs DEF IsPlain
  <2>1. Len(sep) = 2
    BY <1>2, <2>c, <2>p, Few
  <2>o. Occurs(W, m, <<c, d>>)
    BY <1>2, <2>c
  <2>2. /\ m \in Nat /\ m + 2 <= Len(W)
        /\ W[m + 1] = c /\ At(W, m + 1) = c.text
        /\ W[m + 2] = d /\ At(W, m + 2) = d.text
    BY <2>o, OccursTwo
  <2>3. At(W, m + 1) = "CROSS" /\ At(W, m + 2) = "JOIN"
    BY <2>p, <2>2 DEF IsPlain
  <2>4. Role(W, B, V, known, m + 1) /\ Role(W, B, V, known, m + 2)
    BY <1>0, <2>p, <2>2, <2>3, SyntaxRole
  <2>5. /\ m + 1 \in Nat /\ (m + 1) + 1 = m + 2 /\ (m + 2) - 1 = m + 1 /\ m + 2 \in Nat
        /\ 1 <= m + 1 /\ 1 <= m + 2 /\ (m + 2) + 1 = m + 3 /\ m + 1 <= Len(W)
    <3>1. Len(W) \in Nat
      OBVIOUS
    <3> QED
      BY <3>1, <2>2
  <2>6. ClauseAfter(W, m + 2) = "table"
    <3>1. At(W, (m + 1) + 1) \in FromKeywords
      BY <2>3, <2>5 DEF FromKeywords
    <3> QED
      BY <3>1, <2>2, <2>5, ClauseSet
  <2>7. InList(W, m + 2) /\ At(W, m + 1) \in AfterSource
    BY <2>3, <2>5, <2>6 DEF InList, AfterSource, FromKeywords
  <2>8. \A i \in m + 1 .. m + 2 : i = m + 1 \/ i = m + 2
    BY <2>2
  <2>9. ASSUME NEW e \in m + 3 .. Len(W) + 1
        PROVE  Rest(Texts(W), "tables", m + 1, e) = Got(Texts(W), "tables", m + 3, e)
    <3>1. e \in m + 1 .. Len(W) + 1 /\ e \in m + 2 .. Len(W) + 1
      BY <2>2
    <3>2. Rest(Texts(W), "tables", m + 1, e) = Got(Texts(W), "range", m + 1, e)
      BY <2>3, <2>5, <3>1, RestIs
    <3>3. Got(Texts(W), "range", m + 1, e) = Got(Texts(W), "range", m + 2, e)
      <4>1. At(W, m + 1) \notin FromKeywords \cup {"WITH"}
        BY <2>3 DEF FromKeywords
      <4> QED
        BY <2>5, <3>1, <4>1, GotSkip
    <3>4. Got(Texts(W), "range", m + 2, e) = Got(Texts(W), "tables", m + 3, e)
      <4>1. At(W, m + 2) \in FromKeywords
        BY <2>3 DEF FromKeywords
      <4> QED
        BY <2>5, <4>1, GotSkip
    <3> QED
      BY <3>2, <3>3, <3>4
  <2>10. m + 2 + 1 = m + 3
    BY <2>2
  <2> QED
    BY <2>1, <2>2, <2>4, <2>7, <2>8, <2>9, <2>10
<1> QED
  BY <1>1, <1>2 DEF Separators
-----------------------------------------------------------------------------
\* What is before such a place, behind it, and read from it on.
Left(W, o, kind) ==
  /\ At(W, o) # "."
  /\ kind = "ref" => BeforeRef(W, o)
  /\ kind = "list" => InList(W, o)
  /\ kind \in {"source", "rest"} => ClauseAfter(W, o) = "table"

Right(W, o, kind) ==
  /\ kind = "range" => At(W, o + 1) # ","
  /\ kind = "column" => At(W, o + 1) \notin {".", "("}
  /\ kind = "source" => At(W, o + 1) \in AfterSource
  /\ kind \in {"rest", "end"} => At(W, o + 1) \in AfterRange

Reading(W, o, kind, e) ==
  IF kind = "list" THEN Got(Texts(W), "tables", o + 1, e)
  ELSE IF kind = "source" THEN Rest(Texts(W), "tables", o + 1, e)
  ELSE Got(Texts(W), "range", o + 1, e)

\* Where p stands between two such places its tokens have their roles, and R is read.
Piece(W, B, V, known, p, R, kind, next) ==
  \A o : Occurs(W, o, p) /\ Right(W, o + Len(p), next) =>
    /\ Right(W, o, kind)
    /\ Left(W, o, kind) =>
         /\ Left(W, o + Len(p), next)
         /\ \A i \in o + 1 .. o + Len(p) : Role(W, B, V, known, i)
         /\ \A e \in o + Len(p) + 1 .. Len(W) + 1 :
              Reading(W, o, kind, e) = R \cup Reading(W, o + Len(p), next, e)

\* The length of two parts.
LEMMA JoinIs ==
  ASSUME NEW s \in Seq(Tok), NEW t \in Seq(Tok), NEW p, IsJoin(p, s, t)
  PROVE  p \in Seq(Tok) /\ Len(s) \in Nat /\ Len(t) \in Nat /\ Len(p) = Len(s) + Len(t)
BY ConcatIs DEF IsJoin

\* Two pieces that fit together are one.
LEMMA PieceJoin ==
  ASSUME NEW W \in Seq(Tok), NEW B, NEW V, NEW known, NEW a, NEW b, NEW c,
         NEW s \in Seq(Tok), NEW R, Piece(W, B, V, known, s, R, a, b),
         NEW t \in Seq(Tok), NEW T, Piece(W, B, V, known, t, T, b, c),
         NEW p, IsJoin(p, s, t)
  PROVE  p \in Seq(Tok) /\ Piece(W, B, V, known, p, R \cup T, a, c)
<1>1. p \in Seq(Tok) /\ Len(p) = Len(s) + Len(t) /\ Len(s) \in Nat /\ Len(t) \in Nat
  BY JoinIs
<1>2. SUFFICES ASSUME NEW o, Occurs(W, o, p), Right(W, o + Len(p), c)
               PROVE  /\ Right(W, o, a)
                      /\ Left(W, o, a) =>
                           /\ Left(W, o + Len(p), c)
                           /\ \A i \in o + 1 .. o + Len(p) : Role(W, B, V, known, i)
                           /\ \A e \in o + Len(p) + 1 .. Len(W) + 1 :
                                Reading(W, o, a, e) = (R \cup T) \cup Reading(W, o + Len(p), c, e)
  BY <1>1 DEF Piece
<1>3. PICK n, k : n = Len(s) /\ k = Len(t)
  OBVIOUS
<1>4. n \in Nat /\ k \in Nat /\ Len(p) = n + k /\ o \in Nat
  BY <1>1, <1>2, <1>3 DEF Occurs
<1>5. PICK m, l : m = o + n /\ l = m + k
  OBVIOUS
<1>6. m \in Nat /\ l \in Nat /\ o + Len(p) = l /\ m >= o /\ l >= m
  BY <1>4, <1>5
<1>7. Occurs(W, o, s) /\ Occurs(W, m, t)
  BY <1>2, <1>3, <1>5, OccursConcat
<1>8. Right(W, l, c)
  BY <1>2, <1>6
<1>9. /\ Right(W, m, b)
      /\ Left(W, m, b) =>
           /\ Left(W, l, c)
           /\ \A i \in m + 1 .. l : Role(W, B, V, known, i)
           /\ \A e \in l + 1 .. Len(W) + 1 : Reading(W, m, b, e) = T \cup Reading(W, l, c, e)
  BY <1>3, <1>5, <1>7, <1>8 DEF Piece
<1>10. /\ Right(W, o, a)
       /\ Left(W, o, a) =>
            /\ Left(W, m, b)
            /\ \A i \in o + 1 .. m : Role(W, B, V, known, i)
            /\ \A e \in m + 1 .. Len(W) + 1 : Reading(W, o, a, e) = R \cup Reading(W, m, b, e)
  BY <1>3, <1>5, <1>7, <1>9 DEF Piece
<1>11. SUFFICES ASSUME Left(W, o, a)
                PROVE  /\ Left(W, l, c)
                       /\ \A i \in o + 1 .. l : Role(W, B, V, known, i)
                       /\ \A e \in l + 1 .. Len(W) + 1 :
                            Reading(W, o, a, e) = (R \cup T) \cup Reading(W, l, c, e)
  BY <1>6, <1>10
<1>12. ASSUME NEW i \in o + 1 .. l PROVE Role(W, B, V, known, i)
  <2>1. i \in o + 1 .. m \/ i \in m + 1 .. l
    BY <1>4, <1>6
  <2> QED
    BY <2>1, <1>9, <1>10, <1>11
<1>13. ASSUME NEW e \in l + 1 .. Len(W) + 1
       PROVE  Reading(W, o, a, e) = (R \cup T) \cup Reading(W, l, c, e)
  <2>1. e \in m + 1 .. Len(W) + 1
    BY <1>6
  <2>2. Reading(W, o, a, e) = R \cup Reading(W, m, b, e)
    BY <2>1, <1>10, <1>11
  <2>3. Reading(W, m, b, e) = T \cup Reading(W, l, c, e)
    BY <1>9, <1>10, <1>11
  <2> QED
    BY <2>2, <2>3
<1> QED
  BY <1>9, <1>10, <1>11, <1>12, <1>13

\* After a list of sources the query is over, and after a query that ends in a reference.
LEMMA Weaker ==
  ASSUME NEW W \in Seq(Tok), NEW B, NEW V, NEW known, NEW p \in Seq(Tok), NEW R, NEW kind,
         NEW a, NEW b, <<a, b>> \in {<<"source", "rest">>, <<"rest", "end">>, <<"column", "end">>},
         Piece(W, B, V, known, p, R, kind, a)
  PROVE  Piece(W, B, V, known, p, R, kind, b)
<1> SUFFICES ASSUME NEW o, Occurs(W, o, p), Right(W, o + Len(p), b)
             PROVE  /\ Right(W, o, kind)
                    /\ Left(W, o, kind) =>
                         /\ Left(W, o + Len(p), b)
                         /\ \A i \in o + 1 .. o + Len(p) : Role(W, B, V, known, i)
                         /\ \A e \in o + Len(p) + 1 .. Len(W) + 1 :
                              Reading(W, o, kind, e) = R \cup Reading(W, o + Len(p), b, e)
  BY DEF Piece
<1>1. \/ a = "source" /\ b = "rest"
      \/ a = "rest" /\ b = "end"
      \/ a = "column" /\ b = "end"
  OBVIOUS
<1>2. PICK m : m = o + Len(p)
  OBVIOUS
<1>3. m \in Nat /\ o \in Nat
  <2>1. Len(p) \in Nat
    OBVIOUS
  <2> QED
    BY <2>1, <1>2 DEF Occurs
<1>4. At(W, m + 1) \in AfterRange
  BY <1>1, <1>2 DEF Right
<1>5. At(W, m + 1) \in AfterSource /\ At(W, m + 1) \notin {".", "(", ","}
  BY <1>4, AfterSourceIs DEF AfterRange
<1>6. Right(W, m, a)
  BY <1>1, <1>4, <1>5 DEF Right
<1>7. Right(W, o, kind)
      /\ (Left(W, o, kind) =>
            /\ Left(W, m, a)
            /\ \A i \in o + 1 .. m : Role(W, B, V, known, i)
            /\ \A e \in m + 1 .. Len(W) + 1 : Reading(W, o, kind, e) = R \cup Reading(W, m, a, e))
  BY <1>2, <1>6 DEF Piece
<1>8. Left(W, m, a) => Left(W, m, b)
  BY <1>1 DEF Left
<1>9. ASSUME NEW e \in m + 1 .. Len(W) + 1
      PROVE  Reading(W, m, a, e) = Reading(W, m, b, e)
  <2>1. CASE a = "source"
    <3>1. b = "rest" /\ b # "list" /\ b # "source" /\ a # "list"
      BY <2>1, <1>1
    <3>2. Rest(Texts(W), "tables", m + 1, e) = Got(Texts(W), "range", m + 1, e)
      <4>1. m + 1 \in Nat /\ 1 <= m + 1
        BY <1>3
      <4> QED
        BY <4>1, <1>5, RestIs
    <3> QED
      BY <2>1, <3>1, <3>2 DEF Reading
  <2>2. CASE a # "source"
    <3>1. a # "list" /\ b # "list" /\ b # "source"
      BY <2>2, <1>1
    <3> QED
      BY <2>2, <3>1 DEF Reading
  <2> QED
    BY <2>1, <2>2
<1> QED
  BY <1>2, <1>7, <1>8, <1>9

\* An element of a list of tables is a piece.
LEMMA ListPiece ==
  ASSUME NEW W \in Seq(Tok), NEW B, NEW V, NEW known, NEW p \in Seq(Tok), NEW R,
         FitsList(W, B, V, known, p, R)
  PROVE  Piece(W, B, V, known, p, R, "list", "source")
BY DEF FitsList, Piece, Left, Right, Reading
-----------------------------------------------------------------------------
Passed(text) == text \notin FromKeywords \cup {"WITH", ","}

\* The extractor passes a token that is nothing to it.
LEMMA SkipReads ==
  ASSUME NEW W \in Seq(Tok), NEW o \in Nat, NEW m, m = o + 1, NEW kind, kind # "list",
         NEW next, next \notin {"list", "source"},
         Passed(At(W, m)), NEW e \in m + 1 .. Len(W) + 1
  PROVE  Reading(W, o, kind, e) = Reading(W, m, next, e)
<1>1. m \in Nat /\ 1 <= m /\ e \in m .. Len(W) + 1
  OBVIOUS
<1>2. Got(Texts(W), "range", m, e) = Got(Texts(W), "range", m + 1, e)
  <2>1. PICK n : n = m + 1
    OBVIOUS
  <2>2. At(W, m) \notin FromKeywords \cup {"WITH"}
    BY DEF Passed
  <2>3. n = m + 1 /\ e \in n .. Len(W) + 1
    BY <2>1
  <2>4. Got(Texts(W), "range", m, e) = Got(Texts(W), "range", n, e)
    BY <1>1, <2>2, <2>3, GotSkip
  <2> QED
    BY <2>1, <2>4
<1>3. Rest(Texts(W), "tables", m, e) = Got(Texts(W), "range", m, e)
  <2>1. At(W, m) # ","
    BY DEF Passed
  <2> QED
    BY <1>1, <2>1, RestIs
<1>4. Reading(W, o, kind, e) = Got(Texts(W), "range", m, e)
  BY <1>3 DEF Reading
<1>5. Reading(W, m, next, e) = Got(Texts(W), "range", m + 1, e)
  BY DEF Reading
<1> QED
  BY <1>2, <1>4, <1>5

\* After FROM, JOIN, INTO and UPDATE it reads a list of tables.
LEMMA FromReads ==
  ASSUME NEW W \in Seq(Tok), NEW o \in Nat, NEW m, m = o + 1, NEW kind, kind # "list",
         At(W, m) \in FromKeywords, NEW e \in m + 1 .. Len(W) + 1
  PROVE  Reading(W, o, kind, e) = Reading(W, m, "list", e)
<1>1. m \in Nat /\ 1 <= m /\ e \in m .. Len(W) + 1
  OBVIOUS
<1>2. Got(Texts(W), "range", m, e) = Got(Texts(W), "tables", m + 1, e)
  <2>1. PICK n : n = m + 1
    OBVIOUS
  <2> QED
    BY <1>1, <2>1, GotSkip
<1>3. Rest(Texts(W), "tables", m, e) = Got(Texts(W), "range", m, e)
  <2>1. At(W, m) # ","
    BY DEF FromKeywords
  <2> QED
    BY <1>1, <2>1, RestIs
<1>4. Reading(W, o, kind, e) = Got(Texts(W), "range", m, e)
  BY <1>3 DEF Reading
<1>5. Reading(W, m, "list", e) = Got(Texts(W), "tables", m + 1, e)
  BY DEF Reading
<1> QED
  BY <1>2, <1>4, <1>5

\* A keyword or a parenthesis between two places.
Skipped == {"SELECT", "WHERE", "EXISTS", "AND", "(", ")"}

Passes(x, kind, next) ==
  \/ x = "SELECT" /\ kind = "range" /\ next = "ref"
  \/ x = "WHERE" /\ kind = "rest" /\ next = "range"
  \/ x \in {"EXISTS", "("} /\ kind = "range" /\ next = "range"
  \/ x = ")" /\ kind = "end" /\ next = "range"
  \/ x = "AND" /\ kind = "range" /\ next = "ref"

\* A token that the extractor passes is a piece.
LEMMA SkipPiece ==
  ASSUME NEW W \in Seq(Tok), NEW B, NEW V, NEW known, NEW x \in Skipped, NEW kind, NEW next,
         Passes(x, kind, next)
  PROVE  Piece(W, B, V, known, <<Plain(x)>>, {}, kind, next)
<1>1. PICK p : p = <<Plain(x)>>
  OBVIOUS
<1>2. Len(p) = 1
  BY <1>1
<1>3. SUFFICES ASSUME NEW o, Occurs(W, o, p), Right(W, o + Len(p), next)
               PROVE  /\ Right(W, o, kind)
                      /\ Left(W, o, kind) =>
                           /\ Left(W, o + Len(p), next)
                           /\ \A i \in o + 1 .. o + Len(p) : Role(W, B, V, known, i)
                           /\ \A e \in o + Len(p) + 1 .. Len(W) + 1 :
                                Reading(W, o, kind, e) = {} \cup Reading(W, o + Len(p), next, e)
  BY <1>1 DEF Piece
<1>4. x \in Syntax \ {"CREATE", "VIEW", ";"}
  BY DEF Skipped, Syntax
<1>5. o \in Nat /\ o + 1 <= Len(W) /\ At(W, o + 1) = x /\ Role(W, B, V, known, o + 1)
  BY <1>1, <1>3, <1>4, SyntaxAt
<1>6. x \notin FromKeywords \cup {"WITH", ",", "."}
  BY DEF Skipped, FromKeywords
<1>7. PICK m : m = o + 1
  OBVIOUS
<1>8. m \in Nat /\ m - 1 = o /\ \A i \in o + 1 .. m : i = m
  BY <1>5, <1>7
<1>9. Right(W, o, kind)
  BY <1>5 DEF Right, Passes, AfterRange, AfterSource, AfterQuery
<1>10. ASSUME Left(W, o, kind) PROVE Left(W, m, next)
  <2>1. At(W, m) = x /\ At(W, m - 1) # "."
    BY <1>5, <1>7, <1>8, <1>10 DEF Left
  <2>2. x = "SELECT" => ClauseAfter(W, m) = "column"
    BY <1>5, <1>7, ClauseSet
  <2>3. next = "ref" => BeforeRef(W, m)
    BY <2>1, <2>2 DEF BeforeRef, Passes
  <2> QED
    BY <2>1, <2>3, <1>6 DEF Left, Passes
<1>11. kind # "list" /\ next \notin {"list", "source"}
  BY DEF Passes
<1>12. ASSUME NEW e \in m + 1 .. Len(W) + 1
       PROVE  Reading(W, o, kind, e) = {} \cup Reading(W, m, next, e)
  <2>1. Reading(W, o, kind, e) = Reading(W, m, next, e)
    <3>1. Passed(At(W, m))
      BY <1>5, <1>6, <1>7 DEF Passed
    <3> QED
      BY <1>5, <1>7, <1>11, <3>1, SkipReads
  <2> QED
    BY <2>1
<1> QED
  BY <1>2, <1>5, <1>7, <1>8, <1>9, <1>10, <1>12

\* FROM and UPDATE.
LEMMA FromPiece ==
  ASSUME NEW W \in Seq(Tok), NEW B, NEW V, NEW known, NEW x, NEW kind,
         <<x, kind>> \in {<<"FROM", "column">>, <<"UPDATE", "range">>}
  PROVE  Piece(W, B, V, known, <<Plain(x)>>, {}, kind, "list")
<1>0. (x = "FROM" /\ kind = "column") \/ (x = "UPDATE" /\ kind = "range")
  OBVIOUS
<1>1. PICK p : p = <<Plain(x)>>
  OBVIOUS
<1>2. Len(p) = 1
  BY <1>1
<1>3. SUFFICES ASSUME NEW o, Occurs(W, o, p)
               PROVE  /\ Right(W, o, kind)
                      /\ Left(W, o, kind) =>
                           /\ Left(W, o + Len(p), "list")
                           /\ \A i \in o + 1 .. o + Len(p) : Role(W, B, V, known, i)
                           /\ \A e \in o + Len(p) + 1 .. Len(W) + 1 :
                                Reading(W, o, kind, e) = {} \cup Reading(W, o + Len(p), "list", e)
  BY <1>1 DEF Piece
<1>4. x \in Syntax \ {"CREATE", "VIEW", ";"}
  BY <1>0 DEF Syntax
<1>5. o \in Nat /\ o + 1 <= Len(W) /\ At(W, o + 1) = x /\ Role(W, B, V, known, o + 1)
  BY <1>1, <1>3, <1>4, SyntaxAt
<1>6. x \in FromKeywords /\ x \notin {",", ".", "("}
  BY <1>0 DEF FromKeywords
<1>7. PICK m : m = o + 1
  OBVIOUS
<1>8. m \in Nat /\ m - 1 = o /\ \A i \in o + 1 .. m : i = m
  BY <1>5, <1>7
<1>9. Right(W, o, kind)
  BY <1>0, <1>5, <1>6 DEF Right
<1>10. ASSUME Left(W, o, kind) PROVE Left(W, m, "list")
  <2>1. At(W, m) = x /\ At(W, m - 1) # "."
    BY <1>5, <1>7, <1>8, <1>10 DEF Left
  <2>2. ClauseAfter(W, m) = "table"
    BY <1>5, <1>6, <1>7, ClauseSet
  <2> QED
    BY <2>1, <2>2, <1>6 DEF Left, InList
<1>11. ASSUME NEW e \in m + 1 .. Len(W) + 1
       PROVE  Reading(W, o, kind, e) = {} \cup Reading(W, m, "list", e)
  <2>1. Reading(W, o, kind, e) = Reading(W, m, "list", e)
    <3>1. kind # "list" /\ At(W, m) \in FromKeywords
      BY <1>0, <1>5, <1>6, <1>7
    <3> QED
      BY <1>5, <1>7, <3>1, FromReads
  <2> QED
    BY <2>1
<1> QED
  BY <1>2, <1>5, <1>7, <1>8, <1>9, <1>10, <1>11

\* What stands between sources is a piece.
LEMMA SeparatorPiece ==
  ASSUME NEW W \in Seq(Tok), NEW B, NEW V, NEW known, NEW sep \in Separators
  PROVE  Piece(W, B, V, known, sep, {}, "source", "list")
<1>0. sep \in Seq(Tok) /\ Len(sep) \in {1, 2}
  BY SeparatorsType
<1>1. SUFFICES ASSUME NEW o, Occurs(W, o, sep)
               PROVE  /\ Right(W, o, "source")
                      /\ Left(W, o, "source") =>
                           /\ Left(W, o + Len(sep), "list")
                           /\ \A i \in o + 1 .. o + Len(sep) : Role(W, B, V, known, i)
                           /\ \A e \in o + Len(sep) + 1 .. Len(W) + 1 :
                                Reading(W, o, "source", e) =
                                  {} \cup Reading(W, o + Len(sep), "list", e)
  BY DEF Piece
<1>2. At(W, o + 1) \in AfterSource
  <2>1. "," \in Word /\ "CROSS" \in Word
    BY DEF Word, Syntax
  <2>2. CASE sep = <<Plain(",")>>
    <3>1. At(W, o + 1) = ","
      BY <2>1, <2>2, <1>1, PlainAt
    <3> QED
      BY <3>1 DEF AfterSource
  <2>3. CASE sep = <<Plain("CROSS"), Plain("JOIN")>>
    <3>1. PICK c, d : c = Plain("CROSS") /\ d = Plain("JOIN")
      OBVIOUS
    <3>2. Occurs(W, o, <<c, d>>)
      BY <2>3, <3>1, <1>1
    <3>3. At(W, o + 1) = c.text
      BY <3>2, OccursTwo
    <3>4. At(W, o + 1) = "CROSS"
      BY <2>1, <3>1, <3>3, PlainIs DEF IsPlain
    <3> QED
      BY <3>4 DEF AfterSource
  <2> QED
    BY <2>2, <2>3 DEF Separators
<1>3. Right(W, o, "source")
  BY <1>2 DEF Right
<1>4. SUFFICES ASSUME Left(W, o, "source")
               PROVE  /\ Left(W, o + Len(sep), "list")
                      /\ \A i \in o + 1 .. o + Len(sep) : Role(W, B, V, known, i)
                      /\ \A e \in o + Len(sep) + 1 .. Len(W) + 1 :
                           Reading(W, o, "source", e) =
                             {} \cup Reading(W, o + Len(sep), "list", e)
  BY <1>3
<1>5. ClauseAfter(W, o) = "table" /\ At(W, o) # "."
  BY <1>4 DEF Left
<1>6. /\ InList(W, o + Len(sep))
      /\ \A i \in o + 1 .. o + Len(sep) : Role(W, B, V, known, i)
      /\ \A e \in o + Len(sep) + 1 .. Len(W) + 1 :
           Rest(Texts(W), "tables", o + 1, e) = Got(Texts(W), "tables", o + Len(sep) + 1, e)
  BY <1>1, <1>5, SeparatorAt
<1>7. At(W, o + Len(sep)) # "."
  BY <1>6 DEF InList, FromKeywords
<1> QED
  BY <1>6, <1>7 DEF Left, Reading
-----------------------------------------------------------------------------
\* Names and dots are skipped.
LEMMA NamePassed ==
  ASSUME NEW t \in AnyName \cup AnySchema \cup {".", "AS", ")", "="}
  PROVE  Passed(t)
<1>1. t \in AnyName \cup AnySchema => t \notin StopWords \cup Punctuation
  BY NamesAre
<1>2. FromKeywords \cup {"WITH"} \subseteq StopWords /\ "," \in Punctuation
  BY DEF StopWords, FromKeywords, Punctuation
<1>3. t \in {".", "AS", ")", "="} => t \notin FromKeywords \cup {"WITH", ","}
  BY DEF FromKeywords
<1> QED
  BY <1>1, <1>2, <1>3 DEF Passed

\* The extractor passes a token of a reference.
LEMMA SkipColumn ==
  ASSUME NEW W \in Seq(Tok), NEW o \in Nat, NEW m, m = o + 1, Passed(At(W, m)),
         NEW e \in m + 1 .. Len(W) + 1
  PROVE  Reading(W, o, "column", e) = Reading(W, m, "column", e)
  BY SkipReads

\* A reference is a piece, in which nothing is read.
LEMMA RefPiece ==
  ASSUME NEW W \in Seq(Tok), NEW B, NEW V, NEW known, NEW ref \in RefSet,
         NEW frames, DOMAIN frames \in SUBSET Nat,
         \A i \in DOMAIN frames : FrameMeans(B, frames[i]),
         NEW p, p = RefTokens(ref, frames, known)
  PROVE  p \in Seq(Tok) /\ Piece(W, B, V, known, p, {}, "ref", "column")
<1>1. PICK l, r : /\ p = <<l, Plain("."), r>>
                  /\ IsQualifier(B, known, ref.qualifier, l)
                  /\ IsColumn(B, ref.qualifier, ref.column, r)
  BY RefShape
<1>2. ref.qualifier \in AnyName /\ ref.column \in AnyName
  BY DEF RefSet
<1>3. p \in Seq(Tok) /\ Len(p) = 3
  <2>1. PICK d : d = Plain(".")
    OBVIOUS
  <2>2. l \in Tok /\ r \in Tok /\ d \in Tok
    <3>1. "." \in Word
      BY DEF Word, Syntax
    <3> QED
      BY <1>1, <2>1, <3>1, PlainTokens DEF IsQualifier, IsColumn
  <2>3. p = <<l, d, r>>
    BY <1>1, <2>1
  <2> QED
    BY <2>2, <2>3, Few
<1>4. SUFFICES ASSUME NEW o, Occurs(W, o, p), Right(W, o + Len(p), "column")
               PROVE  /\ Right(W, o, "ref")
                      /\ Left(W, o, "ref") =>
                           /\ Left(W, o + Len(p), "column")
                           /\ \A i \in o + 1 .. o + Len(p) : Role(W, B, V, known, i)
                           /\ \A e \in o + Len(p) + 1 .. Len(W) + 1 :
                                Reading(W, o, "ref", e) =
                                  {} \cup Reading(W, o + Len(p), "column", e)
  BY <1>3 DEF Piece
<1>5. Right(W, o, "ref")
  BY DEF Right
<1>6. o \in Nat /\ o + 3 + 1 = o + 4
  BY <1>4 DEF Occurs
<1>7. At(W, o + 4) \notin {".", "("}
  BY <1>3, <1>4, <1>6 DEF Right
<1>8. SUFFICES ASSUME BeforeRef(W, o)
               PROVE  /\ Left(W, o + 3, "column")
                      /\ \A i \in o + 1 .. o + 3 : Role(W, B, V, known, i)
                      /\ \A e \in o + 4 .. Len(W) + 1 :
                           Reading(W, o, "ref", e) = Reading(W, o + 3, "column", e)
  <2>1. Left(W, o, "ref") => BeforeRef(W, o)
    BY DEF Left
  <2> QED
    BY <1>3, <1>5, <1>6, <2>1
<1>9. /\ o + 3 <= Len(W)
      /\ Role(W, B, V, known, o + 1) /\ Role(W, B, V, known, o + 2) /\ Role(W, B, V, known, o + 3)
      /\ At(W, o + 1) = ref.qualifier /\ At(W, o + 2) = "." /\ At(W, o + 3) = ref.column
  <2>1. Occurs(W, o, <<l, Plain("."), r>>)
    BY <1>1, <1>4
  <2> QED
    BY <1>1, <1>2, <1>7, <1>8, <2>1, RefRoles
<1>10. Left(W, o + 3, "column")
  <2>1. At(W, o + 3) # "."
    BY <1>2, <1>9, NamesAre DEF Punctuation
  <2> QED
    BY <2>1 DEF Left
<1>11. \A i \in o + 1 .. o + 3 : Role(W, B, V, known, i)
  <2>1. \A i \in o + 1 .. o + 3 : i = o + 1 \/ i = o + 2 \/ i = o + 3
    BY <1>6
  <2> QED
    BY <2>1, <1>9
<1>12. Passed(At(W, o + 1)) /\ Passed(At(W, o + 2)) /\ Passed(At(W, o + 3))
  <2>1. "." \in AnyName \cup AnySchema \cup {".", "AS", ")", "="}
    OBVIOUS
  <2> QED
    BY <2>1, <1>2, <1>9, NamePassed
<1>13. ASSUME NEW e \in o + 4 .. Len(W) + 1
       PROVE  Reading(W, o, "ref", e) = Reading(W, o + 3, "column", e)
  <2>1. PICK a, b, c : a = o + 1 /\ b = o + 2 /\ c = o + 3
    OBVIOUS
  <2>2. /\ a \in Nat /\ b \in Nat /\ b = a + 1 /\ c = b + 1
        /\ e \in a + 1 .. Len(W) + 1 /\ e \in b + 1 .. Len(W) + 1 /\ e \in c + 1 .. Len(W) + 1
    BY <1>6, <2>1
  <2>3. Reading(W, o, "ref", e) = Reading(W, a, "column", e)
    BY <1>6, <1>12, <2>1, <2>2, SkipReads
  <2>6. Passed(At(W, b)) /\ Passed(At(W, c))
    BY <1>12, <2>1
  <2>4. Reading(W, a, "column", e) = Reading(W, b, "column", e)
    BY <2>2, <2>6, SkipColumn
  <2>5. Reading(W, b, "column", e) = Reading(W, c, "column", e)
    <3>1. b \in Nat
      BY <2>2
    <3> QED
      BY <2>2, <2>6, <3>1, SkipColumn
  <2> QED
    BY <2>1, <2>3, <2>4, <2>5
<1> QED
  BY <1>10, <1>11, <1>13

\* SELECT from one source or two.
LEMMA SelectPiece ==
  ASSUME NEW W \in Seq(Tok), NEW B, NEW V, NEW known, NEW q, q.ref \in RefSet,
         NEW frames, DOMAIN frames \in SUBSET Nat,
         \A i \in DOMAIN frames : FrameMeans(B, frames[i]),
         NEW sources \in Seq(Seq(Tok)), Len(sources) \in {1, 2},
         NEW R, \A i \in DOMAIN sources : Piece(W, B, V, known, sources[i], R[i], "list", "source"),
         NEW T, T = UNION {R[i] : i \in DOMAIN sources},
         NEW p, p = SelectTokens(q, sources, frames, known)
  PROVE  /\ p \in Seq(Tok)
         /\ Piece(W, B, V, known, p, T, "range", "rest")
<1>1. PICK r : r = RefTokens(q.ref, frames, known)
  OBVIOUS
<1>2. r \in Seq(Tok) /\ Piece(W, B, V, known, r, {}, "ref", "column")
  BY <1>1, RefPiece
<1>0. PICK rest : IsSelect(p, r, sources, rest)
  BY <1>1, SelectIs
<1>3. /\ rest \in Seq(Tok)
      /\ p = <<Plain("SELECT")>> \o r \o <<Plain("FROM")>> \o rest
      /\ Len(sources) = 1 => rest = sources[1]
      /\ Len(sources) = 2 => \E sep \in Separators : rest = sources[1] \o (sep \o sources[2])
  BY <1>0 DEF IsSelect
<1>4. Piece(W, B, V, known, rest, T, "list", "source")
  <2>1. CASE Len(sources) = 1
    <3>1. DOMAIN sources = {1}
      BY <2>1
    <3>2. rest = sources[1] /\ T = R[1]
      BY <2>1, <3>1, <1>3
    <3> QED
      BY <3>1, <3>2
  <2>2. CASE Len(sources) = 2
    <3>1. DOMAIN sources = {1, 2}
      BY <2>2
    <3>2. PICK sep \in Separators : rest = sources[1] \o (sep \o sources[2])
      BY <2>2, <1>3
    <3>3. PICK s, t : s = sources[1] /\ t = sources[2]
      OBVIOUS
    <3>4. /\ s \in Seq(Tok) /\ t \in Seq(Tok) /\ sep \in Seq(Tok)
          /\ Piece(W, B, V, known, s, R[1], "list", "source")
          /\ Piece(W, B, V, known, t, R[2], "list", "source")
      <4>1. s \in Seq(Tok) /\ t \in Seq(Tok)
        <5>1. 1 \in 1 .. Len(sources) /\ 2 \in 1 .. Len(sources)
          BY <2>2
        <5>2. sources[1] \in Seq(Tok) /\ sources[2] \in Seq(Tok)
          BY <5>1, PartOf
        <5> QED
          BY <3>3, <5>2
      <4>2. sep \in Seq(Tok)
        BY SeparatorsType
      <4> QED
        BY <3>1, <3>3, <4>1, <4>2
    <3>5. Piece(W, B, V, known, sep, {}, "source", "list")
      BY SeparatorPiece
    <3>6. PICK u : IsJoin(u, sep, t)
      BY DEF IsJoin
    <3>7. u \in Seq(Tok) /\ Piece(W, B, V, known, u, {} \cup R[2], "source", "source")
      BY <3>4, <3>5, <3>6, PieceJoin
    <3>8. IsJoin(rest, s, u)
      BY <3>2, <3>3, <3>6 DEF IsJoin
    <3>9. Piece(W, B, V, known, rest, R[1] \cup ({} \cup R[2]), "list", "source")
      BY <3>4, <3>7, <3>8, PieceJoin
    <3>10. R[1] \cup ({} \cup R[2]) = T
      BY <3>1
    <3> QED
      BY <3>9, <3>10
  <2> QED
    BY <2>1, <2>2
<1>5. PICK a, b : a = <<Plain("SELECT")>> /\ b = <<Plain("FROM")>>
  OBVIOUS
<1>6. a \in Seq(Tok) /\ b \in Seq(Tok)
  <2>1. "SELECT" \in Word /\ "FROM" \in Word
    BY DEF Word, Syntax
  <2> QED
    BY <1>5, <2>1, PlainTokens
<1>7. Piece(W, B, V, known, a, {}, "range", "ref") /\ Piece(W, B, V, known, b, {}, "column", "list")
  <2>1. Passes("SELECT", "range", "ref") /\ "SELECT" \in Skipped
    BY DEF Passes, Skipped
  <2>2. Piece(W, B, V, known, a, {}, "range", "ref")
    BY <1>5, <2>1, SkipPiece
  <2>3. Piece(W, B, V, known, b, {}, "column", "list")
    BY <1>5, FromPiece
  <2> QED
    BY <2>2, <2>3
<1>8. PICK u, v : IsJoin(u, a, r) /\ IsJoin(v, u, b)
  BY DEF IsJoin
<1>9. IsJoin(p, v, rest)
  BY <1>3, <1>5, <1>8 DEF IsJoin
<1>10. u \in Seq(Tok) /\ Piece(W, B, V, known, u, {} \cup {}, "range", "column")
  BY <1>2, <1>6, <1>7, <1>8, PieceJoin
<1>11. v \in Seq(Tok) /\ Piece(W, B, V, known, v, ({} \cup {}) \cup {}, "range", "list")
  BY <1>6, <1>7, <1>8, <1>10, PieceJoin
<1>12. p \in Seq(Tok) /\ Piece(W, B, V, known, p, (({} \cup {}) \cup {}) \cup T, "range", "source")
  <2>1. rest \in Seq(Tok)
    BY <1>3
  <2>2. Piece(W, B, V, known, rest, T, "list", "source")
    BY <1>4
  <2> QED
    BY <1>9, <1>11, <2>1, <2>2, PieceJoin
<1>13. (({} \cup {}) \cup {}) \cup T = T
  OBVIOUS
<1>14. Piece(W, B, V, known, p, T, "range", "source")
  BY <1>12, <1>13
<1>15. Piece(W, B, V, known, p, T, "range", "rest")
  BY <1>12, <1>14, Weaker
<1> QED
  BY <1>12, <1>15
-----------------------------------------------------------------------------
\* Nothing in p opens or closes parentheses.
Inside(t) == t.text \notin {"(", ")"}
NoParens(p) == \A j \in 1 .. Len(p) : Inside(p[j])

\* Two parts without parentheses.
LEMMA NoParensJoin ==
  ASSUME NEW s \in Seq(Tok), NoParens(s), NEW t \in Seq(Tok), NoParens(t), NEW p, IsJoin(p, s, t)
  PROVE  p \in Seq(Tok) /\ NoParens(p)
<1>1. /\ p \in Seq(Tok)
      /\ Len(s) \in Nat /\ Len(t) \in Nat /\ Len(p) = Len(s) + Len(t)
      /\ \A j \in 1 .. Len(s) : p[j] = s[j]
      /\ \A j \in 1 .. Len(t) : p[Len(s) + j] = t[j]
  BY ConcatIs DEF IsJoin
<1>2. SUFFICES ASSUME NEW j \in 1 .. Len(p) PROVE Inside(p[j])
  BY <1>1 DEF NoParens
<1>3. CASE j <= Len(s)
  <2>1. j \in 1 .. Len(s)
    BY <1>1, <1>3
  <2> QED
    BY <2>1, <1>1 DEF NoParens
<1>4. CASE ~(j <= Len(s))
  <2>1. PICK k : k = j - Len(s)
    OBVIOUS
  <2>2. k \in 1 .. Len(t) /\ Len(s) + k = j
    BY <2>1, <1>1, <1>2, <1>4
  <2> QED
    BY <2>2, <1>1 DEF NoParens
<1> QED
  BY <1>3, <1>4

\* Syntax that is no parenthesis.
LEMMA NoParensPlain ==
  ASSUME NEW x \in Word, x \notin {"(", ")"}
  PROVE  Inside(Plain(x)) /\ <<Plain(x)>> \in Seq(Tok) /\ NoParens(<<Plain(x)>>)
<1>1. PICK d : d = Plain(x)
  OBVIOUS
<1>2. IsPlain(x, d)
  BY <1>1, PlainIs
<1>3. Inside(d) /\ d \in Tok
  BY <1>2 DEF IsPlain, Inside
<1>4. <<d>> \in Seq(Tok) /\ NoParens(<<d>>)
  BY <1>3 DEF NoParens
<1> QED
  BY <1>1, <1>3, <1>4

\* A name is no parenthesis.
LEMMA NameInside ==
  ASSUME NEW t, t.text \in AnyName \cup AnySchema
  PROVE  Inside(t)
BY NamesAre DEF Inside, Punctuation

\* One and three tokens without parentheses.
LEMMA NoParensThree ==
  ASSUME NEW a \in Tok, NEW b \in Tok, NEW c \in Tok, Inside(a), Inside(b), Inside(c)
  PROVE  /\ <<a>> \in Seq(Tok) /\ NoParens(<<a>>)
         /\ <<a, b, c>> \in Seq(Tok) /\ NoParens(<<a, b, c>>)
<1>1. <<a>> \in Seq(Tok) /\ NoParens(<<a>>)
  BY DEF NoParens
<1>2. PICK p : p = <<a, b, c>>
  OBVIOUS
<1>3. p \in Seq(Tok) /\ Len(p) = 3 /\ p[1] = a /\ p[2] = b /\ p[3] = c
  BY <1>2
<1>4. \A j \in 1 .. Len(p) : j = 1 \/ j = 2 \/ j = 3
  BY <1>3
<1>5. NoParens(p)
  BY <1>3, <1>4 DEF NoParens
<1> QED
  BY <1>1, <1>2, <1>3, <1>5

\* A dot is no parenthesis.
LEMMA DotInside == Plain(".") \in Tok /\ Inside(Plain("."))
<1>1. "." \in Word /\ "." \notin {"(", ")"}
  BY DEF Word, Syntax
<1> QED
  BY <1>1, NoParensPlain, PlainTokens

\* A table in FROM has no parentheses.
LEMMA TableNoParens ==
  ASSUME NEW s \in TableSet, NEW ctes, NEW known, NEW p, p = TableTokens(s, ctes, known)
  PROVE  p \in Seq(Tok) /\ NoParens(p)
<1>0. s.name \in AnyName /\ s.alias \in AnyName /\ (s.schema # "" => s.schema \in AnySchema)
  BY DEF TableSet, AnySchema
<1>1. PICK a : a = AliasTokens(s)
  OBVIOUS
<1>2. a \in Seq(Tok) /\ NoParens(a)
  <2>1. CASE s.alias = s.name
    <3>1. a = <<>> /\ Len(a) = 0 /\ a \in Seq(Tok)
      BY <1>1, <2>1, AliasIs
    <3> QED
      BY <3>1 DEF NoParens
  <2>2. CASE s.alias # s.name
    <3>1. a = <<Plain(s.alias)>>
      BY <1>1, <2>2, AliasIs
    <3>2. s.alias \in Word /\ s.alias \notin {"(", ")"}
      BY <1>0, NamesAre DEF Word, Punctuation
    <3> QED
      BY <3>1, <3>2, NoParensPlain
  <2> QED
    BY <2>1, <2>2
<1>3. PICK h : IsJoin(p, h, a) /\ h \in Seq(Tok) /\ NoParens(h)
  <2>1. PICK V : V = DOMAIN ctes
    OBVIOUS
  <2>2. CASE s.schema = ""
    <3>1. PICK t : p = <<t>> \o AliasTokens(s) /\ IsTable(V, known, s.name, t)
      BY <2>1, <2>2, TableIsWritten
    <3>2. PICK h : h = <<t>>
      OBVIOUS
    <3>3. t \in Tok /\ Inside(t)
      BY <1>0, <3>1, NameInside DEF IsTable
    <3>4. h \in Seq(Tok) /\ NoParens(h)
      BY <3>2, <3>3, NoParensThree
    <3>5. IsJoin(p, h, a)
      BY <1>1, <3>1, <3>2 DEF IsJoin
    <3> QED
      BY <3>4, <3>5
  <2>3. CASE s.schema # ""
    <3>1. PICK c, t : /\ p = <<c, Plain("."), t>> \o AliasTokens(s)
                      /\ IsSchema(s.schema, c) /\ IsQualifiedTable(s.name, t)
      BY <2>1, <2>3, TableIsWritten
    <3>2. PICK h : h = <<c, Plain("."), t>>
      OBVIOUS
    <3>3. t \in Tok /\ Inside(t) /\ c \in Tok /\ Inside(c)
      BY <1>0, <2>3, <3>1, NameInside DEF IsSchema, IsQualifiedTable
    <3>4. h \in Seq(Tok) /\ NoParens(h)
      BY <3>2, <3>3, NoParensThree, DotInside
    <3>5. IsJoin(p, h, a)
      BY <1>1, <3>1, <3>2 DEF IsJoin
    <3> QED
      BY <3>4, <3>5
  <2> QED
    BY <2>2, <2>3
<1> QED
  BY <1>2, <1>3, NoParensJoin

\* A reference has no parentheses.
LEMMA RefNoParens ==
  ASSUME NEW B, NEW known, NEW ref \in RefSet,
         NEW frames, DOMAIN frames \in SUBSET Nat,
         \A i \in DOMAIN frames : FrameMeans(B, frames[i]),
         NEW p, p = RefTokens(ref, frames, known)
  PROVE  p \in Seq(Tok) /\ NoParens(p)
<1>1. PICK l, r : /\ p = <<l, Plain("."), r>>
                  /\ IsQualifier(B, known, ref.qualifier, l)
                  /\ IsColumn(B, ref.qualifier, ref.column, r)
  BY RefShape
<1>2. ref.qualifier \in AnyName /\ ref.column \in AnyName
  BY DEF RefSet
<1>3. l \in Tok /\ Inside(l) /\ r \in Tok /\ Inside(r)
  BY <1>1, <1>2, NameInside DEF IsQualifier, IsColumn
<1> QED
  BY <1>1, <1>3, NoParensThree, DotInside

\* A SELECT from sources without parentheses has none.
LEMMA SelectNoParens ==
  ASSUME NEW B, NEW known, NEW q, q.ref \in RefSet,
         NEW frames, DOMAIN frames \in SUBSET Nat,
         \A i \in DOMAIN frames : FrameMeans(B, frames[i]),
         NEW sources \in Seq(Seq(Tok)), Len(sources) \in {1, 2},
         \A i \in DOMAIN sources : NoParens(sources[i]),
         NEW p, p = SelectTokens(q, sources, frames, known)
  PROVE  p \in Seq(Tok) /\ NoParens(p)
<1>1. PICK r : r = RefTokens(q.ref, frames, known)
  OBVIOUS
<1>2. r \in Seq(Tok) /\ NoParens(r)
  BY <1>1, RefNoParens
<1>0. PICK rest : IsSelect(p, r, sources, rest)
  BY <1>1, SelectIs
<1>3. /\ rest \in Seq(Tok)
      /\ p = <<Plain("SELECT")>> \o r \o <<Plain("FROM")>> \o rest
      /\ Len(sources) = 1 => rest = sources[1]
      /\ Len(sources) = 2 => \E sep \in Separators : rest = sources[1] \o (sep \o sources[2])
  BY <1>0 DEF IsSelect
<1>w. {"SELECT", "FROM", ",", "CROSS", "JOIN"} \subseteq Word
      /\ "(" \notin {"SELECT", "FROM", ",", "CROSS", "JOIN"}
      /\ ")" \notin {"SELECT", "FROM", ",", "CROSS", "JOIN"}
  BY DEF Word, Syntax
<1>4. rest \in Seq(Tok) /\ NoParens(rest)
  <2>1. CASE Len(sources) = 1
    <3>1. 1 \in DOMAIN sources
      BY <2>1
    <3>2. rest = sources[1]
      BY <2>1, <1>3
    <3> QED
      BY <3>1, <3>2, <1>3
  <2>2. CASE Len(sources) = 2
    <3>1. 1 \in DOMAIN sources /\ 2 \in DOMAIN sources
          /\ 1 \in 1 .. Len(sources) /\ 2 \in 1 .. Len(sources)
      BY <2>2
    <3>2. PICK sep \in Separators : rest = sources[1] \o (sep \o sources[2])
      BY <2>2, <1>3
    <3>3. PICK s, t : s = sources[1] /\ t = sources[2]
      OBVIOUS
    <3>4. s \in Seq(Tok) /\ t \in Seq(Tok) /\ NoParens(s) /\ NoParens(t)
      BY <3>1, <3>3, PartOf
    <3>5. sep \in Seq(Tok) /\ NoParens(sep)
      <4>1. CASE sep = <<Plain(",")>>
        BY <4>1, <1>w, NoParensPlain
      <4>2. CASE sep = <<Plain("CROSS"), Plain("JOIN")>>
        <5>1. PICK c, d : c = Plain("CROSS") /\ d = Plain("JOIN")
          OBVIOUS
        <5>2. Inside(c) /\ Inside(d)
          BY <5>1, <1>w, NoParensPlain
        <5>3. sep = <<c, d>>
          BY <4>2, <5>1
        <5>4. NoParens(sep)
          BY <5>2, <5>3 DEF NoParens
        <5> QED
          BY <5>4, SeparatorsType
      <4> QED
        BY <4>1, <4>2 DEF Separators
    <3>6. PICK u : IsJoin(u, sep, t)
      BY DEF IsJoin
    <3>7. u \in Seq(Tok) /\ NoParens(u)
      BY <3>4, <3>5, <3>6, NoParensJoin
    <3>8. IsJoin(rest, s, u)
      BY <3>2, <3>3, <3>6 DEF IsJoin
    <3> QED
      BY <3>4, <3>7, <3>8, NoParensJoin
  <2> QED
    BY <2>1, <2>2
<1>5. PICK a, b : a = <<Plain("SELECT")>> /\ b = <<Plain("FROM")>>
  OBVIOUS
<1>6. a \in Seq(Tok) /\ NoParens(a) /\ b \in Seq(Tok) /\ NoParens(b)
  BY <1>5, <1>w, NoParensPlain
<1>7. PICK u, v : IsJoin(u, a, r) /\ IsJoin(v, u, b)
  BY DEF IsJoin
<1>8. IsJoin(p, v, rest)
  BY <1>3, <1>5, <1>7 DEF IsJoin
<1>9. u \in Seq(Tok) /\ NoParens(u)
  BY <1>2, <1>6, <1>7, NoParensJoin
<1>10. v \in Seq(Tok) /\ NoParens(v)
  BY <1>6, <1>7, <1>9, NoParensJoin
<1> QED
  BY <1>4, <1>8, <1>10, NoParensJoin
-----------------------------------------------------------------------------
\* What is read of a flat query.
RealOf(s) == {Real(s.name, s.alias)}
FlatReads(q) == UNION {RealOf(q.from[i]) : i \in DOMAIN q.from}

\* The frames around a flat query.
Outer(B, frames) == frames = <<>> \/ \E f : frames = <<f>> /\ FrameMeans(B, f)

\* Sequences of one and two.
LEMMA TupleIs ==
  ASSUME NEW x, NEW y
  PROVE  /\ DOMAIN <<x>> = {1} /\ <<x>>[1] = x
         /\ DOMAIN <<x, y>> = {1, 2} /\ <<x, y>>[1] = x /\ <<x, y>>[2] = y
<1>1. DOMAIN <<x>> = 1 .. 1 /\ DOMAIN <<x, y>> = 1 .. 2
  OBVIOUS
<1>2. <<x>>[1] = x /\ <<x, y>>[1] = x /\ <<x, y>>[2] = y
  OBVIOUS
<1>3. 1 .. 1 = {1} /\ 1 .. 2 = {1, 2}
  OBVIOUS
<1> QED
  BY <1>1, <1>2, <1>3

\* A frame before others.
LEMMA FramesMean ==
  ASSUME NEW B, NEW g, FrameMeans(B, g), NEW frames, Outer(B, frames),
         NEW all, all = <<g>> \o frames
  PROVE  DOMAIN all \in SUBSET Nat /\ \A i \in DOMAIN all : FrameMeans(B, all[i])
<1>1. CASE frames = <<>>
  <2>1. all = <<g>>
    BY <1>1
  <2>2. DOMAIN all = {1} /\ all[1] = g
    BY <2>1, TupleIs, Zenon
  <2> QED
    BY <2>2
<1>2. ASSUME NEW f, frames = <<f>>, FrameMeans(B, f)
      PROVE  DOMAIN all \in SUBSET Nat /\ \A i \in DOMAIN all : FrameMeans(B, all[i])
  <2>1. all = <<g, f>>
    BY <1>2, PairIs
  <2>a. DOMAIN <<g, f>> = {1, 2} /\ <<g, f>>[1] = g /\ <<g, f>>[2] = f
    BY TupleIs, Zenon
  <2>2. DOMAIN all = {1, 2} /\ all[1] = g /\ all[2] = f
    BY <2>1, <2>a, Zenon
  <2> QED
    BY <2>2, <1>2
<1> QED
  BY <1>1, <1>2 DEF Outer

\* The parts of a flat query.
LEMMA FlatIs ==
  ASSUME NEW q \in FlatSet
  PROVE  /\ q.ref \in RefSet /\ q.from \in Seq(TableSet) /\ q.from \in Seq(SourceSet)
         /\ Len(q.from) \in {1, 2} /\ DOMAIN q.from = 1 .. Len(q.from)
         /\ \A i \in DOMAIN q.from :
              q.from[i] \in TableSet /\ BoundBySource(q.from[i]) \subseteq BoundByFlat(q)
<1>1. q.ref \in RefSet /\ q.from \in Seq(TableSet) /\ Len(q.from) \in {1, 2}
  BY DEF FlatSet, AliasesDiffer
<1>2. PICK f : f = q.from
  OBVIOUS
<1>3. f \in Seq(SourceSet)
  <2>1. f \in Seq(TableSet) /\ TableSet \subseteq SourceSet
    BY <1>1, <1>2 DEF SourceSet
  <2> QED
    BY <2>1
<1>4. ASSUME NEW i \in DOMAIN f
      PROVE  f[i] \in TableSet /\ BoundBySource(f[i]) \subseteq BoundByFlat(q)
  <2>1. f[i] \in TableSet
    BY <1>1, <1>2
  <2>2. f[i].kind # "sub"
    BY <2>1 DEF TableSet
  <2>3. f[i] \in ToSet(f)
    BY DEF ToSet
  <2> QED
    BY <1>2, <2>1, <2>2, <2>3 DEF BoundBySource, BoundByFlat
<1>5. DOMAIN f = 1 .. Len(f)
  BY <1>3
<1> QED
  BY <1>1, <1>2, <1>3, <1>4, <1>5

\* A flat query is a piece: its tables are read, and it has no parentheses.
LEMMA FlatPiece ==
  ASSUME NEW W \in Seq(Tok), NEW B, NEW V, NEW known, NEW q \in FlatSet,
         NEW ctes, DOMAIN ctes \subseteq V, CtesBound(B, ctes), BoundByFlat(q) \subseteq B,
         NEW frames, Outer(B, frames), NEW p, p = FlatTokens(q, ctes, frames, known)
  PROVE  /\ p \in Seq(Tok) /\ NoParens(p)
         /\ Piece(W, B, V, known, p, FlatReads(q), "range", "rest")
<1>1. PICK f : f = q.from
  OBVIOUS
<1>2. /\ q.ref \in RefSet /\ f \in Seq(TableSet) /\ f \in Seq(SourceSet)
      /\ Len(f) \in {1, 2} /\ DOMAIN f = 1 .. Len(f)
      /\ \A i \in DOMAIN f : f[i] \in TableSet /\ BoundBySource(f[i]) \subseteq B
  BY <1>1, FlatIs
<1>3. PICK g : g = Frame(f, ctes)
  OBVIOUS
<1>4. FrameMeans(B, g)
  BY <1>2, <1>3, FrameOfMeans
<1>5. PICK all : all = <<g>> \o frames
  OBVIOUS
<1>6. DOMAIN all \in SUBSET Nat /\ \A i \in DOMAIN all : FrameMeans(B, all[i])
  BY <1>4, <1>5, FramesMean
<1>7. PICK sources : sources = [i \in DOMAIN f |-> TableTokens(f[i], ctes, known)]
  OBVIOUS
<1>8. ASSUME NEW i \in DOMAIN f
      PROVE  /\ sources[i] \in Seq(Tok) /\ NoParens(sources[i])
             /\ Piece(W, B, V, known, sources[i], RealOf(f[i]), "list", "source")
  <2>1. PICK s, t : s = f[i] /\ t = sources[i]
    OBVIOUS
  <2>2. s \in TableSet /\ t = TableTokens(s, ctes, known)
    BY <2>1, <1>2, <1>7
  <2>3. t \in Seq(Tok) /\ NoParens(t)
    BY <2>2, TableNoParens
  <2>4. FitsList(W, B, V, known, t, RealOf(s))
    BY <2>2, TableFits DEF RealOf
  <2>5. Piece(W, B, V, known, t, RealOf(s), "list", "source")
    BY <2>3, <2>4, ListPiece
  <2> QED
    BY <2>1, <2>3, <2>5
<1>9. sources \in Seq(Seq(Tok)) /\ Len(sources) = Len(f) /\ DOMAIN sources = DOMAIN f
  BY <1>2, <1>7, <1>8
<1>10. p = SelectTokens(q, sources, all, known)
  BY <1>1, <1>3, <1>5, <1>7 DEF FlatTokens
<1>11. p \in Seq(Tok) /\ NoParens(p)
  BY <1>2, <1>6, <1>8, <1>9, <1>10, SelectNoParens
<1>12. PICK R : R = [i \in DOMAIN f |-> RealOf(f[i])]
  OBVIOUS
<1>13. \A i \in DOMAIN sources : Piece(W, B, V, known, sources[i], R[i], "list", "source")
  BY <1>8, <1>9, <1>12
<1>u. PICK T : T = UNION {R[i] : i \in DOMAIN sources}
  OBVIOUS
<1>14. Piece(W, B, V, known, p, T, "range", "rest")
  <2>1. q.ref \in RefSet
    BY <1>2
  <2>2. sources \in Seq(Seq(Tok)) /\ Len(sources) \in {1, 2}
    BY <1>2, <1>9
  <2> QED
    BY <1>6, <1>10, <1>13, <1>u, <2>1, <2>2, SelectPiece
<1>15. T = FlatReads(q)
  BY <1>1, <1>9, <1>12, <1>u DEF FlatReads
<1> QED
  BY <1>11, <1>14, <1>15
-----------------------------------------------------------------------------
\* Parentheses with none between them.
LEMMA ParensSkipped ==
  ASSUME NEW X, NEW i \in Nat, NEW c \in Nat, NEW e \in Nat, i < c, c < e,
         X[i] = "(", X[c] = ")", \A j \in i + 1 .. c - 1 : X[j] \notin {"(", ")"}
  PROVE  SkipBalancedParens(X, i, e) = c + 1
<1>1. ASSUME NEW k \in i + 1 .. c PROVE Depth(X, i, k) # 0
  <2>1. {j \in i .. k - 1 : X[j] = "("} = {i}
    BY <1>1
  <2>2. {j \in i .. k - 1 : X[j] = ")"} = {}
    <3>1. ASSUME NEW j \in i .. k - 1 PROVE X[j] # ")"
      <4>1. j = i \/ j \in i + 1 .. c - 1
        BY <1>1, <3>1
      <4> QED
        BY <4>1
    <3> QED
      BY <3>1
  <2>3. Cardinality({i}) = 1 /\ Cardinality({}) = 0
    BY FS_Singleton, FS_EmptySet
  <2>4. Depth(X, i, k) = 1 - 0
    BY <2>1, <2>2, <2>3 DEF Depth
  <2> QED
    BY <2>4
<1>2. Depth(X, i, c + 1) = 0
  <2>0. (c + 1) - 1 = c
    OBVIOUS
  <2>1. {j \in i .. c : X[j] = "("} = {i}
    <3>1. ASSUME NEW j \in i .. c, j # i PROVE X[j] # "("
      <4>1. j = c \/ j \in i + 1 .. c - 1
        BY <3>1
      <4> QED
        BY <4>1
    <3>2. i \in i .. c
      OBVIOUS
    <3> QED
      BY <3>1, <3>2
  <2>2. {j \in i .. c : X[j] = ")"} = {c}
    <3>1. ASSUME NEW j \in i .. c, j # c PROVE X[j] # ")"
      <4>1. j = i \/ j \in i + 1 .. c - 1
        BY <3>1
      <4> QED
        BY <4>1
    <3>2. c \in i .. c
      OBVIOUS
    <3> QED
      BY <3>1, <3>2
  <2>3. Cardinality({i}) = 1 /\ Cardinality({c}) = 1
    BY FS_Singleton
  <2>4. Depth(X, i, c + 1) = 1 - 1
    BY <2>0, <2>1, <2>2, <2>3 DEF Depth
  <2> QED
    BY <2>4
<1> DEFINE t == {e} \cup {k \in i + 1 .. e : Depth(X, i, k) = 0}
<1>3. t \in SUBSET Nat /\ t # {} /\ c + 1 \in t /\ \A y \in t : c + 1 <= y
  <2>1. ASSUME NEW y \in t PROVE c + 1 <= y
    <3>1. y = e \/ (y \in i + 1 .. e /\ Depth(X, i, y) = 0)
      OBVIOUS
    <3>2. y \in i + 1 .. e /\ Depth(X, i, y) = 0 => ~(y \in i + 1 .. c)
      BY <1>1
    <3> QED
      BY <3>1, <3>2
  <2>2. c + 1 \in i + 1 .. e
    OBVIOUS
  <2> QED
    BY <2>1, <2>2, <1>2
<1>4. SkipBalancedParens(X, i, e) = Min(t)
  BY DEF SkipBalancedParens, Is
<1> HIDE DEF t
<1>5. Min(t) \in t /\ \A y \in t : Min(t) <= y
  BY <1>3, MinIn
<1>6. Min(t) = c + 1
  <2>1. Min(t) <= c + 1 /\ c + 1 <= Min(t) /\ Min(t) \in Nat
    BY <1>3, <1>5
  <2> QED
    BY <2>1
<1> QED
  BY <1>4, <1>6
-----------------------------------------------------------------------------
\* Tokens i and c are parentheses with none between them.
Paired(W, i, c) ==
  /\ i < c /\ At(W, i) = "(" /\ At(W, c) = ")"
  /\ \A j \in i + 1 .. c - 1 : At(W, j) \notin {"(", ")"}

\* The extractor skips parentheses to the one that closes them.
LEMMA PairedSkipped ==
  ASSUME NEW W \in Seq(Tok), NEW i \in Nat, NEW c \in Nat, 1 <= i, Paired(W, i, c),
         NEW e \in c + 1 .. Len(W) + 1
  PROVE  SkipBalancedParens(Texts(W), i, e) = c + 1
<1>1. Len(W) \in Nat /\ e \in Nat /\ c < e /\ e \in 0 .. Len(W) + 1 /\ i < c
  BY DEF Paired
<1>2. \A j \in i .. c : Texts(W)[j] = At(W, j)
  <2>1. ASSUME NEW j \in i .. c PROVE Texts(W)[j] = At(W, j)
    <3>1. j \in Nat /\ 1 <= j /\ j < e
      BY <1>1
    <3> QED
      BY <1>1, <3>1, TextAt
  <2> QED
    BY <2>1
<1>3. PICK X : X = Texts(W)
  OBVIOUS
<1>4. \A j \in i .. c : X[j] = At(W, j)
  BY <1>2, <1>3
<1>5. X[i] = "(" /\ X[c] = ")"
  <2>1. i \in i .. c /\ c \in i .. c
    BY <1>1
  <2> QED
    BY <2>1, <1>4 DEF Paired
<1>6. \A j \in i + 1 .. c - 1 : X[j] \notin {"(", ")"}
  <2>1. \A j \in i + 1 .. c - 1 : j \in i .. c
    OBVIOUS
  <2> QED
    BY <2>1, <1>4 DEF Paired
<1> QED
  BY <1>1, <1>3, <1>5, <1>6, ParensSkipped

\* Nothing is read of an empty range.
LEMMA NothingGot ==
  ASSUME NEW W \in Seq(Tok), NEW list \in {"range", "tables", "ctes"}, NEW i \in 1 .. Len(W) + 1
  PROVE  Got(Texts(W), list, i, i) = {}
<1>1. PICK X : X = Texts(W)
  OBVIOUS
<1>2. X \in Seq(Word) /\ Len(X) = Len(W) /\ Len(W) \in Nat
  BY <1>1, AtIs
<1>3. i \in 1 .. Len(X) + 1 /\ i \in 0 .. Len(X) + 1 /\ i >= i
  BY <1>2
<1> QED
  BY <1>1, <1>2, <1>3, GotAt

\* What is read of a subquery in FROM.
LEMMA SubReads ==
  ASSUME NEW W \in Seq(Tok), NEW i \in Nat, NEW c \in Nat, 1 <= i, Paired(W, i, c),
         NEW a \in AnyName, NEW d, d = c + 1, At(W, d) = a, NEW e \in d + 1 .. Len(W) + 1
  PROVE  Got(Texts(W), "tables", i, e) =
           Got(Texts(W), "range", i + 1, c) \cup {Virtual(a)} \cup Rest(Texts(W), "tables", d + 1, e)
<1>1. Len(W) \in Nat /\ e \in Nat /\ e \in c + 1 .. Len(W) + 1 /\ i < c /\ d < e
      /\ e \in 0 .. Len(W) + 1 /\ i < e /\ d \in Nat /\ 1 <= d
  BY DEF Paired
<1>2. SkipBalancedParens(Texts(W), i, e) = d
  BY <1>1, PairedSkipped
<1>3. PICK X : X = Texts(W)
  OBVIOUS
<1>4. X \in Seq(Word) /\ Len(X) = Len(W)
  BY <1>3, AtIs
<1>5. X[i] = "("
  <2>1. X[i] = At(W, i)
    BY <1>1, <1>3, TextAt
  <2> QED
    BY <2>1 DEF Paired
<1>6. X[d] = a /\ ~Is(X, d, e, "AS") /\ IsNameAt(X, d, e)
  <2>1. a # "AS" /\ IsName(a)
    BY NamesAre DEF StopWords
  <2> QED
    BY <1>1, <1>3, <2>1, TextAt
<1>7. AsAt(X, i, e) = d
  BY <1>2, <1>3, <1>5, <1>6 DEF AsAt, Skip
<1>8. ListNext(X, i, e) = d + 1 /\ VirtualAt(X, i, e) = <<Virtual(a)>>
  BY <1>6, <1>7 DEF ListNext, VirtualAt
<1>9. ToSet(<<Virtual(a)>>) = {Virtual(a)}
  BY ToSetSmall
<1>10. i \in 1 .. Len(X) + 1 /\ e \in 0 .. Len(X) + 1 /\ d - 1 = c
  BY <1>1, <1>4
<1>11. PICK next : next = ListNext(X, i, e)
  OBVIOUS
<1>12. Got(X, "tables", i, e) =
         Got(X, "range", i + 1, d - 1) \cup ToSet(VirtualAt(X, i, e)) \cup Rest(X, "tables", next, e)
  BY <1>1, <1>2, <1>3, <1>4, <1>5, <1>10, <1>11, GotSub
<1> QED
  BY <1>3, <1>8, <1>9, <1>10, <1>11, <1>12

\* And of a name of WITH.
CteAt(W, o, a) == At(W, o + 1) = "WITH" /\ At(W, o + 2) = a /\ At(W, o + 3) = "AS"
NoComma(text) == text # ","

\* Of a definition in WITH the body is read, then its name.
LEMMA CteReads ==
  ASSUME NEW W \in Seq(Tok), NEW o \in Nat, NEW c \in Nat, NEW a \in AnyName, CteAt(W, o, a),
         NEW b, b = o + 4, Paired(W, b, c), NEW d, d = c + 1, NoComma(At(W, d)),
         NEW e \in d .. Len(W) + 1
  PROVE  Got(Texts(W), "range", o + 1, e) =
           Got(Texts(W), "range", b + 1, c) \cup {Virtual(a)} \cup Got(Texts(W), "range", d, e)
<1>1. Len(W) \in Nat /\ e \in Nat /\ e \in c + 1 .. Len(W) + 1 /\ b < c /\ c < e
      /\ e \in 0 .. Len(W) + 1 /\ d \in Nat /\ 1 <= d /\ b \in Nat /\ 1 <= b
  BY DEF Paired
<1>2. SkipBalancedParens(Texts(W), b, e) = d
  BY <1>1, PairedSkipped
<1>3. PICK X : X = Texts(W)
  OBVIOUS
<1>4. X \in Seq(Word) /\ Len(X) = Len(W)
  BY <1>3, AtIs
<1>5. PICK k, m, n : k = o + 1 /\ m = o + 2 /\ n = o + 3
  OBVIOUS
<1>6. /\ k \in Nat /\ 1 <= k /\ k < e /\ m \in Nat /\ 1 <= m /\ m < e
      /\ n \in Nat /\ 1 <= n /\ n < e /\ b < e /\ m = k + 1 /\ n = m + 1 /\ b = n + 1
  BY <1>1, <1>5
<1>a. a \notin {"RECURSIVE", "("} /\ IsName(a)
  BY NamesAre DEF Punctuation
<1>7. X[k] = "WITH" /\ X[m] = a /\ X[n] = "AS" /\ X[b] = "("
  <2>1. X[k] = At(W, k) /\ X[m] = At(W, m) /\ X[n] = At(W, n) /\ X[b] = At(W, b)
    BY <1>1, <1>3, <1>6, TextAt
  <2> QED
    BY <2>1, <1>5 DEF Paired, CteAt
<1>8. ~Is(X, m, e, "RECURSIVE") /\ ~Is(X, n, e, "(") /\ Is(X, n, e, "AS")
      /\ ~Is(X, b, e, "NOT") /\ ~Is(X, b, e, "MATERIALIZED") /\ Is(X, b, e, "(")
  BY <1>6, <1>7, <1>a DEF Is
<1>9. BodyAt(X, m, e) = b
  <2>1. SkipBalancedParens(X, m + 1, e) = n
    BY <1>6, <1>8 DEF SkipBalancedParens
  <2> QED
    BY <2>1, <1>6, <1>8 DEF BodyAt, Skip
<1>10. BodyNext(X, m, e) = d
  BY <1>2, <1>3, <1>9 DEF BodyNext
<1>11. Got(X, "range", k, e) = Got(X, "ctes", m, e)
  <2>1. k \in 1 .. Len(X) + 1 /\ e \in 0 .. Len(X) + 1
    BY <1>1, <1>4, <1>6
  <2> QED
    BY <1>4, <1>6, <1>7, <1>8, <2>1, GotRange
<1>12. Got(X, "ctes", m, e) =
         Got(X, "range", b + 1, d - 1) \cup {Virtual(a)} \cup Rest(X, "ctes", d, e)
  <2>1. m \in 1 .. Len(X) + 1 /\ e \in 0 .. Len(X) + 1
    BY <1>1, <1>4, <1>6
  <2>2. X[m] = a /\ IsName(X[m])
    BY <1>7, <1>a
  <2>3. Got(X, "ctes", m, e) =
          Got(X, "range", b + 1, d - 1) \cup {Virtual(X[m])} \cup Rest(X, "ctes", d, e)
    <3>1. b = BodyAt(X, m, e) /\ d = BodyNext(X, m, e) /\ Is(X, b, e, "(") /\ m < e
      BY <1>6, <1>8, <1>9, <1>10
    <3> QED
      BY <1>4, <2>1, <2>2, <3>1, GotCTE
  <2> QED
    BY <2>2, <2>3
<1>13. Rest(X, "ctes", d, e) = Got(X, "range", d, e)
  <2>1. ~Is(X, d, e, ",")
    BY <1>1, <1>3, TextAt DEF NoComma
  <2> QED
    BY <2>1 DEF Rest
<1> QED
  BY <1>1, <1>3, <1>5, <1>11, <1>12, <1>13

\* Parentheses around a part without any are a pair.
LEMMA PairedIs ==
  ASSUME NEW W \in Seq(Tok), NEW b \in Nat, NEW p \in Seq(Tok), NoParens(p), Occurs(W, b, p),
         At(W, b) = "(", NEW c, c = b + Len(p) + 1, At(W, c) = ")"
  PROVE  Paired(W, b, c) /\ c \in Nat
<1>1. PICK n : n = Len(p)
  OBVIOUS
<1>2. n \in Nat /\ c = b + n + 1
  BY <1>1
<1>3. b < c /\ c \in Nat
  BY <1>2
<1>4. ASSUME NEW j \in b + 1 .. c - 1 PROVE At(W, j) \notin {"(", ")"}
  <2>1. PICK k : k = j - b
    OBVIOUS
  <2>2. k \in 1 .. n /\ j = b + k
    BY <1>2, <2>1
  <2>3. At(W, b + k) = p[k].text
    BY <1>1, <1>2, <2>2, OccursIn
  <2>4. Inside(p[k])
    BY <1>1, <2>2 DEF NoParens
  <2> QED
    BY <2>2, <2>3, <2>4 DEF Inside
<1> QED
  BY <1>3, <1>4 DEF Paired
-----------------------------------------------------------------------------
\* v is p in parentheses, and u that without the last one.
IsParens(a, b, p, u, v) ==
  a = <<Plain("(")>> /\ b = <<Plain(")")>> /\ IsJoin(u, a, p) /\ IsJoin(v, u, b)

\* The length of a part in parentheses.
LEMMA ParensAre ==
  ASSUME NEW p \in Seq(Tok), NEW a, NEW b, NEW u, NEW v, IsParens(a, b, p, u, v)
  PROVE  /\ a \in Seq(Tok) /\ Len(a) = 1 /\ b \in Seq(Tok) /\ Len(b) = 1
         /\ u \in Seq(Tok) /\ v \in Seq(Tok) /\ Len(u) = Len(p) + 1 /\ Len(v) = Len(p) + 2
<1>0. a = <<Plain("(")>> /\ b = <<Plain(")")>> /\ IsJoin(u, a, p) /\ IsJoin(v, u, b)
  BY DEF IsParens
<1>1. "(" \in Word /\ ")" \in Word
  BY DEF Word, Syntax
<1>2. a \in Seq(Tok) /\ Len(a) = 1 /\ b \in Seq(Tok) /\ Len(b) = 1
  BY <1>0, <1>1, PlainTokens
<1>a. a \in Seq(Tok) /\ b \in Seq(Tok)
  BY <1>2
<1>3. u \in Seq(Tok) /\ Len(u) = Len(a) + Len(p)
  BY <1>0, <1>a, JoinIs
<1>u. u \in Seq(Tok)
  BY <1>3
<1>4. v \in Seq(Tok) /\ Len(v) = Len(u) + Len(b)
  BY <1>0, <1>a, <1>u, JoinIs
<1>5. PICK n : n = Len(p)
  OBVIOUS
<1>6. n \in Nat /\ Len(u) = 1 + n /\ Len(v) = (1 + n) + 1
  BY <1>2, <1>3, <1>4, <1>5
<1> QED
  BY <1>2, <1>3, <1>4, <1>5, <1>6

\* A flat query in parentheses.
LEMMA ParensAt ==
  ASSUME NEW W \in Seq(Tok), NEW B, NEW V, NEW known, NEW p \in Seq(Tok), NoParens(p),
         NEW R, Piece(W, B, V, known, p, R, "range", "rest"),
         NEW a, NEW b, NEW u, NEW v, IsParens(a, b, p, u, v),
         NEW o, Occurs(W, o, v), NEW n, n = Len(p), NEW c, c = o + n + 2
  PROVE  /\ o \in Nat /\ n \in Nat /\ c \in Nat /\ c <= Len(W) /\ Paired(W, o + 1, c)
         /\ \A i \in o + 1 .. c : Role(W, B, V, known, i)
         /\ ClauseAfter(W, c) = "table"
         /\ Got(Texts(W), "range", o + 2, c) = R
<1>1. /\ a \in Seq(Tok) /\ Len(a) = 1 /\ b \in Seq(Tok) /\ Len(b) = 1
      /\ u \in Seq(Tok) /\ v \in Seq(Tok) /\ Len(u) = n + 1 /\ Len(v) = n + 2
  <2>1. /\ a \in Seq(Tok) /\ Len(a) = 1 /\ b \in Seq(Tok) /\ Len(b) = 1
        /\ u \in Seq(Tok) /\ v \in Seq(Tok) /\ Len(u) = Len(p) + 1 /\ Len(v) = Len(p) + 2
    BY ParensAre
  <2> QED
    BY <2>1
<1>2. n \in Nat /\ o \in Nat
  BY DEF Occurs
<1>0. a = <<Plain("(")>> /\ b = <<Plain(")")>> /\ IsJoin(u, a, p) /\ IsJoin(v, u, b)
  BY DEF IsParens
<1>a. a \in Seq(Tok) /\ b \in Seq(Tok) /\ u \in Seq(Tok)
  BY <1>1
<1>3. Occurs(W, o, u) /\ Occurs(W, o + Len(u), b)
  BY <1>0, <1>a, OccursConcat
<1>4. Occurs(W, o, a) /\ Occurs(W, o + Len(a), p)
  BY <1>0, <1>a, <1>3, OccursConcat
<1>5. PICK m, k : m = o + 1 /\ k = m + n
  OBVIOUS
<1>6. /\ m \in Nat /\ 1 <= m /\ k \in Nat /\ c \in Nat /\ c = k + 1 /\ o + 2 = m + 1 /\ m <= k
      /\ o + (n + 1) = k
  BY <1>2, <1>5
<1>7. Occurs(W, o, <<Plain("(")>>) /\ Occurs(W, m, p) /\ Occurs(W, k, <<Plain(")")>>)
  BY <1>0, <1>1, <1>3, <1>4, <1>5, <1>6
<1>8. "(" \in Syntax \ {"CREATE", "VIEW", ";"} /\ ")" \in Syntax \ {"CREATE", "VIEW"}
  BY DEF Syntax
<1>9. At(W, m) = "(" /\ Role(W, B, V, known, m)
  BY <1>5, <1>7, <1>8, SyntaxAt
<1>10. At(W, c) = ")" /\ Role(W, B, V, known, c) /\ c <= Len(W)
  <2>1. Occurs(W, k, <<Plain(")")>>)
    BY <1>7
  <2>2. At(W, k + 1) = ")" /\ Role(W, B, V, known, k + 1) /\ k + 1 <= Len(W)
    BY <2>1, <1>8, SyntaxAt
  <2> QED
    BY <2>2, <1>6
<1>11. Left(W, m, "range")
  BY <1>9 DEF Left
<1>12. Right(W, k, "rest")
  <2>1. At(W, k + 1) \in AfterRange
    BY <1>6, <1>10 DEF AfterRange, AfterSource, AfterQuery
  <2> QED
    BY <2>1 DEF Right
<1>13. /\ Left(W, k, "rest")
       /\ \A i \in m + 1 .. k : Role(W, B, V, known, i)
       /\ \A e \in k + 1 .. Len(W) + 1 : Reading(W, m, "range", e) = R \cup Reading(W, k, "rest", e)
  BY <1>5, <1>7, <1>11, <1>12 DEF Piece
<1>14. Got(Texts(W), "range", m + 1, c) = R
  <2>0. Len(W) \in Nat
    OBVIOUS
  <2>1. c \in k + 1 .. Len(W) + 1 /\ c \in 1 .. Len(W) + 1
    BY <2>0, <1>6, <1>10
  <2>2. Reading(W, m, "range", c) = R \cup Reading(W, k, "rest", c)
    BY <2>1, <1>13
  <2>3. Reading(W, m, "range", c) = Got(Texts(W), "range", m + 1, c)
        /\ Reading(W, k, "rest", c) = Got(Texts(W), "range", k + 1, c)
    BY DEF Reading
  <2>4. Got(Texts(W), "range", c, c) = {}
    BY <2>1, NothingGot
  <2> QED
    BY <2>2, <2>3, <2>4, <1>6
<1>15. Paired(W, m, c)
  <2>1. c = m + n + 1
    BY <1>2, <1>5, <1>6
  <2> QED
    BY <2>1, <1>6, <1>7, <1>9, <1>10, PairedIs
<1>16. ClauseAfter(W, c) = "table"
  <2>1. ClauseAfter(W, k) = "table"
    BY <1>13 DEF Left
  <2>2. At(W, k + 1) \in ListWord
    BY <1>6, <1>10 DEF ListWord
  <2>3. k + 1 <= Len(W)
    BY <1>6, <1>10
  <2> QED
    BY <2>1, <2>2, <2>3, <1>6, NameKept
<1>17. ASSUME NEW i \in o + 1 .. c PROVE Role(W, B, V, known, i)
  <2>0. i \in Nat /\ m <= i /\ i <= k + 1
    BY <1>5, <1>6
  <2>1. i = m \/ i \in m + 1 .. k \/ i = c
    <3>1. i = m \/ (m + 1 <= i /\ i <= k) \/ i = k + 1
      BY <1>6, <2>0
    <3> QED
      BY <1>6, <2>0, <3>1
  <2> QED
    BY <2>1, <1>9, <1>10, <1>13
<1> QED
  BY <1>2, <1>5, <1>6, <1>10, <1>14, <1>15, <1>16, <1>17

\* A subquery in FROM.
LEMMA SubPiece ==
  ASSUME NEW W \in Seq(Tok), NEW B, NEW V, NEW known, NEW f \in Seq(Tok), NoParens(f),
         NEW R, Piece(W, B, V, known, f, R, "range", "rest"),
         NEW a, NEW b, NEW u, NEW v, IsParens(a, b, f, u, v),
         NEW alias \in AnyName, NEW d, d = <<Plain(alias)>>, NEW p, IsJoin(p, v, d)
  PROVE  p \in Seq(Tok) /\ Piece(W, B, V, known, p, R \cup {Virtual(alias)}, "list", "source")
<1>1. v \in Seq(Tok) /\ Len(v) = Len(f) + 2
  BY ParensAre
<1>v. v \in Seq(Tok)
  BY <1>1
<1>2. d \in Seq(Tok) /\ Len(d) = 1
  BY PlainTokens DEF Word
<1>d. d \in Seq(Tok)
  BY <1>2
<1>3. p \in Seq(Tok) /\ Len(p) = Len(v) + Len(d)
  BY <1>v, <1>d, JoinIs
<1>4. PICK n : n = Len(f)
  OBVIOUS
<1>5. n \in Nat /\ Len(v) = n + 2 /\ Len(p) = n + 3
  BY <1>1, <1>2, <1>3, <1>4
<1>6. SUFFICES ASSUME NEW o, Occurs(W, o, p), Right(W, o + Len(p), "source")
               PROVE  /\ Right(W, o, "list")
                      /\ Left(W, o, "list") =>
                           /\ Left(W, o + Len(p), "source")
                           /\ \A i \in o + 1 .. o + Len(p) : Role(W, B, V, known, i)
                           /\ \A e \in o + Len(p) + 1 .. Len(W) + 1 :
                                Reading(W, o, "list", e) =
                                  (R \cup {Virtual(alias)}) \cup Reading(W, o + Len(p), "source", e)
  BY <1>3 DEF Piece
<1>7. Occurs(W, o, v) /\ Occurs(W, o + Len(v), d)
  BY <1>v, <1>d, <1>6, OccursConcat
<1>8. PICK c, l : c = o + n + 2 /\ l = c + 1
  OBVIOUS
<1>9. o \in Nat /\ c \in Nat /\ o + Len(v) = c /\ o + Len(p) = l /\ l \in Nat /\ 1 <= l
      /\ o + 1 \in Nat /\ 1 <= o + 1 /\ (o + 1) + 1 = o + 2 /\ c + 2 = l + 1
  <2>1. o \in Nat
    BY <1>6 DEF Occurs
  <2> QED
    BY <2>1, <1>5, <1>8
<1>10. /\ c <= Len(W) /\ Paired(W, o + 1, c)
       /\ \A i \in o + 1 .. c : Role(W, B, V, known, i)
       /\ ClauseAfter(W, c) = "table"
       /\ Got(Texts(W), "range", o + 2, c) = R
  <2>1. n = Len(f) /\ c = o + n + 2 /\ Occurs(W, o, v)
    BY <1>4, <1>7, <1>8
  <2>2. /\ c <= Len(W) /\ Paired(W, o + 1, c)
        /\ \A i \in o + 1 .. c : Role(W, B, V, known, i)
        /\ ClauseAfter(W, c) = "table"
        /\ Got(Texts(W), "range", o + 2, c) = R
    BY <2>1, ParensAt
  <2> QED
    BY <2>2
<1>11. At(W, l + 1) \in AfterSource
  BY <1>6, <1>9 DEF Right
<1>12. Right(W, o, "list")
  BY DEF Right
<1>13. /\ c + 1 <= Len(W) /\ At(W, c + 1) = alias
       /\ Role(W, B, V, known, c + 1) /\ ClauseAfter(W, c + 1) = "table"
  <2>1. Occurs(W, c, <<Plain(alias)>>)
    BY <1>7, <1>9
  <2>2. At(W, c) \notin FromKeywords \cup {"."}
    <3>1. At(W, c) = ")"
      BY <1>10 DEF Paired
    <3> QED
      BY <3>1 DEF FromKeywords
  <2>3. At(W, c + 2) # "."
    BY <1>9, <1>11, AfterSourceIs
  <2> QED
    BY <2>1, <2>2, <2>3, <1>10, AliasRole
<1>14. Left(W, l, "source")
  <2>1. At(W, l) # "."
    BY <1>8, <1>13, NamesAre DEF Punctuation
  <2> QED
    BY <2>1, <1>8, <1>13 DEF Left
<1>15. ASSUME NEW i \in o + 1 .. l PROVE Role(W, B, V, known, i)
  <2>1. i \in o + 1 .. c \/ i = c + 1
    BY <1>8, <1>9
  <2> QED
    BY <2>1, <1>10, <1>13
<1>16. ASSUME NEW e \in l + 1 .. Len(W) + 1
       PROVE  Reading(W, o, "list", e) = (R \cup {Virtual(alias)}) \cup Reading(W, l, "source", e)
  <2>1. PICK i : i = o + 1
    OBVIOUS
  <2>2. At(W, l) = alias
    BY <1>8, <1>13
  <2>3. Got(Texts(W), "tables", i, e) =
          Got(Texts(W), "range", i + 1, c) \cup {Virtual(alias)} \cup Rest(Texts(W), "tables", l + 1, e)
    <3>1. i \in Nat /\ 1 <= i /\ Paired(W, i, c) /\ c \in Nat /\ l = c + 1
      BY <1>8, <1>9, <1>10, <2>1
    <3> QED
      BY <2>2, <3>1, SubReads
  <2>4. Got(Texts(W), "range", i + 1, c) = R
    BY <1>9, <1>10, <2>1
  <2>5. Reading(W, o, "list", e) = Got(Texts(W), "tables", i, e)
        /\ Reading(W, l, "source", e) = Rest(Texts(W), "tables", l + 1, e)
    BY <2>1 DEF Reading
  <2> QED
    BY <2>3, <2>4, <2>5
<1> QED
  BY <1>9, <1>12, <1>14, <1>15, <1>16
-----------------------------------------------------------------------------
\* Concatenation is associative.
LEMMA Assoc ==
  ASSUME NEW a \in Seq(Tok), NEW b \in Seq(Tok), NEW c \in Seq(Tok)
  PROVE  (a \o b) \o c = a \o (b \o c)
BY ConcatAssociative

\* Two tokens and one.
LEMMA TripleIs ==
  ASSUME NEW x \in Tok, NEW y \in Tok, NEW z \in Tok
  PROVE  <<x, y>> \o <<z>> = <<x, y, z>>
<1>1. PICK u, v, w : u = <<x, y>> /\ v = <<z>> /\ w = u \o v
  OBVIOUS
<1>2. /\ u \in Seq(Tok) /\ Len(u) = 2 /\ u[1] = x /\ u[2] = y
      /\ v \in Seq(Tok) /\ Len(v) = 1 /\ v[1] = z
  BY <1>1
<1>a. u \in Seq(Tok) /\ v \in Seq(Tok)
  BY <1>2
<1>3. /\ w \in Seq(Tok) /\ Len(w) = Len(u) + Len(v)
      /\ \A j \in 1 .. Len(u) : w[j] = u[j]
      /\ \A j \in 1 .. Len(v) : w[Len(u) + j] = v[j]
  BY <1>a, <1>1, ConcatIs
<1>4. w \in Seq(Tok) /\ Len(w) = 3 /\ w[1] = x /\ w[2] = y /\ w[3] = z
  <2>1. 1 \in 1 .. Len(u) /\ 2 \in 1 .. Len(u) /\ 1 \in 1 .. Len(v) /\ Len(u) + 1 = 3
    BY <1>2
  <2> QED
    BY <1>2, <1>3, <2>1
<1>5. w = <<x, y, z>>
  BY <1>4
<1> QED
  BY <1>1, <1>5

\* Three tokens and one.
LEMMA FourIs ==
  ASSUME NEW x \in Tok, NEW y \in Tok, NEW z \in Tok, NEW t \in Tok
  PROVE  <<x, y, z>> \o <<t>> = <<x, y, z, t>>
<1>1. PICK u, v, w : u = <<x, y, z>> /\ v = <<t>> /\ w = u \o v
  OBVIOUS
<1>2. /\ u \in Seq(Tok) /\ Len(u) = 3 /\ u[1] = x /\ u[2] = y /\ u[3] = z
      /\ v \in Seq(Tok) /\ Len(v) = 1 /\ v[1] = t
  BY <1>1
<1>a. u \in Seq(Tok) /\ v \in Seq(Tok)
  BY <1>2
<1>3. /\ w \in Seq(Tok) /\ Len(w) = Len(u) + Len(v)
      /\ \A j \in 1 .. Len(u) : w[j] = u[j]
      /\ \A j \in 1 .. Len(v) : w[Len(u) + j] = v[j]
  BY <1>a, <1>1, ConcatIs
<1>4. w \in Seq(Tok) /\ Len(w) = 4 /\ w[1] = x /\ w[2] = y /\ w[3] = z /\ w[4] = t
  <2>1. 1 \in 1 .. Len(u) /\ 2 \in 1 .. Len(u) /\ 3 \in 1 .. Len(u) /\ 1 \in 1 .. Len(v)
        /\ Len(u) + 1 = 4
    BY <1>2
  <2> QED
    BY <1>2, <1>3, <2>1
<1>5. w = <<x, y, z, t>>
  BY <1>4
<1> QED
  BY <1>1, <1>5

SourceReads(s) ==
  IF s.kind = "sub" THEN FlatReads(s.query) \cup {Virtual(s.alias)} ELSE RealOf(s)

\* A source.
LEMMA SourcePiece ==
  ASSUME NEW W \in Seq(Tok), NEW B, NEW V, NEW known, NEW s \in SourceSet,
         NEW ctes, DOMAIN ctes \subseteq V, CtesBound(B, ctes), BoundBySource(s) \subseteq B,
         NEW p, p = SourceTokens(s, ctes, known)
  PROVE  p \in Seq(Tok) /\ Piece(W, B, V, known, p, SourceReads(s), "list", "source")
<1>1. CASE s \in TableSet
  <2>1. s.kind # "sub"
    BY <1>1 DEF TableSet
  <2>2. p = TableTokens(s, ctes, known) /\ SourceReads(s) = RealOf(s)
    BY <2>1 DEF SourceTokens, SourceReads
  <2>3. p \in Seq(Tok)
    BY <1>1, <2>2, TableNoParens
  <2>4. FitsList(W, B, V, known, p, RealOf(s))
    BY <1>1, <2>2, TableFits DEF RealOf
  <2> QED
    BY <2>2, <2>3, <2>4, ListPiece
<1>2. CASE s \in SubSet
  <2>1. s.kind = "sub" /\ s.query \in FlatSet /\ s.alias \in AnyName
    BY <1>2 DEF SubSet
  <2>2. PICK f : f = FlatTokens(s.query, ctes, <<>>, known)
    OBVIOUS
  <2>3. BoundByFlat(s.query) \subseteq B /\ Outer(B, <<>>)
    BY <2>1 DEF BoundBySource, Outer
  <2>4. f \in Seq(Tok) /\ NoParens(f) /\ Piece(W, B, V, known, f, FlatReads(s.query), "range", "rest")
    BY <2>1, <2>2, <2>3, FlatPiece
  <2>5. PICK a, b, d : a = <<Plain("(")>> /\ b = <<Plain(")")>> /\ d = <<Plain(s.alias)>>
    OBVIOUS
  <2>6. PICK u, v : IsJoin(u, a, f) /\ IsJoin(v, u, b)
    BY DEF IsJoin
  <2>7. IsParens(a, b, f, u, v)
    BY <2>5, <2>6 DEF IsParens
  <2>8. AliasTokens(s) = d
    BY <2>1, <2>5 DEF AliasTokens
  <2>9. IsJoin(p, v, d)
    BY <2>1, <2>2, <2>5, <2>6, <2>8 DEF SourceTokens, IsJoin
  <2>10. p \in Seq(Tok)
         /\ Piece(W, B, V, known, p, FlatReads(s.query) \cup {Virtual(s.alias)}, "list", "source")
    BY <2>1, <2>4, <2>5, <2>7, <2>9, SubPiece
  <2> QED
    BY <2>1, <2>10 DEF SourceReads
<1> QED
  BY <1>1, <1>2 DEF SourceSet

\* The definition of a name of WITH.
LEMMA WithPiece ==
  ASSUME NEW W \in Seq(Tok), NEW B, NEW V, NEW known, NEW f \in Seq(Tok), NoParens(f),
         NEW R, Piece(W, B, V, known, f, R, "range", "rest"),
         NEW a, NEW b, NEW u, NEW v, IsParens(a, b, f, u, v),
         NEW name \in AnyName, NEW h, h = <<Plain("WITH"), Plain(name), Plain("AS")>>,
         NEW p, IsJoin(p, h, v)
  PROVE  p \in Seq(Tok) /\ Piece(W, B, V, known, p, R \cup {Virtual(name)}, "range", "range")
<1>1. v \in Seq(Tok) /\ Len(v) = Len(f) + 2
  BY ParensAre
<1>v. v \in Seq(Tok)
  BY <1>1
<1>c. PICK x, y, z : x = Plain("WITH") /\ y = Plain(name) /\ z = Plain("AS")
  OBVIOUS
<1>w. {"WITH", "AS"} \subseteq Syntax \ {"CREATE", "VIEW", ";"} /\ "WITH" \in Word /\ "AS" \in Word
      /\ name \in Word
  BY DEF Syntax, Word
<1>d. IsPlain("WITH", x) /\ IsPlain(name, y) /\ IsPlain("AS", z)
  BY <1>c, <1>w, PlainIs
<1>2. h \in Seq(Tok) /\ Len(h) = 3
  <2>1. h = <<x, y, z>> /\ x \in Tok /\ y \in Tok /\ z \in Tok
    BY <1>c, <1>d DEF IsPlain
  <2> QED
    BY <2>1, Few
<1>h. h \in Seq(Tok)
  BY <1>2
<1>3. p \in Seq(Tok) /\ Len(p) = Len(h) + Len(v)
  BY <1>v, <1>h, JoinIs
<1>4. PICK n : n = Len(f)
  OBVIOUS
<1>5. n \in Nat /\ Len(v) = n + 2 /\ Len(p) = n + 5
  BY <1>1, <1>2, <1>3, <1>4
<1>6. SUFFICES ASSUME NEW o, Occurs(W, o, p), Right(W, o + Len(p), "range")
               PROVE  /\ Right(W, o, "range")
                      /\ Left(W, o, "range") =>
                           /\ Left(W, o + Len(p), "range")
                           /\ \A i \in o + 1 .. o + Len(p) : Role(W, B, V, known, i)
                           /\ \A e \in o + Len(p) + 1 .. Len(W) + 1 :
                                Reading(W, o, "range", e) =
                                  (R \cup {Virtual(name)}) \cup Reading(W, o + Len(p), "range", e)
  BY <1>3 DEF Piece
<1>7. Occurs(W, o, h) /\ Occurs(W, o + Len(h), v)
  BY <1>v, <1>h, <1>6, OccursConcat
<1>8. PICK m, k, c : m = o + 3 /\ k = o + 4 /\ c = m + n + 2
  OBVIOUS
<1>9. o \in Nat /\ m \in Nat /\ k \in Nat /\ c \in Nat /\ o + Len(p) = c /\ o + Len(h) = m
      /\ m + 1 = k /\ m + 2 = k + 1
  <2>1. o \in Nat
    BY <1>6 DEF Occurs
  <2> QED
    BY <2>1, <1>2, <1>5, <1>8
<1>10. /\ c <= Len(W) /\ Paired(W, m + 1, c)
       /\ \A i \in m + 1 .. c : Role(W, B, V, known, i)
       /\ Got(Texts(W), "range", m + 2, c) = R
  <2>1. n = Len(f) /\ c = m + n + 2 /\ Occurs(W, m, v)
    BY <1>4, <1>7, <1>8, <1>9
  <2>2. /\ c <= Len(W) /\ Paired(W, m + 1, c)
        /\ \A i \in m + 1 .. c : Role(W, B, V, known, i)
        /\ Got(Texts(W), "range", m + 2, c) = R
    BY <2>1, ParensAt, SMTT(30)
  <2> QED
    BY <2>2
<1>11. /\ o + 3 <= Len(W)
       /\ W[o + 1] = x /\ At(W, o + 1) = x.text
       /\ W[o + 2] = y /\ At(W, o + 2) = y.text
       /\ W[o + 3] = z /\ At(W, o + 3) = z.text
  <2>1. Occurs(W, o, <<x, y, z>>)
    BY <1>7, <1>c
  <2> QED
    BY <2>1, OccursThree
<1>12. At(W, o + 1) = "WITH" /\ At(W, o + 2) = name /\ At(W, o + 3) = "AS"
  BY <1>d, <1>11 DEF IsPlain
<1>13. Role(W, B, V, known, o + 1) /\ Role(W, B, V, known, o + 2) /\ Role(W, B, V, known, o + 3)
  <2>1. Role(W, B, V, known, o + 1) /\ Role(W, B, V, known, o + 3)
    BY <1>d, <1>w, <1>11, <1>12, SyntaxRole
  <2>2. (o + 2) - 1 = o + 1 /\ (o + 2) + 1 = o + 3
    BY <1>9
  <2>3. PlainRole(W, o + 2)
    <3>1. name # ";"
      BY NamesAre DEF Punctuation
    <3> QED
      BY <1>d, <1>11, <1>12, <2>2, <3>1 DEF PlainRole, FromKeywords
  <2> QED
    BY <2>1, <2>3 DEF Role
<1>14. Right(W, o, "range")
  BY <1>12 DEF Right
<1>15. Left(W, c, "range")
  BY <1>10 DEF Left, Paired
<1>16. ASSUME NEW i \in o + 1 .. c PROVE Role(W, B, V, known, i)
  <2>1. i = o + 1 \/ i = o + 2 \/ i = o + 3 \/ i \in m + 1 .. c
    BY <1>8, <1>9
  <2> QED
    BY <2>1, <1>10, <1>13
<1>17. ASSUME NEW e \in c + 1 .. Len(W) + 1
       PROVE  Reading(W, o, "range", e) = (R \cup {Virtual(name)}) \cup Reading(W, c, "range", e)
  <2>1. PICK d : d = c + 1
    OBVIOUS
  <2>2. NoComma(At(W, d)) /\ CteAt(W, o, name)
    BY <1>6, <1>9, <1>12, <2>1 DEF NoComma, CteAt, Right
  <2>3. Paired(W, k, c) /\ k = o + 4 /\ e \in d .. Len(W) + 1
    BY <1>8, <1>9, <1>10, <2>1
  <2>4. Got(Texts(W), "range", o + 1, e) =
          Got(Texts(W), "range", k + 1, c) \cup {Virtual(name)} \cup Got(Texts(W), "range", d, e)
    <3>1. o \in Nat /\ c \in Nat /\ d = c + 1
      BY <1>9, <2>1
    <3> QED
      BY <2>2, <2>3, <3>1, CteReads
  <2>5. Got(Texts(W), "range", k + 1, c) = R
    BY <1>9, <1>10
  <2> QED
    BY <2>1, <2>4, <2>5 DEF Reading
<1> QED
  BY <1>9, <1>14, <1>15, <1>16, <1>17
-----------------------------------------------------------------------------
\* The scopes of a query.
CtesOf(q) == IF q.with = <<>> THEN <<>> ELSE [n \in {q.with[1].name} |-> {q.with[1].query.ref.column}]
FrameOf(q) == Frame(q.from, CtesOf(q))
WithTokens(w, known) ==
  Words(<<"WITH", w.name, "AS", "(">>) \o FlatTokens(w.query, <<>>, <<>>, known) \o <<Plain(")")>>
WhereTokens(w, ctes, frames, known) ==
  Words(<<"WHERE", "EXISTS", "(">>) \o FlatTokens(w.query, ctes, frames, known)
    \o Words(<<")", "AND">>) \o RefTokens(w.last, frames, known)

\* What is read of WITH and of WHERE.
WithReads(with) ==
  IF with = <<>> THEN {} ELSE FlatReads(with[1].query) \cup {Virtual(with[1].name)}
WhereReads(where) == IF where = <<>> THEN {} ELSE FlatReads(where[1].query)
FromReadsOf(q) == UNION {SourceReads(q.from[i]) : i \in DOMAIN q.from}
QueryReads(q) == (WithReads(q.with) \cup FromReadsOf(q)) \cup WhereReads(q.where)

\* The names of WITH are among V.
WithIn(V, q) == q.with # <<>> => q.with[1].name \in V
WithBound(w) == {<<w.name, w.name>>} \cup BoundByFlat(w.query)
WhereBound(w) == BoundByFlat(w.query)

\* What WITH and WHERE bind is bound by the query.
LEMMA BoundIs ==
  ASSUME NEW q
  PROVE  /\ \A w \in ToSet(q.with) : WithBound(w) \subseteq BoundByQuery(q)
         /\ \A w \in ToSet(q.where) : WhereBound(w) \subseteq BoundByQuery(q)
<1>1. PICK S1, S2, S3 :
        /\ S1 = UNION {BoundBySource(s) : s \in ToSet(q.from)}
        /\ S2 = UNION {WithBound(w) : w \in ToSet(q.with)}
        /\ S3 = UNION {WhereBound(w) : w \in ToSet(q.where)}
  OBVIOUS
<1>2. BoundByQuery(q) = S1 \cup S2 \cup S3
  BY <1>1 DEF BoundByQuery, WithBound, WhereBound
<1>3. S2 \subseteq BoundByQuery(q) /\ S3 \subseteq BoundByQuery(q)
  BY <1>2
<1>4. ASSUME NEW w \in ToSet(q.with) PROVE WithBound(w) \subseteq S2
  BY <1>1, Zenon
<1>5. ASSUME NEW w \in ToSet(q.where) PROVE WhereBound(w) \subseteq S3
  BY <1>1, Zenon
<1> QED
  BY <1>3, <1>4, <1>5

\* The parts of a query.
LEMMA QueryIs ==
  ASSUME NEW q \in QuerySet
  PROVE  /\ q.kind = "query" /\ q.ref \in RefSet /\ q.from \in Seq(SourceSet)
         /\ Len(q.from) \in {1, 2} /\ DOMAIN q.from = 1 .. Len(q.from)
         /\ \A i \in DOMAIN q.from :
              q.from[i] \in SourceSet /\ BoundBySource(q.from[i]) \subseteq BoundByQuery(q)
         /\ q.with # <<>> =>
              /\ q.with[1].name \in AnyName /\ q.with[1].query \in FlatSet
              /\ <<q.with[1].name, q.with[1].name>> \in BoundByQuery(q)
              /\ BoundByFlat(q.with[1].query) \subseteq BoundByQuery(q)
         /\ q.where # <<>> =>
              /\ q.where[1].query \in FlatSet /\ q.where[1].last \in RefSet
              /\ BoundByFlat(q.where[1].query) \subseteq BoundByQuery(q)
<1>1. /\ q.kind = "query" /\ q.ref \in RefSet /\ q.from \in Seq(SourceSet)
      /\ Len(q.from) \in {1, 2}
      /\ q.with = <<>> \/ \E w \in WithSet : q.with = <<w>>
      /\ q.where = <<>> \/ \E w \in WhereSet : q.where = <<w>>
  BY DEF QuerySet, AliasesDiffer
<1>2. PICK f : f = q.from
  OBVIOUS
<1>3. DOMAIN f = 1 .. Len(f) /\ \A i \in DOMAIN f : f[i] \in SourceSet /\ f[i] \in ToSet(f)
  BY <1>1, <1>2 DEF ToSet
<1>4. ASSUME NEW i \in DOMAIN f PROVE BoundBySource(f[i]) \subseteq BoundByQuery(q)
  BY <1>2, <1>3 DEF BoundByQuery
<1>5. ASSUME q.with # <<>>
      PROVE  /\ q.with[1].name \in AnyName /\ q.with[1].query \in FlatSet
             /\ <<q.with[1].name, q.with[1].name>> \in BoundByQuery(q)
             /\ BoundByFlat(q.with[1].query) \subseteq BoundByQuery(q)
  <2>1. PICK w \in WithSet : q.with = <<w>>
    BY <1>1, <1>5
  <2>2. q.with[1] = w /\ w \in ToSet(q.with)
    BY <2>1, TupleIs DEF ToSet
  <2>3. w.name \in AnyName /\ w.query \in FlatSet
    BY DEF WithSet
  <2>4. ({<<w.name, w.name>>} \cup BoundByFlat(w.query)) \subseteq BoundByQuery(q)
    BY <2>2, BoundIs, Zenon DEF WithBound
  <2> QED
    BY <2>2, <2>3, <2>4
<1>6. ASSUME q.where # <<>>
      PROVE  /\ q.where[1].query \in FlatSet /\ q.where[1].last \in RefSet
             /\ BoundByFlat(q.where[1].query) \subseteq BoundByQuery(q)
  <2>1. PICK w \in WhereSet : q.where = <<w>>
    BY <1>1, <1>6
  <2>2. q.where[1] = w /\ w \in ToSet(q.where)
    BY <2>1, TupleIs DEF ToSet
  <2>3. w.query \in FlatSet /\ w.last \in RefSet
    BY DEF WhereSet
  <2>4. BoundByFlat(w.query) \subseteq BoundByQuery(q)
    BY <2>2, BoundIs, Zenon DEF WhereBound
  <2> QED
    BY <2>2, <2>3, <2>4
<1> QED
  BY <1>1, <1>2, <1>3, <1>4, <1>5, <1>6

\* The scope of a query is what its names mean.
LEMMA ScopeIs ==
  ASSUME NEW q \in QuerySet, NEW B, BoundByQuery(q) \subseteq B, NEW V, WithIn(V, q)
  PROVE  /\ DOMAIN CtesOf(q) \subseteq V /\ CtesBound(B, CtesOf(q))
         /\ FrameMeans(B, FrameOf(q))
<1>1. DOMAIN CtesOf(q) \subseteq V /\ CtesBound(B, CtesOf(q))
  <2>1. CASE q.with = <<>>
    BY <2>1 DEF CtesOf, CtesBound
  <2>2. CASE q.with # <<>>
    <3>1. DOMAIN CtesOf(q) = {q.with[1].name}
      BY <2>2 DEF CtesOf
    <3>2. <<q.with[1].name, q.with[1].name>> \in B
      BY <2>2, QueryIs
    <3> QED
      BY <2>2, <3>1, <3>2 DEF CtesBound, WithIn
  <2> QED
    BY <2>1, <2>2
<1>2. FrameMeans(B, FrameOf(q))
  <2>1. q.from \in Seq(SourceSet) /\ \A i \in DOMAIN q.from : BoundBySource(q.from[i]) \subseteq B
    BY QueryIs
  <2> QED
    BY <1>1, <2>1, FrameOfMeans DEF FrameOf
<1> QED
  BY <1>1, <1>2

\* The SELECT of a query.
LEMMA QuerySelectPiece ==
  ASSUME NEW W \in Seq(Tok), NEW B, NEW V, NEW known, NEW q \in QuerySet,
         BoundByQuery(q) \subseteq B, WithIn(V, q),
         NEW p, p = SelectTokens(q, [i \in DOMAIN q.from |-> SourceTokens(q.from[i], CtesOf(q), known)],
                                 <<FrameOf(q)>>, known)
  PROVE  p \in Seq(Tok) /\ Piece(W, B, V, known, p, FromReadsOf(q), "range", "rest")
<1>1. PICK f, ctes : f = q.from /\ ctes = CtesOf(q)
  OBVIOUS
<1>2. /\ q.ref \in RefSet /\ f \in Seq(SourceSet)
      /\ Len(f) \in {1, 2} /\ DOMAIN f = 1 .. Len(f)
      /\ \A i \in DOMAIN f : f[i] \in SourceSet /\ BoundBySource(f[i]) \subseteq B
  BY <1>1, QueryIs
<1>3. DOMAIN ctes \subseteq V /\ CtesBound(B, ctes) /\ FrameMeans(B, FrameOf(q))
  BY <1>1, ScopeIs
<1>4. PICK g, all : g = FrameOf(q) /\ all = <<g>>
  OBVIOUS
<1>5. DOMAIN all \in SUBSET Nat /\ \A i \in DOMAIN all : FrameMeans(B, all[i])
  <2>1. DOMAIN all = {1} /\ all[1] = g
    BY <1>4, TupleIs, Zenon
  <2> QED
    BY <2>1, <1>3, <1>4
<1>6. PICK sources : sources = [i \in DOMAIN f |-> SourceTokens(f[i], ctes, known)]
  OBVIOUS
<1>7. ASSUME NEW i \in DOMAIN f
      PROVE  /\ sources[i] \in Seq(Tok)
             /\ Piece(W, B, V, known, sources[i], SourceReads(f[i]), "list", "source")
  <2>1. PICK s, t : s = f[i] /\ t = sources[i]
    OBVIOUS
  <2>2. s \in SourceSet /\ BoundBySource(s) \subseteq B /\ t = SourceTokens(s, ctes, known)
    BY <2>1, <1>2, <1>6
  <2>3. t \in Seq(Tok) /\ Piece(W, B, V, known, t, SourceReads(s), "list", "source")
    BY <2>2, <1>3, SourcePiece
  <2> QED
    BY <2>1, <2>3
<1>8. sources \in Seq(Seq(Tok)) /\ Len(sources) = Len(f) /\ DOMAIN sources = DOMAIN f
  BY <1>2, <1>6, <1>7
<1>9. p = SelectTokens(q, sources, all, known)
  BY <1>1, <1>4, <1>6
<1>10. PICK R : R = [i \in DOMAIN f |-> SourceReads(f[i])]
  OBVIOUS
<1>11. \A i \in DOMAIN sources : Piece(W, B, V, known, sources[i], R[i], "list", "source")
  BY <1>7, <1>8, <1>10
<1>12. PICK T : T = UNION {R[i] : i \in DOMAIN sources}
  OBVIOUS
<1>13. p \in Seq(Tok) /\ Piece(W, B, V, known, p, T, "range", "rest")
  <2>1. q.ref \in RefSet
    BY <1>2
  <2>2. sources \in Seq(Seq(Tok)) /\ Len(sources) \in {1, 2}
    BY <1>2, <1>8
  <2> QED
    BY <1>5, <1>9, <1>11, <1>12, <2>1, <2>2, SelectPiece
<1>14. T = FromReadsOf(q)
  BY <1>1, <1>8, <1>10, <1>12 DEF FromReadsOf
<1> QED
  BY <1>13, <1>14

\* WITH is a piece: its body and its name are read.
LEMMA WithTokensPiece ==
  ASSUME NEW W \in Seq(Tok), NEW B, NEW V, NEW known, NEW name \in AnyName, NEW q \in FlatSet,
         BoundByFlat(q) \subseteq B, NEW w, w.name = name, w.query = q,
         NEW p, p = WithTokens(w, known)
  PROVE  p \in Seq(Tok) /\ Piece(W, B, V, known, p, FlatReads(q) \cup {Virtual(name)}, "range", "range")
<1>1. PICK f : f = FlatTokens(q, <<>>, <<>>, known)
  OBVIOUS
<1>2. f \in Seq(Tok) /\ NoParens(f) /\ Piece(W, B, V, known, f, FlatReads(q), "range", "rest")
  <2>1. PICK none : none = <<>>
    OBVIOUS
  <2>2. DOMAIN none \subseteq V /\ CtesBound(B, none) /\ Outer(B, none)
    BY <2>1 DEF CtesBound, Outer
  <2>3. f = FlatTokens(q, none, none, known)
    BY <1>1, <2>1
  <2> QED
    BY <2>2, <2>3, FlatPiece
<1>3. PICK x, y, z, t : x = Plain("WITH") /\ y = Plain(name) /\ z = Plain("AS") /\ t = Plain("(")
  OBVIOUS
<1>4. x \in Tok /\ y \in Tok /\ z \in Tok /\ t \in Tok
  <2>1. {"WITH", "AS", "("} \subseteq Word /\ name \in Word
    BY DEF Syntax, Word
  <2> QED
    BY <1>3, <2>1, PlainTokens
<1>5. PICK h, a, b : h = <<x, y, z>> /\ a = <<t>> /\ b = <<Plain(")")>>
  OBVIOUS
<1>6. h \in Seq(Tok) /\ a \in Seq(Tok) /\ b \in Seq(Tok)
  <2>1. ")" \in Word
    BY DEF Syntax, Word
  <2> QED
    BY <1>4, <1>5, <2>1, PlainTokens, Few
<1>7. p = ((h \o a) \o f) \o b
  <2>1. h \o a = <<x, y, z, t>>
    BY <1>4, <1>5, FourIs
  <2>2. Words(<<"WITH", name, "AS", "(">>) = <<x, y, z, t>>
    BY <1>3, WordsAre
  <2> QED
    BY <1>1, <1>5, <2>1, <2>2 DEF WithTokens
<1>8. PICK u, v : IsJoin(u, a, f) /\ IsJoin(v, u, b)
  BY DEF IsJoin
<1>9. IsParens(a, b, f, u, v)
  BY <1>3, <1>5, <1>8 DEF IsParens
<1>10. IsJoin(p, h, v)
  <2>1. (h \o a) \o f = h \o u
    BY <1>2, <1>6, <1>8, Assoc DEF IsJoin
  <2>2. u \in Seq(Tok)
    BY <1>2, <1>6, <1>8, JoinIs
  <2>3. (h \o u) \o b = h \o v
    BY <1>6, <1>8, <2>2, Assoc DEF IsJoin
  <2> QED
    BY <1>7, <2>1, <2>3 DEF IsJoin
<1>11. h = <<Plain("WITH"), Plain(name), Plain("AS")>>
  BY <1>3, <1>5
<1> QED
  BY <1>2, <1>9, <1>10, <1>11, WithPiece
-----------------------------------------------------------------------------
\* One token and one.
LEMMA TwoIs ==
  ASSUME NEW x \in Tok, NEW y \in Tok
  PROVE  <<x>> \o <<y>> = <<x, y>>
<1>1. PICK u, v, w : u = <<x>> /\ v = <<y>> /\ w = u \o v
  OBVIOUS
<1>2. u \in Seq(Tok) /\ Len(u) = 1 /\ u[1] = x /\ v \in Seq(Tok) /\ Len(v) = 1 /\ v[1] = y
  BY <1>1
<1>3. u \in Seq(Tok) /\ v \in Seq(Tok)
  BY <1>2
<1>4. /\ w \in Seq(Tok) /\ Len(w) = Len(u) + Len(v)
      /\ \A j \in 1 .. Len(u) : w[j] = u[j]
      /\ \A j \in 1 .. Len(v) : w[Len(u) + j] = v[j]
  BY <1>1, <1>3, ConcatIs
<1>5. w \in Seq(Tok) /\ Len(w) = 2 /\ w[1] = x /\ w[2] = y
  <2>1. 1 \in 1 .. Len(u) /\ 1 \in 1 .. Len(v) /\ Len(u) + 1 = 2
    BY <1>2
  <2> QED
    BY <1>2, <1>4, <2>1
<1>6. w = <<x, y>>
  BY <1>5
<1> QED
  BY <1>1, <1>6

\* WHERE EXISTS and a parenthesis, and what is behind the query in it.
LEMMA WhereWords ==
  ASSUME NEW W \in Seq(Tok), NEW B, NEW V, NEW known,
         NEW h, h = Words(<<"WHERE", "EXISTS", "(">>), NEW t, t = Words(<<")", "AND">>)
  PROVE  /\ h \in Seq(Tok) /\ Piece(W, B, V, known, h, {}, "rest", "range")
         /\ t \in Seq(Tok) /\ Piece(W, B, V, known, t, {}, "end", "ref")
<1>1. PICK x, y, z, c, d : /\ x = Plain("WHERE") /\ y = Plain("EXISTS") /\ z = Plain("(")
                           /\ c = Plain(")") /\ d = Plain("AND")
  OBVIOUS
<1>2. x \in Tok /\ y \in Tok /\ z \in Tok /\ c \in Tok /\ d \in Tok
  <2>1. {"WHERE", "EXISTS", "(", ")", "AND"} \subseteq Word
    BY DEF Syntax, Word
  <2> QED
    BY <1>1, <2>1, PlainTokens
<1>3. PICK p, q, r, a, b : p = <<x>> /\ q = <<y>> /\ r = <<z>> /\ a = <<c>> /\ b = <<d>>
  OBVIOUS
<1>4. p \in Seq(Tok) /\ q \in Seq(Tok) /\ r \in Seq(Tok) /\ a \in Seq(Tok) /\ b \in Seq(Tok)
  BY <1>2, <1>3
<1>5. PICK none : none = {}
  OBVIOUS
<1>6. /\ Piece(W, B, V, known, p, none, "rest", "range")
      /\ Piece(W, B, V, known, q, none, "range", "range")
      /\ Piece(W, B, V, known, r, none, "range", "range")
      /\ Piece(W, B, V, known, a, none, "end", "range")
      /\ Piece(W, B, V, known, b, none, "range", "ref")
  <2>1. {"WHERE", "EXISTS", "(", ")", "AND"} \subseteq Skipped
    BY DEF Skipped
  <2>2. /\ Passes("WHERE", "rest", "range") /\ Passes("EXISTS", "range", "range")
        /\ Passes("(", "range", "range") /\ Passes(")", "end", "range")
        /\ Passes("AND", "range", "ref")
    BY DEF Passes
  <2> QED
    BY <1>1, <1>3, <1>5, <2>1, <2>2, SkipPiece
<1>7. PICK u : IsJoin(u, p, q)
  BY DEF IsJoin
<1>8. u = <<x, y>>
  BY <1>2, <1>3, <1>7, TwoIs DEF IsJoin
<1>9. IsJoin(h, u, r)
  <2>1. h = <<x, y, z>>
    BY <1>1, WordsAre
  <2> QED
    BY <1>2, <1>3, <1>8, <2>1, TripleIs DEF IsJoin
<1>10. IsJoin(t, a, b)
  <2>1. t = <<c, d>>
    BY <1>1, WordsAre
  <2> QED
    BY <1>2, <1>3, <2>1, TwoIs DEF IsJoin
<1>11. none \cup none = none
  OBVIOUS
<1>12. u \in Seq(Tok) /\ Piece(W, B, V, known, u, none, "rest", "range")
  <2>1. u \in Seq(Tok) /\ Piece(W, B, V, known, u, none \cup none, "rest", "range")
    BY <1>4, <1>6, <1>7, PieceJoin
  <2> QED
    BY <1>11, <2>1
<1>13. h \in Seq(Tok) /\ Piece(W, B, V, known, h, none, "rest", "range")
  <2>1. h \in Seq(Tok) /\ Piece(W, B, V, known, h, none \cup none, "rest", "range")
    BY <1>4, <1>6, <1>9, <1>12, PieceJoin
  <2> QED
    BY <1>11, <2>1
<1>14. t \in Seq(Tok) /\ Piece(W, B, V, known, t, none, "end", "ref")
  <2>1. t \in Seq(Tok) /\ Piece(W, B, V, known, t, none \cup none, "end", "ref")
    BY <1>4, <1>6, <1>10, PieceJoin
  <2> QED
    BY <1>11, <2>1
<1> QED
  BY <1>5, <1>13, <1>14

\* WHERE.
LEMMA WherePiece ==
  ASSUME NEW W \in Seq(Tok), NEW B, NEW V, NEW known, NEW q \in FlatSet, NEW ref \in RefSet,
         NEW ctes, DOMAIN ctes \subseteq V, CtesBound(B, ctes), BoundByFlat(q) \subseteq B,
         NEW g, FrameMeans(B, g), NEW w, w.query = q, w.last = ref,
         NEW p, p = WhereTokens(w, ctes, <<g>>, known)
  PROVE  p \in Seq(Tok) /\ Piece(W, B, V, known, p, FlatReads(q), "rest", "end")
<1>1. PICK frames : frames = <<g>>
  OBVIOUS
<1>2. PICK h, f, t, r : /\ h = Words(<<"WHERE", "EXISTS", "(">>) /\ t = Words(<<")", "AND">>)
                        /\ f = FlatTokens(q, ctes, frames, known) /\ r = RefTokens(ref, frames, known)
  OBVIOUS
<1>3. p = ((h \o f) \o t) \o r
  BY <1>1, <1>2 DEF WhereTokens
<1>4. PICK u, v : IsJoin(u, h, f) /\ IsJoin(v, u, t)
  BY DEF IsJoin
<1>5. IsJoin(p, v, r)
  BY <1>3, <1>4 DEF IsJoin
<1>6. PICK none, R : none = {} /\ R = FlatReads(q)
  OBVIOUS
<1>7. /\ h \in Seq(Tok) /\ Piece(W, B, V, known, h, none, "rest", "range")
      /\ t \in Seq(Tok) /\ Piece(W, B, V, known, t, none, "end", "ref")
  BY <1>2, <1>6, WhereWords
<1>8. f \in Seq(Tok) /\ Piece(W, B, V, known, f, R, "range", "end")
  <2>1. Outer(B, frames)
    BY <1>1 DEF Outer
  <2>2. f \in Seq(Tok) /\ Piece(W, B, V, known, f, R, "range", "rest")
    BY <1>2, <1>6, <2>1, FlatPiece
  <2>3. <<"rest", "end">> \in {<<"source", "rest">>, <<"rest", "end">>, <<"column", "end">>}
    OBVIOUS
  <2> QED
    BY <2>2, <2>3, Weaker
<1>9. r \in Seq(Tok) /\ Piece(W, B, V, known, r, none, "ref", "end")
  <2>1. DOMAIN frames \in SUBSET Nat /\ \A i \in DOMAIN frames : FrameMeans(B, frames[i])
    <3>1. DOMAIN frames = {1} /\ frames[1] = g
      BY <1>1, TupleIs, Zenon
    <3> QED
      BY <3>1
  <2>2. r \in Seq(Tok) /\ Piece(W, B, V, known, r, none, "ref", "column")
    BY <1>2, <1>6, <2>1, RefPiece
  <2>3. <<"column", "end">> \in {<<"source", "rest">>, <<"rest", "end">>, <<"column", "end">>}
    OBVIOUS
  <2> QED
    BY <2>2, <2>3, Weaker
<1>10. u \in Seq(Tok) /\ Piece(W, B, V, known, u, none \cup R, "rest", "end")
  BY <1>4, <1>7, <1>8, PieceJoin
<1>11. v \in Seq(Tok) /\ Piece(W, B, V, known, v, (none \cup R) \cup none, "rest", "ref")
  BY <1>4, <1>7, <1>10, PieceJoin
<1>12. p \in Seq(Tok) /\ Piece(W, B, V, known, p, ((none \cup R) \cup none) \cup none, "rest", "end")
  BY <1>5, <1>9, <1>11, PieceJoin
<1>13. ((none \cup R) \cup none) \cup none = R
  BY <1>6
<1> QED
  BY <1>6, <1>12, <1>13

\* Nothing at all, between two places of which one is the other.
LEMMA NothingPiece ==
  ASSUME NEW W \in Seq(Tok), NEW B, NEW V, NEW known, NEW kind
  PROVE  <<>> \in Seq(Tok) /\ Piece(W, B, V, known, <<>>, {}, kind, kind)
<1>1. PICK p : p = <<>>
  OBVIOUS
<1>2. p \in Seq(Tok) /\ Len(p) = 0
  BY <1>1
<1>3. SUFFICES ASSUME NEW o, Occurs(W, o, p), Right(W, o + Len(p), kind)
               PROVE  /\ Right(W, o, kind)
                      /\ Left(W, o, kind) =>
                           /\ Left(W, o + Len(p), kind)
                           /\ \A i \in o + 1 .. o + Len(p) : Role(W, B, V, known, i)
                           /\ \A e \in o + Len(p) + 1 .. Len(W) + 1 :
                                Reading(W, o, kind, e) = {} \cup Reading(W, o + Len(p), kind, e)
  BY <1>1, <1>2 DEF Piece
<1>4. o \in Nat
  BY <1>3 DEF Occurs
<1>5. PICK m : m = o + Len(p)
  OBVIOUS
<1>6. m = o
  BY <1>2, <1>4, <1>5
<1>7. ~\E i \in o + 1 .. m : TRUE
  BY <1>4, <1>6
<1> QED
  BY <1>3, <1>5, <1>6, <1>7

\* A query.
LEMMA QueryPiece ==
  ASSUME NEW W \in Seq(Tok), NEW B, NEW V, NEW known, NEW q \in QuerySet,
         BoundByQuery(q) \subseteq B, WithIn(V, q), NEW p, p = QueryTokens(q, known)
  PROVE  p \in Seq(Tok) /\ Piece(W, B, V, known, p, QueryReads(q), "range", "end")
<1>1. PICK head, sel, tail :
        /\ head = (IF q.with = <<>> THEN <<>> ELSE WithTokens(q.with[1], known))
        /\ sel = SelectTokens(q, [i \in DOMAIN q.from |-> SourceTokens(q.from[i], CtesOf(q), known)],
                              <<FrameOf(q)>>, known)
        /\ tail = (IF q.where = <<>> THEN <<>>
                   ELSE WhereTokens(q.where[1], CtesOf(q), <<FrameOf(q)>>, known))
  OBVIOUS
<1>2. p = (head \o sel) \o tail
  BY <1>1 DEF QueryTokens, CtesOf, FrameOf, WithTokens, WhereTokens
<1>3. PICK R, S, T : R = WithReads(q.with) /\ S = FromReadsOf(q) /\ T = WhereReads(q.where)
  OBVIOUS
<1>4. head \in Seq(Tok) /\ Piece(W, B, V, known, head, R, "range", "range")
  <2>1. CASE q.with = <<>>
    <3>1. head = <<>> /\ R = {}
      BY <1>1, <1>3, <2>1 DEF WithReads
    <3> QED
      BY <3>1, NothingPiece
  <2>2. CASE q.with # <<>>
    <3>1. PICK w, f, name : w = q.with[1] /\ f = w.query /\ name = w.name
      OBVIOUS
    <3>2. name \in AnyName /\ f \in FlatSet /\ BoundByFlat(f) \subseteq B
      BY <2>2, <3>1, QueryIs
    <3>3. head = WithTokens(w, known) /\ R = FlatReads(f) \cup {Virtual(name)}
      BY <1>1, <1>3, <2>2, <3>1 DEF WithReads
    <3>4. head \in Seq(Tok)
          /\ Piece(W, B, V, known, head, FlatReads(f) \cup {Virtual(name)}, "range", "range")
      <4>1. w.name = name /\ w.query = f
        BY <3>1
      <4>2. head = WithTokens(w, known)
        BY <3>3
      <4> QED
        BY <3>2, <4>1, <4>2, WithTokensPiece
    <3> QED
      BY <3>3, <3>4
  <2> QED
    BY <2>1, <2>2
<1>5. sel \in Seq(Tok) /\ Piece(W, B, V, known, sel, S, "range", "rest")
  BY <1>1, <1>3, QuerySelectPiece
<1>6. tail \in Seq(Tok) /\ Piece(W, B, V, known, tail, T, "rest", "end")
  <2>1. CASE q.where = <<>>
    <3>1. tail = <<>> /\ T = {}
      BY <1>1, <1>3, <2>1 DEF WhereReads
    <3>2. tail \in Seq(Tok) /\ Piece(W, B, V, known, tail, T, "rest", "rest")
      BY <3>1, NothingPiece
    <3>3. <<"rest", "end">> \in {<<"source", "rest">>, <<"rest", "end">>, <<"column", "end">>}
      OBVIOUS
    <3> QED
      BY <3>2, <3>3, Weaker
  <2>2. CASE q.where # <<>>
    <3>1. PICK w, f, ref, ctes, g :
            w = q.where[1] /\ f = w.query /\ ref = w.last /\ ctes = CtesOf(q) /\ g = FrameOf(q)
      OBVIOUS
    <3>2. f \in FlatSet /\ ref \in RefSet /\ BoundByFlat(f) \subseteq B
      BY <2>2, <3>1, QueryIs
    <3>3. tail = WhereTokens(w, ctes, <<g>>, known) /\ T = FlatReads(f)
      BY <1>1, <1>3, <2>2, <3>1 DEF WhereReads
    <3>4. DOMAIN ctes \subseteq V /\ CtesBound(B, ctes) /\ FrameMeans(B, g)
      BY <3>1, ScopeIs
    <3>5. tail \in Seq(Tok) /\ Piece(W, B, V, known, tail, FlatReads(f), "rest", "end")
      <4>1. w.query = f /\ w.last = ref
        BY <3>1
      <4>2. tail = WhereTokens(w, ctes, <<g>>, known)
        BY <3>3
      <4> QED
        BY <3>2, <3>4, <4>1, <4>2, WherePiece
    <3> QED
      BY <3>3, <3>5
  <2> QED
    BY <2>1, <2>2
<1>7. PICK u : IsJoin(u, head, sel)
  BY DEF IsJoin
<1>8. IsJoin(p, u, tail)
  BY <1>2, <1>7 DEF IsJoin
<1>9. u \in Seq(Tok) /\ Piece(W, B, V, known, u, R \cup S, "range", "rest")
  BY <1>4, <1>5, <1>7, PieceJoin
<1>10. p \in Seq(Tok) /\ Piece(W, B, V, known, p, (R \cup S) \cup T, "range", "end")
  BY <1>6, <1>8, <1>9, PieceJoin
<1> QED
  BY <1>3, <1>10 DEF QueryReads
-----------------------------------------------------------------------------
\* SET id = before a reference.
LEMMA SetPiece ==
  ASSUME NEW W \in Seq(Tok), NEW B, NEW V, NEW known, NEW p, p = Words(<<"SET", "id", "=">>)
  PROVE  p \in Seq(Tok) /\ Piece(W, B, V, known, p, {}, "source", "ref")
<1>1. PICK x, y, z : x = Plain("SET") /\ y = Plain("id") /\ z = Plain("=")
  OBVIOUS
<1>2. /\ {"SET", "="} \subseteq Syntax \ {"CREATE", "VIEW", ";"}
      /\ "SET" \in Word /\ "id" \in Word /\ "=" \in Word /\ "id" \in AnyName
  BY DEF Syntax, Word, AnyName
<1>3. IsPlain("SET", x) /\ IsPlain("id", y) /\ IsPlain("=", z)
  BY <1>1, <1>2, PlainIs
<1>4. p = <<x, y, z>>
  BY <1>1, WordsAre
<1>5. p \in Seq(Tok) /\ Len(p) = 3
  BY <1>3, <1>4, Few DEF IsPlain
<1>6. SUFFICES ASSUME NEW o, Occurs(W, o, p)
               PROVE  /\ Right(W, o, "source")
                      /\ Left(W, o, "source") =>
                           /\ Left(W, o + Len(p), "ref")
                           /\ \A i \in o + 1 .. o + Len(p) : Role(W, B, V, known, i)
                           /\ \A e \in o + Len(p) + 1 .. Len(W) + 1 :
                                Reading(W, o, "source", e) =
                                  {} \cup Reading(W, o + Len(p), "ref", e)
  BY <1>5 DEF Piece
<1>7. /\ o \in Nat /\ o + 3 <= Len(W)
      /\ W[o + 1] = x /\ At(W, o + 1) = x.text
      /\ W[o + 2] = y /\ At(W, o + 2) = y.text
      /\ W[o + 3] = z /\ At(W, o + 3) = z.text
  BY <1>4, <1>6, OccursThree
<1>8. At(W, o + 1) = "SET" /\ At(W, o + 2) = "id" /\ At(W, o + 3) = "="
  BY <1>3, <1>7 DEF IsPlain
<1>9. Right(W, o, "source")
  BY <1>8 DEF Right, AfterSource
<1>10. PICK a, b, c : a = o + 1 /\ b = o + 2 /\ c = o + 3
  OBVIOUS
<1>11. /\ a \in Nat /\ b \in Nat /\ c \in Nat /\ b = a + 1 /\ c = b + 1 /\ c <= Len(W)
       /\ b - 1 = a /\ c - 1 = b /\ o + Len(p) = c /\ o \in Nat /\ a = o + 1
  <2>1. PICK n, l : n = Len(p) /\ l = Len(W)
    OBVIOUS
  <2>2. o \in Nat /\ o + 3 <= l /\ n = 3
    BY <1>5, <1>7, <2>1
  <2>3. /\ a \in Nat /\ b \in Nat /\ c \in Nat /\ b = a + 1 /\ c = b + 1 /\ c <= l
        /\ b - 1 = a /\ c - 1 = b /\ o + n = c /\ a = o + 1
    BY <1>10, <2>2
  <2> QED
    BY <2>1, <2>2, <2>3
<1>12. /\ At(W, a) = "SET" /\ At(W, b) = "id" /\ At(W, c) = "="
       /\ W[a] = x /\ W[b] = y /\ W[c] = z
  BY <1>7, <1>8, <1>10
<1>13. Role(W, B, V, known, a) /\ Role(W, B, V, known, c)
  BY <1>2, <1>3, <1>12, SyntaxRole
<1>14. Role(W, B, V, known, b)
  <2>1. IsPlain(At(W, b), W[b]) /\ At(W, b) # ";"
    BY <1>3, <1>12
  <2>2. At(W, b - 1) \notin FromKeywords \cup {"."} /\ At(W, b + 1) # "."
    BY <1>11, <1>12 DEF FromKeywords
  <2> QED
    BY <2>1, <2>2 DEF Role, PlainRole
<1>15. ClauseAfter(W, c) = "column"
  <2>1. ClauseAfter(W, a) = "column"
    <3>1. o + 1 <= Len(W) /\ At(W, o + 1) \in {"SELECT", "SET"}
      BY <1>8, <1>11
    <3>2. ClauseAfter(W, o + 1) = "column"
      BY <3>1, <1>11, ClauseSet
    <3> QED
      BY <3>2, <1>11
  <2>2. ClauseAfter(W, b) = ClauseAfter(W, a)
    <3>1. Neutral(At(W, a + 1)) /\ a + 1 <= Len(W)
      BY <1>11, <1>12 DEF Neutral, FromKeywords
    <3>2. ClauseAfter(W, a + 1) = ClauseAfter(W, a)
      BY <3>1, <1>11, ClauseKept
    <3> QED
      BY <3>2, <1>11
  <2>3. ClauseAfter(W, c) = ClauseAfter(W, b)
    <3>1. Neutral(At(W, b + 1)) /\ b + 1 <= Len(W)
      BY <1>11, <1>12 DEF Neutral, FromKeywords
    <3>2. ClauseAfter(W, b + 1) = ClauseAfter(W, b)
      BY <3>1, <1>11, ClauseKept
    <3> QED
      BY <3>2, <1>11
  <2> QED
    BY <2>1, <2>2, <2>3
<1>16. Left(W, c, "ref")
  BY <1>11, <1>12, <1>15 DEF Left, BeforeRef
<1>17. \A i \in o + 1 .. c : Role(W, B, V, known, i)
  <2>1. \A i \in o + 1 .. c : i = a \/ i = b \/ i = c
    BY <1>11
  <2> QED
    BY <2>1, <1>13, <1>14
<1>18. ASSUME NEW e \in c + 1 .. Len(W) + 1
       PROVE  Reading(W, o, "source", e) = Reading(W, c, "ref", e)
  <2>1. Passed(At(W, a)) /\ Passed(At(W, b)) /\ Passed(At(W, c))
    BY <1>12 DEF Passed, FromKeywords
  <2>2. e \in a + 1 .. Len(W) + 1 /\ e \in b + 1 .. Len(W) + 1
    BY <1>11
  <2>3. Reading(W, o, "source", e) = Reading(W, a, "column", e)
    BY <1>11, <2>1, <2>2, SkipReads
  <2>4. Reading(W, a, "column", e) = Reading(W, b, "column", e)
    BY <1>11, <2>1, <2>2, SkipReads
  <2>5. Reading(W, b, "column", e) = Reading(W, c, "ref", e)
    BY <1>11, <2>1, SkipReads
  <2> QED
    BY <2>3, <2>4, <2>5
<1> QED
  BY <1>9, <1>11, <1>16, <1>17, <1>18

UpdateTokens(s, known) ==
  <<Plain("UPDATE")>> \o SourceTokens(s.from, <<>>, known)
    \o Words(<<"SET", "id", "=">>) \o RefTokens(s.ref, <<Frame(<<s.from>>, <<>>)>>, known)

\* An UPDATE.
LEMMA UpdatePiece ==
  ASSUME NEW W \in Seq(Tok), NEW B, NEW V, NEW known, NEW s \in UpdateSet,
         BoundByTable(s.from) \subseteq B, NEW p, p = UpdateTokens(s, known)
  PROVE  p \in Seq(Tok) /\ Piece(W, B, V, known, p, RealOf(s.from), "range", "end")
<1>1. PICK t, ref : t = s.from /\ ref = s.ref
  OBVIOUS
<1>2. t \in TableSet /\ t \in SourceSet /\ ref \in RefSet /\ t.kind = "table"
  BY <1>1 DEF UpdateSet, SourceSet, TableSet
<1>3. BoundBySource(t) \subseteq B
  BY <1>1, <1>2 DEF BoundBySource
<1>4. PICK none : none = <<>>
  OBVIOUS
<1>5. DOMAIN none \subseteq V /\ CtesBound(B, none)
  BY <1>4 DEF CtesBound
<1>6. PICK from, g, frames : from = <<t>> /\ g = Frame(from, none) /\ frames = <<g>>
  OBVIOUS
<1>7. FrameMeans(B, g)
  <2>1. from \in Seq(SourceSet) /\ DOMAIN from = {1} /\ from[1] = t
    BY <1>2, <1>6, TupleIs
  <2>2. \A i \in DOMAIN from : BoundBySource(from[i]) \subseteq B
    BY <2>1, <1>3
  <2> QED
    BY <2>1, <2>2, <1>5, <1>6, FrameOfMeans
<1>8. PICK h, f, m, r : /\ h = <<Plain("UPDATE")>> /\ f = SourceTokens(t, none, known)
                        /\ m = Words(<<"SET", "id", "=">>) /\ r = RefTokens(ref, frames, known)
  OBVIOUS
<1>9. p = ((h \o f) \o m) \o r
  BY <1>1, <1>4, <1>6, <1>8 DEF UpdateTokens
<1>10. PICK u, v : IsJoin(u, h, f) /\ IsJoin(v, u, m)
  BY DEF IsJoin
<1>11. IsJoin(p, v, r)
  BY <1>9, <1>10 DEF IsJoin
<1>12. PICK zero, R : zero = {} /\ R = SourceReads(t)
  OBVIOUS
<1>13. h \in Seq(Tok) /\ Piece(W, B, V, known, h, zero, "range", "list")
  <2>1. "UPDATE" \in Word
    BY DEF Word, Syntax
  <2>2. <<"UPDATE", "range">> \in {<<"FROM", "column">>, <<"UPDATE", "range">>}
    OBVIOUS
  <2> QED
    BY <1>8, <1>12, <2>1, <2>2, PlainTokens, FromPiece
<1>14. f \in Seq(Tok) /\ Piece(W, B, V, known, f, R, "list", "source")
  BY <1>2, <1>3, <1>5, <1>8, <1>12, SourcePiece
<1>15. m \in Seq(Tok) /\ Piece(W, B, V, known, m, zero, "source", "ref")
  BY <1>8, <1>12, SetPiece
<1>16. r \in Seq(Tok) /\ Piece(W, B, V, known, r, zero, "ref", "end")
  <2>1. DOMAIN frames \in SUBSET Nat /\ \A i \in DOMAIN frames : FrameMeans(B, frames[i])
    <3>1. DOMAIN frames = {1} /\ frames[1] = g
      BY <1>6, TupleIs, Zenon
    <3> QED
      BY <3>1, <1>7
  <2>2. r \in Seq(Tok) /\ Piece(W, B, V, known, r, zero, "ref", "column")
    BY <1>2, <1>8, <1>12, <2>1, RefPiece
  <2>3. <<"column", "end">> \in {<<"source", "rest">>, <<"rest", "end">>, <<"column", "end">>}
    OBVIOUS
  <2> QED
    BY <2>2, <2>3, Weaker
<1>17. u \in Seq(Tok) /\ Piece(W, B, V, known, u, zero \cup R, "range", "source")
  BY <1>10, <1>13, <1>14, PieceJoin
<1>18. v \in Seq(Tok) /\ Piece(W, B, V, known, v, (zero \cup R) \cup zero, "range", "ref")
  BY <1>10, <1>15, <1>17, PieceJoin
<1>19. p \in Seq(Tok) /\ Piece(W, B, V, known, p, ((zero \cup R) \cup zero) \cup zero, "range", "end")
  BY <1>11, <1>16, <1>18, PieceJoin
<1>20. ((zero \cup R) \cup zero) \cup zero = RealOf(s.from)
  BY <1>1, <1>2, <1>12 DEF SourceReads
<1> QED
  BY <1>19, <1>20
-----------------------------------------------------------------------------
\* Nothing has a role that separates statements.
LEMMA RoleNoSemicolon ==
  ASSUME NEW W, NEW B, NEW V, NEW known, NEW i, Role(W, B, V, known, i)
  PROVE  At(W, i) # ";"
<1>1. At(W, i) \in AnyName \cup AnySchema => At(W, i) # ";"
  BY NamesAre DEF Punctuation
<1> QED
  BY <1>1 DEF Role, TableRole, SchemaRole, QualifiedTableRole, QualifierRole, ColumnRole,
              PlainRole, OneName
-----------------------------------------------------------------------------
\* Texts that differ in what is said of their tokens only.
SameTexts(W, U) == Texts(U) = Texts(W) /\ Len(U) = Len(W)

\* Texts that are the same token by token.
LEMMA SameAt ==
  ASSUME NEW W \in Seq(Tok), NEW U \in Seq(Tok), SameTexts(W, U)
  PROVE  \A i : At(U, i) = At(W, i)
<1> SUFFICES ASSUME NEW i PROVE At(U, i) = At(W, i)
  OBVIOUS
<1>1. DOMAIN W = 1 .. Len(W) /\ DOMAIN U = 1 .. Len(W)
  BY DEF SameTexts
<1>2. CASE i \in 1 .. Len(W)
  <2>1. Texts(U)[i] = At(U, i) /\ Texts(W)[i] = At(W, i)
    BY <1>2, AtIs DEF SameTexts
  <2> QED
    BY <2>1 DEF SameTexts
<1>3. CASE i \notin 1 .. Len(W)
  BY <1>1, <1>3 DEF At
<1> QED
  BY <1>2, <1>3

\* The extractor goes by the texts of the tokens alone.
LEMMA SamePlaces ==
  ASSUME NEW W \in Seq(Tok), NEW U \in Seq(Tok), SameTexts(W, U), NEW o, NEW kind
  PROVE  /\ Left(U, o, kind) <=> Left(W, o, kind)
         /\ Right(U, o, kind) <=> Right(W, o, kind)
         /\ \A e : Reading(U, o, kind, e) = Reading(W, o, kind, e)
<1>1. \A i : At(U, i) = At(W, i)
  BY SameAt
<1>2. ClauseAfter(U, o) = ClauseAfter(W, o)
  BY DEF ClauseAfter, SameTexts
<1>3. BeforeRef(U, o) <=> BeforeRef(W, o)
  BY <1>1, <1>2 DEF BeforeRef
<1>4. InList(U, o) <=> InList(W, o)
  BY <1>1, <1>2 DEF InList
<1>5. Left(U, o, kind) <=> Left(W, o, kind)
  BY <1>1, <1>2, <1>3, <1>4 DEF Left
<1>6. Right(U, o, kind) <=> Right(W, o, kind)
  BY <1>1 DEF Right
<1>7. \A e : Reading(U, o, kind, e) = Reading(W, o, kind, e)
  BY DEF Reading, SameTexts
<1> QED
  BY <1>5, <1>6, <1>7

\* The texts of p stand in W, where what is said of them may be something else.
TextsOccur(W, o, p) ==
  o \in Nat /\ o + Len(p) <= Len(W) /\ \A j \in 1 .. Len(p) : At(W, o + j) = p[j].text

\* Tokens with the texts of a part may be replaced by it.
LEMMA Overwritten ==
  ASSUME NEW W \in Seq(Tok), NEW p \in Seq(Tok), NEW o, TextsOccur(W, o, p)
  PROVE  \E U \in Seq(Tok) : SameTexts(W, U) /\ Occurs(U, o, p)
<1>1. PICK n, l : n = Len(p) /\ l = Len(W)
  OBVIOUS
<1>2. o \in Nat /\ n \in Nat /\ l \in Nat /\ o + n <= l
  BY <1>1 DEF TextsOccur
<1>w. DOMAIN W = 1 .. l /\ \A i \in 1 .. l : W[i] \in Tok /\ At(W, i) = W[i].text
  <2>1. DOMAIN W = 1 .. l /\ \A i \in 1 .. l : W[i] \in Tok
    BY <1>1
  <2> QED
    BY <2>1 DEF At
<1> DEFINE U == [i \in 1 .. l |-> IF i \in o + 1 .. o + n THEN p[i - o] ELSE W[i]]
<1>3. ASSUME NEW i \in 1 .. l
      PROVE  U[i] \in Tok /\ U[i].text = At(W, i)
  <2>1. CASE i \in o + 1 .. o + n
    <3>1. PICK j : j = i - o
      OBVIOUS
    <3>2. j \in 1 .. n /\ o + j = i
      BY <1>2, <2>1, <3>1
    <3>3. U[i] = p[j]
      BY <2>1, <3>1
    <3>4. At(W, o + j) = p[j].text
      BY <1>1, <3>2 DEF TextsOccur
    <3>5. p[j] \in Tok
      BY <1>1, <3>2
    <3> QED
      BY <3>2, <3>3, <3>4, <3>5
  <2>2. CASE i \notin o + 1 .. o + n
    <3>1. U[i] = W[i]
      BY <2>2
    <3>2. W[i] \in Tok /\ At(W, i) = W[i].text
      BY <1>w
    <3> QED
      BY <3>1, <3>2
  <2> QED
    BY <2>1, <2>2
<1>4. DOMAIN U = 1 .. l /\ \A i \in o + 1 .. o + n : i \in 1 .. l => U[i] = p[i - o]
  OBVIOUS
<1>u. U = [i \in 1 .. l |-> U[i]]
  OBVIOUS
<1> HIDE DEF U
<1>5. U \in Seq(Tok) /\ Len(U) = l
  BY <1>2, <1>3, <1>u
<1>6. Texts(U) = Texts(W)
  <2>1. Texts(U) = [i \in 1 .. l |-> U[i].text]
    BY <1>4 DEF Texts
  <2>2. Texts(W) = [i \in 1 .. l |-> W[i].text]
    BY <1>1 DEF Texts
  <2>3. \A i \in 1 .. l : U[i].text = W[i].text
    BY <1>w, <1>3
  <2> QED
    BY <2>1, <2>2, <2>3
<1>7. Occurs(U, o, p)
  <2>1. ASSUME NEW j \in 1 .. n PROVE U[o + j] = p[j]
    <3>1. o + j \in o + 1 .. o + n /\ o + j \in 1 .. l /\ (o + j) - o = j
      BY <1>2
    <3> QED
      BY <3>1, <1>4
  <2> QED
    BY <1>1, <1>2, <1>5, <2>1 DEF Occurs
<1> QED
  BY <1>1, <1>5, <1>6, <1>7 DEF SameTexts
==============================================================================
