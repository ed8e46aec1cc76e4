----------------------------- MODULE FoldFacts -----------------------------
(* Induction over numbers and sequences, and what it gives for FoldLeft.     *)
(* Op is the operator that is folded; a module that folds it instantiates    *)
(* this one.                                                                 *)
EXTENDS Integers, SequencesExt, FiniteSetTheorems, WellFoundedInduction, TLAPS

CONSTANT Op(_, _)

\* Induction, about a set of numbers.
LEMMA NatSet ==
  ASSUME NEW T, 0 \in T, \A n \in Nat : n \in T => n + 1 \in T
  PROVE  Nat \subseteq T
<1> DEFINE less == OpToRel(<, Nat)
<1>1. IsWellFoundedOn(less, Nat) /\ \A x, y \in Nat : y < x => <<y, x>> \in less
  BY NatLessThanWellFounded DEF OpToRel
<1> HIDE DEF less
<1> SUFFICES ASSUME Nat \ T # {} PROVE FALSE
  OBVIOUS
<1>2. PICK x \in Nat \ T : \A y \in Nat \ T : <<y, x>> \notin less
  BY <1>1, WFMin
<1>3. x - 1 \in Nat /\ x - 1 < x /\ x = (x - 1) + 1
  BY <1>2
<1>4. x - 1 \in T
  <2>1. <<x - 1, x>> \in less
    BY <1>1, <1>3
  <2> QED
    BY <1>2, <1>3, <2>1
<1> QED
  BY <1>3, <1>4

\* The least of a set of numbers.
LEMMA MinOf ==
  ASSUME NEW t \in SUBSET Nat, t # {}
  PROVE  Min(t) \in t /\ \A y \in t : Min(t) <= y
<1> DEFINE less == OpToRel(<, Nat)
<1>1. IsWellFoundedOn(less, Nat) /\ \A x, y \in Nat : y < x => <<y, x>> \in less
  BY NatLessThanWellFounded DEF OpToRel
<1> HIDE DEF less
<1>2. PICK x \in t : \A y \in t : <<y, x>> \notin less
  BY <1>1, WFMin
<1>3. ASSUME NEW y \in t PROVE x =< y
  <2>1. y < x => <<y, x>> \in less
    BY <1>1
  <2> QED
    BY <1>2, <2>1
<1> QED
  BY <1>3 DEF Min

\* The greatest, when they are bounded.
LEMMA MaxOf ==
  ASSUME NEW n \in Nat, NEW t \in SUBSET (0 .. n), t # {}
  PROVE  Max(t) \in t /\ \A y \in t : y <= Max(t)
<1> DEFINE T == {k \in Nat : \A u \in SUBSET (0 .. k) :
                   u # {} => \E x \in u : \A y \in u : x >= y}
<1>1. 0 \in T
  <2> SUFFICES ASSUME NEW u \in SUBSET (0 .. 0), u # {}
               PROVE  \E x \in u : \A y \in u : x >= y
    OBVIOUS
  <2>1. PICK x \in u : TRUE
    OBVIOUS
  <2>2. \A y \in u : y = 0
    OBVIOUS
  <2>3. \A y \in u : x >= y
    BY <2>2
  <2> QED
    BY <2>3
<1>2. ASSUME NEW k \in Nat, k \in T PROVE k + 1 \in T
  <2> SUFFICES ASSUME NEW u \in SUBSET (0 .. k + 1), u # {}
               PROVE  \E x \in u : \A y \in u : x >= y
    OBVIOUS
  <2>1. CASE k + 1 \in u
    BY <2>1
  <2>2. CASE k + 1 \notin u
    <3>1. u \in SUBSET (0 .. k)
      BY <2>2
    <3> QED
      BY <1>2, <3>1
  <2> QED
    BY <2>1, <2>2
<1> HIDE DEF T
<1>3. n \in T
  BY <1>1, <1>2, NatSet
<1>4. \E x \in t : \A y \in t : x >= y
  BY <1>3 DEF T
<1>5. Max(t) \in t /\ \A y \in t : Max(t) >= y
  BY <1>4 DEF Max
<1> QED
  BY <1>5

\* Induction, about a set of sequences that are made by appending.
LEMMA SeqSet ==
  ASSUME NEW S, NEW T, <<>> \in T, \A s \in Seq(S), e \in S : s \in T => Append(s, e) \in T
  PROVE  Seq(S) \subseteq T
<1> DEFINE N == {n \in Nat : \A s \in Seq(S) : Len(s) = n => s \in T}
<1>1. 0 \in N
  OBVIOUS
<1>2. ASSUME NEW n \in Nat, n \in N PROVE n + 1 \in N
  <2> SUFFICES ASSUME NEW s \in Seq(S), Len(s) = n + 1 PROVE s \in T
    OBVIOUS
  <2> DEFINE r == SubSeq(s, 1, n)
  <2>1. r \in Seq(S) /\ Len(r) = n /\ s[n + 1] \in S
    OBVIOUS
  <2>2. s = Append(r, s[n + 1])
    OBVIOUS
  <2>3. r \in T
    BY <1>2, <2>1
  <2> QED
    BY <2>1, <2>2, <2>3
<1> HIDE DEF N
<1>3. Nat \subseteq N
  BY <1>1, <1>2, NatSet
<1> QED
  BY <1>3 DEF N
-----------------------------------------------------------------------------
\* The largest of the numbers up to k + 1 is k + 1 if it is among them.
LEMMA MaxUpTo ==
  ASSUME NEW k \in Nat, NEW t \in SUBSET (1 .. k + 1), k + 1 \in t
  PROVE  Max(t) = k + 1
<1>1. \A y \in t : k + 1 >= y
  OBVIOUS
<1>2. \A x \in t : (\A y \in t : x >= y) => x = k + 1
  OBVIOUS
<1> QED
  BY <1>1, <1>2 DEF Max

\* What the definition of a fold says of the function it is computed with.
Computes(g, b, s) ==
  g = [t \in SUBSET DOMAIN s |->
         IF t = {} THEN b ELSE LET x == Max(t) IN Op(g[t \ {x}], s[x])]

Fold(b, s) == FoldLeft(Op, b, s)

\* FoldLeft, without the operators it is made from.
LEMMA FoldIs ==
  ASSUME NEW b, NEW s
  PROVE  Fold(b, s) = (CHOOSE g : Computes(g, b, s))[DOMAIN s]
BY DEF Fold, FoldLeft, MapThenFoldSet, Computes

SameUpTo(n, s, r) ==
  1 .. n \subseteq DOMAIN s \cap DOMAIN r /\ \A i \in 1 .. n : s[i] = r[i]

\* Such functions agree where both are defined.
LEMMA Agree ==
  ASSUME NEW b, NEW s, NEW r, NEW n \in Nat, NEW g, NEW h,
         SameUpTo(n, s, r), Computes(g, b, s), Computes(h, b, r)
  PROVE  \A t \in SUBSET (1 .. n) : g[t] = h[t]
<1> DEFINE T == {k \in Nat : k <= n => \A t \in SUBSET (1 .. k) : g[t] = h[t]}
<1>1. 0 \in T
  <2> SUFFICES ASSUME NEW t \in SUBSET (1 .. 0) PROVE g[t] = h[t]
    OBVIOUS
  <2>1. t = {}
    OBVIOUS
  <2>2. g[{}] = b /\ h[{}] = b
    BY DEF Computes
  <2> QED
    BY <2>1, <2>2
<1>2. ASSUME NEW k \in Nat, k \in T PROVE k + 1 \in T
  <2> SUFFICES ASSUME k + 1 <= n, NEW t \in SUBSET (1 .. k + 1) PROVE g[t] = h[t]
    OBVIOUS
  <2>1. CASE k + 1 \notin t
    <3>1. t \in SUBSET (1 .. k)
      BY <2>1
    <3> QED
      BY <1>2, <3>1
  <2>2. CASE k + 1 \in t
    <3>1. Max(t) = k + 1 /\ t # {}
      BY <2>2, MaxUpTo
    <3>2. t \in SUBSET DOMAIN s /\ t \in SUBSET DOMAIN r /\ s[k + 1] = r[k + 1]
      BY DEF SameUpTo
    <3>3. t \ {k + 1} \in SUBSET (1 .. k)
      OBVIOUS
    <3>4. g[t \ {k + 1}] = h[t \ {k + 1}]
      BY <1>2, <3>3
    <3>5. g[t] = Op(g[t \ {k + 1}], s[k + 1])
      BY <3>1, <3>2 DEF Computes
    <3>6. h[t] = Op(h[t \ {k + 1}], r[k + 1])
      BY <3>1, <3>2 DEF Computes
    <3> QED
      BY <3>2, <3>4, <3>5, <3>6
  <2> QED
    BY <2>1, <2>2
<1> HIDE DEF T
<1>3. Nat \subseteq T
  BY <1>1, <1>2, NatSet
<1> QED
  BY <1>3 DEF T

\* They exist, so that a fold is computed with one.
LEMMA Computed ==
  ASSUME NEW b, NEW S, NEW s \in Seq(S)
  PROVE  \E g : Computes(g, b, s)
<1> DEFINE T == {r \in Seq(S) : \E g : Computes(g, b, r)}
<1>1. <<>> \in T
  <2> DEFINE g == [t \in SUBSET {} |-> b]
  <2>1. Computes(g, b, <<>>)
    BY DEF Computes
  <2> QED
    BY <2>1
<1>2. ASSUME NEW r \in Seq(S), NEW e \in S, r \in T PROVE Append(r, e) \in T
  <2> DEFINE n == Len(r)
             q == Append(r, e)
  <2>1. PICK g : Computes(g, b, r)
    BY <1>2
  <2> DEFINE h == [t \in SUBSET (1 .. n + 1) |->
                     IF n + 1 \in t THEN Op(g[t \ {n + 1}], e) ELSE g[t]]
  <2>2. DOMAIN q = 1 .. n + 1 /\ q[n + 1] = e /\ DOMAIN r = 1 .. n /\ n \in Nat
        /\ \A i \in 1 .. n : q[i] = r[i]
    OBVIOUS
  <2> HIDE DEF n, q
  <2>3. ASSUME NEW t \in SUBSET (1 .. n + 1)
        PROVE  h[t] = IF t = {} THEN b ELSE LET x == Max(t) IN Op(h[t \ {x}], q[x])
    <3>1. CASE n + 1 \in t
      <4>1. Max(t) = n + 1 /\ t # {} /\ t \ {n + 1} \in SUBSET (1 .. n + 1)
        BY <2>2, <3>1, MaxUpTo
      <4>2. h[t \ {n + 1}] = g[t \ {n + 1}]
        BY <4>1
      <4>3. h[t] = Op(g[t \ {n + 1}], e)
        BY <3>1
      <4> HIDE DEF h
      <4> QED
        BY <2>2, <4>1, <4>2, <4>3
    <3>2. CASE n + 1 \notin t /\ t # {}
      <4>1. t \in SUBSET (1 .. n)
        BY <2>2, <3>2
      <4>2. Max(t) \in t
        <5>1. t \in SUBSET (0 .. n)
          BY <2>2, <4>1
        <5> QED
          BY <2>2, <3>2, <5>1, MaxOf
      <4>3. g[t] = Op(g[t \ {Max(t)}], r[Max(t)])
        BY <2>1, <2>2, <3>2, <4>1 DEF Computes
      <4>4. h[t] = g[t] /\ h[t \ {Max(t)}] = g[t \ {Max(t)}]
        BY <3>2
      <4>5. q[Max(t)] = r[Max(t)]
        BY <2>2, <4>1, <4>2
      <4> HIDE DEF h
      <4> QED
        BY <3>2, <4>3, <4>4, <4>5
    <3>3. CASE t = {}
      <4>1. h[t] = g[t]
        BY <2>2, <3>3
      <4>2. g[t] = b
        BY <2>1, <3>3 DEF Computes
      <4> QED
        BY <3>3, <4>1, <4>2
    <3> QED
      BY <3>1, <3>2, <3>3
  <2>4. Computes(h, b, q)
    <3>1. h = [t \in SUBSET (1 .. n + 1) |-> h[t]]
      OBVIOUS
    <3> HIDE DEF h
    <3> QED
      BY <2>2, <2>3, <3>1 DEF Computes
  <2> QED
    BY <2>4 DEF q
<1> HIDE DEF T
<1>3. Seq(S) \subseteq T
  BY <1>1, <1>2, SeqSet
<1> QED
  BY <1>3 DEF T
-----------------------------------------------------------------------------
\* What is computed is the fold.
LEMMA FoldIsComputed ==
  ASSUME NEW b, NEW S, NEW s \in Seq(S)
  PROVE  \E g : Computes(g, b, s) /\ Fold(b, s) = g[DOMAIN s]
<1> DEFINE g == CHOOSE f : Computes(f, b, s)
<1>1. Computes(g, b, s)
  BY Computed
<1>2. Fold(b, s) = g[DOMAIN s]
  BY FoldIs
<1> QED
  BY <1>1, <1>2

\* Nothing to fold.
LEMMA FoldEmpty ==
  ASSUME NEW b
  PROVE  Fold(b, <<>>) = b
<1>1. <<>> \in Seq({}) /\ DOMAIN <<>> = {}
  OBVIOUS
<1>2. PICK g : Computes(g, b, <<>>) /\ Fold(b, <<>>) = g[{}]
  BY <1>1, FoldIsComputed
<1>3. g[{}] = b
  BY <1>2 DEF Computes
<1> QED
  BY <1>2, <1>3

\* The last element is folded last.
LEMMA FoldAppend ==
  ASSUME NEW b, NEW S, NEW s \in Seq(S), NEW e \in S
  PROVE  Fold(b, Append(s, e)) = Op(Fold(b, s), e)
<1>1. PICK n : n = Len(s)
  OBVIOUS
<1>2. PICK q : q = Append(s, e)
  OBVIOUS
<1>3. /\ n \in Nat /\ q \in Seq(S) /\ DOMAIN s = 1 .. n /\ DOMAIN q = 1 .. n + 1
      /\ q[n + 1] = e
  BY <1>1, <1>2
<1>4. SameUpTo(n, s, q)
  BY <1>1, <1>2 DEF SameUpTo
<1>5. PICK g : Computes(g, b, s) /\ Fold(b, s) = g[1 .. n]
  BY <1>3, FoldIsComputed
<1>6. PICK h : Computes(h, b, q) /\ Fold(b, q) = h[1 .. n + 1]
  BY <1>3, FoldIsComputed
<1>7. g[1 .. n] = h[1 .. n]
  <2>1. \A t \in SUBSET (1 .. n) : g[t] = h[t]
    BY <1>3, <1>4, <1>5, <1>6, Agree
  <2> QED
    BY <2>1
<1>8. Max(1 .. n + 1) = n + 1 /\ (1 .. n + 1) \ {n + 1} = 1 .. n /\ 1 .. n + 1 # {}
  <2>1. n + 1 \in 1 .. n + 1 /\ (1 .. n + 1) \ {n + 1} = 1 .. n
    BY <1>3
  <2>2. Max(1 .. n + 1) = n + 1
    BY <1>3, <2>1, MaxUpTo
  <2> QED
    BY <2>1, <2>2
<1>9. h[1 .. n + 1] = Op(h[1 .. n], e)
  <2>1. 1 .. n + 1 \in SUBSET DOMAIN q
    BY <1>3
  <2>2. h[1 .. n + 1] = IF 1 .. n + 1 = {} THEN b
                        ELSE LET x == Max(1 .. n + 1) IN Op(h[(1 .. n + 1) \ {x}], q[x])
    BY <1>6, <2>1 DEF Computes
  <2> QED
    BY <1>3, <1>8, <2>2
<1> QED
  BY <1>2, <1>5, <1>6, <1>7, <1>9

\* A fold stays among the values the operator stays among.
LEMMA FoldType ==
  ASSUME NEW V, NEW S, NEW b \in V, NEW s \in Seq(S),
         \A v \in V, e \in S : Op(v, e) \in V
  PROVE  Fold(b, s) \in V
<1> DEFINE T == {r \in Seq(S) : Fold(b, r) \in V}
<1>1. <<>> \in T
  BY FoldEmpty
<1>2. ASSUME NEW r \in Seq(S), NEW e \in S, r \in T PROVE Append(r, e) \in T
  <2>1. Fold(b, Append(r, e)) = Op(Fold(b, r), e)
    BY FoldAppend
  <2> QED
    BY <1>2, <2>1
<1> HIDE DEF T
<1>3. Seq(S) \subseteq T
  BY <1>1, <1>2, SeqSet
<1> QED
  BY <1>3 DEF T

\* Two sequences are folded one after the other.
LEMMA FoldConcat ==
  ASSUME NEW b, NEW S, NEW s \in Seq(S), NEW t \in Seq(S)
  PROVE  Fold(b, s \o t) = Fold(Fold(b, s), t)
<1> DEFINE T == {r \in Seq(S) : Fold(b, s \o r) = Fold(Fold(b, s), r)}
<1>1. <<>> \in T
  BY FoldEmpty
<1>2. ASSUME NEW r \in Seq(S), NEW e \in S, r \in T PROVE Append(r, e) \in T
  <2>1. s \o Append(r, e) = Append(s \o r, e) /\ s \o r \in Seq(S)
    OBVIOUS
  <2>2. Fold(b, Append(s \o r, e)) = Op(Fold(b, s \o r), e)
    BY <2>1, FoldAppend
  <2>3. Fold(Fold(b, s), Append(r, e)) = Op(Fold(Fold(b, s), r), e)
    BY FoldAppend
  <2>4. Fold(b, s \o Append(r, e)) = Fold(Fold(b, s), Append(r, e))
    BY <1>2, <2>1, <2>2, <2>3
  <2> QED
    BY <2>4
<1> HIDE DEF T
<1>3. Seq(S) \subseteq T
  BY <1>1, <1>2, SeqSet
<1> QED
  BY <1>3 DEF T

\* One element.
LEMMA FoldOne ==
  ASSUME NEW b, NEW S, NEW e \in S
  PROVE  Fold(b, <<e>>) = Op(b, e)
<1>1. PICK o : o = <<>>
  OBVIOUS
<1>2. o \in Seq(S) /\ <<e>> = Append(o, e)
  BY <1>1
<1>3. Fold(b, Append(o, e)) = Op(Fold(b, o), e)
  BY <1>2, FoldAppend
<1>4. Fold(b, o) = b
  BY <1>1, FoldEmpty
<1> QED
  BY <1>2, <1>3, <1>4

\* The first element is folded first.
LEMMA FoldCons ==
  ASSUME NEW b, NEW S, NEW e \in S, NEW s \in Seq(S)
  PROVE  Fold(b, <<e>> \o s) = Fold(Op(b, e), s)
<1>1. PICK u : u = <<e>>
  OBVIOUS
<1>2. u \in Seq(S)
  BY <1>1
<1>3. Fold(b, u \o s) = Fold(Fold(b, u), s)
  BY <1>2, FoldConcat
<1> QED
  BY <1>1, <1>3, FoldOne
=============================================================================
