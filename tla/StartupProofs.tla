---------------------------- MODULE StartupProofs ----------------------------
(***************************************************************************)
(* Proofs about Startup, for any settings, directories and files: where    *)
(* the schema comes from, that it is the right one, and which calls carry  *)
(* SQL.                                                                    *)
(*                                                                         *)
(* The operators of Config and SchemaLoad fold sequences; FoldFacts says   *)
(* what that means.                                                        *)
(***************************************************************************)
EXTENDS Startup, FunctionTheorems, FiniteSetTheorems, SequenceTheorems, TLAPS

Cleaning == INSTANCE FoldFacts WITH Op <- Step
Writing == INSTANCE FoldFacts WITH Op <- Spell
Configuring == INSTANCE FoldFacts WITH Op <- Configure
Merging == INSTANCE FoldFacts WITH Op <- Merge
Joining == INSTANCE FoldFacts WITH Op <- LAMBDA cols, col : cols \o col
-----------------------------------------------------------------------------
(* Paths, cleaned. *)

\* Folds of this module are folds of FoldFacts.
LEMMA CleanIsFold ==
  \A names : Clean(names) = Cleaning!Fold(<<>>, names)
BY DEF Clean, Cleaning!Fold, FoldLeft, Cleaning!FoldLeft, MapThenFoldSet,
       Cleaning!MapThenFoldSet, Max, Cleaning!Max

\* A cleaned path has neither "." nor "..".
LEMMA CleanType ==
  ASSUME NEW names \in Given
  PROVE  Clean(names) \in Path
<1>1. \A p \in Path, n \in Names \cup {".", ".."} : Step(p, n) \in Path
  <2> SUFFICES ASSUME NEW p \in Path, NEW n \in Names \cup {".", ".."}
               PROVE  Step(p, n) \in Path
    OBVIOUS
  <2>1. p # <<>> => Front(p) \in Path
    BY DEF Path, Front
  <2>2. CASE n = "."
    BY <2>2 DEF Step
  <2>3. CASE n = ".."
    BY <2>1, <2>3 DEF Step, Path
  <2>4. CASE n \in Names /\ n # "." /\ n # ".."
    BY <2>4 DEF Step, Path
  <2> QED
    BY <2>2, <2>3, <2>4
<1>2. <<>> \in Path
  BY DEF Path
<1>3. Cleaning!Fold(<<>>, names) \in Path
  BY <1>1, <1>2, Cleaning!FoldType DEF Given
<1> QED
  BY <1>3, CleanIsFold

\* What is clean stays as it is.
LEMMA CleanAgain ==
  ASSUME NEW path \in Path
  PROVE  Clean(path) = path
<1> DEFINE T == {p \in Path : Clean(p) = p}
<1>1. <<>> \in T
  BY CleanIsFold, Cleaning!FoldEmpty DEF Path
<1>2. ASSUME NEW p \in Seq(Names), NEW n \in Names, p \in T PROVE Append(p, n) \in T
  <2>1. Clean(Append(p, n)) = Step(Clean(p), n)
    BY CleanIsFold, Cleaning!FoldAppend
  <2>2. n # "." /\ n # ".."
    BY SpellingAssumption
  <2>3. Step(p, n) = Append(p, n)
    BY <2>2 DEF Step
  <2> QED
    BY <1>2, <2>1, <2>3 DEF Path
<1> HIDE DEF T
<1>3. Seq(Names) \subseteq T
  BY <1>1, <1>2, Cleaning!SeqSet
<1> QED
  BY <1>3 DEF T, Path

-----------------------------------------------------------------------------
(* Paths as strings. *)

\* To be a prefix is to agree element by element.
LEMMA PrefixByElement ==
  ASSUME NEW S, NEW s \in Seq(S), NEW t \in Seq(S)
  PROVE  IsPrefix(s, t) <=> Len(s) <= Len(t) /\ \A i \in 1 .. Len(s) : s[i] = t[i]
<1>1. CASE Len(s) <= Len(t)
  <2> DEFINE u == SubSeq(s, 1, Len(s))
             v == SubSeq(t, 1, Len(s))
  <2>1. /\ u \in Seq(S) /\ v \in Seq(S) /\ Len(u) = Len(s) /\ Len(v) = Len(s)
        /\ \A i \in 1 .. Len(s) : u[i] = s[i] /\ v[i] = t[i]
    BY <1>1
  <2>2. IsPrefix(s, t) <=> u = v
    BY <1>1 DEF IsPrefix
  <2> HIDE DEF u, v
  <2>3. u = v <=> \A i \in 1 .. Len(s) : u[i] = v[i]
    <3>1. ASSUME \A i \in 1 .. Len(s) : u[i] = v[i] PROVE u = v
      BY <2>1, <3>1, SeqEqual
    <3> QED
      BY <3>1
  <2> QED
    BY <1>1, <2>1, <2>2, <2>3, Zenon
<1>2. CASE ~(Len(s) <= Len(t))
  BY <1>2 DEF IsPrefix
<1> QED
  BY <1>1, <1>2

Characters == {"/"} \cup UNION {ToSet(Spelling[n]) : n \in Names}
Spelled(path) == Writing!Fold(<<>>, path)

\* A path is written name after name.
LEMMA WrittenIsFold ==
  \A path : path # <<>> => Written(path) = Spelled(path)
BY DEF Written, Spelled, Writing!Fold, FoldLeft, Writing!FoldLeft, MapThenFoldSet,
       Writing!MapThenFoldSet, Max, Writing!Max

\* A name is spelled without slashes, and not with nothing.
LEMMA SpellingType ==
  ASSUME NEW n \in Names
  PROVE  /\ Spelling[n] \in Seq(Characters) /\ Spelling[n] # <<>>
         /\ \A i \in 1 .. Len(Spelling[n]) : Spelling[n][i] # "/"
<1>1. Spelling[n] \in Seq(ToSet(Spelling[n]) \ {"/"}) /\ Spelling[n] # <<>>
  BY SpellingAssumption
<1>2. ToSet(Spelling[n]) \subseteq Characters
  BY DEF Characters
<1>3. \A i \in 1 .. Len(Spelling[n]) : Spelling[n][i] \in ToSet(Spelling[n]) \ {"/"}
  BY <1>1
<1>4. Spelling[n] \in Seq(Characters)
  BY <1>1, <1>2
<1> QED
  BY <1>1, <1>3, <1>4

\* What is written is characters.
LEMMA SpellType ==
  ASSUME NEW w \in Seq(Characters), NEW n \in Names
  PROVE  Spell(w, n) \in Seq(Characters)
BY SpellingType DEF Spell, Characters

\* A path is written in characters.
LEMMA SpelledType ==
  ASSUME NEW path \in Path
  PROVE  Spelled(path) \in Seq(Characters)
<1>1. <<>> \in Seq(Characters)
  OBVIOUS
<1> QED
  BY <1>1, SpellType, Writing!FoldType, Zenon DEF Spelled, Path

\* What is written before a path stays before it.
LEMMA SpelledAfter ==
  ASSUME NEW w \in Seq(Characters), NEW path \in Path
  PROVE  Writing!Fold(w, path) = w \o Spelled(path)
<1> DEFINE T == {p \in Path : Writing!Fold(w, p) = w \o Spelled(p)}
<1>1. <<>> \in T
  <2>1. Writing!Fold(w, <<>>) = w /\ Spelled(<<>>) = <<>>
    BY Writing!FoldEmpty DEF Spelled
  <2> QED
    BY <2>1 DEF Path
<1>2. ASSUME NEW p \in Seq(Names), NEW n \in Names, p \in T PROVE Append(p, n) \in T
  <2>1. /\ Writing!Fold(w, Append(p, n)) = Spell(Writing!Fold(w, p), n)
        /\ Spelled(Append(p, n)) = Spell(Spelled(p), n)
    BY Writing!FoldAppend DEF Spelled
  <2>2. p \in Path /\ Append(p, n) \in Path
    BY DEF Path
  <2>3. Spelled(p) \in Seq(Characters)
    BY <2>2, SpelledType
  <2>4. PICK slash : slash = <<"/">>
    BY Zenon
  <2>5. slash \in Seq(Characters)
    BY <2>4 DEF Characters
  <2>6. Spelling[n] \in Seq(Characters)
    BY SpellingType
  <2>7. Spell(w \o Spelled(p), n) = w \o Spell(Spelled(p), n)
    <3>1. /\ (w \o Spelled(p)) \o slash = w \o (Spelled(p) \o slash)
          /\ Spelled(p) \o slash \in Seq(Characters)
      <4>1. \A b, c \in Seq(Characters) :
              b \o c \in Seq(Characters) /\ (w \o b) \o c = w \o (b \o c)
        BY ConcatAssociative
      <4> QED
        BY <2>3, <2>5, <4>1
    <3>2. PICK x : x = Spelled(p) \o slash
      BY Zenon
    <3>3. PICK z : z = Spelling[n]
      OBVIOUS
    <3>4. (w \o x) \o z = w \o (x \o z)
      <4>1. x \in Seq(Characters) /\ z \in Seq(Characters)
        BY <2>6, <3>1, <3>2, <3>3
      <4> QED
        BY <4>1, ConcatAssociative
    <3> QED
      BY <2>4, <3>1, <3>2, <3>3, <3>4, Zenon DEF Spell
  <2> QED
    BY <1>2, <2>1, <2>2, <2>7, Zenon
<1> HIDE DEF T
<1>3. Seq(Names) \subseteq T
  BY <1>1, <1>2, Writing!SeqSet
<1> QED
  BY <1>3 DEF T, Path

\* Paths one after the other are written one after the other.
LEMMA SpelledConcat ==
  ASSUME NEW p \in Path, NEW q \in Path
  PROVE  Spelled(p \o q) = Spelled(p) \o Spelled(q)
<1>1. Spelled(p \o q) = Writing!Fold(Spelled(p), q)
  BY Writing!FoldConcat DEF Spelled, Path
<1> QED
  BY <1>1, SpelledType, SpelledAfter

\* The first name comes first, after a slash.
LEMMA SpelledCons ==
  ASSUME NEW n \in Names, NEW p \in Path
  PROVE  Spelled(<<n>> \o p) = <<"/">> \o (Spelling[n] \o Spelled(p))
<1>1. PICK one, slash : one = <<n>> /\ slash = <<"/">>
  BY Zenon
<1>2. one \in Path /\ slash \in Seq(Characters)
  BY <1>1 DEF Path, Characters
<1>3. Spelled(one) = slash \o Spelling[n]
  <2>1. Spelled(one) = Spell(<<>>, n)
    BY <1>1, Writing!FoldOne DEF Spelled
  <2>2. <<>> \o slash = slash
    BY <1>2, ConcatEmptySeq
  <2> QED
    BY <1>1, <2>1, <2>2 DEF Spell
<1>4. Spelled(one \o p) = Spelled(one) \o Spelled(p)
  BY <1>2, SpelledConcat
<1>5. PICK x, y : x = Spelling[n] /\ y = Spelled(p)
  OBVIOUS
<1>6. x \in Seq(Characters) /\ y \in Seq(Characters)
  BY <1>5, SpelledType, SpellingType
<1>7. (slash \o x) \o y = slash \o (x \o y)
  BY <1>2, <1>6, ConcatAssociative
<1> QED
  BY <1>1, <1>3, <1>4, <1>5, <1>7, Zenon

Lacks(s, c) == \A i \in 1 .. Len(s) : s[i] # c

\* Of two names that are followed by a slash neither begins the other.
LEMMA FirstName ==
  ASSUME NEW C, NEW A \in Seq(C), NEW B \in Seq(C), NEW R \in Seq(C), NEW Q \in Seq(C),
         NEW c \in C, Lacks(A, c), Lacks(B, c),
         R # <<>>, R[1] = c, Q = <<>> \/ Q[1] = c,
         IsPrefix(<<c>> \o (A \o R), <<c>> \o (B \o Q))
  PROVE  A = B /\ IsPrefix(R, Q)
<1> DEFINE X == <<c>> \o (A \o R)
           Y == <<c>> \o (B \o Q)
<1>lacks. /\ \A i \in 1 .. Len(A) : A[i] # c
      /\ \A i \in 1 .. Len(B) : B[i] # c
  BY DEF Lacks
<1>1. /\ X \in Seq(C) /\ Len(X) = 1 + Len(A) + Len(R)
      /\ \A i \in 1 .. Len(A) : X[1 + i] = A[i]
      /\ \A i \in 1 .. Len(R) : X[1 + Len(A) + i] = R[i]
  OBVIOUS
<1>2. /\ Y \in Seq(C) /\ Len(Y) = 1 + Len(B) + Len(Q)
      /\ \A i \in 1 .. Len(B) : Y[1 + i] = B[i]
      /\ \A i \in 1 .. Len(Q) : Y[1 + Len(B) + i] = Q[i]
  OBVIOUS
<1>0. IsPrefix(X, Y)
  OBVIOUS
<1> HIDE DEF X, Y
<1>3. Len(X) <= Len(Y) /\ \A i \in 1 .. Len(X) : X[i] = Y[i]
  <2>1. X \in Seq(C) /\ Y \in Seq(C)
    BY <1>1, <1>2
  <2> QED
    BY <1>0, <2>1, PrefixByElement
<1>4. Len(R) >= 1
  OBVIOUS
<1>5. ~(Len(A) < Len(B))
  <2> SUFFICES ASSUME Len(A) < Len(B) PROVE FALSE
    OBVIOUS
  <2>1. 1 \in 1 .. Len(R) /\ Len(A) + 1 \in 1 .. Len(B) /\ Len(A) + 2 \in 1 .. Len(X)
    BY <1>1, <1>4
  <2>2. X[Len(A) + 2] = c
    BY <1>1, <2>1
  <2>3. Y[Len(A) + 2] = B[Len(A) + 1]
    BY <1>2, <2>1
  <2> QED
    BY <1>lacks, <1>3, <2>1, <2>2, <2>3
<1>6. ~(Len(B) < Len(A))
  <2> SUFFICES ASSUME Len(B) < Len(A) PROVE FALSE
    OBVIOUS
  <2>1. Len(B) + 1 \in 1 .. Len(A) /\ Len(B) + 2 \in 1 .. Len(X)
    BY <1>1, <1>4
  <2>2. X[Len(B) + 2] = A[Len(B) + 1]
    BY <1>1, <2>1
  <2>3. 1 \in 1 .. Len(Q)
    BY <1>1, <1>2, <1>3, <1>4
  <2>4. Y[Len(B) + 2] = c
    BY <1>2, <2>3
  <2> QED
    BY <1>lacks, <1>3, <2>1, <2>2, <2>4
<1>7. Len(A) = Len(B)
  BY <1>5, <1>6
<1>8. \A i \in 1 .. Len(A) : A[i] = B[i]
  <2> SUFFICES ASSUME NEW i \in 1 .. Len(A) PROVE A[i] = B[i]
    OBVIOUS
  <2>1. 1 + i \in 1 .. Len(X)
    BY <1>1
  <2> QED
    BY <1>1, <1>2, <1>3, <1>7, <2>1
<1>9. Len(R) <= Len(Q) /\ \A i \in 1 .. Len(R) : R[i] = Q[i]
  <2>1. Len(R) <= Len(Q)
    BY <1>1, <1>2, <1>3, <1>7
  <2> SUFFICES ASSUME NEW i \in 1 .. Len(R) PROVE R[i] = Q[i]
    BY <2>1
  <2>2. 1 + Len(A) + i \in 1 .. Len(X)
    BY <1>1
  <2>3. X[1 + Len(A) + i] = R[i] /\ Y[1 + Len(A) + i] = Q[i]
    BY <1>1, <1>2, <1>7, <2>1
  <2> QED
    BY <1>3, <2>2, <2>3
<1> QED
  BY <1>7, <1>8, <1>9, PrefixByElement

\* A path that is not empty, by its first name.
LEMMA PathCons ==
  ASSUME NEW p \in Path, p # <<>>
  PROVE  \E n \in Names, q \in Path : p = <<n>> \o q /\ Len(p) = Len(q) + 1
<1>1. p[1] \in Names /\ SubSeq(p, 2, Len(p)) \in Path
  BY DEF Path
<1>2. p = <<p[1]>> \o SubSeq(p, 2, Len(p)) /\ Len(p) = Len(SubSeq(p, 2, Len(p))) + 1
  BY DEF Path
<1> QED
  BY <1>1, <1>2, Zenon

\* A path begins with one slash, not two.
LEMMA SpelledStart ==
  ASSUME NEW p \in Path, p # <<>>
  PROVE  /\ Spelled(p) \in Seq(Characters) /\ Len(Spelled(p)) > 1
         /\ Spelled(p)[1] = "/" /\ Spelled(p)[2] # "/"
<1>1. PICK n \in Names, q \in Path : p = <<n>> \o q
  BY PathCons, Zenon
<1>2. PICK x, y : x = Spelling[n] /\ y = Spelled(q)
  OBVIOUS
<1>3. /\ x \in Seq(Characters) /\ x # <<>> /\ \A i \in 1 .. Len(x) : x[i] # "/"
      /\ y \in Seq(Characters)
  BY <1>2, SpellingType, SpelledType
<1>4. Spelled(p) = <<"/">> \o (x \o y)
  BY <1>1, <1>2, SpelledCons, Zenon
<1>5. "/" \in Characters
  BY DEF Characters
<1>6. Len(x) >= 1 /\ x[1] # "/"
  BY <1>3
<1> QED
  BY <1>3, <1>4, <1>5, <1>6

\* The root of all paths is no characters.
LEMMA SpelledEmpty == Spelled(<<>>) = <<>>
BY Writing!FoldEmpty DEF Spelled

\* What the slash that is added does to the characters.
LEMMA ThenSlash ==
  ASSUME NEW x \in Seq(Characters), NEW w, w = x \o <<"/">>
  PROVE  /\ w \in Seq(Characters) /\ Len(w) = Len(x) + 1
         /\ \A i \in 1 .. Len(w) : w[i] = IF i <= Len(x) THEN x[i] ELSE "/"
<1>1. "/" \in Characters
  BY DEF Characters
<1> QED
  BY <1>1

\* With a slash after it the one begins the other only if its names do.
LEMMA SpelledPrefix ==
  ASSUME NEW r \in Path, NEW p \in Path, IsPrefix(Spelled(r) \o <<"/">>, Spelled(p))
  PROVE  IsPrefix(r, p)
<1> DEFINE Fine(s) == \A q \in Path :
                        IsPrefix(Spelled(s) \o <<"/">>, Spelled(q)) => IsPrefix(s, q)
           T == {n \in Nat : \A s \in Path : Len(s) = n => Fine(s)}
<1>0. PICK slash : slash = <<"/">>
  OBVIOUS
<1>char. slash \in Seq(Characters) /\ "/" \in Characters
  BY <1>0 DEF Characters
<1>1. 0 \in T
  BY DEF Path, IsPrefix
<1>2. ASSUME NEW n \in Nat, n \in T PROVE n + 1 \in T
  <2> SUFFICES ASSUME NEW s \in Path, Len(s) = n + 1, NEW q \in Path,
                      IsPrefix(Spelled(s) \o slash, Spelled(q))
               PROVE  IsPrefix(s, q)
    BY <1>0
  <2>1. PICK a \in Names, t \in Path : s = <<a>> \o t /\ Len(s) = Len(t) + 1
    <3>1. s # <<>>
      OBVIOUS
    <3> QED
      BY <3>1, PathCons, Zenon
  <2>2. q # <<>>
    <3>1. PICK x, w : x = Spelled(s) /\ w = x \o slash
      BY Zenon
    <3>2. Len(w) >= 1
      <4>1. x \in Seq(Characters)
        BY <3>1, SpelledType
      <4>2. Len(w) = Len(x) + 1
        BY <1>0, <3>1, <4>1, ThenSlash
      <4> QED
        BY <4>1, <4>2
    <3> QED
      BY <3>1, <3>2, SpelledEmpty DEF IsPrefix
  <2>3. PICK b \in Names, u \in Path : q = <<b>> \o u /\ Len(q) = Len(u) + 1
    BY <2>2, PathCons, Zenon
  <2>4. PICK A, B, X, Q : /\ A = Spelling[a] /\ B = Spelling[b]
                          /\ X = Spelled(t) /\ Q = Spelled(u)
    OBVIOUS
  <2>5. /\ A \in Seq(Characters) /\ \A i \in 1 .. Len(A) : A[i] # "/"
        /\ B \in Seq(Characters) /\ \A i \in 1 .. Len(B) : B[i] # "/"
    BY <2>4, SpellingType
  <2>6. X \in Seq(Characters) /\ Q \in Seq(Characters)
    BY <2>4, SpelledType
  <2>7. X = <<>> \/ X[1] = "/"
    BY <2>4, SpelledStart, SpelledEmpty
  <2>8. Q = <<>> \/ Q[1] = "/"
    BY <2>4, SpelledStart, SpelledEmpty
  <2>9. PICK R : R = X \o slash
    BY Zenon
  <2>10. R \in Seq(Characters) /\ R # <<>> /\ R[1] = "/"
    <3>1. /\ R \in Seq(Characters) /\ Len(R) = Len(X) + 1
          /\ \A i \in 1 .. Len(R) : R[i] = IF i <= Len(X) THEN X[i] ELSE "/"
      BY <1>0, <2>6, <2>9, ThenSlash, Zenon
    <3>2. 1 \in 1 .. Len(R)
      BY <2>6, <3>1
    <3> QED
      BY <2>6, <2>7, <3>1, <3>2
  <2>11. Spelled(s) = slash \o (A \o X) /\ Spelled(q) = slash \o (B \o Q)
    BY <1>0, <2>1, <2>3, <2>4, SpelledCons, Zenon
  <2>12. Spelled(s) \o slash = slash \o (A \o R)
    <3>1. (slash \o (A \o X)) \o slash = slash \o ((A \o X) \o slash)
      <4>1. A \o X \in Seq(Characters)
        BY <2>5, <2>6
      <4> QED
        BY <1>char, <4>1, ConcatAssociative
    <3>2. (A \o X) \o slash = A \o R
      <4>1. /\ A \in Seq(Characters) /\ X \in Seq(Characters)
            /\ slash \in Seq(Characters)
        BY <1>char, <2>5, <2>6
      <4>2. (A \o X) \o slash = A \o (X \o slash)
        BY <4>1, ConcatAssociative
      <4> QED
        BY <2>9, <4>2
    <3> QED
      BY <2>11, <3>1, <3>2
  <2>13. IsPrefix(slash \o (A \o R), slash \o (B \o Q))
    BY <2>11, <2>12
  <2>14. A = B /\ IsPrefix(R, Q)
    <3>1. IsPrefix(<<"/">> \o (A \o R), <<"/">> \o (B \o Q))
      BY <1>0, <2>13
    <3>2. "/" \in Characters /\ Lacks(A, "/") /\ Lacks(B, "/")
      BY <1>char, <2>5 DEF Lacks
    <3> QED
      BY <2>5, <2>6, <2>8, <2>10, <3>1, <3>2, FirstName
  <2>15. a = b
    BY <2>4, <2>14, SpellingAssumption, Zenon
  <2>16. IsPrefix(t, u)
    <3>1. Len(t) = n
      BY <2>1 DEF Path
    <3>2. Fine(t)
      BY <1>2, <3>1
    <3>3. IsPrefix(Spelled(t) \o <<"/">>, Spelled(u))
      BY <1>0, <2>4, <2>9, <2>14
    <3> QED
      BY <3>2, <3>3
  <2>17. Len(t) <= Len(u) /\ \A i \in 1 .. Len(t) : t[i] = u[i]
    BY <2>16, PrefixByElement DEF Path
  <2>18. PICK one : one = <<a>>
    BY Zenon
  <2>19. /\ s = one \o t /\ q = one \o u /\ one \in Seq(Names) /\ Len(one) = 1
         /\ t \in Seq(Names) /\ u \in Seq(Names)
    BY <2>1, <2>3, <2>15, <2>18 DEF Path
  <2>20. Len(s) <= Len(q) /\ \A i \in 1 .. Len(s) : s[i] = q[i]
    BY <2>17, <2>19
  <2> QED
    BY <2>20, PrefixByElement DEF Path
<1>3. r \in Path /\ Len(r) \in Nat /\ p \in Path
  BY DEF Path
<1> HIDE DEF T
<1>4. Nat \subseteq T
  BY <1>1, <1>2, Writing!NatSet
<1>5. Fine(r)
  BY <1>3, <1>4 DEF T
<1> QED
  BY <1>5

\* And when they do, it does.
LEMMA PrefixSpelled ==
  ASSUME NEW r \in Path, NEW p \in Path, IsPrefix(r, p), r # p
  PROVE  IsPrefix(Spelled(r) \o <<"/">>, Spelled(p))
<1> DEFINE q == SubSeq(p, Len(r) + 1, Len(p))
<1>1. Len(r) <= Len(p) /\ \A i \in 1 .. Len(r) : r[i] = p[i]
  BY PrefixByElement DEF Path
<1>2. Len(r) # Len(p)
  BY <1>1 DEF Path
<1>3. q \in Path /\ q # <<>> /\ p = r \o q
  <2>1. Len(r) < Len(p) /\ r \in Seq(Names) /\ p \in Seq(Names)
    BY <1>1, <1>2 DEF Path
  <2>2. q \in Seq(Names) /\ Len(q) = Len(p) - Len(r)
        /\ \A i \in 1 .. Len(q) : q[i] = p[Len(r) + i]
    BY <2>1
  <2> HIDE DEF q
  <2>3. p = r \o q
    <3>1. PICK c : c = r \o q
      BY Zenon
    <3>2. /\ c \in Seq(Names) /\ Len(c) = Len(p)
          /\ \A i \in 1 .. Len(p) : c[i] = IF i <= Len(r) THEN r[i] ELSE q[i - Len(r)]
      BY <2>1, <2>2, <3>1, ConcatProperties
    <3>3. ASSUME NEW i \in 1 .. Len(p) PROVE c[i] = p[i]
      <4>1. CASE i <= Len(r)
        BY <1>1, <2>1, <3>2, <4>1
      <4>2. CASE ~(i <= Len(r))
        <5>1. i - Len(r) \in 1 .. Len(q) /\ Len(r) + (i - Len(r)) = i
          BY <2>1, <2>2, <4>2
        <5> QED
          BY <2>2, <3>2, <4>2, <5>1
      <4> QED
        BY <4>1, <4>2
    <3>4. c = p
      BY <2>1, <3>2, <3>3
    <3> QED
      BY <3>1, <3>4
  <2> QED
    BY <2>1, <2>2, <2>3 DEF Path
<1> HIDE DEF q
<1>4. PICK x, y, slash : x = Spelled(r) /\ y = Spelled(q) /\ slash = <<"/">>
  BY Zenon
<1>5. /\ x \in Seq(Characters) /\ y \in Seq(Characters) /\ Len(y) > 1 /\ y[1] = "/"
  <2>1. x \in Seq(Characters)
    BY <1>4, SpelledType
  <2>2. y \in Seq(Characters) /\ Len(y) > 1 /\ y[1] = "/"
    BY <1>3, <1>4, SpelledStart
  <2> QED
    BY <2>1, <2>2
<1>6. Spelled(p) = x \o y
  BY <1>3, <1>4, SpelledConcat, Zenon
<1>7. IsPrefix(x \o slash, x \o y)
  <2>1. PICK u, v : u = x \o slash /\ v = x \o y
    BY Zenon
  <2>2. /\ u \in Seq(Characters) /\ Len(u) = Len(x) + 1
        /\ \A i \in 1 .. Len(u) : u[i] = IF i <= Len(x) THEN x[i] ELSE "/"
    BY <1>4, <1>5, <2>1, ThenSlash
  <2>3. /\ v \in Seq(Characters) /\ Len(v) = Len(x) + Len(y)
        /\ \A i \in 1 .. Len(v) : v[i] = IF i <= Len(x) THEN x[i] ELSE y[i - Len(x)]
    BY <1>5, <2>1
  <2>4. Len(u) <= Len(v) /\ \A i \in 1 .. Len(u) : u[i] = v[i]
    BY <1>5, <2>2, <2>3
  <2>5. IsPrefix(u, v)
    BY <2>2, <2>3, <2>4, PrefixByElement
  <2> QED
    BY <2>1, <2>5
<1> QED
  BY <1>4, <1>6, <1>7

\* What the comparison of strings says of the paths.
LEMMA InsideMeans ==
  ASSUME NEW path \in Path, NEW root \in Path
  PROVE  Inside(path, root) <=> path = root \/ (root # <<>> /\ IsPrefix(root, path))
<1>1. CASE path = root
  BY <1>1 DEF Inside
<1>2. CASE path # root /\ root = <<>>
  <2>1. PICK w, v, slash : w = Spelled(path) /\ slash = <<"/">> /\ v = slash \o slash
    BY Zenon
  <2>2. Written(path) = w /\ Written(root) = slash /\ Len(w) > 1 /\ w[2] # "/"
        /\ w \in Seq(Characters)
    BY <1>2, <2>1, WrittenIsFold, SpelledStart DEF Written
  <2>3. Len(v) = 2 /\ v[2] = "/" /\ v \in Seq(Characters)
    BY <2>1 DEF Characters
  <2>4. ~IsPrefix(v, w)
    <3>1. IsPrefix(v, w) => \A i \in 1 .. Len(v) : v[i] = w[i]
      BY <2>2, <2>3, PrefixByElement
    <3>2. 2 \in 1 .. Len(v)
      BY <2>3
    <3> QED
      BY <2>2, <2>3, <3>1, <3>2
  <2> QED
    BY <1>2, <2>1, <2>2, <2>4 DEF Inside
<1>3. CASE path # root /\ root # <<>>
  <2>1. CASE path = <<>>
    <3>1. PICK w, slash : w = Spelled(root) /\ slash = <<"/">>
      BY Zenon
    <3>2. Written(path) = slash /\ Written(root) = w
      BY <1>3, <2>1, <3>1, WrittenIsFold DEF Written
    <3>3. ~IsPrefix(w \o slash, slash)
      <4>1. w \in Seq(Characters) /\ Len(w) > 1
        BY <1>3, <3>1, SpelledStart
      <4>2. slash \in Seq(Characters) /\ Len(slash) = 1
        BY <3>1 DEF Characters
      <4>3. Len(w \o slash) > 1
        BY <4>1, <4>2
      <4> QED
        BY <4>2, <4>3 DEF IsPrefix
    <3>4. ~IsPrefix(root, path)
      BY <1>3, <2>1 DEF IsPrefix, Path
    <3> QED
      BY <1>3, <3>1, <3>2, <3>3, <3>4 DEF Inside
  <2>2. CASE path # <<>>
    <3>1. Written(path) = Spelled(path) /\ Written(root) = Spelled(root)
      BY <1>3, <2>2, WrittenIsFold
    <3> QED
      BY <1>3, <3>1, SpelledPrefix, PrefixSpelled DEF Inside
  <2> QED
    BY <2>1, <2>2
<1> QED
  BY <1>1, <1>2, <1>3

-----------------------------------------------------------------------------
(* Where the schema is. *)

\* What may be missing is missing or one thing.
LEMMA OptionIs ==
  ASSUME NEW S, NEW s \in Option(S)
  PROVE  s = <<>> \/ (s # <<>> /\ Len(s) = 1 /\ s[1] \in S /\ s = <<s[1]>>)
<1>1. s \in Seq(S) /\ Len(s) <= 1
  BY DEF Option
<1>2. CASE s = <<>>
  BY <1>2
<1>3. CASE s # <<>>
  <2>1. Len(s) = 1
    <3>1. PICK k \in Nat \ {0} : k = Len(s)
      BY <1>1, <1>3, EmptySeq
    <3> QED
      BY <1>1, <3>1
  <2>2. s[1] \in S
    BY <1>1, <2>1
  <2>3. s = <<s[1]>>
    BY <1>1, <2>1
  <2> QED
    BY <1>3, <2>1, <2>2, <2>3
<1> QED
  BY <1>2, <1>3

\* The parts of a request.
LEMMA RequestIs ==
  ASSUME NEW p \in Requests
  PROVE  /\ p = [roots |-> p.roots, file |-> p.file, options |-> p.options, flag |-> p.flag]
         /\ p.roots \in [1 .. 3 -> Option(Given)] /\ p.file \in Sources
         /\ p.options \in Sources /\ p.flag \in Option(Directories)
BY RequestsAssumption DEF RequestType

\* The root is none or one of those in the request.
LEMMA RootType ==
  ASSUME NEW p \in Requests
  PROVE  WorkspaceRoot(p) = <<>> \/ (WorkspaceRoot(p) # <<>> /\ WorkspaceRoot(p)[1] \in Given)
<1>1. p.roots[1] \in Option(Given) /\ p.roots[2] \in Option(Given) /\ p.roots[3] \in Option(Given)
  BY RequestIs
<1>2. WorkspaceRoot(p) \in Option(Given)
  BY <1>1 DEF WorkspaceRoot, OrElse
<1> QED
  BY <1>2, OptionIs

\* A field is missing or what the field may be.
LEMMA FieldType ==
  ASSUME NEW source \in Sources
  PROVE  /\ Field(Decoded(source), "schemaDir") \in Option(Directories)
         /\ Field(Decoded(source), "sqlFunctions") \in Option(Seq(Entries))
<1>1. source.settings.schemaDir \in Option(Directories)
      /\ source.settings.sqlFunctions \in Option(Seq(Entries))
  BY DEF Sources, Settings
<1>2. <<>> \in Option(Directories) /\ <<>> \in Option(Seq(Entries))
  BY DEF Option
<1> QED
  BY <1>1, <1>2 DEF Field, Decoded

\* The same of the file.
LEMMA FileType ==
  ASSUME NEW p \in Requests
  PROVE  /\ Field(LoadConfigFile(p), "schemaDir") \in Option(Directories)
         /\ Field(LoadConfigFile(p), "sqlFunctions") \in Option(Seq(Entries))
<1>1. <<>> \in Option(Directories) /\ <<>> \in Option(Seq(Entries))
  BY DEF Option
<1>2. CASE WorkspaceRoot(p) = <<>>
  BY <1>1, <1>2 DEF LoadConfigFile, Field
<1>3. CASE WorkspaceRoot(p) # <<>>
  <2>1. LoadConfigFile(p) = Decoded(p.file)
    BY <1>3 DEF LoadConfigFile
  <2> QED
    BY <2>1, RequestIs, FieldType
<1> QED
  BY <1>2, <1>3

\* filepath.Join and filepath.Abs yield clean paths.
LEMMA JoinType ==
  ASSUME NEW root \in Given, NEW names \in Given
  PROVE  Join(root, names) \in Path
<1>1. root \o names \in Given
  BY DEF Given
<1> QED
  BY <1>1, CleanType DEF Join

\* A clean path is its own absolute path.
LEMMA AbsOfClean ==
  ASSUME NEW path \in Path
  PROVE  Abs([abs |-> TRUE, names |-> path]) = path
<1>1. <<>> \o path = path
  BY DEF Path
<1> QED
  BY <1>1, CleanAgain DEF Abs, Join

\* An absolute path is clean.
LEMMA AbsType ==
  ASSUME NEW d \in Directories
  PROVE  Abs(d) \in Path
<1>1. d.names \in Given /\ <<>> \in Given /\ Cwd \in Given
  <2>1. Path \subseteq Given
    BY DEF Path, Given
  <2> QED
    BY <2>1, CwdAssumption DEF Directories, Given
<1> QED
  BY <1>1, JoinType DEF Abs

\* What .pgls.json says leads into the workspace or nowhere.
LEMMA FileDirIs ==
  ASSUME NEW p \in Requests, SchemaDirFromConfigFile(p) # <<>>
  PROVE  /\ WorkspaceRoot(p) # <<>>
         /\ \E path \in Path : /\ SchemaDirFromConfigFile(p) = At(path)
                               /\ IsPrefix(Clean(WorkspaceRoot(p)[1]), path)
<1> DEFINE dir == Field(LoadConfigFile(p), "schemaDir")
           root == WorkspaceRoot(p)[1]
           path == Join(root, dir[1].names)
<1>1. /\ dir # <<>> /\ ~dir[1].abs /\ Inside(path, Clean(root))
      /\ SchemaDirFromConfigFile(p) = At(path)
  BY DEF SchemaDirFromConfigFile
<1>2. dir \in Option(Directories)
  BY FileType
<1>3. WorkspaceRoot(p) # <<>>
  BY <1>1 DEF LoadConfigFile, Field
<1>4. root \in Given
  BY <1>3, RootType
<1> HIDE DEF dir, root
<1>5. dir[1].names \in Given
  <2>1. dir[1] \in Directories
    BY <1>1, <1>2, OptionIs
  <2> QED
    BY <2>1 DEF Directories
<1>6. path \in Path /\ Clean(root) \in Path
  BY <1>4, <1>5, JoinType, CleanType
<1>7. path = Clean(root) \/ IsPrefix(Clean(root), path)
  BY <1>1, <1>6, InsideMeans
<1>8. IsPrefix(Clean(root), path)
  <2>1. path = Clean(root) => IsPrefix(Clean(root), path)
    BY <1>6 DEF IsPrefix, Path
  <2> QED
    BY <1>7, <2>1
<1> QED
  BY <1>1, <1>3, <1>6, <1>8 DEF root

\* The directory of the options, or none.
LEMMA OptionsDirType ==
  ASSUME NEW p \in Requests
  PROVE  SchemaDirOfOptions(p) \in Option(Directories)
<1> DEFINE dir == Field(InitOptionsConfig(p), "schemaDir")
           root == WorkspaceRoot(p)
<1>1. dir \in Option(Directories)
  BY RequestIs, FieldType DEF InitOptionsConfig
<1>2. root = <<>> \/ (root # <<>> /\ root[1] \in Given)
  BY RootType
<1> HIDE DEF dir, root
<1>3. CASE dir = <<>> \/ dir[1].abs \/ root = <<>>
  BY <1>1, <1>3 DEF ResolveSchemaDir, SchemaDirOfOptions, dir, root
<1>4. CASE ~(dir = <<>> \/ dir[1].abs \/ root = <<>>)
  <2>1. dir[1].names \in Given
    <3>1. dir[1] \in Directories
      BY <1>1, <1>4, OptionIs
    <3> QED
      BY <3>1 DEF Directories
  <2>2. PICK path \in Path : path = Join(root[1], dir[1].names)
    BY <1>2, <1>4, <2>1, JoinType
  <2>3. SchemaDirOfOptions(p) = At(path)
    BY <1>4, <2>2 DEF ResolveSchemaDir, SchemaDirOfOptions, dir, root
  <2>4. [abs |-> TRUE, names |-> path] \in Directories
    BY DEF Directories, Path, Given
  <2> QED
    BY <2>3, <2>4 DEF At, Option
<1> QED
  BY <1>3, <1>4

\* All directories in use are clean paths.
LEMMA AllType ==
  ASSUME NEW p \in Requests
  PROVE  \/ All(SchemaDir(p)) = <<>> /\ SchemaDir(p) = <<>>
         \/ \E path \in Path : All(SchemaDir(p)) = <<path>> /\ SchemaDir(p) # <<>>
<1>1. CASE SchemaDirFromConfigFile(p) # <<>>
  <2>1. PICK path \in Path : SchemaDirFromConfigFile(p) = At(path)
    BY <1>1, FileDirIs
  <2>2. All(SchemaDir(p)) = <<path>> /\ SchemaDir(p) # <<>>
    BY <1>1, <2>1, AbsOfClean DEF SchemaDir, OrElse, All, At
  <2> QED
    BY <2>2
<1>2. CASE SchemaDirFromConfigFile(p) = <<>>
  <2>1. SchemaDir(p) \in Option(Directories)
    BY <1>2, OptionsDirType, RequestIs DEF SchemaDir, OrElse
  <2>2. CASE SchemaDir(p) = <<>>
    BY <2>2 DEF All
  <2>3. CASE SchemaDir(p) # <<>>
    <3>1. SchemaDir(p)[1] \in Directories
      BY <2>1, <2>3, OptionIs
    <3>2. All(SchemaDir(p)) = <<Abs(SchemaDir(p)[1])>>
      BY <2>3 DEF All
    <3> QED
      BY <2>3, <3>1, <3>2, AbsType
  <2> QED
    BY <2>2, <2>3
<1> QED
  BY <1>1, <1>2

-----------------------------------------------------------------------------
(* The SQL functions. *)

\* The set is built entry after entry.
LEMMA ConfiguredIsFold ==
  \A list : Configured(list) = Configuring!Fold(<<>>, list)
BY DEF Configured, Configuring!Fold, FoldLeft, Configuring!FoldLeft, MapThenFoldSet,
       Configuring!MapThenFoldSet, Max, Configuring!Max

ValidIn(list) == {i \in DOMAIN list : Valid(list[i])}

\* The set is what the entries say, the last valid one of each name.
Says(set, list) ==
  /\ DOMAIN set = {list[i].name : i \in ValidIn(list)}
  /\ \A i \in ValidIn(list) :
       \/ \E j \in ValidIn(list) : j > i /\ list[j].name = list[i].name
       \/ set[list[i].name] = list[i].argIndex[1]

\* It says what the list says.
LEMMA ConfiguredSays ==
  ASSUME NEW list \in Seq(Entries)
  PROVE  Says(Configured(list), list)
<1> DEFINE T == {l \in Seq(Entries) : Says(Configured(l), l)}
<1>1. <<>> \in T
  <2>1. Configured(<<>>) = <<>>
    BY ConfiguredIsFold, Configuring!FoldEmpty
  <2>2. DOMAIN <<>> = {} /\ ValidIn(<<>>) = {}
    BY DEF ValidIn
  <2>3. Says(<<>>, <<>>)
    BY <2>2 DEF Says
  <2> QED
    BY <2>1, <2>3
<1>2. ASSUME NEW l \in Seq(Entries), NEW e \in Entries, l \in T PROVE Append(l, e) \in T
  <2>1. PICK m, n, set, new : /\ m = Append(l, e) /\ n = Len(l) + 1
                              /\ set = Configured(l) /\ new = Configured(m)
    BY Zenon
  <2>2. /\ m \in Seq(Entries) /\ n \in Nat \ {0} /\ DOMAIN m = 1 .. n /\ DOMAIN l = 1 .. n - 1
        /\ m[n] = e /\ \A i \in 1 .. n - 1 : m[i] = l[i]
    BY <2>1
  <2>3. new = Configure(set, e)
    BY <2>1, ConfiguredIsFold, Configuring!FoldAppend
  <2>4. Says(set, l)
    BY <1>2, <2>1
  <2>5. CASE ~Valid(e)
    <3>1. new = set
      BY <2>3, <2>5 DEF Configure
    <3>2. ValidIn(m) = ValidIn(l) /\ \A i \in ValidIn(l) : m[i] = l[i]
      BY <2>2, <2>5 DEF ValidIn
    <3>3. Says(new, m)
      BY <2>4, <3>1, <3>2 DEF Says
    <3> QED
      BY <2>1, <2>2, <3>3
  <2>6. CASE Valid(e)
    <3>1. new = [x \in {e.name} \cup DOMAIN set |->
                   IF x = e.name THEN e.argIndex[1] ELSE set[x]]
      BY <2>3, <2>6 DEF Configure
    <3>2. /\ ValidIn(m) = ValidIn(l) \cup {n} /\ \A i \in ValidIn(l) : m[i] = l[i]
          /\ \A i \in ValidIn(l) : i < n
      <4>1. ValidIn(l) \subseteq 1 .. n - 1 /\ \A i \in 1 .. n - 1 : m[i] = l[i]
        BY <2>2 DEF ValidIn
      <4>2. ValidIn(m) = {i \in 1 .. n : Valid(m[i])} /\ Valid(m[n])
        BY <2>2, <2>6 DEF ValidIn
      <4>3. ValidIn(l) = {i \in 1 .. n - 1 : Valid(m[i])}
        BY <2>2 DEF ValidIn
      <4>4. 1 .. n = (1 .. n - 1) \cup {n} /\ \A i \in 1 .. n - 1 : i < n
        BY <2>2
      <4> HIDE DEF Valid
      <4> QED
        BY <4>1, <4>2, <4>3, <4>4
    <3>3. DOMAIN new = {m[i].name : i \in ValidIn(m)}
      BY <2>2, <2>4, <3>1, <3>2 DEF Says
    <3>4. ASSUME NEW i \in ValidIn(m)
          PROVE  \/ \E j \in ValidIn(m) : j > i /\ m[j].name = m[i].name
                 \/ new[m[i].name] = m[i].argIndex[1]
      <4>1. CASE i = n
        BY <2>2, <3>1, <4>1
      <4>2. CASE i # n /\ m[i].name = e.name
        <5>1. n \in ValidIn(m) /\ n > i /\ m[n].name = m[i].name
          BY <2>2, <3>2, <4>2
        <5> QED
          BY <5>1
      <4>3. CASE i # n /\ m[i].name # e.name
        <5>1. i \in ValidIn(l) /\ m[i] = l[i]
          BY <3>2, <4>3
        <5>2. CASE \E j \in ValidIn(l) : j > i /\ l[j].name = l[i].name
          BY <3>2, <5>1, <5>2
        <5>3. CASE set[l[i].name] = l[i].argIndex[1]
          <6>1. l[i].name \in DOMAIN set
            BY <2>4, <5>1 DEF Says
          <6> QED
            BY <3>1, <4>3, <5>1, <5>3, <6>1
        <5> QED
          BY <2>4, <5>1, <5>2, <5>3 DEF Says
      <4> QED
        BY <4>1, <4>2, <4>3
    <3>5. Says(new, m)
      BY <3>3, <3>4 DEF Says
    <3> QED
      BY <2>1, <2>2, <3>5
  <2> QED
    BY <2>5, <2>6
<1> HIDE DEF T
<1>3. Seq(Entries) \subseteq T
  BY <1>1, <1>2, Configuring!SeqSet
<1> QED
  BY <1>3 DEF T

-----------------------------------------------------------------------------
(* The order of the files. *)

\* The names are ordered.
LEMMA RankIs ==
  ASSUME NEW m \in Names, NEW n \in Names
  PROVE  /\ Rank(m) \in Nat /\ (Rank(m) = Rank(n) => m = n)
<1>1. ASSUME NEW x \in Names PROVE Rank(x) \in DOMAIN NameOrder /\ NameOrder[Rank(x)] = x
  <2>1. \E i \in DOMAIN NameOrder : NameOrder[i] = x
    BY OrderAssumption DEF ToSet
  <2> QED
    BY <2>1 DEF Rank
<1>2. DOMAIN NameOrder \subseteq Nat
  BY OrderAssumption
<1> QED
  BY <1>1, <1>2

\* Before means that the first difference is in favour of the one.
LEMMA BeforeSelf ==
  ASSUME NEW p \in Path
  PROVE  ~Before(p, p)
<1> SUFFICES ASSUME NEW i \in DOMAIN p, Rank(p[i]) < Rank(p[i]) PROVE FALSE
  BY DEF Before
<1>1. p[i] \in Names
  BY DEF Path
<1>2. Rank(p[i]) \in Nat
  BY <1>1, RankIs
<1> QED
  BY <1>2

\* So are the paths: Before is transitive, and total on files.
LEMMA BeforeTransitive ==
  ASSUME NEW p \in Path, NEW q \in Path, NEW r \in Path, Before(p, q), Before(q, r)
  PROVE  Before(p, r)
<1>1. PICK i \in DOMAIN p \cap DOMAIN q :
        Rank(p[i]) < Rank(q[i]) /\ \A k \in 1 .. i - 1 : p[k] = q[k]
  BY DEF Before
<1>2. PICK j \in DOMAIN q \cap DOMAIN r :
        Rank(q[j]) < Rank(r[j]) /\ \A k \in 1 .. j - 1 : q[k] = r[k]
  BY DEF Before
<1>3. /\ DOMAIN p = 1 .. Len(p) /\ DOMAIN q = 1 .. Len(q) /\ DOMAIN r = 1 .. Len(r)
      /\ Len(p) \in Nat /\ Len(q) \in Nat /\ Len(r) \in Nat
  BY DEF Path
<1>4. CASE i < j
  <2>1. i \in DOMAIN r /\ i \in 1 .. j - 1
    BY <1>1, <1>2, <1>3, <1>4
  <2>2. Rank(p[i]) < Rank(r[i])
    BY <1>1, <1>2, <2>1
  <2>3. \A k \in 1 .. i - 1 : p[k] = r[k]
    BY <1>1, <1>2, <1>3, <1>4
  <2> QED
    BY <1>1, <2>1, <2>2, <2>3 DEF Before
<1>5. CASE j < i
  <2>1. j \in DOMAIN p /\ j \in 1 .. i - 1
    BY <1>1, <1>2, <1>3, <1>5
  <2>2. Rank(p[j]) < Rank(r[j])
    BY <1>1, <1>2, <2>1
  <2>3. \A k \in 1 .. j - 1 : p[k] = r[k]
    BY <1>1, <1>2, <1>3, <1>5
  <2> QED
    BY <1>2, <2>1, <2>2, <2>3 DEF Before
<1>6. CASE i = j
  <2>1. Rank(p[i]) \in Nat /\ Rank(q[i]) \in Nat /\ Rank(r[i]) \in Nat
    <3>1. p[i] \in Names /\ q[i] \in Names /\ r[i] \in Names
      BY <1>1, <1>2, <1>6 DEF Path
    <3> QED
      BY <3>1, RankIs
  <2>2. Rank(p[i]) < Rank(r[i])
    BY <1>1, <1>2, <1>6, <2>1
  <2>3. \A k \in 1 .. i - 1 : p[k] = r[k]
    BY <1>1, <1>2, <1>6
  <2> QED
    BY <1>1, <1>2, <1>6, <2>2, <2>3 DEF Before
<1> QED
  BY <1>1, <1>2, <1>3, <1>4, <1>5, <1>6

\* Of two files none of which is below the other one comes first.
LEMMA BeforeTotal ==
  ASSUME NEW p \in Path, NEW q \in Path, ~IsPrefix(p, q), ~IsPrefix(q, p)
  PROVE  Before(p, q) \/ Before(q, p)
<1> DEFINE t == {i \in DOMAIN p \cap DOMAIN q : p[i] # q[i]}
<1>1. /\ DOMAIN p = 1 .. Len(p) /\ DOMAIN q = 1 .. Len(q)
      /\ Len(p) \in Nat /\ Len(q) \in Nat /\ p \in Seq(Names) /\ q \in Seq(Names)
  BY DEF Path
<1>2. t \in SUBSET Nat
  BY <1>1
<1>3. t # {}
  <2>1. CASE Len(p) <= Len(q)
    <3>1. PICK i \in 1 .. Len(p) : p[i] # q[i]
      BY <1>1, <2>1, PrefixByElement
    <3> QED
      BY <1>1, <2>1, <3>1
  <2>2. CASE Len(q) <= Len(p)
    <3>1. PICK i \in 1 .. Len(q) : q[i] # p[i]
      BY <1>1, <2>2, PrefixByElement
    <3> QED
      BY <1>1, <2>2, <3>1
  <2> QED
    BY <1>1, <2>1, <2>2
<1> HIDE DEF t
<1>4. PICK i \in t : \A k \in t : i <= k
  BY <1>2, <1>3, Writing!MinOf, Zenon
<1>5. i \in DOMAIN p \cap DOMAIN q /\ p[i] # q[i] /\ \A k \in 1 .. i - 1 : p[k] = q[k]
  <2>1. i \in DOMAIN p \cap DOMAIN q /\ p[i] # q[i]
    BY DEF t
  <2>2. ASSUME NEW k \in 1 .. i - 1 PROVE p[k] = q[k]
    <3>1. k \in DOMAIN p \cap DOMAIN q /\ ~(i <= k)
      BY <1>1, <2>1
    <3> QED
      BY <1>4, <3>1 DEF t
  <2> QED
    BY <2>1, <2>2
<1>6. p[i] \in Names /\ q[i] \in Names
  BY <1>1, <1>5
<1>7. Rank(p[i]) < Rank(q[i]) \/ Rank(q[i]) < Rank(p[i])
  <2>1. Rank(p[i]) \in Nat /\ Rank(q[i]) \in Nat /\ Rank(p[i]) # Rank(q[i])
    BY <1>5, <1>6, RankIs
  <2> QED
    BY <2>1
<1> QED
  BY <1>5, <1>7 DEF Before

\* Files, of which none leads to another.
Separate(files) ==
  files \subseteq Path /\ \A f, g \in files : IsPrefix(f, g) => f = g

\* So it is for the files of a directory.
LEMMA Order ==
  ASSUME NEW files, Separate(files), NEW f \in files, NEW g \in files, f # g
  PROVE  Before(f, g) \/ Before(g, f)
BY BeforeTotal DEF Separate

\* Finitely many files have a last one,
LEMMA LastFile ==
  ASSUME NEW files, Separate(files), IsFiniteSet(files), files # {}
  PROVE  \E m \in files : \A f \in files \ {m} : Before(f, m)
<1> DEFINE T == {n \in Nat : \A s \in SUBSET files :
                   IsFiniteSet(s) /\ Cardinality(s) = n /\ s # {} =>
                     \E m \in s : \A f \in s \ {m} : Before(f, m)}
<1>1. 0 \in T
  BY FS_EmptySet
<1>2. ASSUME NEW n \in Nat, n \in T PROVE n + 1 \in T
  <2> SUFFICES ASSUME NEW s \in SUBSET files, IsFiniteSet(s), Cardinality(s) = n + 1, s # {}
               PROVE  \E m \in s : \A f \in s \ {m} : Before(f, m)
    OBVIOUS
  <2>1. PICK x \in s : TRUE
    OBVIOUS
  <2>2. IsFiniteSet(s \ {x}) /\ Cardinality(s \ {x}) = n
    BY <2>1, FS_RemoveElement
  <2>3. CASE s \ {x} = {}
    BY <2>3
  <2>4. CASE s \ {x} # {}
    <3>1. PICK g \in s \ {x} : \A f \in (s \ {x}) \ {g} : Before(f, g)
      BY <1>2, <2>2, <2>4
    <3>2. x \in files /\ g \in files /\ g # x
      BY <3>1
    <3>3. CASE Before(x, g)
      <4>1. \A f \in s \ {g} : Before(f, g)
        BY <3>1, <3>3
      <4> QED
        BY <3>1, <4>1
    <3>4. CASE Before(g, x)
      <4>1. ASSUME NEW f \in s \ {x} PROVE Before(f, x)
        <5>1. f = g \/ Before(f, g)
          BY <3>1
        <5>2. f \in Path /\ g \in Path /\ x \in Path
          BY <3>2 DEF Separate
        <5> QED
          BY <3>4, <5>1, <5>2, BeforeTransitive
      <4> QED
        BY <4>1
    <3> QED
      BY <3>2, <3>3, <3>4, Order
  <2> QED
    BY <2>3, <2>4
<1> HIDE DEF T
<1>3. Nat \subseteq T
  BY <1>1, <1>2, Writing!NatSet
<1>4. Cardinality(files) \in T
  BY <1>3, FS_CardinalityType
<1> QED
  BY <1>4 DEF T

Sorted(w) == \A i, j \in DOMAIN w : i < j => Before(w[i], w[j])

\* so that they can be sorted.
LEMMA SortedExists ==
  ASSUME NEW files, Separate(files), IsFiniteSet(files)
  PROVE  \E w \in [1 .. Cardinality(files) -> files] : Sorted(w)
<1> DEFINE T == {n \in Nat : \A s \in SUBSET files :
                   IsFiniteSet(s) /\ Cardinality(s) = n =>
                     \E w \in [1 .. n -> s] : Sorted(w)}
<1>1. 0 \in T
  <2> SUFFICES ASSUME NEW s \in SUBSET files PROVE \E w \in [1 .. 0 -> s] : Sorted(w)
    OBVIOUS
  <2>1. [i \in 1 .. 0 |-> i] \in [1 .. 0 -> s] /\ Sorted([i \in 1 .. 0 |-> i])
    BY DEF Sorted
  <2> QED
    BY <2>1, Zenon
<1>2. ASSUME NEW n \in Nat, n \in T PROVE n + 1 \in T
  <2> SUFFICES ASSUME NEW s \in SUBSET files, IsFiniteSet(s), Cardinality(s) = n + 1
               PROVE  \E w \in [1 .. n + 1 -> s] : Sorted(w)
    OBVIOUS
  <2>1. s # {} /\ Separate(s)
    BY FS_EmptySet DEF Separate
  <2>2. PICK m \in s : \A f \in s \ {m} : Before(f, m)
    BY <2>1, LastFile
  <2>3. IsFiniteSet(s \ {m}) /\ Cardinality(s \ {m}) = n
    <3>1. Cardinality(s \ {m}) = Cardinality(s) - 1 /\ IsFiniteSet(s \ {m})
      BY <2>2, FS_RemoveElement, Zenon
    <3> QED
      BY <3>1
  <2>4. PICK w \in [1 .. n -> s \ {m}] : Sorted(w)
    BY <1>2, <2>3
  <2> DEFINE v == [i \in 1 .. n + 1 |-> IF i = n + 1 THEN m ELSE w[i]]
  <2>5. v \in [1 .. n + 1 -> s]
    BY <2>4
  <2>6. ASSUME NEW i \in 1 .. n + 1, NEW j \in 1 .. n + 1, i < j PROVE Before(v[i], v[j])
    <3>1. i \in 1 .. n /\ v[i] = w[i] /\ w[i] \in s \ {m}
      BY <2>4, <2>6
    <3>2. CASE j = n + 1
      BY <2>2, <3>1, <3>2
    <3>3. CASE j # n + 1
      <4>1. j \in 1 .. n /\ v[j] = w[j]
        BY <3>3
      <4> QED
        BY <2>4, <2>6, <3>1, <4>1 DEF Sorted
    <3> QED
      BY <3>2, <3>3
  <2>7. Sorted(v)
    BY <2>6 DEF Sorted
  <2> QED
    BY <2>5, <2>7
<1> HIDE DEF T
<1>3. Nat \subseteq T
  BY <1>1, <1>2, Writing!NatSet
<1>4. Cardinality(files) \in T
  BY <1>3, FS_CardinalityType
<1> QED
  BY <1>4 DEF T

\* Without gaps: every file is visited, once.
LEMMA SortedOnto ==
  ASSUME NEW files, Separate(files), IsFiniteSet(files),
         NEW w \in [1 .. Cardinality(files) -> files], Sorted(w)
  PROVE  \A f \in files : \E i \in DOMAIN w : w[i] = f
<1> DEFINE n == Cardinality(files)
<1>1. n \in Nat /\ IsFiniteSet(1 .. n) /\ Cardinality(1 .. n) = n
  <2>1. n \in Nat
    BY FS_CardinalityType
  <2> QED
    BY <2>1, FS_Interval
<1>2. ASSUME NEW i \in 1 .. n, NEW j \in 1 .. n, w[i] = w[j] PROVE i = j
  <2>1. w[i] \in Path
    BY DEF Separate
  <2>2. ~Before(w[i], w[i])
    BY <2>1, BeforeSelf
  <2> QED
    BY <1>1, <1>2, <2>2 DEF Sorted
<1>3. w \in Injection(1 .. n, files)
  BY <1>2 DEF Injection, IsInjective
<1>4. w \in Surjection(1 .. n, files)
  BY <1>1, <1>3, FS_Injection
<1> QED
  BY <1>4 DEF Surjection

-----------------------------------------------------------------------------
(* What is merged and joined. *)

\* Each name goes to the last of the tables that has it.
Merged(m, tables) ==
  /\ DOMAIN m = UNION {DOMAIN tables[i] : i \in DOMAIN tables}
  /\ \A n \in DOMAIN m :
       \E i \in DOMAIN tables :
         /\ n \in DOMAIN tables[i] /\ m[n] = tables[i][n]
         /\ \A j \in DOMAIN tables : j > i => n \notin DOMAIN tables[j]

\* The tables are merged one after the other.
LEMMA MergeIsFold ==
  \A tables : FoldLeft(Merge, <<>>, tables) = Merging!Fold(<<>>, tables)
BY DEF Merging!Fold, FoldLeft, Merging!FoldLeft, MapThenFoldSet,
       Merging!MapThenFoldSet, Max, Merging!Max

\* Of the same name the last one is left.
LEMMA FoldMerges ==
  ASSUME NEW S, NEW tables \in Seq(S)
  PROVE  Merged(FoldLeft(Merge, <<>>, tables), tables)
<1> DEFINE T == {s \in Seq(S) : Merged(Merging!Fold(<<>>, s), s)}
<1>1. <<>> \in T
  <2>1. Merging!Fold(<<>>, <<>>) = <<>>
    BY Merging!FoldEmpty
  <2>2. DOMAIN <<>> = {}
    OBVIOUS
  <2>3. Merged(<<>>, <<>>)
    BY <2>2 DEF Merged
  <2> QED
    BY <2>1, <2>3
<1>2. ASSUME NEW s \in Seq(S), NEW e \in S, s \in T PROVE Append(s, e) \in T
  <2>1. PICK r, n, m, new : /\ r = Append(s, e) /\ n = Len(s) + 1
                            /\ m = Merging!Fold(<<>>, s) /\ new = Merging!Fold(<<>>, r)
    BY Zenon
  <2>2. /\ r \in Seq(S) /\ n \in Nat \ {0} /\ DOMAIN r = 1 .. n /\ DOMAIN s = 1 .. n - 1
        /\ r[n] = e /\ \A i \in 1 .. n - 1 : r[i] = s[i]
    BY <2>1
  <2>3. new = Merge(m, e)
    BY <2>1, Merging!FoldAppend
  <2>4. Merged(m, s)
    BY <1>2, <2>1
  <2>5. 1 .. n = (1 .. n - 1) \cup {n} /\ \A i \in 1 .. n - 1 : i < n /\ ~(n < i)
    BY <2>2
  <2>6. new = [x \in DOMAIN m \cup DOMAIN e |-> IF x \in DOMAIN e THEN e[x] ELSE m[x]]
    BY <2>3 DEF Merge
  <2>7. DOMAIN new = UNION {DOMAIN r[i] : i \in DOMAIN r}
    <3>1. DOMAIN m = UNION {DOMAIN r[i] : i \in 1 .. n - 1}
      BY <2>2, <2>4 DEF Merged
    <3> QED
      BY <2>2, <2>5, <2>6, <3>1
  <2>8. ASSUME NEW x \in DOMAIN new
        PROVE  \E i \in DOMAIN r :
                 /\ x \in DOMAIN r[i] /\ new[x] = r[i][x]
                 /\ \A j \in DOMAIN r : j > i => x \notin DOMAIN r[j]
    <3>1. CASE x \in DOMAIN e
      <4>1. n \in DOMAIN r /\ x \in DOMAIN r[n] /\ new[x] = r[n][x]
        BY <2>2, <2>6, <3>1
      <4>2. \A j \in DOMAIN r : ~(j > n)
        BY <2>2
      <4> QED
        BY <4>1, <4>2
    <3>2. CASE x \notin DOMAIN e
      <4>1. x \in DOMAIN m /\ new[x] = m[x]
        BY <2>6, <3>2
      <4>2. PICK i \in DOMAIN s : /\ x \in DOMAIN s[i] /\ m[x] = s[i][x]
                                  /\ \A j \in DOMAIN s : j > i => x \notin DOMAIN s[j]
        BY <2>4, <4>1, Zenon DEF Merged
      <4>3. i \in DOMAIN r /\ x \in DOMAIN r[i] /\ new[x] = r[i][x]
        BY <2>2, <4>1, <4>2
      <4>4. ASSUME NEW j \in DOMAIN r, j > i PROVE x \notin DOMAIN r[j]
        <5>1. CASE j = n
          BY <2>2, <3>2, <5>1
        <5>2. CASE j # n
          <6>1. j \in DOMAIN s /\ r[j] = s[j]
            BY <2>2, <5>2
          <6> QED
            BY <4>2, <4>4, <6>1
        <5> QED
          BY <5>1, <5>2
      <4> QED
        BY <4>3, <4>4
    <3> QED
      BY <3>1, <3>2
  <2>9. Merged(new, r)
    BY <2>7, <2>8 DEF Merged
  <2> QED
    BY <2>1, <2>2, <2>9
<1> HIDE DEF T
<1>3. Seq(S) \subseteq T
  BY <1>1, <1>2, Merging!SeqSet
<1> QED
  BY <1>3, MergeIsFold DEF T

\* The columns of a clause are joined one after the other.
LEMMA JoinIsFold ==
  \A parts : FoldLeft(LAMBDA cols, col : cols \o col, <<>>, parts) = Joining!Fold(<<>>, parts)
BY DEF Joining!Fold, FoldLeft, Joining!FoldLeft, MapThenFoldSet,
       Joining!MapThenFoldSet, Max, Joining!Max

\* What is joined has the elements of the parts.
LEMMA FoldJoins ==
  ASSUME NEW X, NEW parts \in Seq(Seq(X)), NEW all, all = Joining!Fold(<<>>, parts)
  PROVE  all \in Seq(X) /\ ToSet(all) = UNION {ToSet(parts[i]) : i \in DOMAIN parts}
<1> DEFINE Joins(a, s) == a \in Seq(X) /\ ToSet(a) = UNION {ToSet(s[i]) : i \in DOMAIN s}
           T == {s \in Seq(Seq(X)) : Joins(Joining!Fold(<<>>, s), s)}
<1>1. <<>> \in T
  <2>1. Joining!Fold(<<>>, <<>>) = <<>>
    BY Joining!FoldEmpty
  <2>2. DOMAIN <<>> = {} /\ ToSet(<<>>) = {}
    BY DEF ToSet
  <2>3. <<>> \in Seq(X) /\ <<>> \in Seq(Seq(X))
    OBVIOUS
  <2>4. Joins(<<>>, <<>>)
    BY <2>2, <2>3
  <2> QED
    BY <2>1, <2>3, <2>4, Zenon
<1>2. ASSUME NEW s \in Seq(Seq(X)), NEW e \in Seq(X), s \in T PROVE Append(s, e) \in T
  <2>1. PICK r, n, a, new : /\ r = Append(s, e) /\ n = Len(s) + 1
                            /\ a = Joining!Fold(<<>>, s) /\ new = Joining!Fold(<<>>, r)
    BY Zenon
  <2>2. /\ r \in Seq(Seq(X)) /\ n \in Nat \ {0} /\ DOMAIN r = 1 .. n /\ DOMAIN s = 1 .. n - 1
        /\ r[n] = e /\ \A i \in 1 .. n - 1 : r[i] = s[i]
    BY <2>1
  <2>3. new = a \o e
    BY <2>1, Joining!FoldAppend, Zenon
  <2>4. Joins(a, s)
    BY <1>2, <2>1
  <2>5. ToSet(new) = ToSet(a) \cup ToSet(e) /\ new \in Seq(X)
    <3>1. a \in Seq(X) /\ new \in Seq(X) /\ Len(new) = Len(a) + Len(e)
      BY <2>3, <2>4
    <3>2. PICK k, l : k = Len(a) /\ l = Len(e)
      BY Zenon
    <3>3. /\ k \in Nat /\ l \in Nat /\ DOMAIN a = 1 .. k /\ DOMAIN e = 1 .. l
          /\ DOMAIN new = 1 .. k + l
      BY <3>1, <3>2
    <3>4. /\ \A i \in 1 .. k : new[i] = a[i] /\ i \in 1 .. k + l
          /\ \A i \in 1 .. l : new[k + i] = e[i] /\ k + i \in 1 .. k + l
      <4>1. \A i \in 1 .. k : i \in 1 .. k + l
        BY <3>3
      <4>2. \A i \in 1 .. l : k + i \in 1 .. k + l
        BY <3>3
      <4>3. \A i \in 1 .. k : new[i] = a[i]
        BY <2>3, <2>4, <3>2
      <4>4. \A i \in 1 .. l : new[k + i] = e[i]
        BY <2>3, <2>4, <3>2
      <4> QED
        BY <4>1, <4>2, <4>3, <4>4
    <3>5. ASSUME NEW i \in 1 .. k + l PROVE new[i] \in ToSet(a) \cup ToSet(e)
      <4>1. CASE i \in 1 .. k
        BY <3>3, <3>4, <4>1 DEF ToSet
      <4>2. CASE i \notin 1 .. k
        <5>1. i - k \in 1 .. l /\ k + (i - k) = i
          BY <3>3, <4>2
        <5>2. new[i] = e[i - k]
          BY <3>4, <5>1
        <5> QED
          BY <3>3, <5>1, <5>2 DEF ToSet
      <4> QED
        BY <4>1, <4>2
    <3>6. ToSet(a) \subseteq ToSet(new) /\ ToSet(e) \subseteq ToSet(new)
      BY <3>3, <3>4, Zenon DEF ToSet
    <3>7. ToSet(new) \subseteq ToSet(a) \cup ToSet(e)
      BY <3>3, <3>5, Zenon DEF ToSet
    <3> QED
      BY <3>1, <3>6, <3>7
  <2>6. 1 .. n = (1 .. n - 1) \cup {n}
    BY <2>2
  <2>7. ToSet(a) = UNION {ToSet(r[i]) : i \in 1 .. n - 1}
    BY <2>2, <2>4, Zenon
  <2>8. UNION {ToSet(r[i]) : i \in DOMAIN r} = ToSet(a) \cup ToSet(e)
    BY <2>2, <2>6, <2>7
  <2> QED
    BY <2>1, <2>2, <2>5, <2>8, Zenon
<1> HIDE DEF T
<1>3. Seq(Seq(X)) \subseteq T
  BY <1>1, <1>2, Joining!SeqSet
<1> QED
  BY <1>3 DEF T

-----------------------------------------------------------------------------
(* What is loaded. *)

\* Statement i declares the table n.
Declares(stmts, i, n) == stmts[i].kind = "create" /\ stmts[i].name = n

ColumnAt(c, path, i, k) == [name |-> c.elts[k], position |-> PositionAt(path, i, k)]
NamedElts(c) == {k \in DOMAIN c.elts : c.elts[k] # ""}

\* The columns are the named elements, each where it is.
LEMMA ColumnsAre ==
  ASSUME NEW c, c.elts \in Seq(STRING), NEW path, NEW i
  PROVE  ToSet(Columns(c, path, i)) = {ColumnAt(c, path, i, k) : k \in NamedElts(c)}
<1> DEFINE X == {ColumnAt(c, path, i, k) : k \in DOMAIN c.elts}
<1>1. PICK parts, cols : /\ parts = [k \in DOMAIN c.elts |-> ColumnOf(c, path, i, k)]
                         /\ cols = Columns(c, path, i)
  BY Zenon
<1>2. ASSUME NEW k \in DOMAIN c.elts
      PROVE  /\ ColumnOf(c, path, i, k) \in Seq(X)
             /\ ToSet(ColumnOf(c, path, i, k))
                  = IF c.elts[k] = "" THEN {} ELSE {ColumnAt(c, path, i, k)}
  <2>1. CASE c.elts[k] = ""
    <3>1. <<>> \in Seq(X) /\ ToSet(<<>>) = {}
      BY DEF ToSet
    <3> QED
      BY <2>1, <3>1, Zenon DEF ColumnOf
  <2>2. CASE c.elts[k] # ""
    <3>1. PICK x : x = ColumnAt(c, path, i, k)
      OBVIOUS
    <3>2. x \in X
      BY <3>1
    <3> HIDE DEF X
    <3>3. <<x>> \in Seq(X) /\ ToSet(<<x>>) = {x}
      BY <3>2 DEF ToSet
    <3>4. ColumnOf(c, path, i, k) = <<x>>
      BY <2>2, <3>1, Zenon DEF ColumnOf, ColumnAt
    <3> QED
      BY <2>2, <3>1, <3>3, <3>4, Zenon
  <2> QED
    BY <2>1, <2>2, Zenon
<1> HIDE DEF X
<1>3. parts \in Seq(Seq(X))
  <2>1. \A k \in 1 .. Len(c.elts) : ColumnOf(c, path, i, k) \in Seq(X)
    <3>1. DOMAIN c.elts = 1 .. Len(c.elts)
      OBVIOUS
    <3> QED
      BY <1>2, <3>1, Zenon
  <2> QED
    BY <1>1, <2>1
<1>4. cols = Joining!Fold(<<>>, parts)
  BY <1>1, JoinIsFold, Zenon DEF Columns
<1>5. ToSet(cols) = UNION {ToSet(parts[k]) : k \in DOMAIN parts}
  BY <1>3, <1>4, FoldJoins
<1>6. DOMAIN parts = DOMAIN c.elts
      /\ \A k \in DOMAIN parts : ToSet(parts[k])
           = IF c.elts[k] = "" THEN {} ELSE {ColumnAt(c, path, i, k)}
  BY <1>1, <1>2, Zenon
<1>7. UNION {ToSet(parts[k]) : k \in DOMAIN parts} = {ColumnAt(c, path, i, k) : k \in NamedElts(c)}
  BY <1>6, Zenon DEF NamedElts
<1> QED
  BY <1>1, <1>5, <1>7, Zenon

\* A table is that of the last statement that declares it.
LEMMA ParseIs ==
  ASSUME NEW stmts \in Seq(Statement), NEW path
  PROVE  /\ \A i \in DOMAIN stmts : \A n : Declares(stmts, i, n) => n \in DOMAIN Parse(stmts, path)
         /\ \A n \in DOMAIN Parse(stmts, path) :
              \E i \in DOMAIN stmts :
                /\ Declares(stmts, i, n)
                /\ Parse(stmts, path)[n] = TableFromCreate(stmts[i], path, i)
                /\ \A j \in DOMAIN stmts : j > i => ~Declares(stmts, j, n)
<1> DEFINE S == {TableOf(stmts, path, i) : i \in DOMAIN stmts}
<1>1. PICK tables : tables = [i \in DOMAIN stmts |-> TableOf(stmts, path, i)]
  BY Zenon
<1>2. tables \in Seq(S)
  BY <1>1
<1>3. Merged(Parse(stmts, path), tables)
  BY <1>1, <1>2, FoldMerges DEF Parse
<1>4. DOMAIN tables = DOMAIN stmts
      /\ \A i \in DOMAIN stmts : \A n :
           /\ n \in DOMAIN tables[i] <=> Declares(stmts, i, n)
           /\ n \in DOMAIN tables[i] => tables[i][n] = TableFromCreate(stmts[i], path, i)
  BY <1>1 DEF TableOf, Declares
<1>5. ASSUME NEW i \in DOMAIN stmts, NEW n, Declares(stmts, i, n)
      PROVE  n \in DOMAIN Parse(stmts, path)
  BY <1>3, <1>4, <1>5 DEF Merged
<1>6. ASSUME NEW n \in DOMAIN Parse(stmts, path)
      PROVE  \E i \in DOMAIN stmts :
                /\ Declares(stmts, i, n)
                /\ Parse(stmts, path)[n] = TableFromCreate(stmts[i], path, i)
                /\ \A j \in DOMAIN stmts : j > i => ~Declares(stmts, j, n)
  <2>1. PICK i \in DOMAIN tables :
          /\ n \in DOMAIN tables[i] /\ Parse(stmts, path)[n] = tables[i][n]
          /\ \A j \in DOMAIN tables : j > i => n \notin DOMAIN tables[j]
    BY <1>3 DEF Merged
  <2> QED
    BY <1>4, <2>1
<1> QED
  BY <1>5, <1>6

(* A directory of files. *)
DiskFine(d) ==
  /\ DOMAIN d \subseteq Path /\ IsFiniteSet(DOMAIN d) /\ Separate(DOMAIN d)
  /\ \A f \in DOMAIN d : d[f] \in Content

\* The walk visits the files in their order, each of them.
LEMMA Walked ==
  ASSUME NEW d, DiskFine(d), NEW dir
  PROVE  /\ Walk(d, dir) \in Seq(SqlFiles(d, dir)) /\ Sorted(Walk(d, dir))
         /\ \A f \in SqlFiles(d, dir) : \E i \in DOMAIN Walk(d, dir) : Walk(d, dir)[i] = f
<1>1. PICK files : files = SqlFiles(d, dir)
  OBVIOUS
<1>2. files \subseteq DOMAIN d
  BY <1>1 DEF SqlFiles
<1>3. Separate(files) /\ IsFiniteSet(files)
  BY <1>2, FS_Subset DEF DiskFine, Separate
<1>4. PICK v \in [1 .. Cardinality(files) -> files] : Sorted(v)
  BY <1>3, SortedExists
<1>5. Walk(d, dir) = CHOOSE w \in [1 .. Cardinality(files) -> files] : Sorted(w)
  BY <1>1 DEF Walk, Sorted
<1>6. PICK w \in [1 .. Cardinality(files) -> files] : w = Walk(d, dir) /\ Sorted(w)
  BY <1>4, <1>5
<1>7. \A f \in files : \E i \in DOMAIN w : w[i] = f
  BY <1>3, <1>6, SortedOnto, Zenon
<1>8. w \in Seq(files)
  BY <1>3, FS_CardinalityType
<1> QED
  BY <1>1, <1>6, <1>7, <1>8

\* A table is that of the last file that declares it.
Parsed(d, f) == Parse(d[f].stmts, f)

LastOfFiles(tables, d, w) ==
  /\ \A i \in DOMAIN w : \A n : n \in DOMAIN Parsed(d, w[i]) => n \in DOMAIN tables
  /\ \A n \in DOMAIN tables :
       \E i \in DOMAIN w :
         /\ n \in DOMAIN Parsed(d, w[i]) /\ tables[n] = Parsed(d, w[i])[n]
         /\ \A j \in DOMAIN w : j > i => n \notin DOMAIN Parsed(d, w[j])

\* What is loaded is what the files declare, the last one counts.
LEMMA LoadIsMerged ==
  ASSUME NEW d, DiskFine(d), NEW dir, Parses(d, dir), NEW w, w = Walk(d, dir),
         NEW tables, tables = Load(d, dir)[1]
  PROVE  Load(d, dir) = <<tables>> /\ LastOfFiles(tables, d, w)
<1> DEFINE S == {Parsed(d, w[i]) : i \in DOMAIN w}
<1>1. PICK parsed : parsed = [i \in DOMAIN w |-> Parsed(d, w[i])]
  BY Zenon
<1>2. w \in Seq(SqlFiles(d, dir))
  BY Walked
<1>3. parsed \in Seq(S)
  <2>1. DOMAIN w = 1 .. Len(w) /\ Len(w) \in Nat
    BY <1>2
  <2> QED
    BY <1>1, <2>1
<1>4. Load(d, dir) = <<FoldLeft(Merge, <<>>, parsed)>>
  BY <1>1 DEF Load, Parses, Parsed
<1>5. tables = FoldLeft(Merge, <<>>, parsed)
  BY <1>4
<1>6. Merged(tables, parsed)
  BY <1>3, <1>5, FoldMerges
<1>7. DOMAIN parsed = DOMAIN w
      /\ \A i \in DOMAIN w : parsed[i] = Parsed(d, w[i])
  BY <1>1
<1> QED
  BY <1>4, <1>5, <1>6, <1>7 DEF LastOfFiles, Merged

\* A schema that loads is the right one.
LEMMA LoadRight ==
  ASSUME NEW d, DiskFine(d), NEW dir, Parses(d, dir)
  PROVE  Load(d, dir) # <<>> /\ RightSchema(Load(d, dir)[1], d, dir)
<1>1. PICK w, tables : w = Walk(d, dir) /\ tables = Load(d, dir)[1]
  OBVIOUS
<1> DEFINE all == Declarations(d, dir)
           Stmt(e) == d[e[1]].stmts[e[2]]
           Place(position) == <<position.path, position.stmt>>
<1>2. Load(d, dir) = <<tables>> /\ LastOfFiles(tables, d, w)
  BY <1>1, LoadIsMerged
<1>3. /\ w \in Seq(SqlFiles(d, dir)) /\ Sorted(w)
      /\ \A f \in SqlFiles(d, dir) : \E i \in DOMAIN w : w[i] = f
  BY <1>1, Walked
<1>4. /\ DOMAIN w \subseteq Nat /\ \A i \in DOMAIN w : w[i] \in SqlFiles(d, dir)
  BY <1>3
<1>5. SqlFiles(d, dir) \subseteq DOMAIN d
  BY DEF SqlFiles
<1>6. \A f \in SqlFiles(d, dir) : d[f].stmts \in Seq(Statement) /\ f \in Path
  BY <1>5 DEF DiskFine, Content
<1>7. \A f, i : <<f, i>> \in all <=> /\ f \in SqlFiles(d, dir) /\ i \in DOMAIN d[f].stmts
                                     /\ d[f].stmts[i].kind = "create"
  BY DEF Declarations
<1>8. \A e \in all : e = <<e[1], e[2]>>
  BY DEF Declarations
<1> HIDE DEF all
\* What a file declares is known.
<1>9. ASSUME NEW e \in all
      PROVE  /\ Stmt(e).name \in DOMAIN Parsed(d, e[1])
             /\ e[1] \in SqlFiles(d, dir) /\ e[2] \in DOMAIN d[e[1]].stmts
             /\ d[e[1]].stmts \in Seq(Statement)
  <2>1. e = <<e[1], e[2]>>
    BY <1>8
  <2>2. e[1] \in SqlFiles(d, dir) /\ e[2] \in DOMAIN d[e[1]].stmts
        /\ d[e[1]].stmts[e[2]].kind = "create"
    BY <1>7, <2>1
  <2>3. d[e[1]].stmts \in Seq(Statement)
    BY <1>6, <2>2
  <2>4. Declares(d[e[1]].stmts, e[2], Stmt(e).name)
    BY <2>2 DEF Declares
  <2> QED
    BY <2>2, <2>3, <2>4, ParseIs DEF Parsed
<1>10. \A e \in all : Stmt(e).name \in DOMAIN tables
  <2> SUFFICES ASSUME NEW e \in all PROVE Stmt(e).name \in DOMAIN tables
    OBVIOUS
  <2>1. PICK i \in DOMAIN w : w[i] = e[1]
    BY <1>3, <1>9
  <2> QED
    BY <1>2, <1>9, <2>1 DEF LastOfFiles
<1>11. ASSUME NEW n \in DOMAIN tables
       PROVE  \E f \in SqlFiles(d, dir) : \E s :
                /\ <<f, s>> \in all /\ d[f].stmts[s].name = n
                /\ tables[n] = TableFromCreate(d[f].stmts[s], f, s)
                /\ d[f].stmts[s].elts \in Seq(STRING)
                /\ \A e \in all : Stmt(e).name = n => ~Later(e, <<f, s>>)
  <2>1. PICK i \in DOMAIN w :
             /\ n \in DOMAIN Parsed(d, w[i]) /\ tables[n] = Parsed(d, w[i])[n]
             /\ \A j \in DOMAIN w : j > i => n \notin DOMAIN Parsed(d, w[j])
    BY <1>2 DEF LastOfFiles
  <2>2. PICK f : f = w[i]
    OBVIOUS
  <2>3. f \in SqlFiles(d, dir) /\ d[f].stmts \in Seq(Statement) /\ f \in Path
    BY <1>4, <1>6, <2>2
  <2>4. PICK s \in DOMAIN d[f].stmts :
             /\ Declares(d[f].stmts, s, n)
             /\ Parsed(d, f)[n] = TableFromCreate(d[f].stmts[s], f, s)
             /\ \A t \in DOMAIN d[f].stmts : t > s => ~Declares(d[f].stmts, t, n)
    BY <2>1, <2>2, <2>3, ParseIs DEF Parsed
  <2>5. <<f, s>> \in all /\ d[f].stmts[s].name = n
    BY <1>7, <2>3, <2>4 DEF Declares
  <2>6. tables[n] = TableFromCreate(d[f].stmts[s], f, s)
    BY <2>1, <2>2, <2>4
  <2>7. d[f].stmts[s].elts \in Seq(STRING)
    <3>1. d[f].stmts[s] \in Statement /\ d[f].stmts[s].kind = "create"
      BY <2>3, <2>4 DEF Declares
    <3> QED
      BY <3>1 DEF Statement
  <2>8. ASSUME NEW e \in all, Stmt(e).name = n PROVE ~Later(e, <<f, s>>)
    <3>1. /\ n \in DOMAIN Parsed(d, e[1]) /\ e[1] \in SqlFiles(d, dir)
          /\ e[2] \in DOMAIN d[e[1]].stmts /\ e = <<e[1], e[2]>>
      BY <1>8, <1>9, <2>8
    <3>2. PICK j \in DOMAIN w : w[j] = e[1]
      BY <1>3, <3>1
    <3>3. ~(j > i)
      BY <2>1, <3>1, <3>2
    <3>4. ~Before(f, e[1])
      <4> SUFFICES ASSUME Before(f, e[1]) PROVE FALSE
        OBVIOUS
      <4>1. e[1] \in Path
        BY <1>6, <3>1
      <4>2. CASE j = i
        BY <2>2, <2>3, <3>2, <4>2, BeforeSelf
      <4>3. CASE j < i
        <5>1. Before(e[1], f)
          BY <1>3, <2>2, <3>2, <4>3 DEF Sorted
        <5> QED
          BY <2>3, <4>1, <5>1, BeforeTransitive, BeforeSelf
      <4> QED
        BY <1>4, <3>3, <4>2, <4>3
    <3>5. ASSUME e[1] = f, e[2] > s PROVE FALSE
      <4>1. ~Declares(d[f].stmts, e[2], n)
        BY <2>4, <3>1, <3>5
      <4>2. d[f].stmts[e[2]].kind = "create"
        BY <1>7, <3>1, <3>5
      <4> QED
        BY <2>8, <3>5, <4>1, <4>2 DEF Declares
    <3> QED
      BY <3>4, <3>5 DEF Later
  <2> QED
    BY <2>3, <2>5, <2>6, <2>7, <2>8, Zenon
<1>12. DOMAIN tables = {Stmt(e).name : e \in all}
  <2>1. ASSUME NEW n \in DOMAIN tables PROVE n \in {Stmt(e).name : e \in all}
    <3>1. PICK f, s : <<f, s>> \in all /\ d[f].stmts[s].name = n
      BY <1>11, Zenon
    <3>2. Stmt(<<f, s>>) = d[f].stmts[s]
      OBVIOUS
    <3> QED
      BY <3>1, <3>2
  <2> QED
    BY <1>10, <2>1, Zenon
<1>13. ASSUME NEW n \in DOMAIN tables
       PROVE  LET t == tables[n]
                  e == Place(t.position)
              IN  /\ e \in all /\ t.position.elt = 0 /\ Stmt(e).name = n
                  /\ \A x \in all : Stmt(x).name = n => ~Later(x, e)
                  /\ {<<c.name, Place(c.position), c.position.elt>> : c \in ToSet(t.columns)}
                       = {<<Stmt(e).elts[k], e, k>> :
                            k \in {j \in DOMAIN Stmt(e).elts : Stmt(e).elts[j] # ""}}
  <2>1. PICK f, s : /\ <<f, s>> \in all /\ d[f].stmts[s].name = n
                    /\ tables[n] = TableFromCreate(d[f].stmts[s], f, s)
                    /\ d[f].stmts[s].elts \in Seq(STRING)
                    /\ \A e \in all : Stmt(e).name = n => ~Later(e, <<f, s>>)
    BY <1>11, Zenon
  <2>2. PICK c : c = d[f].stmts[s]
    OBVIOUS
  <2>3. /\ tables[n].position = PositionAt(f, s, 0)
        /\ tables[n].columns = Columns(c, f, s)
    BY <2>1, <2>2 DEF TableFromCreate
  <2>4. Place(tables[n].position) = <<f, s>> /\ tables[n].position.elt = 0
    BY <2>3 DEF PositionAt
  <2>5. Stmt(<<f, s>>) = c
    BY <2>2
  <2>6. ToSet(tables[n].columns) = {ColumnAt(c, f, s, k) : k \in NamedElts(c)}
    BY <2>1, <2>2, <2>3, ColumnsAre
  <2>7. \A k : /\ ColumnAt(c, f, s, k).name = c.elts[k]
               /\ Place(ColumnAt(c, f, s, k).position) = <<f, s>>
               /\ ColumnAt(c, f, s, k).position.elt = k
    BY DEF ColumnAt, PositionAt
  <2>8. {<<x.name, Place(x.position), x.position.elt>> : x \in ToSet(tables[n].columns)}
          = {<<c.elts[k], <<f, s>>, k>> : k \in NamedElts(c)}
    BY <2>6, <2>7
  <2>9. PICK e : e = <<f, s>>
    BY Zenon
  <2>10. /\ Place(tables[n].position) = e /\ Stmt(e) = c /\ c.name = n /\ e \in all
         /\ \A x \in all : Stmt(x).name = n => ~Later(x, e)
    BY <2>1, <2>2, <2>4, <2>5, <2>9, Zenon
  <2>11. {<<x.name, Place(x.position), x.position.elt>> : x \in ToSet(tables[n].columns)}
           = {<<Stmt(e).elts[k], e, k>> : k \in NamedElts(Stmt(e))}
    BY <2>8, <2>9, <2>10
  <2> HIDE DEF Place, Stmt
  <2> QED
    BY <2>4, <2>10, <2>11, Zenon DEF NamedElts
<1>14. RightSchema(tables, d, dir)
  BY <1>12, <1>13, Zenon DEF RightSchema, all
<1>15. Load(d, dir) # <<>>
  BY <1>2
<1> QED
  BY <1>1, <1>14, <1>15

-----------------------------------------------------------------------------
(* The directory in use. *)

\* The one directory that is loaded and watched is that of the request; no timer
\* runs without a watch, and nothing is watched before initialize.
Led ==
  /\ params \in Requests
  /\ {loadedSchemaDir, watching} \subseteq {<<>>, All(SchemaDir(params))}
  /\ timer \/ watched # {} \/ created # {} => watching # <<>>
  /\ ~initialized => watching = <<>>

\* No step leads elsewhere.
LEMMA LedStep == Led /\ [Next]_vars => Led'
<1> SUFFICES ASSUME Led, [Next]_vars PROVE Led'
  OBVIOUS
<1> USE DEF Led, All, env, watches
<1>1. CASE Initialize
  <2> DEFINE dir == SchemaDir(params)
  <2>1. params' = params /\ ~timer' /\ initialized'
    BY <1>1 DEF Initialize
  <2>2. CASE dir = <<>>
    BY <1>1, <2>1, <2>2 DEF Initialize
  <2>3. CASE dir # <<>>
    <3>1. LoadAndSetSchema(Abs(dir[1])) /\ StartSchemaWatcher(Abs(dir[1])) /\ ~initialized
      BY <1>1, <2>3 DEF Initialize
    <3>2. loadedSchemaDir' \in {loadedSchemaDir, All(dir)}
      BY <2>3, <3>1 DEF LoadAndSetSchema
    <3>3. watching' \in {<<>>, All(dir)} /\ (watched' # {} => watching' # <<>>)
      BY <2>3, <3>1 DEF StartSchemaWatcher, WatchBelow
    <3>4. created' = {}
      BY <1>1, <3>1 DEF Initialize
    <3> QED
      BY <2>1, <3>2, <3>3, <3>4
  <2> QED
    BY <2>2, <2>3
<1>2. CASE Reload
  <2>1. watching = All(SchemaDir(params)) /\ watching # <<>>
    BY <1>2 DEF Reload
  <2>2. loadedSchemaDir' \in {loadedSchemaDir, <<watching[1]>>}
    BY <1>2 DEF Reload, LoadAndSetSchema
  <2>3. watching = <<watching[1]>>
    BY <2>1
  <2> QED
    BY <1>2, <2>1, <2>2, <2>3 DEF Reload
<1>3. ASSUME NEW f \in DOMAIN disk, NEW c \in Contents, Edit(f, c) PROVE Led'
  BY <1>3 DEF Edit
<1>4. ASSUME NEW d \in NewDirs, MkDir(d) PROVE Led'
  BY <1>4 DEF MkDir
<1>5. CASE UNCHANGED vars
  BY <1>5 DEF vars
<1>6. ASSUME NEW d \in NewDirs, WatchNew(d) PROVE Led'
  BY <1>6 DEF WatchNew
<1> QED
  BY <1>1, <1>2, <1>3, <1>4, <1>5, <1>6 DEF Next

\* A directory the file leads to is the one in use.
LEMMA FileFirst ==
  ASSUME params \in Requests, FromFileAlone # <<>>
  PROVE  FromFileAlone = SchemaDir(params)
<1> DEFINE alone == [params EXCEPT !.options.state = "absent", !.flag = <<>>]
<1>1. /\ alone.roots = params.roots /\ alone.file = params.file
      /\ alone.options.state = "absent" /\ alone.flag = <<>>
  BY RequestsAssumption DEF RequestType, Sources
<1> HIDE DEF alone
<1>2. SchemaDirFromConfigFile(alone) = SchemaDirFromConfigFile(params)
  BY <1>1 DEF SchemaDirFromConfigFile, LoadConfigFile, WorkspaceRoot
<1>3. SchemaDirOfOptions(alone) = <<>>
  BY <1>1 DEF SchemaDirOfOptions, ResolveSchemaDir, InitOptionsConfig, Decoded, Field
<1>4. FromFileAlone = SchemaDir(alone)
  BY DEF alone, FromFileAlone
<1> QED
  BY <1>1, <1>2, <1>3, <1>4 DEF SchemaDir, OrElse

\* A file that leads nowhere is as good as none.
LEMMA WithoutFileIs ==
  ASSUME params \in Requests, SchemaDirFromConfigFile(params) = <<>>
  PROVE  WithoutFile = SchemaDir(params)
<1> DEFINE bare == [params EXCEPT !.file.state = "absent"]
<1>1. /\ bare.roots = params.roots /\ bare.options = params.options
      /\ bare.flag = params.flag /\ bare.file.state = "absent"
  BY RequestsAssumption DEF RequestType, Sources
<1> HIDE DEF bare
<1>2. SchemaDirFromConfigFile(bare) = <<>>
  BY <1>1 DEF SchemaDirFromConfigFile, LoadConfigFile, Decoded, Field
<1>3. SchemaDirOfOptions(bare) = SchemaDirOfOptions(params)
  BY <1>1 DEF SchemaDirOfOptions, InitOptionsConfig, WorkspaceRoot
<1>4. WithoutFile = SchemaDir(bare)
  BY DEF bare, WithoutFile
<1> QED
  BY <1>1, <1>2, <1>3, <1>4 DEF SchemaDir, OrElse

\* Led keeps the file inside the workspace.
LEMMA LedInside == Led => FileStaysInside
<1> SUFFICES ASSUME Led PROVE FileStaysInside
  OBVIOUS
<1>1. CASE SchemaDirFromConfigFile(params) = <<>>
  BY <1>1, WithoutFileIs DEF Led, FileStaysInside
<1>2. CASE SchemaDirFromConfigFile(params) # <<>>
  <2>1. PICK path \in Path :
          /\ SchemaDirFromConfigFile(params) = At(path)
          /\ IsPrefix(Clean(WorkspaceRoot(params)[1]), path)
    BY <1>2, FileDirIs DEF Led
  <2>2. All(SchemaDir(params)) = <<path>>
    BY <1>2, <2>1, AbsOfClean DEF SchemaDir, OrElse, All, At
  <2>3. WorkspaceRoot(params) # <<>>
    BY <1>2, FileDirIs DEF Led
  <2> QED
    BY <2>1, <2>2, <2>3 DEF Led, FileStaysInside
<1> QED
  BY <1>1, <1>2

\* The files stay files of which none is below another.
DiskOK ==
  /\ DOMAIN disk = DOMAIN FirstDisk
  /\ \A f \in DOMAIN disk : disk[f] \in Content

\* No step puts one file below another.
LEMMA DiskStep == DiskOK /\ [Next]_vars => DiskOK'
<1> SUFFICES ASSUME DiskOK, [Next]_vars PROVE DiskOK'
  OBVIOUS
<1> USE DEF DiskOK, env
<1>1. CASE Initialize
  BY <1>1 DEF Initialize
<1>2. CASE Reload
  BY <1>2 DEF Reload
<1>3. ASSUME NEW f \in DOMAIN disk, NEW c \in Contents, Edit(f, c) PROVE DiskOK'
  <2>1. disk' = [disk EXCEPT ![f] = c] /\ c \in Content
    BY <1>3, DiskAssumption DEF Edit
  <2> QED
    BY <2>1
<1>4. ASSUME NEW d \in NewDirs, MkDir(d) PROVE DiskOK'
  BY <1>4 DEF MkDir
<1>5. CASE UNCHANGED vars
  BY <1>5 DEF vars
<1>6. ASSUME NEW d \in NewDirs, WatchNew(d) PROVE DiskOK'
  BY <1>6 DEF WatchNew
<1> QED
  BY <1>1, <1>2, <1>3, <1>4, <1>5, <1>6 DEF Next

\* The first files are like that.
LEMMA DiskInit == Init => DiskOK
BY DiskAssumption DEF Init, DiskOK

\* Files are exempt when they are below the directory in use.
LEMMA LedExempts == Led /\ DiskOK => OnlySchemaFilesExempt
<1> SUFFICES ASSUME Led, DiskOK, NEW f \in DOMAIN disk
             PROVE  IsInSchemaDir(f) <=>
                      \E dir \in ToSet(loadedSchemaDir) \ {<<>>} : IsPrefix(dir, f)
  BY DEF OnlySchemaFilesExempt
<1>1. f \in Path /\ f # <<>>
  BY DiskAssumption DEF DiskOK
<1>2. CASE loadedSchemaDir = <<>>
  BY <1>2 DEF IsInSchemaDir, ToSet
<1>3. CASE loadedSchemaDir # <<>>
  <2>1. PICK dir \in Path : loadedSchemaDir = <<dir>>
    BY <1>3, AllType DEF Led
  <2>2. ToSet(loadedSchemaDir) = {dir}
    BY <2>1 DEF ToSet
  <2>3. IsInSchemaDir(f) <=> f = dir \/ (dir # <<>> /\ IsPrefix(dir, f))
    BY <1>1, <2>1, InsideMeans DEF IsInSchemaDir
  <2>4. f = dir => IsPrefix(dir, f)
    BY <1>1 DEF IsPrefix, Path
  <2> QED
    BY <1>1, <2>2, <2>3, <2>4
<1> QED
  BY <1>2, <1>3

\* A load yields a schema or none.
LEMMA LoadIs == \A d, dir : Load(d, dir) = <<>> \/ (Len(Load(d, dir)) = 1 /\ Load(d, dir) # <<>>)
BY DEF Load

\* The type invariant is inductive, with Led.
LEMMA TypeStep == TypeOK /\ Led /\ [Next]_vars => TypeOK'
<1> SUFFICES ASSUME TypeOK, Led, [Next]_vars PROVE TypeOK'
  OBVIOUS
<1> USE DEF TypeOK, env, watches
<1>0. ASSUME NEW dir, LoadAndSetSchema(dir)
      PROVE  /\ Len(loadedSchema') <= 1 /\ (loadedSchema' = <<>> <=> loadedSchemaDir' = <<>>)
             /\ unseen' = {}
  <2>1. unseen' = {}
    BY <1>0, Zenon DEF LoadAndSetSchema
  <2>2. CASE loadedSchema' = loadedSchema /\ loadedSchemaDir' = loadedSchemaDir
    BY <2>1, <2>2
  <2>3. CASE loadedSchema' # <<>> /\ Len(loadedSchema') = 1 /\ loadedSchemaDir' = <<dir>>
    <3>1. <<dir>> # <<>>
      OBVIOUS
    <3>2. Len(loadedSchema') <= 1 /\ (loadedSchema' = <<>> <=> loadedSchemaDir' = <<>>)
      BY <2>3, <3>1
    <3> QED
      BY <2>1, <3>2
  <2>4. \/ loadedSchema' = loadedSchema /\ loadedSchemaDir' = loadedSchemaDir
        \/ loadedSchema' # <<>> /\ Len(loadedSchema') = 1 /\ loadedSchemaDir' = <<dir>>
    BY <1>0, LoadIs DEF LoadAndSetSchema
  <2> QED
    BY <2>2, <2>3, <2>4
<1>1. CASE Initialize
  <2>1. /\ params' = params /\ initialized' = TRUE /\ timer' = timer
        /\ edits' = edits /\ dirs' = dirs /\ disk' = disk /\ created' = created
    BY <1>1 DEF Initialize
  <2>2. toasts' \subseteq {"file", "options", "functions"}
    BY <1>1, Zenon DEF Initialize, Toasts
  <2>3. ~timer /\ watched = {} /\ created = {}
    BY <1>1 DEF Initialize, Led
  <2>4. Len(watching') <= 1 /\ (watching' # <<>> => watching'[1] \in dirs)
    <3>1. \/ watching' = watching
          \/ \E dir \in dirs : watching' = <<dir>>
      BY <1>1 DEF Initialize, StartSchemaWatcher, WatchBelow
    <3>2. ASSUME NEW dir \in dirs, watching' = <<dir>>
          PROVE  Len(watching') <= 1 /\ watching'[1] \in dirs
      BY <3>2
    <3> QED
      BY <3>1, <3>2
  <2>5. /\ Len(loadedSchema') <= 1 /\ (loadedSchema' = <<>> <=> loadedSchemaDir' = <<>>)
        /\ unseen' \subseteq DOMAIN disk
    BY <1>0, <1>1 DEF Initialize
  <2>6. watched' \subseteq dirs /\ (watched' # {} => watching' # <<>>)
    <3>1. \/ watched' = {}
          \/ \E dir : watching' = <<dir>> /\ watched' = {d \in dirs : IsPrefix(dir, d)}
      BY <1>1, <2>3 DEF Initialize, StartSchemaWatcher, WatchBelow
    <3>2. \A dir : <<dir>> # <<>>
      OBVIOUS
    <3> QED
      BY <3>1, <3>2
  <2> QED
    BY <2>1, <2>2, <2>3, <2>4, <2>5, <2>6
<1>2. CASE Reload
  <2>1. /\ Len(loadedSchema') <= 1 /\ (loadedSchema' = <<>> <=> loadedSchemaDir' = <<>>)
        /\ unseen' \subseteq DOMAIN disk
    BY <1>0, <1>2 DEF Reload
  <2> QED
    BY <1>2, <2>1, Zenon DEF Reload
<1>3. ASSUME NEW f \in DOMAIN disk, NEW c \in Contents, Edit(f, c) PROVE TypeOK'
  <2>1. edits' \in 0 .. MaxEdits /\ timer' \in BOOLEAN /\ (timer' => watching # <<>>)
    BY <1>3, BoundAssumption DEF Edit
  <2>2. unseen' \subseteq DOMAIN disk'
    <3>1. DOMAIN disk' = DOMAIN disk /\ unseen' \subseteq unseen \cup {f}
      BY <1>3 DEF Edit
    <3> QED
      BY <3>1
  <2> QED
    BY <1>3, <2>1, <2>2 DEF Edit
<1>4. ASSUME NEW d \in NewDirs, MkDir(d) PROVE TypeOK'
  BY <1>4 DEF MkDir
<1>5. CASE UNCHANGED vars
  BY <1>5 DEF vars
<1>6. ASSUME NEW d \in NewDirs, WatchNew(d) PROVE TypeOK'
  BY <1>6 DEF WatchNew
<1> QED
  BY <1>1, <1>2, <1>3, <1>4, <1>5, <1>6 DEF Next

-----------------------------------------------------------------------------
(* The schema in use, and the SQL functions. *)

\* What the lemmas above ask of a directory.
LEMMA DiskIsFine == DiskOK => DiskFine(disk)
BY DiskAssumption DEF DiskOK, DiskFine, Separate


\* What is read, and so what is right, does not change with a file that is not read.
LEMMA EditElsewhere ==
  ASSUME NEW d, NEW f \in DOMAIN d, NEW c, NEW dir,
         ~(IsPrefix(dir, f) /\ Last(f) \in SqlNames),
         NEW e, e = [d EXCEPT ![f] = c],
         Parses(e, dir), NEW tables
  PROVE  Parses(d, dir) /\ (RightSchema(tables, d, dir) => RightSchema(tables, e, dir))
<1>1. DOMAIN e = DOMAIN d /\ f \notin SqlFiles(d, dir) /\ f \notin SqlFiles(e, dir)
      /\ \A g \in DOMAIN d : g # f => e[g] = d[g]
  BY DEF SqlFiles
<1>2. SqlFiles(e, dir) = SqlFiles(d, dir) /\ \A g \in SqlFiles(d, dir) : e[g] = d[g]
  <2>1. \A g \in DOMAIN d : g \in SqlFiles(e, dir) <=> g \in SqlFiles(d, dir)
    BY <1>1 DEF SqlFiles
  <2> QED
    BY <1>1, <2>1 DEF SqlFiles
<1>3. Declarations(e, dir) = Declarations(d, dir)
  BY <1>2 DEF Declarations
<1>4. \A x \in Declarations(d, dir) : e[x[1]].stmts = d[x[1]].stmts
  BY <1>2 DEF Declarations
<1>5. Parses(d, dir)
  BY <1>2 DEF Parses
<1>6. ASSUME RightSchema(tables, d, dir) PROVE RightSchema(tables, e, dir)
  <2> DEFINE all == Declarations(d, dir)
             Place(position) == <<position.path, position.stmt>>
             Fits(t, x, s) ==
               {<<k.name, Place(k.position), k.position.elt>> : k \in ToSet(t.columns)}
                 = {<<s.elts[k], x, k>> : k \in {j \in DOMAIN s.elts : s.elts[j] # ""}}
  <2>1. DOMAIN tables = {e[x[1]].stmts[x[2]].name : x \in all}
    <3>1. DOMAIN tables = {d[x[1]].stmts[x[2]].name : x \in all}
      BY <1>6, Zenon DEF RightSchema
    <3>2. \A x \in all : e[x[1]].stmts[x[2]] = d[x[1]].stmts[x[2]]
      BY <1>4
    <3> HIDE DEF all
    <3> QED
      BY <3>1, <3>2
  <2>2. ASSUME NEW n \in DOMAIN tables
        PROVE  LET t == tables[n]
                   x == Place(t.position)
                   s == e[x[1]].stmts[x[2]]
               IN  /\ x \in all /\ t.position.elt = 0 /\ s.name = n
                   /\ \A y \in all : e[y[1]].stmts[y[2]].name = n => ~Later(y, x)
                   /\ Fits(t, x, s)
    <3>1. PICK t, x, s : /\ t = tables[n] /\ x = Place(t.position)
                         /\ s = d[x[1]].stmts[x[2]]
      BY Zenon
    <3>2. /\ x \in all /\ t.position.elt = 0 /\ s.name = n
          /\ \A y \in all : d[y[1]].stmts[y[2]].name = n => ~Later(y, x)
          /\ Fits(t, x, s)
      BY <1>6, <3>1, Zenon DEF RightSchema
    <3>3. \A y \in all : e[y[1]].stmts[y[2]] = d[y[1]].stmts[y[2]]
      BY <1>4
    <3> HIDE DEF all
    <3>4. s = e[x[1]].stmts[x[2]]
      BY <3>1, <3>2, <3>3, Zenon
    <3>5. \A y \in all : e[y[1]].stmts[y[2]].name = n => ~Later(y, x)
      BY <3>2, <3>3, Zenon
    <3> HIDE DEF Place, Fits
    <3> QED
      BY <3>1, <3>2, <3>4, <3>5, Zenon
  <2> QED
    BY <1>3, <2>1, <2>2, Zenon DEF RightSchema
<1> QED
  BY <1>5, <1>6

\* The schema is right when no reload is due and the files parse.
Fresh ==
  /\ watching # <<>> /\ ~timer /\ ~Unseen(watching[1]) /\ Parses(disk, watching[1]) =>
       loadedSchemaDir = watching /\ RightSchema(loadedSchema[1], disk, watching[1])
  /\ initialized /\ SchemaDir(params) # <<>> /\ All(SchemaDir(params))[1] \in Dirs =>
       watching = All(SchemaDir(params))
  /\ Dirs \subseteq dirs
  /\ watching # <<>> => {d \in Dirs : IsPrefix(watching[1], d)} \subseteq watched

\* Only a file itself is inside of what is inside of it and not of its directory.
LEMMA InsideFront ==
  ASSUME NEW S, NEW d \in Seq(S), NEW f \in Seq(S), IsPrefix(d, f), d # f
  PROVE  IsPrefix(d, Front(f))
<1>1. Len(d) \in Nat /\ Len(f) \in Nat /\ Len(d) <= Len(f)
  BY DEF IsPrefix
<1>2. \A i \in 1 .. Len(d) : d[i] = f[i]
  <2> SUFFICES ASSUME NEW i \in 1 .. Len(d) PROVE d[i] = f[i]
    OBVIOUS
  <2>1. SubSeq(d, 1, Len(d)) = SubSeq(f, 1, Len(d))
    BY DEF IsPrefix
  <2>2. SubSeq(d, 1, Len(d))[i] = d[i] /\ SubSeq(f, 1, Len(d))[i] = f[i]
    BY <1>1
  <2> QED
    BY <2>1, <2>2
<1>3. Len(d) # Len(f)
  <2> SUFFICES ASSUME Len(d) = Len(f) PROVE d = f
    OBVIOUS
  <2> QED
    BY <1>2
<1>4. /\ Front(f) \in Seq(S) /\ Len(Front(f)) = Len(f) - 1
      /\ \A i \in 1 .. Len(f) - 1 : Front(f)[i] = f[i]
  <2>1. PICK n : n = Len(f) - 1
    OBVIOUS
  <2>2. n \in Nat /\ n <= Len(f)
    BY <1>1, <1>3, <2>1
  <2>3. Front(f) = SubSeq(f, 1, n)
    BY <2>1 DEF Front
  <2>4. \A i \in 1 .. n : i \in 1 .. Len(f) /\ f[i] \in S
    BY <1>1, <2>2
  <2>5. SubSeq(f, 1, n) \in Seq(S) /\ Len(SubSeq(f, 1, n)) = n
    BY <1>1, <2>4, <2>2
  <2>6. \A i \in 1 .. n : SubSeq(f, 1, n)[i] = f[i]
    BY <1>1, <2>2
  <2> QED
    BY <2>1, <2>3, <2>5, <2>6, Zenon
<1>5. SubSeq(d, 1, Len(d)) = SubSeq(Front(f), 1, Len(d))
  <2>1. \A i \in 1 .. Len(d) : d[i] = Front(f)[i]
    BY <1>1, <1>2, <1>3, <1>4
  <2> QED
    BY <1>1, <1>3, <1>4, <2>1
<1> QED
  BY <1>1, <1>3, <1>4, <1>5 DEF IsPrefix

\* A load that succeeds leaves the right schema.
LEMMA Loaded ==
  ASSUME DiskOK, NEW dir \in dirs, LoadAndSetSchema(dir), Parses(disk, dir)
  PROVE  loadedSchemaDir' = <<dir>> /\ RightSchema(loadedSchema'[1], disk, dir)
BY DiskIsFine, LoadRight DEF LoadAndSetSchema

\* No step leaves a schema behind that is not right.
LEMMA FreshStep == Fresh /\ Led /\ TypeOK /\ DiskOK /\ [Next]_vars => Fresh'
<1> SUFFICES ASSUME Fresh, Led, TypeOK, DiskOK, [Next]_vars PROVE Fresh'
  OBVIOUS
<1>1. CASE Initialize
  <2>1. /\ params' = params /\ disk' = disk /\ dirs' = dirs /\ initialized' /\ ~initialized
    BY <1>1 DEF Initialize, env
  <2>2. CASE SchemaDir(params) = <<>>
    <3>1. watching' = <<>>
      BY <1>1, <2>1, <2>2 DEF Initialize, Led
    <3> QED
      BY <2>1, <2>2, <3>1 DEF Fresh
  <2>3. CASE SchemaDir(params) # <<>>
    <3>1. PICK dir : dir = Abs(SchemaDir(params)[1])
      OBVIOUS
    <3>2. All(SchemaDir(params)) = <<dir>>
      BY <2>3, <3>1 DEF All
    <3>3. LoadAndSetSchema(dir) /\ watching' = IF dir \in dirs THEN <<dir>> ELSE <<>>
      BY <1>1, <2>3, <3>1 DEF Initialize, StartSchemaWatcher, WatchBelow, Led
    <3>4. CASE dir \in dirs
      <4>1. watching' = <<dir>>
        BY <3>3, <3>4
      <4>3. {d \in Dirs : IsPrefix(dir, d)} \subseteq watched'
        <5>1. watched' = {d \in dirs : IsPrefix(dir, d)}
          BY <1>1, <2>3, <3>1, <3>4 DEF Initialize, StartSchemaWatcher, WatchBelow
        <5> QED
          BY <5>1 DEF Fresh
      <4>2. Parses(disk, dir) =>
              loadedSchemaDir' = <<dir>> /\ RightSchema(loadedSchema'[1], disk, dir)
        BY <3>3, <3>4, Loaded
      <4> QED
        BY <2>1, <3>2, <4>1, <4>2, <4>3 DEF Fresh, All
    <3>5. CASE dir \notin dirs
      <4>1. watching' = <<>> /\ dir \notin Dirs
        BY <3>3, <3>5 DEF Fresh
      <4> QED
        BY <2>1, <3>2, <4>1 DEF Fresh, All
    <3> QED
      BY <3>4, <3>5
  <2> QED
    BY <2>2, <2>3
<1>2. CASE Reload
  <2>1. /\ params' = params /\ disk' = disk /\ dirs' = dirs /\ initialized' = initialized
        /\ watching' = watching /\ watched' = watched /\ LoadAndSetSchema(watching[1])
    BY <1>2 DEF Reload, env, watches
  <2>2. watching # <<>> /\ watching[1] \in dirs /\ watching = <<watching[1]>>
    <3>1. watching # <<>> /\ watching[1] \in dirs
      BY <1>2 DEF Reload, TypeOK
    <3> QED
      BY <3>1 DEF Led, All
  <2>3. Parses(disk, watching[1]) =>
          loadedSchemaDir' = watching /\ RightSchema(loadedSchema'[1], disk, watching[1])
    BY <2>1, <2>2, Loaded
  <2> QED
    BY <2>1, <2>3 DEF Fresh, All
<1>3. ASSUME NEW f \in DOMAIN disk, NEW c \in Contents, Edit(f, c) PROVE Fresh'
  <2>1. /\ UNCHANGED <<params, initialized, dirs, loadedSchema, loadedSchemaDir, watching,
                       watched>>
        /\ disk' = [disk EXCEPT ![f] = c]
        /\ unseen \subseteq unseen'
        /\ ~timer' => /\ ~timer
                      /\ Last(f) \in SqlNames => f \in unseen' /\ Front(f) \notin watched
    BY <1>3 DEF Edit, watches
  <2>2. ASSUME watching' # <<>>, ~timer', ~Unseen(watching[1])', Parses(disk', watching'[1])
        PROVE  loadedSchemaDir' = watching' /\ RightSchema(loadedSchema'[1], disk', watching'[1])
    <3>1. ~Unseen(watching[1]) /\ ~(IsPrefix(watching[1], f) /\ Last(f) \in SqlNames)
      <4>1. SUFFICES ASSUME IsPrefix(watching[1], f), Last(f) \in SqlNames PROVE FALSE
        BY <2>1, <2>2 DEF Unseen
      <4>2. Front(f) \in Dirs /\ Front(f) \notin watched
        BY <2>1, <2>2, <4>1 DEF Unseen
      <4>3. watching[1] \in Path /\ f \in Path /\ watching[1] # f
        <5>1. watching[1] \in dirs /\ dirs \subseteq Dirs \cup NewDirs
          BY <2>1, <2>2 DEF TypeOK
        <5>2. f \in DOMAIN FirstDisk
          BY DEF DiskOK
        <5> QED
          BY <5>1, <5>2, DirsAssumption, DiskAssumption
      <4>4. IsPrefix(watching[1], Front(f))
        BY <4>1, <4>3, InsideFront DEF Path
      <4> QED
        BY <2>1, <2>2, <4>2, <4>4 DEF Fresh
    <3>2. /\ Parses(disk, watching[1])
          /\ RightSchema(loadedSchema[1], disk, watching[1])
               => RightSchema(loadedSchema[1], disk', watching[1])
      BY <2>1, <2>2, <3>1, EditElsewhere, Zenon
    <3> QED
      BY <2>1, <2>2, <3>1, <3>2 DEF Fresh
  <2> QED
    BY <2>1, <2>2 DEF Fresh, All
<1>4. ASSUME NEW d \in NewDirs, MkDir(d) PROVE Fresh'
  <2>1. /\ UNCHANGED <<params, initialized, disk, loadedSchema, loadedSchemaDir, watching, timer,
                     watched, unseen>>
        /\ dirs \subseteq dirs'
    BY <1>4 DEF MkDir
  <2> QED
    BY <2>1 DEF Fresh, All, Unseen
<1>5. CASE UNCHANGED vars
  BY <1>5 DEF vars, env, watches, Fresh, All, Unseen
<1>6. ASSUME NEW d \in NewDirs, WatchNew(d) PROVE Fresh'
  BY <1>6 DEF WatchNew, Fresh, All, Unseen, env
<1> QED
  BY <1>1, <1>2, <1>3, <1>4, <1>5, <1>6 DEF Next

\* Fresh is what Current needs.
LEMMA FreshCurrent == Fresh /\ Led => Current
<1> SUFFICES ASSUME Fresh, Led,
                    NEW dir \in ToSet(All(SchemaDir(params))) \cap (Dirs \cup ToSet(watching)),
                    initialized, ~timer, ~Unseen(dir), Parses(disk, dir)
             PROVE  loadedSchemaDir = <<dir>> /\ RightSchema(loadedSchema[1], disk, dir)
  BY DEF Current
<1>1. SchemaDir(params) # <<>> /\ All(SchemaDir(params)) = <<dir>>
  <2>1. SchemaDir(params) # <<>>
    BY DEF All, ToSet
  <2>2. PICK x : All(SchemaDir(params)) = <<x>>
    BY <2>1 DEF All
  <2>3. x = dir
    BY <2>2 DEF ToSet
  <2> QED
    BY <2>1, <2>2, <2>3
<1>2. watching = <<dir>>
  <2>1. CASE dir \in Dirs
    BY <1>1, <2>1 DEF Fresh
  <2>2. CASE dir \in ToSet(watching)
    <3>1. watching # <<>>
      BY <2>2 DEF ToSet
    <3> QED
      BY <1>1, <3>1 DEF Led
  <2> QED
    BY <2>1, <2>2
<1> QED
  BY <1>2 DEF Fresh

\* Action of NoTableLost.
KeepsTables ==
  \A old \in ToSet(loadedSchema) : \A name \in DOMAIN old :
       \/ name \in DOMAIN loadedSchema'[1]
       \/ /\ Parses(disk, loadedSchemaDir'[1])
          /\ \A d \in Declarations(disk, loadedSchemaDir'[1]) :
               disk[d[1]].stmts[d[2]].name # name

\* A load replaces the schema by one with all declared tables, or not at all.
LEMMA LoadKeeps ==
  ASSUME DiskOK, TypeOK, NEW dir, LoadAndSetSchema(dir)
  PROVE  KeepsTables
<1>1. CASE UNCHANGED <<loadedSchema, loadedSchemaDir>>
  <2>1. ASSUME NEW old \in ToSet(loadedSchema) PROVE old = loadedSchema[1]
    BY DEF TypeOK, ToSet
  <2> QED
    BY <1>1, <2>1 DEF KeepsTables
<1>2. CASE loadedSchema' = Load(disk, dir) /\ Load(disk, dir) # <<>> /\ loadedSchemaDir' = <<dir>>
  <2>1. Parses(disk, dir)
    BY <1>2 DEF Load, Parses
  <2>2. RightSchema(loadedSchema'[1], disk, dir)
    BY <1>2, <2>1, DiskIsFine, LoadRight
  <2>3. \A d \in Declarations(disk, dir) :
          disk[d[1]].stmts[d[2]].name \in DOMAIN loadedSchema'[1]
    BY <2>2, Zenon DEF RightSchema
  <2> QED
    BY <1>2, <2>1, <2>3 DEF KeepsTables
<1> QED
  BY <1>1, <1>2 DEF LoadAndSetSchema

\* No other step touches the schema.
LEMMA StepKeeps == TypeOK /\ DiskOK /\ Next => KeepsTables
<1> SUFFICES ASSUME TypeOK, DiskOK, Next PROVE KeepsTables
  OBVIOUS
<1>0. ASSUME UNCHANGED loadedSchema PROVE KeepsTables
  <2>1. ASSUME NEW old \in ToSet(loadedSchema) PROVE old = loadedSchema[1]
    BY DEF TypeOK, ToSet
  <2> QED
    BY <1>0, <2>1 DEF KeepsTables
<1>1. CASE Initialize
  BY <1>0, <1>1, LoadKeeps DEF Initialize
<1>2. CASE Reload
  BY <1>2, LoadKeeps DEF Reload
<1>3. ASSUME NEW f \in DOMAIN disk, NEW c \in Contents, Edit(f, c) PROVE KeepsTables
  BY <1>0, <1>3 DEF Edit
<1>4. ASSUME NEW d \in NewDirs, MkDir(d) PROVE KeepsTables
  BY <1>0, <1>4 DEF MkDir
<1>5. ASSUME NEW d \in NewDirs, WatchNew(d) PROVE KeepsTables
  BY <1>0, <1>5 DEF WatchNew
<1> QED
  BY <1>1, <1>2, <1>3, <1>4, <1>5 DEF Next

\* The SQL functions and the toasts are those of the request.
Detects ==
  /\ params \in Requests
  /\ initialized => /\ loadedSQLFuncs = SetSQLFunctions(SQLFunctionsFromOptions(params))
                    /\ toasts = Toasts(params)

\* Nothing changes the functions once they are set.
LEMMA DetectsStep == Detects /\ [Next]_vars => Detects'
<1> SUFFICES ASSUME Detects, [Next]_vars PROVE Detects'
  OBVIOUS
<1> USE DEF Detects
<1>1. CASE Initialize
  BY <1>1 DEF Initialize
<1>2. CASE Reload
  BY <1>2 DEF Reload
<1>3. ASSUME NEW f \in DOMAIN disk, NEW c \in Contents, Edit(f, c) PROVE Detects'
  BY <1>3 DEF Edit
<1>4. ASSUME NEW d \in NewDirs, MkDir(d) PROVE Detects'
  BY <1>4 DEF MkDir
<1>5. CASE UNCHANGED vars
  BY <1>5 DEF vars
<1>6. ASSUME NEW d \in NewDirs, WatchNew(d) PROVE Detects'
  BY <1>6 DEF WatchNew
<1> QED
  BY <1>1, <1>2, <1>3, <1>4, <1>5, <1>6 DEF Next

\* Detects is what was asked for.
LEMMA DetectsAsked == Detects => DetectionAsAsked
<1> SUFFICES ASSUME Detects, initialized PROVE DetectionAsAsked
  BY DEF DetectionAsAsked
<1>1. PICK a, b : /\ a = Field(LoadConfigFile(params), "sqlFunctions")
                  /\ b = Field(InitOptionsConfig(params), "sqlFunctions")
  OBVIOUS
<1>2. a \in Option(Seq(Entries)) /\ b \in Option(Seq(Entries))
  BY <1>1, RequestIs, FieldType, FileType DEF Detects, InitOptionsConfig
<1>3. PICK funcs : funcs = SQLFunctionsFromOptions(params)
  OBVIOUS
<1>4. funcs = OrElse(a, b) /\ Lists = a \o b
  BY <1>1, <1>3 DEF SQLFunctionsFromOptions, Lists
<1>5. (Lists = <<>> <=> funcs = <<>>) /\ (funcs # <<>> => funcs[1] = Lists[1])
  <2>1. a \in Seq(Seq(Entries)) /\ b \in Seq(Seq(Entries))
    BY <1>2 DEF Option
  <2>2. CASE a = <<>>
    BY <1>4, <2>1, <2>2 DEF OrElse
  <2>3. CASE a # <<>>
    BY <1>4, <2>1, <2>3 DEF OrElse
  <2> QED
    BY <2>2, <2>3
<1>6. /\ loadedSQLFuncs = SetSQLFunctions(funcs)
      /\ AllInvalid(funcs) => "functions" \in toasts
  BY <1>3, Zenon DEF Detects, Toasts
<1>7. CASE funcs = <<>>
  <2>1. loadedSQLFuncs = Defaults
    BY <1>6, <1>7 DEF SetSQLFunctions
  <2> QED
    BY <1>5, <1>7, <2>1, DefaultsAssumption DEF DetectionAsAsked
<1>8. CASE funcs # <<>>
  <2>1. PICK list : list = Lists[1] /\ list = funcs[1]
    BY <1>5, <1>8
  <2>2. list \in Seq(Entries)
    BY <1>2, <1>4, <1>8, <2>1, OptionIs DEF OrElse
  <2>3. Says(Configured(list), list)
    BY <2>2, ConfiguredSays
  <2>4. DOMAIN Configured(list) = {} <=> ValidIn(list) = {}
    BY <2>3, Zenon DEF Says
  <2>5. AllInvalid(funcs) <=> list # <<>> /\ ValidIn(list) = {}
    BY <1>8, <2>1, <2>4 DEF AllInvalid
  <2>6. list = <<>> => ValidIn(list) = {}
    BY DEF ValidIn
  <2>7. loadedSQLFuncs = IF list # <<>> /\ ValidIn(list) = {} THEN Defaults ELSE Configured(list)
    BY <1>6, <1>8, <2>1, <2>5 DEF SetSQLFunctions
  <2>8. DOMAIN loadedSQLFuncs = {} <=> list = <<>>
    BY <2>4, <2>6, <2>7, DefaultsAssumption
  <2>9. ASSUME list # <<>>, ValidIn(list) = {}
        PROVE  loadedSQLFuncs = Defaults /\ "functions" \in toasts
    BY <1>6, <2>5, <2>7, <2>9
  <2>10. ASSUME list # <<>>, ValidIn(list) # {}
         PROVE  Says(loadedSQLFuncs, list)
    BY <2>3, <2>7, <2>10
  <2> QED
    BY <1>5, <1>8, <2>1, <2>8, <2>9, <2>10 DEF DetectionAsAsked, Says, ValidIn
<1> QED
  BY <1>7, <1>8

-----------------------------------------------------------------------------
(* The theorems. *)

\* The first state has them all.
LEMMA StartupInit == Init => Led /\ TypeOK /\ DiskOK /\ Fresh
<1> SUFFICES ASSUME Init PROVE Led /\ TypeOK /\ DiskOK /\ Fresh
  OBVIOUS
<1>1. Led
  BY DEF Init, Led
<1>2. TypeOK
  <2>1. Len(<<>>) = 0
    OBVIOUS
  <2>2. Len(loadedSchema) <= 1 /\ Len(watching) <= 1
    BY <2>1 DEF Init
  <2>3. edits \in 0 .. MaxEdits
    BY BoundAssumption DEF Init
  <2> QED
    BY <2>2, <2>3, Zenon DEF Init, TypeOK
<1>3. DiskOK
  BY DiskInit
<1>4. Fresh
  BY DEF Init, Fresh
<1> QED
  BY <1>1, <1>2, <1>3, <1>4

\* The server's directories, schema and files are what TypeOK says.
THEOREM TypeCorrect == Spec => []TypeOK
<1> QED
  BY StartupInit, LedStep, TypeStep, PTL DEF Spec

\* Whatever the editor and the command line say, a server whose .pgls.json leads to
\* a directory loads and watches that one and no other, at start and ever after
\* (README.md:79-84, server.go:243-262).
THEOREM FileDecides == Spec => []EditorCannotOverride
<1>1. Led => EditorCannotOverride
  BY FileFirst DEF Led, EditorCannotOverride
<1> QED
  BY <1>1, StartupInit, LedStep, PTL DEF Spec

\* A server whose directory comes from .pgls.json never loads or watches one outside
\* the workspace, however the path in the file is written, with ".." or as an
\* absolute one (server.go:264-290).
THEOREM FileLeadsInside == Spec => []FileStaysInside
<1> QED
  BY StartupInit, LedStep, LedInside, PTL DEF Spec

\* The files that are not checked are those below the directory in use and no others:
\* that the comparison is one of strings makes no difference, for names of any
\* spelling (server.go:433-458), but for a schema in the root of the file system.
THEOREM OnlySchemaFilesAreExempt == Spec => []OnlySchemaFilesExempt
<1> QED
  BY StartupInit, LedStep, DiskStep, LedExempts, PTL DEF Spec

\* The calls that carry SQL are those that .pgls.json or the options name, the last
\* valid entry of each name; the defaults when neither has a valid one
\* (server.go:304-364).
THEOREM FunctionsAsAsked == Spec => []DetectionAsAsked
<1>1. Init => Detects
  BY DEF Init, Detects
<1> QED
  BY <1>1, DetectsStep, DetectsAsked, PTL DEF Spec

\* Once no reload is due, every change since the last load was in a directory with a
\* watch and the files parse, the schema in use is the right one for the files as they
\* are, after any edits and failed loads, and however the directory was named
\* (schema.go:63-98, server.go:405-420, 461-465, 527-534).
THEOREM SchemaCurrent == Spec => []Current
<1> QED
  BY StartupInit, LedStep, TypeStep, DiskStep, FreshStep, FreshCurrent, PTL DEF Spec

\* No step takes a table out of the schema that the files still declare, and none
\* takes one while a file is broken: a load that fails leaves the schema as it is
\* (server.go:405-420).
THEOREM NoTableIsLost == Spec => NoTableLost
<1>1. TypeOK /\ DiskOK /\ [Next]_vars => [KeepsTables]_vars
  BY StepKeeps
<1> QED
  BY <1>1, StartupInit, LedStep, TypeStep, DiskStep, PTL DEF Spec, NoTableLost, KeepsTables
=============================================================================
