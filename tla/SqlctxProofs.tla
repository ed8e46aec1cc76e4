---------------------------- MODULE SqlctxProofs -----------------------------
(* What tablesInfo holds of a text, and the properties of MCSqlctx.               *)
EXTENDS ScopingProofs

-----------------------------------------------------------------------------
\* What a view is made from is written as it stands, and nothing is said of it.
ViewTokens(body) == Words(<<"CREATE", "VIEW", "v", "AS">> \o Texts(body))

\* The tokens of a view.
LEMMA ViewTokensAre ==
  ASSUME NEW body \in Seq(Tok), NEW p, p = ViewTokens(body)
  PROVE  /\ p \in Seq(Tok) /\ Len(p) = Len(body) + 4
         /\ p[1] = Plain("CREATE") /\ p[2] = Plain("VIEW") /\ p[3] = Plain("v") /\ p[4] = Plain("AS")
         /\ \A j \in 1 .. Len(body) : p[j + 4] = Plain(body[j].text) /\ body[j].text \in Word
<1>1. PICK h, t, x : h = <<"CREATE", "VIEW", "v", "AS">> /\ t = Texts(body) /\ x = h \o t
  OBVIOUS
<1>2. "CREATE" \in Word /\ "VIEW" \in Word /\ "v" \in Word /\ "AS" \in Word
  BY DEF Word, Syntax, AnyName
<1>3. /\ h \in Seq(Word) /\ Len(h) = 4
      /\ h[1] = "CREATE" /\ h[2] = "VIEW" /\ h[3] = "v" /\ h[4] = "AS"
  BY <1>1, <1>2
<1>4. PICK n : n = Len(body)
  OBVIOUS
<1>5. n \in Nat /\ t \in Seq(Word) /\ Len(t) = n
  BY <1>1, <1>4, AtIs
<1>6. \A j \in 1 .. n : t[j] = body[j].text
  <2>1. DOMAIN body = 1 .. n
    BY <1>4
  <2> QED
    BY <1>1, <2>1 DEF Texts
<1>7. h \in Seq(Word) /\ t \in Seq(Word)
  BY <1>3, <1>5
<1>8. /\ x \in Seq(Word) /\ Len(x) = Len(h) + Len(t)
      /\ \A j \in 1 .. Len(h) : x[j] = h[j]
      /\ \A j \in 1 .. Len(t) : x[Len(h) + j] = t[j]
  BY <1>1, <1>7, ConcatIs
<1>9. /\ x \in Seq(Word) /\ Len(x) = n + 4
      /\ x[1] = "CREATE" /\ x[2] = "VIEW" /\ x[3] = "v" /\ x[4] = "AS"
  <2>1. 1 \in 1 .. Len(h) /\ 2 \in 1 .. Len(h) /\ 3 \in 1 .. Len(h) /\ 4 \in 1 .. Len(h)
    BY <1>3
  <2>2. Len(h) + Len(t) = n + 4
    BY <1>3, <1>5
  <2> QED
    BY <1>3, <1>8, <2>1, <2>2
<1>10. \A j \in 1 .. n : x[j + 4] = body[j].text
  <2> SUFFICES ASSUME NEW j \in 1 .. n PROVE x[j + 4] = body[j].text
    OBVIOUS
  <2>1. j \in 1 .. Len(t) /\ Len(h) + j = j + 4
    BY <1>3, <1>5
  <2> QED
    BY <1>6, <1>8, <2>1
<1>11. p = [i \in 1 .. n + 4 |-> Plain(x[i])]
  <2>1. DOMAIN x = 1 .. n + 4
    BY <1>9
  <2> QED
    BY <1>1, <2>1 DEF ViewTokens, Words
<1>12. \A i \in 1 .. n + 4 : x[i] \in Word /\ Plain(x[i]) \in Tok
  <2>1. \A i \in 1 .. n + 4 : x[i] \in Word
    BY <1>9
  <2> QED
    BY <2>1, PlainTokens
<1>13. p \in Seq(Tok) /\ Len(p) = n + 4 /\ \A i \in 1 .. n + 4 : p[i] = Plain(x[i])
  BY <1>5, <1>11, <1>12
<1>14. \A j \in 1 .. n : p[j + 4] = Plain(body[j].text) /\ body[j].text \in Word
  <2> SUFFICES ASSUME NEW j \in 1 .. n PROVE p[j + 4] = Plain(body[j].text) /\ body[j].text \in Word
    OBVIOUS
  <2>1. j + 4 \in 1 .. n + 4
    BY <1>5
  <2>2. p[j + 4] = Plain(x[j + 4]) /\ x[j + 4] \in Word
    BY <1>12, <1>13, <2>1
  <2> QED
    BY <1>10, <2>2
<1>15. p[1] = Plain("CREATE") /\ p[2] = Plain("VIEW") /\ p[3] = Plain("v") /\ p[4] = Plain("AS")
  <2>1. 1 \in 1 .. n + 4 /\ 2 \in 1 .. n + 4 /\ 3 \in 1 .. n + 4 /\ 4 \in 1 .. n + 4
    BY <1>5
  <2> QED
    BY <1>9, <1>13, <2>1
<1> QED
  BY <1>4, <1>13, <1>14, <1>15

\* A view.
IsView(p, q, known) == p = ViewTokens(QueryTokens(q, known))

Viewed(W, q, o, l) ==
  /\ At(W, o + 1) = "CREATE" /\ Left(W, l, "end")
  /\ \A i \in o + 1 .. l : IsPlain(At(W, i), W[i]) /\ At(W, i) # ";"
  /\ \A e \in l + 1 .. Len(W) + 1 :
       Reading(W, o, "range", e) = QueryReads(q) \cup Reading(W, l, "end", e)

\* The query of a view is read like any query.
LEMMA ViewAt ==
  ASSUME NEW W \in Seq(Tok), NEW known, NEW q \in QuerySet, NEW p, IsView(p, q, known),
         NEW o, Occurs(W, o, p), NEW l, l = o + Len(p), Right(W, l, "end")
  PROVE  Viewed(W, q, o, l)
<1>1. PICK body, B, V : /\ body = QueryTokens(q, known) /\ B = BoundByQuery(q)
                        /\ V = DOMAIN CtesOf(q) \cup {q.with[1].name}
  OBVIOUS
<1>2. BoundByQuery(q) \subseteq B /\ WithIn(V, q)
  BY <1>1 DEF WithIn
<1>3. \A U \in Seq(Tok) : body \in Seq(Tok) /\ Piece(U, B, V, known, body, QueryReads(q), "range", "end")
  BY <1>1, <1>2, QueryPiece
<1>4. body \in Seq(Tok)
  BY <1>3
<1>5. /\ p \in Seq(Tok) /\ Len(p) = Len(body) + 4
      /\ p[1] = Plain("CREATE") /\ p[2] = Plain("VIEW") /\ p[3] = Plain("v") /\ p[4] = Plain("AS")
      /\ \A j \in 1 .. Len(body) : p[j + 4] = Plain(body[j].text) /\ body[j].text \in Word
  BY <1>1, <1>4, ViewTokensAre DEF IsView
<1>6. PICK n, m : n = Len(body) /\ m = o + 4
  OBVIOUS
<1>7. /\ o \in Nat /\ n \in Nat /\ Len(W) \in Nat /\ m \in Nat /\ l = m + n /\ l <= Len(W)
      /\ Len(p) = n + 4 /\ l \in Nat
  <2>1. PICK k, h : k = Len(p) /\ h = Len(W)
    OBVIOUS
  <2>2. o \in Nat /\ o + k <= h /\ n \in Nat /\ h \in Nat /\ k = n + 4
    BY <1>4, <1>5, <1>6, <2>1 DEF Occurs
  <2>3. m \in Nat /\ l = m + n /\ l <= h /\ l \in Nat
    BY <1>6, <2>1, <2>2
  <2> QED
    BY <2>1, <2>2, <2>3
<1>8. \A j \in 1 .. n + 4 : W[o + j] = p[j] /\ At(W, o + j) = p[j].text
  <2>1. Len(p) \in Nat
    BY <1>7
  <2>2. \A j \in 1 .. Len(p) : W[o + j] = p[j] /\ At(W, o + j) = p[j].text
    BY <2>1, OccursIn
  <2> QED
    BY <1>7, <2>2
<1>9. /\ IsPlain("CREATE", p[1]) /\ IsPlain("VIEW", p[2]) /\ IsPlain("v", p[3])
      /\ IsPlain("AS", p[4])
  <2>1. "CREATE" \in Word /\ "VIEW" \in Word /\ "v" \in Word /\ "AS" \in Word
    BY DEF Word, Syntax, AnyName
  <2> QED
    BY <1>5, <2>1, PlainIs
<1>10. \A j \in 1 .. n : IsPlain(body[j].text, p[j + 4])
  BY <1>5, <1>6, PlainIs
<1>11. /\ At(W, o + 1) = "CREATE" /\ At(W, o + 2) = "VIEW" /\ At(W, o + 3) = "v"
       /\ At(W, m) = "AS"
  <2>1. 1 \in 1 .. n + 4 /\ 2 \in 1 .. n + 4 /\ 3 \in 1 .. n + 4 /\ 4 \in 1 .. n + 4
    BY <1>7
  <2>2. /\ At(W, o + 1) = p[1].text /\ At(W, o + 2) = p[2].text /\ At(W, o + 3) = p[3].text
        /\ At(W, o + 4) = p[4].text
    BY <1>8, <2>1
  <2> QED
    BY <1>6, <1>9, <2>2 DEF IsPlain
<1>12. TextsOccur(W, m, body)
  <2>1. ASSUME NEW j \in 1 .. n PROVE At(W, m + j) = body[j].text
    <3>1. j + 4 \in 1 .. n + 4 /\ o + (j + 4) = m + j
      BY <1>6, <1>7
    <3>2. At(W, o + (j + 4)) = p[j + 4].text
      BY <1>8, <3>1
    <3>3. p[j + 4].text = body[j].text
      BY <1>10 DEF IsPlain
    <3> QED
      BY <3>1, <3>2, <3>3
  <2> QED
    BY <1>6, <1>7, <2>1 DEF TextsOccur
<1>13. PICK U \in Seq(Tok) : SameTexts(W, U) /\ Occurs(U, m, body)
  BY <1>4, <1>12, Overwritten
<1>14. Right(U, l, "end") /\ m + Len(body) = l
  BY <1>6, <1>7, <1>13, SamePlaces
<1>15. Left(U, m, "range")
  <2>1. Left(W, m, "range")
    BY <1>11 DEF Left
  <2> QED
    BY <2>1, <1>13, SamePlaces
<1>16. /\ Left(U, l, "end")
       /\ \A i \in m + 1 .. l : Role(U, B, V, known, i)
       /\ \A e \in l + 1 .. Len(U) + 1 :
            Reading(U, m, "range", e) = QueryReads(q) \cup Reading(U, l, "end", e)
  BY <1>3, <1>13, <1>14, <1>15 DEF Piece
<1>17. Left(W, l, "end")
  BY <1>13, <1>16, SamePlaces
<1>18. ASSUME NEW i \in o + 1 .. l PROVE IsPlain(At(W, i), W[i]) /\ At(W, i) # ";"
  <2>1. PICK j : j = i - o
    OBVIOUS
  <2>2. j \in 1 .. n + 4 /\ o + j = i
    BY <1>6, <1>7, <2>1
  <2>3. W[i] = p[j] /\ At(W, i) = p[j].text
    BY <1>8, <2>2
  <2>4. IsPlain(p[j].text, p[j])
    <3>1. CASE j \in 1 .. 4
      <4>1. j = 1 \/ j = 2 \/ j = 3 \/ j = 4
        BY <3>1
      <4>2. ASSUME NEW x, NEW t, IsPlain(x, t) PROVE IsPlain(t.text, t)
        BY <4>2 DEF IsPlain
      <4> QED
        BY <1>9, <4>1, <4>2
    <3>2. CASE j \notin 1 .. 4
      <4>1. PICK k : k = j - 4
        OBVIOUS
      <4>2. k \in 1 .. n /\ k + 4 = j
        BY <1>7, <2>2, <3>2, <4>1
      <4>3. IsPlain(body[k].text, p[k + 4])
        BY <1>10, <4>2
      <4> QED
        <5>1. IsPlain(body[k].text, p[j])
          BY <4>2, <4>3
        <5> QED
          BY <5>1 DEF IsPlain
    <3> QED
      BY <3>1, <3>2
  <2>5. At(W, i) # ";"
    <3>1. CASE i \in m + 1 .. l
      <4>1. At(U, i) # ";"
        BY <1>16, <3>1, RoleNoSemicolon
      <4> QED
        BY <4>1, <1>13, SameAt
    <3>2. CASE i \notin m + 1 .. l
      <4>1. i = o + 1 \/ i = o + 2 \/ i = o + 3 \/ i = m
        BY <1>6, <1>7, <3>2
      <4> QED
        BY <4>1, <1>11
    <3> QED
      BY <3>1, <3>2
  <2> QED
    BY <2>3, <2>4, <2>5
<1>19. ASSUME NEW e \in l + 1 .. Len(W) + 1
       PROVE  Reading(W, o, "range", e) = QueryReads(q) \cup Reading(W, l, "end", e)
  <2>1. PICK a, b, c : a = o + 1 /\ b = o + 2 /\ c = o + 3
    OBVIOUS
  <2>2. a \in Nat /\ b \in Nat /\ c \in Nat /\ m \in Nat
    BY <1>6, <1>7, <2>1
  <2>3. a = o + 1 /\ b = a + 1 /\ c = b + 1 /\ m = c + 1
    BY <1>6, <1>7, <2>1
  <2>s. /\ e \in a + 1 .. Len(W) + 1 /\ e \in b + 1 .. Len(W) + 1 /\ e \in c + 1 .. Len(W) + 1
        /\ e \in m + 1 .. Len(W) + 1
    BY <1>7, <2>2, <2>3
  <2>p. Passed(At(W, a)) /\ Passed(At(W, b)) /\ Passed(At(W, c)) /\ Passed(At(W, m))
    BY <1>11, <2>1 DEF Passed, FromKeywords
  <2>k. "range" # "list" /\ "range" \notin {"list", "source"}
    OBVIOUS
  <2>4. Reading(W, o, "range", e) = Reading(W, a, "range", e)
    <3>1. a = o + 1 /\ Passed(At(W, a)) /\ e \in a + 1 .. Len(W) + 1
      BY <2>3, <2>s, <2>p
    <3> QED
      BY <1>7, <2>k, <3>1, SkipReads
  <2>5. Reading(W, a, "range", e) = Reading(W, b, "range", e)
    <3>1. b = a + 1 /\ Passed(At(W, b)) /\ e \in b + 1 .. Len(W) + 1
      BY <2>3, <2>s, <2>p
    <3> QED
      BY <2>2, <2>k, <3>1, SkipReads
  <2>6. Reading(W, b, "range", e) = Reading(W, c, "range", e)
    <3>1. c = b + 1 /\ Passed(At(W, c)) /\ e \in c + 1 .. Len(W) + 1
      BY <2>3, <2>s, <2>p
    <3> QED
      BY <2>2, <2>k, <3>1, SkipReads
  <2>7. Reading(W, c, "range", e) = Reading(W, m, "range", e)
    <3>1. m = c + 1 /\ Passed(At(W, m)) /\ e \in m + 1 .. Len(W) + 1
      BY <2>3, <2>s, <2>p
    <3> QED
      BY <2>2, <2>k, <3>1, SkipReads
  <2>8. Reading(W, m, "range", e) = QueryReads(q) \cup Reading(W, l, "end", e)
    <3>1. Len(U) = Len(W)
      BY <1>13 DEF SameTexts
    <3>2. Reading(U, m, "range", e) = QueryReads(q) \cup Reading(U, l, "end", e)
      BY <1>16, <3>1
    <3>3. Texts(U) = Texts(W)
      BY <1>13 DEF SameTexts
    <3>4. Reading(U, m, "range", e) = Reading(W, m, "range", e)
      BY <3>3 DEF Reading
    <3>5. Reading(U, l, "end", e) = Reading(W, l, "end", e)
      BY <3>3 DEF Reading
    <3> QED
      BY <3>2, <3>4, <3>5
  <2> QED
    BY <2>4, <2>5, <2>6, <2>7, <2>8
<1> QED
  BY <1>11, <1>17, <1>18, <1>19 DEF Viewed
-----------------------------------------------------------------------------
\* The first token of a statement.
First(x, p) == p \in Seq(Tok) /\ Len(p) >= 1 /\ p[1] = Plain(x)

\* The first token of two parts.
LEMMA FirstJoin ==
  ASSUME NEW x, NEW s, First(x, s), NEW t \in Seq(Tok), NEW p, IsJoin(p, s, t)
  PROVE  First(x, p)
<1>1. s \in Seq(Tok)
  BY DEF First
<1>2. /\ p \in Seq(Tok) /\ Len(s) \in Nat /\ Len(t) \in Nat /\ Len(p) = Len(s) + Len(t)
      /\ \A j \in 1 .. Len(s) : p[j] = s[j]
  BY <1>1, ConcatIs DEF IsJoin
<1>3. 1 \in 1 .. Len(s) /\ Len(p) >= 1
  BY <1>2 DEF First
<1> QED
  BY <1>2, <1>3 DEF First

\* The first token, of syntax.
LEMMA FirstOf ==
  ASSUME NEW x \in Word, NEW t \in Seq(Tok), NEW p, IsJoin(p, <<Plain(x)>>, t)
  PROVE  First(x, p)
<1>1. PICK s : s = <<Plain(x)>>
  OBVIOUS
<1>2. s \in Seq(Tok) /\ Len(s) = 1 /\ s[1] = Plain(x)
  BY <1>1, PlainTokens
<1>3. First(x, s)
  BY <1>2 DEF First
<1> QED
  BY <1>1, <1>3, FirstJoin

\* A SELECT begins with SELECT.
LEMMA SelectFirst ==
  ASSUME NEW B, NEW known, NEW q, q.ref \in RefSet,
         NEW frames, DOMAIN frames \in SUBSET Nat,
         \A i \in DOMAIN frames : FrameMeans(B, frames[i]),
         NEW sources \in Seq(Seq(Tok)), Len(sources) \in {1, 2},
         NEW p, p = SelectTokens(q, sources, frames, known)
  PROVE  First("SELECT", p)
<1>1. PICK r : r = RefTokens(q.ref, frames, known)
  OBVIOUS
<1>2. PICK rest : IsSelect(p, r, sources, rest)
  BY <1>1, SelectIs
<1>3. r \in Seq(Tok)
  BY <1>1, RefNoParens
<1>4. PICK a, b : a = <<Plain("SELECT")>> /\ b = <<Plain("FROM")>>
  OBVIOUS
<1>5. /\ "SELECT" \in Word /\ "FROM" \in Word
  BY DEF Word, Syntax
<1>6. a \in Seq(Tok) /\ b \in Seq(Tok) /\ rest \in Seq(Tok)
  BY <1>2, <1>4, <1>5, PlainTokens DEF IsSelect
<1>7. p = ((a \o r) \o b) \o rest
  BY <1>2, <1>4 DEF IsSelect
<1>8. PICK u, v : IsJoin(u, a, r) /\ IsJoin(v, u, b)
  BY DEF IsJoin
<1>9. IsJoin(p, v, rest)
  BY <1>7, <1>8 DEF IsJoin
<1>10. First("SELECT", u)
  BY <1>3, <1>4, <1>5, <1>8, FirstOf
<1>11. First("SELECT", v)
  BY <1>6, <1>8, <1>10, FirstJoin
<1> QED
  BY <1>6, <1>9, <1>11, FirstJoin

\* The type of the sources' tokens.
LEMMA QuerySourcesType ==
  ASSUME NEW known, NEW q \in QuerySet, NEW ctes, NEW B, NEW V,
         BoundByQuery(q) \subseteq B, DOMAIN ctes \subseteq V, CtesBound(B, ctes),
         NEW sources, sources = [i \in DOMAIN q.from |-> SourceTokens(q.from[i], ctes, known)]
  PROVE  sources \in Seq(Seq(Tok)) /\ Len(sources) \in {1, 2}
<1>1. PICK f : f = q.from
  OBVIOUS
<1>2. /\ f \in Seq(SourceSet) /\ Len(f) \in {1, 2} /\ DOMAIN f = 1 .. Len(f)
      /\ \A i \in DOMAIN f : f[i] \in SourceSet /\ BoundBySource(f[i]) \subseteq B
  BY <1>1, QueryIs
<1>3. PICK W : W = <<>>
  OBVIOUS
<1>4. W \in Seq(Tok)
  BY <1>3
<1>5. ASSUME NEW i \in DOMAIN f PROVE sources[i] \in Seq(Tok)
  <2>1. PICK s, t : s = f[i] /\ t = sources[i]
    OBVIOUS
  <2>2. s \in SourceSet /\ BoundBySource(s) \subseteq B /\ t = SourceTokens(s, ctes, known)
    BY <2>1, <1>1, <1>2
  <2>3. t \in Seq(Tok)
    BY <2>2, <1>4, SourcePiece
  <2> QED
    BY <2>1, <2>3
<1>6. sources = [i \in 1 .. Len(f) |-> sources[i]]
  BY <1>1, <1>2
<1>7. \A i \in 1 .. Len(f) : sources[i] \in Seq(Tok)
  BY <1>2, <1>5
<1>8. PICK n : n = Len(f)
  OBVIOUS
<1>9. n \in {1, 2} /\ n \in Nat
  BY <1>2, <1>8
<1>10. sources \in [1 .. n -> Seq(Tok)]
  BY <1>6, <1>7, <1>8
<1>11. sources \in Seq(Seq(Tok)) /\ Len(sources) = n
  <2>1. PICK S : S = Seq(Tok)
    OBVIOUS
  <2>2. sources \in [1 .. n -> S]
    BY <1>10, <2>1
  <2>3. sources \in Seq(S) /\ Len(sources) = n
    BY <1>9, <2>2
  <2> QED
    BY <2>1, <2>3
<1> QED
  BY <1>9, <1>11

\* A query begins with a query verb.
LEMMA QueryFirst ==
  ASSUME NEW known, NEW q \in QuerySet, NEW p, p = QueryTokens(q, known)
  PROVE  /\ \E x \in QueryVerbs \cap Word : First(x, p)
         /\ q.with = <<>> => First("SELECT", p)
<1>1. PICK head, sel, tail :
        /\ head = (IF q.with = <<>> THEN <<>> ELSE WithTokens(q.with[1], known))
        /\ sel = SelectTokens(q, [i \in DOMAIN q.from |-> SourceTokens(q.from[i], CtesOf(q), known)],
                              <<FrameOf(q)>>, known)
        /\ tail = (IF q.where = <<>> THEN <<>>
                   ELSE WhereTokens(q.where[1], CtesOf(q), <<FrameOf(q)>>, known))
  OBVIOUS
<1>2. p = (head \o sel) \o tail
  BY <1>1 DEF QueryTokens, CtesOf, FrameOf, WithTokens, WhereTokens
<1>3. PICK W, B, V : W = <<>> /\ B = BoundByQuery(q) /\ V = DOMAIN CtesOf(q) \cup {q.with[1].name}
  OBVIOUS
<1>4. W \in Seq(Tok) /\ BoundByQuery(q) \subseteq B /\ WithIn(V, q)
  BY <1>3 DEF WithIn
<1>5. sel \in Seq(Tok)
  <2>1. sel \in Seq(Tok) /\ Piece(W, B, V, known, sel, FromReadsOf(q), "range", "rest")
    BY <1>1, <1>4, QuerySelectPiece
  <2> QED
    BY <2>1
<1>6. tail \in Seq(Tok)
  <2>1. CASE q.where = <<>>
    BY <1>1, <2>1
  <2>2. CASE q.where # <<>>
    <3>1. PICK w, f, ref, ctes, g :
            w = q.where[1] /\ f = w.query /\ ref = w.last /\ ctes = CtesOf(q) /\ g = FrameOf(q)
      OBVIOUS
    <3>2. f \in FlatSet /\ ref \in RefSet /\ BoundByFlat(f) \subseteq B
      BY <1>4, <2>2, <3>1, QueryIs
    <3>3. tail = WhereTokens(w, ctes, <<g>>, known)
      BY <1>1, <2>2, <3>1
    <3>4. DOMAIN ctes \subseteq V /\ CtesBound(B, ctes) /\ FrameMeans(B, g)
      BY <1>4, <3>1, ScopeIs
    <3>5. w.query = f /\ w.last = ref
      BY <3>1
    <3>6. tail \in Seq(Tok) /\ Piece(W, B, V, known, tail, FlatReads(f), "rest", "end")
      BY <1>4, <3>2, <3>3, <3>4, <3>5, WherePiece
    <3> QED
      BY <3>6
  <2> QED
    BY <2>1, <2>2
<1>7. First("SELECT", sel)
  <2>1. DOMAIN CtesOf(q) \subseteq V /\ CtesBound(B, CtesOf(q)) /\ FrameMeans(B, FrameOf(q))
    BY <1>4, ScopeIs
  <2>2. PICK frames : frames = <<FrameOf(q)>>
    OBVIOUS
  <2>3. DOMAIN frames \in SUBSET Nat /\ \A i \in DOMAIN frames : FrameMeans(B, frames[i])
    <3>1. DOMAIN frames = {1} /\ frames[1] = FrameOf(q)
      BY <2>2, TupleIs, Zenon
    <3> QED
      BY <2>1, <3>1
  <2>4. PICK sources : sources = [i \in DOMAIN q.from |-> SourceTokens(q.from[i], CtesOf(q), known)]
    OBVIOUS
  <2>5. sources \in Seq(Seq(Tok)) /\ Len(sources) \in {1, 2}
    BY <1>4, <2>1, <2>4, QuerySourcesType
  <2>6. sel = SelectTokens(q, sources, frames, known)
    BY <1>1, <2>2, <2>4
  <2>7. q.ref \in RefSet
    BY QueryIs
  <2> QED
    BY <2>3, <2>5, <2>6, <2>7, SelectFirst
<1>8. PICK u : IsJoin(u, head, sel)
  BY DEF IsJoin
<1>9. IsJoin(p, u, tail)
  BY <1>2, <1>8 DEF IsJoin
<1>s. ASSUME q.with = <<>> PROVE First("SELECT", u)
  <2>1. u = sel
    BY <1>1, <1>5, <1>8, <1>s DEF IsJoin
  <2> QED
    BY <1>7, <2>1
<1>10. \E x \in {"SELECT", "WITH"} : First(x, u)
  <2>1. CASE q.with = <<>>
    BY <1>s, <2>1
  <2>2. CASE q.with # <<>>
    <3>1. PICK w, f, name : w = q.with[1] /\ f = w.query /\ name = w.name
      OBVIOUS
    <3>2. name \in AnyName /\ f \in FlatSet /\ BoundByFlat(f) \subseteq B
      BY <1>4, <2>2, <3>1, QueryIs
    <3>3. head = WithTokens(w, known)
      BY <1>1, <2>2, <3>1
    <3>4. PICK h, t, c : /\ h = Words(<<"WITH", w.name, "AS", "(">>)
                         /\ t = FlatTokens(w.query, <<>>, <<>>, known) /\ c = <<Plain(")")>>
      OBVIOUS
    <3>5. head = (h \o t) \o c
      BY <3>3, <3>4 DEF WithTokens
    <3>6. First("WITH", h)
      <4>1. h = <<Plain("WITH"), Plain(name), Plain("AS"), Plain("(")>>
        BY <3>1, <3>4, WordsAre
      <4>2. "WITH" \in Word /\ name \in Word /\ "AS" \in Word /\ "(" \in Word
        BY <3>2 DEF Word, Syntax
      <4>3. h \in Seq(Tok) /\ Len(h) = 4
        BY <4>1, <4>2, PlainTokens, Few
      <4> QED
        BY <4>1, <4>3 DEF First
    <3>7. t \in Seq(Tok)
      <4>1. PICK none : none = <<>>
        OBVIOUS
      <4>2. DOMAIN none \subseteq V /\ CtesBound(B, none) /\ Outer(B, none)
        BY <4>1 DEF CtesBound, Outer
      <4>3. t = FlatTokens(f, none, none, known)
        BY <3>1, <3>4, <4>1
      <4> QED
        BY <1>4, <3>2, <4>2, <4>3, FlatPiece
    <3>8. c \in Seq(Tok)
      <4>1. ")" \in Word
        BY DEF Word, Syntax
      <4> QED
        BY <3>4, <4>1, PlainTokens
    <3>9. PICK a : IsJoin(a, h, t)
      BY DEF IsJoin
    <3>10. IsJoin(head, a, c)
      BY <3>5, <3>9 DEF IsJoin
    <3>11. First("WITH", a)
      BY <3>6, <3>7, <3>9, FirstJoin
    <3>12. First("WITH", head)
      BY <3>8, <3>10, <3>11, FirstJoin
    <3>13. First("WITH", u)
      BY <1>5, <1>8, <3>12, FirstJoin
    <3> QED
      BY <3>13
  <2> QED
    BY <2>1, <2>2
<1>11. \E x \in {"SELECT", "WITH"} : First(x, p)
  BY <1>6, <1>9, <1>10, FirstJoin
<1>12. {"SELECT", "WITH"} \subseteq QueryVerbs \cap Word
  BY DEF QueryVerbs, Word, Syntax
<1>13. \E x \in QueryVerbs \cap Word : First(x, p)
  BY <1>11, <1>12
<1>14. ASSUME q.with = <<>> PROVE First("SELECT", p)
  BY <1>6, <1>9, <1>s, <1>14, FirstJoin
<1> QED
  BY <1>13, <1>14
-----------------------------------------------------------------------------
\* What is read of a statement.
ReadsOf(s) ==
  IF s.kind = "query" THEN QueryReads(s)
  ELSE IF s.kind = "view" THEN QueryReads(s.query)
  ELSE RealOf(s.from)

\* What the names of a statement need, for its tokens to have their roles.
Scoped(B, V, s) == BoundBy(s) \subseteq B /\ (s.kind = "query" => WithIn(V, s))

\* The kinds of statements.
LEMMA KindsAre ==
  ASSUME NEW s \in StatementSet
  PROVE  \/ s \in QuerySet /\ s.kind = "query"
         \/ s \in ViewSet /\ s.kind = "view" /\ s.query \in QuerySet
         \/ s \in UpdateSet /\ s.kind = "update"
BY DEF StatementSet, QuerySet, ViewSet, UpdateSet

\* The tokens of a statement have their roles, but nothing is said of those of a view.
Placed(W, B, V, known, s, i) ==
  IF s.kind = "view" THEN IsPlain(At(W, i), W[i]) ELSE Role(W, B, V, known, i)

\* The tokens of each kind.
LEMMA StatementIs ==
  ASSUME NEW s \in StatementSet, NEW known, NEW p, p = StatementTokens(s, known)
  PROVE  /\ s.kind = "query" => p = QueryTokens(s, known)
         /\ s.kind = "view" => p = ViewTokens(QueryTokens(s.query, known))
         /\ s.kind = "update" => p = UpdateTokens(s, known)
<1>1. s.kind = "query" => p = QueryTokens(s, known)
  BY DEF StatementTokens
<1>2. s.kind = "update" => p = UpdateTokens(s, known)
  BY DEF StatementTokens, UpdateTokens
<1>3. s.kind = "view" => p = ViewTokens(QueryTokens(s.query, known))
  BY DEF StatementTokens, ViewTokens, Texts
<1> QED
  BY <1>1, <1>2, <1>3

\* Views begin with no query verb, the other statements do.
LEMMA StatementType ==
  ASSUME NEW s \in StatementSet, NEW known, NEW p, p = StatementTokens(s, known)
  PROVE  /\ s.kind = "view" => First("CREATE", p)
         /\ s.kind # "view" => \E x \in QueryVerbs \cap Word : First(x, p)
<1>1. CASE s \in QuerySet /\ s.kind = "query"
  BY <1>1, StatementIs, QueryFirst
<1>2. CASE s \in ViewSet /\ s.kind = "view" /\ s.query \in QuerySet
  <2>1. PICK q, body : q = s.query /\ body = QueryTokens(q, known)
    OBVIOUS
  <2>2. \E x \in QueryVerbs \cap Word : First(x, body)
    BY <1>2, <2>1, QueryFirst
  <2>3. body \in Seq(Tok)
    BY <2>2 DEF First
  <2>4. p = ViewTokens(body)
    BY <1>2, <2>1, StatementIs
  <2>5. p \in Seq(Tok) /\ Len(p) = Len(body) + 4 /\ p[1] = Plain("CREATE")
    BY <2>3, <2>4, ViewTokensAre
  <2>6. Len(p) >= 1
    BY <2>3, <2>5
  <2> QED
    BY <1>2, <2>5, <2>6 DEF First
<1>3. CASE s \in UpdateSet /\ s.kind = "update"
  <2>1. p = UpdateTokens(s, known)
    BY <1>3, StatementIs
  <2>2. PICK W, B, V : W = <<>> /\ B = BoundByTable(s.from) /\ V = {}
    OBVIOUS
  <2>3. p \in Seq(Tok) /\ Piece(W, B, V, known, p, RealOf(s.from), "range", "end")
    <3>1. W \in Seq(Tok) /\ BoundByTable(s.from) \subseteq B
      BY <2>2
    <3> QED
      BY <1>3, <2>1, <3>1, UpdatePiece
  <2>4. PICK h, f, m, r : /\ h = <<Plain("UPDATE")>> /\ f = SourceTokens(s.from, <<>>, known)
                          /\ m = Words(<<"SET", "id", "=">>)
                          /\ r = RefTokens(s.ref, <<Frame(<<s.from>>, <<>>)>>, known)
    OBVIOUS
  <2>5. p = ((h \o f) \o m) \o r
    BY <2>1, <2>4 DEF UpdateTokens
  <2>6. f \in Seq(Tok) /\ m \in Seq(Tok) /\ r \in Seq(Tok)
    <3>1. PICK t, ref, none : t = s.from /\ ref = s.ref /\ none = <<>>
      OBVIOUS
    <3>2. t \in TableSet /\ t \in SourceSet /\ ref \in RefSet /\ t.kind = "table"
      BY <1>3, <3>1 DEF UpdateSet, SourceSet, TableSet
    <3>3. W \in Seq(Tok) /\ DOMAIN none \subseteq V /\ CtesBound(B, none) /\ BoundBySource(t) \subseteq B
      BY <2>2, <3>1, <3>2 DEF CtesBound, BoundBySource
    <3>4. f = SourceTokens(t, none, known)
      BY <2>4, <3>1
    <3>5. f \in Seq(Tok) /\ Piece(W, B, V, known, f, SourceReads(t), "list", "source")
      BY <3>2, <3>3, <3>4, SourcePiece
    <3>6. m \in Seq(Tok) /\ Piece(W, B, V, known, m, {}, "source", "ref")
      BY <2>4, <3>3, SetPiece
    <3>7. PICK from, g, frames : from = <<t>> /\ g = Frame(from, none) /\ frames = <<g>>
      OBVIOUS
    <3>8. FrameMeans(B, g)
      <4>1. from \in Seq(SourceSet) /\ DOMAIN from = {1} /\ from[1] = t
        BY <3>2, <3>7, TupleIs
      <4>2. \A i \in DOMAIN from : BoundBySource(from[i]) \subseteq B
        BY <4>1, <3>3
      <4> QED
        BY <4>1, <4>2, <3>3, <3>7, FrameOfMeans
    <3>9. DOMAIN frames \in SUBSET Nat /\ \A i \in DOMAIN frames : FrameMeans(B, frames[i])
      <4>1. DOMAIN frames = {1} /\ frames[1] = g
        BY <3>7, TupleIs, Zenon
      <4> QED
        BY <4>1, <3>8
    <3>10. r = RefTokens(ref, frames, known)
      BY <2>4, <3>1, <3>7
    <3>11. r \in Seq(Tok) /\ NoParens(r)
      BY <3>2, <3>9, <3>10, RefNoParens
    <3> QED
      BY <3>5, <3>6, <3>11
  <2>7. PICK u, v : IsJoin(u, h, f) /\ IsJoin(v, u, m)
    BY DEF IsJoin
  <2>8. IsJoin(p, v, r)
    BY <2>5, <2>7 DEF IsJoin
  <2>9. "UPDATE" \in QueryVerbs \cap Word
    BY DEF QueryVerbs, Word, Syntax
  <2>10. First("UPDATE", u)
    BY <2>4, <2>6, <2>7, <2>9, FirstOf
  <2>11. First("UPDATE", v)
    BY <2>6, <2>7, <2>10, FirstJoin
  <2>12. First("UPDATE", p)
    BY <2>6, <2>8, <2>11, FirstJoin
  <2> QED
    BY <1>3, <2>9, <2>12
<1> QED
  BY <1>1, <1>2, <1>3, KindsAre

\* A statement between tokens o and l + 1.
Stands(W, B, V, known, s, o, l) ==
  /\ At(W, o + 1) # ","
  /\ \A j \in o + 1 .. l : Placed(W, B, V, known, s, j) /\ At(W, j) # ";"
  /\ \A e \in l + 1 .. Len(W) + 1 :
       Got(Texts(W), "range", o + 1, e) = ReadsOf(s) \cup Got(Texts(W), "range", l + 1, e)

\* A statement in a text.
LEMMA StatementAt ==
  ASSUME NEW W \in Seq(Tok), NEW B, NEW V, NEW known, NEW s \in StatementSet, Scoped(B, V, s),
         NEW p, p = StatementTokens(s, known),
         NEW o, Occurs(W, o, p), NEW l, l = o + Len(p), At(W, o) # ".", At(W, l + 1) \in AfterRange
  PROVE  Stands(W, B, V, known, s, o, l)
<1>1. Left(W, o, "range") /\ Right(W, l, "end")
  BY DEF Left, Right
<1>2. SUFFICES /\ Right(W, o, "range")
               /\ Left(W, l, "end")
               /\ \A i \in o + 1 .. l : Placed(W, B, V, known, s, i) /\ At(W, i) # ";"
               /\ \A e \in l + 1 .. Len(W) + 1 :
                    Reading(W, o, "range", e) = ReadsOf(s) \cup Reading(W, l, "end", e)
  BY DEF Left, Right, Reading, Stands
<1>3. CASE s \in QuerySet /\ s.kind = "query"
  <2>1. BoundByQuery(s) \subseteq B /\ WithIn(V, s)
    BY <1>3 DEF Scoped, BoundBy
  <2>2. p = QueryTokens(s, known)
    BY <1>3, StatementIs
  <2>3. Piece(W, B, V, known, p, QueryReads(s), "range", "end")
    BY <1>3, <2>1, <2>2, QueryPiece
  <2>4. ReadsOf(s) = QueryReads(s)
    BY <1>3 DEF ReadsOf
  <2>5. \A i : Role(W, B, V, known, i) => Placed(W, B, V, known, s, i) /\ At(W, i) # ";"
    BY <1>3, RoleNoSemicolon DEF Placed
  <2> QED
    BY <1>1, <2>3, <2>4, <2>5 DEF Piece
<1>4. CASE s \in ViewSet /\ s.kind = "view" /\ s.query \in QuerySet
  <2>1. PICK q : q = s.query
    OBVIOUS
  <2>2. q \in QuerySet /\ IsView(p, q, known) /\ ReadsOf(s) = QueryReads(q)
    BY <1>4, <2>1, StatementIs DEF ReadsOf, IsView
  <2>3. Viewed(W, q, o, l)
    BY <1>1, <2>2, ViewAt
  <2>4. Right(W, o, "range")
    BY <2>3 DEF Right, Viewed
  <2> QED
    BY <1>4, <2>2, <2>3, <2>4 DEF Placed, Viewed
<1>5. CASE s \in UpdateSet /\ s.kind = "update"
  <2>1. BoundByTable(s.from) \subseteq B
    BY <1>5 DEF Scoped, BoundBy
  <2>2. p = UpdateTokens(s, known)
    BY <1>5, StatementIs
  <2>3. Piece(W, B, V, known, p, RealOf(s.from), "range", "end")
    BY <1>5, <2>1, <2>2, UpdatePiece
  <2>4. ReadsOf(s) = RealOf(s.from)
    BY <1>5 DEF ReadsOf
  <2>5. \A i : Role(W, B, V, known, i) => Placed(W, B, V, known, s, i) /\ At(W, i) # ";"
    BY <1>5, RoleNoSemicolon DEF Placed
  <2> QED
    BY <1>1, <2>3, <2>4, <2>5 DEF Piece
<1> QED
  BY <1>3, <1>4, <1>5, KindsAre
-----------------------------------------------------------------------------
\* The parts of a sequence leave nothing out.
LEMMA Covered ==
  ASSUME NEW X, NEW parts \in Seq(Seq(X)), NEW w, Len(w) \in Nat, NEW off,
         Offsets(off, w, Len(parts), parts), NEW j \in 1 .. Len(w)
  PROVE  \E m \in 1 .. Len(parts) : j \in off[m] + 1 .. off[m + 1]
<1>1. PICK k : k = Len(parts)
  OBVIOUS
<1>2. k \in Nat /\ off \in [1 .. k + 1 -> Nat] /\ off[1] = 0 /\ off[k + 1] = Len(w)
  BY <1>1 DEF Offsets
<1> DEFINE T == {n \in Nat : n <= k /\ j <= off[n + 1] =>
                   \E m \in 1 .. k : j \in off[m] + 1 .. off[m + 1]}
<1>3. 0 \in T
  BY <1>2
<1>4. ASSUME NEW n \in Nat, n \in T PROVE n + 1 \in T
  <2> SUFFICES ASSUME n + 1 <= k, j <= off[(n + 1) + 1]
               PROVE  \E m \in 1 .. k : j \in off[m] + 1 .. off[m + 1]
    OBVIOUS
  <2>1. n <= k /\ n + 1 \in 1 .. k /\ n + 1 \in 1 .. k + 1 /\ (n + 1) + 1 \in 1 .. k + 1
    BY <1>2
  <2>2. PICK a, b : a = off[n + 1] /\ b = off[(n + 1) + 1]
    OBVIOUS
  <2>3. a \in Nat /\ b \in Nat
    BY <1>2, <2>1, <2>2
  <2>4. CASE j <= a
    BY <1>4, <2>1, <2>2, <2>4
  <2>5. CASE ~(j <= a)
    <3>1. j \in a + 1 .. b
      BY <2>2, <2>3, <2>5
    <3> QED
      BY <2>1, <2>2, <3>1
  <2> QED
    BY <2>4, <2>5
<1> HIDE DEF T
<1>5. k \in T
  BY <1>2, <1>3, <1>4, Noting!NatSet
<1> QED
  BY <1>1, <1>2, <1>5 DEF T

\* What is in a flattened sequence.
LEMMA ToSetFlatten ==
  ASSUME NEW X, NEW parts \in Seq(Seq(X))
  PROVE  /\ FlattenSeq(parts) \in Seq(X)
         /\ ToSet(FlattenSeq(parts)) = UNION {ToSet(parts[m]) : m \in DOMAIN parts}
<1>1. PICK w : w = FlattenSeq(parts)
  OBVIOUS
<1>2. w \in Seq(X) /\ \E off : Offsets(off, w, Len(parts), parts)
  BY <1>1, FlattenAt
<1>3. PICK off : Offsets(off, w, Len(parts), parts)
  BY <1>2
<1>4. PICK k : k = Len(parts)
  OBVIOUS
<1>5. /\ k \in Nat /\ DOMAIN parts = 1 .. k /\ Len(w) \in Nat /\ DOMAIN w = 1 .. Len(w)
      /\ off \in [1 .. k + 1 -> Nat]
  BY <1>2, <1>3, <1>4 DEF Offsets
<1>6. ASSUME NEW m \in 1 .. k
      PROVE  /\ parts[m] \in Seq(X) /\ Len(parts[m]) \in Nat /\ DOMAIN parts[m] = 1 .. Len(parts[m])
             /\ off[m] \in Nat /\ off[m + 1] = off[m] + Len(parts[m]) /\ Occurs(w, off[m], parts[m])
  <2>1. parts[m] \in Seq(X)
    BY <1>4
  <2>2. Len(parts[m]) \in Nat /\ DOMAIN parts[m] = 1 .. Len(parts[m])
    BY <2>1
  <2>3. m \in 1 .. k + 1
    BY <1>5
  <2> QED
    BY <1>3, <1>4, <1>5, <2>1, <2>2, <2>3 DEF Offsets
<1>7. ASSUME NEW x \in ToSet(w) PROVE \E m \in 1 .. k : x \in ToSet(parts[m])
  <2>1. PICK j \in 1 .. Len(w) : x = w[j]
    BY <1>5, <1>7 DEF ToSet
  <2>2. PICK m \in 1 .. k : j \in off[m] + 1 .. off[m + 1]
    BY <1>3, <1>4, <1>5, Covered
  <2>3. PICK i, o, p : i = j - off[m] /\ o = off[m] /\ p = parts[m]
    OBVIOUS
  <2>4. o \in Nat /\ Len(p) \in Nat /\ off[m + 1] = o + Len(p) /\ DOMAIN p = 1 .. Len(p)
    BY <1>6, <2>3
  <2>5. i \in 1 .. Len(p) /\ o + i = j
    <3>1. PICK n : n = Len(p)
      OBVIOUS
    <3>2. n \in Nat /\ j \in o + 1 .. o + n /\ i = j - o
      BY <2>2, <2>3, <2>4, <3>1
    <3> QED
      BY <2>4, <3>1, <3>2
  <2>6. w[o + i] = p[i]
    <3>1. Occurs(w, o, p)
      BY <1>6, <2>3
    <3> QED
      BY <3>1, <2>5 DEF Occurs
  <2>7. x \in ToSet(p)
    BY <2>1, <2>4, <2>5, <2>6 DEF ToSet
  <2> QED
    BY <2>3, <2>7
<1>8. ASSUME NEW m \in 1 .. k, NEW x \in ToSet(parts[m]) PROVE x \in ToSet(w)
  <2>1. PICK o, p : o = off[m] /\ p = parts[m]
    OBVIOUS
  <2>2. o \in Nat /\ Len(p) \in Nat /\ DOMAIN p = 1 .. Len(p) /\ Occurs(w, o, p)
    BY <1>6, <2>1
  <2>3. PICK i \in 1 .. Len(p) : x = p[i]
    BY <1>8, <2>1, <2>2 DEF ToSet
  <2>4. x = w[o + i] /\ o + Len(p) <= Len(w)
    BY <2>2, <2>3 DEF Occurs
  <2>5. o + i \in 1 .. Len(w)
    BY <1>5, <2>2, <2>4
  <2> QED
    BY <1>5, <2>4, <2>5 DEF ToSet
<1>9. ToSet(w) = UNION {ToSet(parts[m]) : m \in 1 .. k}
  BY <1>7, <1>8
<1> QED
  BY <1>1, <1>2, <1>5, <1>9
-----------------------------------------------------------------------------
\* Where the statements of a text stand: tokens st[i] + 1 to en[i].
Layout(W, d, known, st, en) ==
  /\ W \in Seq(Tok) /\ st \in [1 .. Len(d) -> Nat] /\ en \in [1 .. Len(d) -> Nat]
  /\ \A i \in 1 .. Len(d) :
       /\ Occurs(W, st[i], StatementTokens(d[i], known))
       /\ en[i] = st[i] + Len(StatementTokens(d[i], known)) /\ en[i] <= Len(W) /\ st[i] < en[i]
       /\ i = 1 => st[i] = 0
       /\ i # 1 => st[i] = en[i - 1] + 1 /\ IsPlain(";", W[st[i]]) /\ At(W, st[i]) = ";"
       /\ i = Len(d) => en[i] = Len(W)
       /\ i # Len(d) => en[i] + 1 = st[i + 1]
  /\ \A j \in 1 .. Len(W) : \E i \in 1 .. Len(d) : j \in st[i] + 1 .. en[i] \/ (i # 1 /\ j = st[i])
Before(i) == IF i = 1 THEN <<>> ELSE <<Plain(";")>>
StatementPart(d, known, i) == Before(i) \o StatementTokens(d[i], known)

\* The length of a sequence.
LEMMA LenIs ==
  ASSUME NEW X, NEW s \in Seq(X)
  PROVE  Len(s) \in Nat /\ DOMAIN s = 1 .. Len(s)
OBVIOUS

\* What stands before a statement: nothing or a semicolon.
LEMMA BeforeIs ==
  ASSUME NEW i
  PROVE  /\ i = 1 => Before(i) = <<>>
         /\ i # 1 => /\ Before(i) \in Seq(Tok) /\ Len(Before(i)) = 1
                     /\ Before(i) = <<Plain(";")>>
<1>1. ";" \in Word
  BY DEF Word, Syntax
<1> QED
  BY <1>1, PlainTokens, Zenon DEF Before

PartOk(i, p, t) ==
  /\ p \in Seq(Tok) /\ Len(p) \in Nat /\ Len(p) >= 1 /\ t \in Seq(Tok)
  /\ i = 1 => t = p
  /\ i # 1 => Len(t) = Len(p) + 1

\* A statement and what stands before it.
LEMMA JoinOk ==
  ASSUME NEW p \in Seq(Tok), Len(p) >= 1, NEW i, NEW t, IsJoin(t, Before(i), p)
  PROVE  PartOk(i, p, t)
<1>1. CASE i = 1
  <2>1. IsJoin(t, <<>>, p)
    BY <1>1, BeforeIs
  <2>2. t = p
    BY <2>1 DEF IsJoin
  <2> QED
    BY <1>1, <2>2, LenIs DEF PartOk
<1>2. CASE i # 1
  <2>1. PICK a : a = Before(i)
    OBVIOUS
  <2>2. a \in Seq(Tok) /\ Len(a) = 1
    BY <1>2, <2>1, BeforeIs
  <2>3. a \in Seq(Tok)
    BY <2>2
  <2>4. t \in Seq(Tok) /\ Len(t) = Len(a) + Len(p) /\ Len(p) \in Nat
    BY <2>1, <2>3, JoinIs
  <2>5. PICK m, n, l : m = Len(t) /\ n = Len(a) /\ l = Len(p)
    OBVIOUS
  <2>6. n = 1 /\ m = n + l /\ l \in Nat
    BY <2>2, <2>4, <2>5, Zenon
  <2>7. m = l + 1
    BY <2>6
  <2>8. Len(t) = Len(p) + 1
    BY <2>5, <2>7, Zenon
  <2> QED
    BY <1>2, <2>4, <2>8 DEF PartOk
<1> QED
  BY <1>1, <1>2

\* So is each part of a text.
LEMMA PartIs ==
  ASSUME NEW s \in StatementSet, NEW known, NEW p, p = StatementTokens(s, known), NEW i,
         NEW t, IsJoin(t, Before(i), p)
  PROVE  PartOk(i, p, t)
<1>1. p \in Seq(Tok) /\ Len(p) >= 1
  BY StatementType DEF First
<1> QED
  BY <1>1, JoinOk, Zenon

\* Where the parts of a text begin and end, its statements do.
LEMMA LaidOut ==
  ASSUME NEW d \in Seq(StatementSet), NEW known,
         NEW W, W = FlattenSeq([i \in DOMAIN d |-> StatementPart(d, known, i)])
  PROVE  W \in Seq(Tok) /\ \E st, en : Layout(W, d, known, st, en)
<1>1. PICK k, parts : k = Len(d) /\ parts = [i \in 1 .. k |-> StatementPart(d, known, i)]
  OBVIOUS
<1>2. k \in Nat /\ DOMAIN d = 1 .. k /\ \A i \in 1 .. k : d[i] \in StatementSet
  BY <1>1
<1> DEFINE S(i) == StatementTokens(d[i], known)
           P(i) == StatementPart(d, known, i)
<1>3. ASSUME NEW i \in 1 .. k
      PROVE  PartOk(i, S(i), P(i)) /\ IsJoin(P(i), Before(i), S(i))
  <2>1. PICK s : s = d[i]
    OBVIOUS
  <2>2. s \in StatementSet /\ S(i) = StatementTokens(s, known) /\ IsJoin(P(i), Before(i), S(i))
    BY <2>1, <1>2 DEF StatementPart, IsJoin
  <2>3. PICK p, t : p = S(i) /\ t = P(i)
    OBVIOUS
  <2>4. p = StatementTokens(s, known) /\ IsJoin(t, Before(i), p)
    BY <2>2, <2>3
  <2>5. PartOk(i, p, t)
    BY <2>2, <2>4, PartIs
  <2> QED
    BY <2>2, <2>3, <2>5
<1>s. \A i : S(i) = StatementTokens(d[i], known)
  OBVIOUS
<1>4. \A i \in 1 .. k : parts[i] = P(i)
  BY <1>1
<1> HIDE DEF S, P
<1>5. parts \in Seq(Seq(Tok)) /\ Len(parts) = k
  <2>1. parts = [i \in 1 .. k |-> parts[i]]
    BY <1>1
  <2>2. \A i \in 1 .. k : parts[i] \in Seq(Tok)
    BY <1>3, <1>4 DEF PartOk
  <2>3. parts \in [1 .. k -> Seq(Tok)]
    BY <2>1, <2>2
  <2> QED
    BY <1>2, <2>3
<1>6. W = FlattenSeq(parts)
  BY <1>1, <1>2
<1>7. W \in Seq(Tok) /\ \E off : Offsets(off, W, k, parts)
  BY <1>5, <1>6, FlattenAt
<1>8. PICK off : Offsets(off, W, k, parts)
  BY <1>7
<1>9. off \in [1 .. k + 1 -> Nat] /\ off[1] = 0 /\ off[k + 1] = Len(W)
  BY <1>8 DEF Offsets
<1>10. PICK st, en : /\ st = [i \in 1 .. k |-> IF i = 1 THEN off[i] ELSE off[i] + 1]
                     /\ en = [i \in 1 .. k |-> off[i + 1]]
  OBVIOUS
<1>11. ASSUME NEW i \in 1 .. k
       PROVE  /\ off[i] \in Nat /\ off[i + 1] \in Nat
              /\ st[i] = (IF i = 1 THEN off[i] ELSE off[i] + 1) /\ en[i] = off[i + 1]
  BY <1>2, <1>9, <1>10
<1>12. ASSUME NEW i \in 1 .. k
       PROVE  /\ Occurs(W, st[i], S(i)) /\ en[i] = st[i] + Len(S(i))
              /\ i # 1 => IsPlain(";", W[st[i]]) /\ At(W, st[i]) = ";"
  <2>1. Occurs(W, off[i], P(i)) /\ off[i + 1] = off[i] + Len(P(i))
    BY <1>4, <1>8 DEF Offsets
  <2>2. CASE i = 1
    <3>1. P(i) = S(i) /\ st[i] = off[i]
      BY <1>3, <1>11, <2>2 DEF PartOk
    <3> QED
      BY <2>1, <2>2, <3>1, <1>11
  <2>3. CASE i # 1
    <3>1. PICK o, s, c, p : o = off[i] /\ s = S(i) /\ c = Before(i) /\ p = P(i)
      OBVIOUS
    <3>2. s \in Seq(Tok) /\ IsJoin(p, c, s) /\ Len(p) = Len(s) + 1 /\ Len(s) \in Nat
      BY <1>3, <2>3, <3>1 DEF PartOk
    <3>3. c \in Seq(Tok) /\ Len(c) = 1 /\ c = <<Plain(";")>>
      BY <2>3, <3>1, BeforeIs
    <3>c. c \in Seq(Tok)
      BY <3>3
    <3>o. Occurs(W, o, p)
      BY <2>1, <3>1
    <3>4. Occurs(W, o, c) /\ Occurs(W, o + Len(c), s)
      BY <1>7, <3>2, <3>c, <3>o, OccursConcat
    <3>5. Occurs(W, o + 1, s) /\ Occurs(W, o, <<Plain(";")>>)
      BY <3>3, <3>4, Zenon
    <3>6. At(W, o + 1) = ";" /\ IsPlain(";", W[o + 1])
      <4>1. ";" \in Word
        BY DEF Word, Syntax
      <4> QED
        BY <1>7, <4>1, <3>5, PlainAt
    <3>7. PICK m, n : m = Len(p) /\ n = Len(s)
      OBVIOUS
    <3>s. st[i] = o + 1 /\ en[i] = o + m /\ o \in Nat /\ n \in Nat /\ m = n + 1
      BY <1>11, <2>1, <2>3, <3>1, <3>2, <3>7, Zenon
    <3>e. en[i] = st[i] + n
      BY <3>s
    <3>8. en[i] = st[i] + Len(s)
      BY <3>7, <3>e, Zenon
    <3> QED
      BY <3>1, <3>5, <3>6, <3>s, <3>8
  <2> QED
    BY <2>2, <2>3
<1>13. ASSUME NEW i \in 1 .. k
       PROVE  /\ st[i] \in Nat /\ en[i] \in Nat /\ st[i] < en[i] /\ en[i] <= Len(W)
              /\ i = 1 => st[i] = 0
              /\ i # 1 => st[i] = en[i - 1] + 1
              /\ i = k => en[i] = Len(W)
              /\ i # k => en[i] + 1 = st[i + 1]
  <2>1. st[i] \in Nat /\ en[i] \in Nat
    BY <1>11
  <2>2. en[i] = st[i] + Len(S(i)) /\ Len(S(i)) \in Nat /\ Len(S(i)) >= 1
    BY <1>3, <1>12 DEF PartOk
  <2>3. st[i] < en[i]
    BY <2>1, <2>2
  <2>4. en[i] <= Len(W)
    <3>1. st[i] + Len(S(i)) <= Len(W)
      BY <1>12 DEF Occurs
    <3> QED
      BY <2>2, <3>1
  <2>5. i = 1 => st[i] = 0
    BY <1>9, <1>11
  <2>6. ASSUME i # 1 PROVE st[i] = en[i - 1] + 1
    <3>1. i - 1 \in 1 .. k /\ (i - 1) + 1 = i
      BY <1>2, <2>6
    <3>2. en[i - 1] = off[(i - 1) + 1]
      BY <1>11, <3>1
    <3> QED
      BY <1>11, <2>6, <3>1, <3>2
  <2>7. i = k => en[i] = Len(W)
    BY <1>9, <1>11
  <2>8. ASSUME i # k PROVE en[i] + 1 = st[i + 1]
    <3>1. i + 1 \in 1 .. k /\ i + 1 # 1
      BY <1>2, <2>8
    <3>2. st[i + 1] = off[i + 1] + 1
      BY <1>11, <3>1
    <3> QED
      BY <1>11, <3>2
  <2> QED
    BY <2>1, <2>3, <2>4, <2>5, <2>6, <2>7, <2>8
<1>14. ASSUME NEW j \in 1 .. Len(W)
       PROVE  \E i \in 1 .. k : j \in st[i] + 1 .. en[i] \/ (i # 1 /\ j = st[i])
  <2>1. PICK i \in 1 .. k : j \in off[i] + 1 .. off[i + 1]
    <3>1. Len(W) \in Nat
      BY <1>7
    <3>2. \E m \in 1 .. Len(parts) : j \in off[m] + 1 .. off[m + 1]
      BY <1>5, <1>8, <3>1, Covered
    <3> QED
      BY <1>5, <3>2
  <2>2. PICK a, b : a = off[i] /\ b = off[i + 1]
    OBVIOUS
  <2>3. a \in Nat /\ b \in Nat /\ st[i] = (IF i = 1 THEN a ELSE a + 1) /\ en[i] = b /\ j \in a + 1 .. b
    BY <1>11, <2>1, <2>2
  <2>4. j \in st[i] + 1 .. en[i] \/ (i # 1 /\ j = st[i])
    BY <2>3
  <2> QED
    BY <2>4
<1>15. st \in [1 .. k -> Nat] /\ en \in [1 .. k -> Nat]
  <2>1. st = [i \in 1 .. k |-> st[i]] /\ en = [i \in 1 .. k |-> en[i]]
    BY <1>10
  <2> QED
    BY <2>1, <1>13
<1>16. Layout(W, d, known, st, en)
  BY <1>1, <1>7, <1>12, <1>13, <1>14, <1>15, <1>s DEF Layout
<1> QED
  BY <1>7, <1>16
-----------------------------------------------------------------------------
(* A text as a whole. *)

\* Before and after the text there is no token.
LEMMA AtEnds ==
  ASSUME NEW W \in Seq(Tok), NEW n, n = Len(W)
  PROVE  n \in Nat /\ At(W, 0) = "" /\ At(W, n + 1) = ""
<1>1. n \in Nat /\ DOMAIN W = 1 .. n
  BY LenIs
<1>2. 0 \notin DOMAIN W /\ n + 1 \notin DOMAIN W
  BY <1>1
<1> QED
  BY <1>1, <1>2, Zenon DEF At

\* Where a statement begins and ends, of k in n tokens.
Ends(W, st, en, i, k, n) ==
  /\ st[i] \in Nat /\ en[i] \in Nat /\ n \in Nat
  /\ st[i] < en[i] /\ en[i] <= n
  /\ i = 1 => st[i] = 0 /\ At(W, st[i]) = ""
  /\ i # 1 => i - 1 \in 1 .. k /\ st[i] = en[i - 1] + 1 /\ At(W, st[i]) = ";"
  /\ i = k => en[i] = n /\ At(W, en[i] + 1) = ""
  /\ i # k => i + 1 \in 1 .. k /\ en[i] + 1 = st[i + 1] /\ At(W, en[i] + 1) = ";"

\* A statement ends where the next one begins, or the text ends.
LEMMA EndIs ==
  ASSUME NEW d, NEW known, NEW W, NEW st, NEW en, Layout(W, d, known, st, en),
         NEW k \in Nat, k = Len(d), NEW n, n = Len(W), NEW i \in 1 .. k
  PROVE  Ends(W, st, en, i, k, n)
<1>1. W \in Seq(Tok)
  BY DEF Layout
<1>z. n \in Nat /\ At(W, 0) = "" /\ At(W, n + 1) = ""
  BY <1>1, AtEnds
<1>2. /\ st[i] \in Nat /\ en[i] \in Nat /\ st[i] < en[i] /\ en[i] <= n
      /\ i = 1 => st[i] = 0
      /\ i # 1 => st[i] = en[i - 1] + 1 /\ At(W, st[i]) = ";"
      /\ i = k => en[i] = n
      /\ i # k => en[i] + 1 = st[i + 1]
  BY DEF Layout
<1>3. i = 1 => At(W, st[i]) = ""
  BY <1>z, <1>2, Zenon
<1>4. i = k => At(W, en[i] + 1) = ""
  BY <1>z, <1>2, Zenon
<1>5. ASSUME i # k PROVE i + 1 \in 1 .. k /\ At(W, en[i] + 1) = ";"
  <2>1. i + 1 \in 1 .. k /\ i + 1 # 1
    BY <1>5
  <2>2. At(W, st[i + 1]) = ";"
    BY <2>1 DEF Layout
  <2> QED
    BY <1>2, <1>5, <2>1, <2>2, Zenon
<1>6. i # 1 => i - 1 \in 1 .. k
  OBVIOUS
<1> QED
  BY <1>z, <1>2, <1>3, <1>4, <1>5, <1>6, Zenon DEF Ends

\* The statements of a text, each where it stands.
LEMMA StatementsAt ==
  ASSUME NEW d \in Seq(StatementSet), NEW known, NEW W, NEW st, NEW en, Layout(W, d, known, st, en),
         NEW k \in Nat, k = Len(d),
         NEW i \in 1 .. k, NEW B, NEW V, Scoped(B, V, d[i])
  PROVE  Stands(W, B, V, known, d[i], st[i], en[i])
<1>1. PICK s, p, o, l, n :
        s = d[i] /\ p = StatementTokens(d[i], known) /\ o = st[i] /\ l = en[i] /\ n = Len(W)
  OBVIOUS
<1>2. W \in Seq(Tok) /\ Occurs(W, st[i], StatementTokens(d[i], known))
      /\ en[i] = st[i] + Len(StatementTokens(d[i], known))
  BY DEF Layout
<1>s. d[i] \in StatementSet
  OBVIOUS
<1>3. Ends(W, st, en, i, k, n)
  BY <1>1, EndIs
<1>4. At(W, st[i]) \in {"", ";"} /\ At(W, en[i] + 1) \in {"", ";"}
  BY <1>3, Zenon DEF Ends
<1>5. At(W, o) # "." /\ At(W, l + 1) \in AfterRange
  BY <1>1, <1>4 DEF AfterRange, AfterSource, AfterQuery
<1>6. /\ Scoped(B, V, s) /\ p = StatementTokens(s, known) /\ s \in StatementSet
      /\ W \in Seq(Tok) /\ Occurs(W, o, p) /\ l = o + Len(p)
  BY <1>1, <1>2, <1>s, Zenon
<1>8. Stands(W, B, V, known, s, o, l)
  BY <1>5, <1>6, StatementAt
<1> QED
  BY <1>1, <1>8, Zenon

\* At the end of what is read there is nothing to read.
LEMMA NothingMore ==
  ASSUME NEW W \in Seq(Tok), NEW z \in Nat, z = Len(W) + 1
  PROVE  Got(Texts(W), "range", z, z) = {}
<1>1. Texts(W) \in Seq(Word) /\ Len(Texts(W)) = Len(W) /\ Len(W) \in Nat
  BY AtIs
<1>2. z \in 1 .. Len(Texts(W)) + 1 /\ z \in 0 .. Len(Texts(W)) + 1 /\ z >= z
  BY <1>1
<1>3. Got(Texts(W), "range", z, z) = {}
  BY <1>1, <1>2, GotAt
<1> QED
  BY <1>3

ReadsFrom(d, i) == UNION {ReadsOf(d[m]) : m \in i .. Len(d)}

\* What is read from a statement on is what is read of it and of those after it.
LEMMA ReadsFromIs ==
  ASSUME NEW d, NEW k \in Nat, k = Len(d), NEW i \in 1 .. k
  PROVE  /\ ReadsFrom(d, k) = ReadsOf(d[k])
         /\ i # k => ReadsFrom(d, i) = ReadsOf(d[i]) \cup ReadsFrom(d, i + 1)
<1>1. k .. Len(d) = {k}
  OBVIOUS
<1>2. i # k => i .. Len(d) = {i} \cup (i + 1 .. Len(d))
  OBVIOUS
<1> QED
  BY <1>1, <1>2 DEF ReadsFrom

\* What is read from the i-th statement on.
ReadHere(W, d, st, i, k, n) ==
  /\ i = k => Got(Texts(W), "range", st[i] + 1, n + 1) = ReadsOf(d[i])
  /\ i # k => Got(Texts(W), "range", st[i] + 1, n + 1)
               = ReadsOf(d[i]) \cup Got(Texts(W), "range", st[i + 1] + 1, n + 1)

\* What the extractor reads from a statement on.
LEMMA FromStatement ==
  ASSUME NEW d \in Seq(StatementSet), NEW known, NEW W, NEW st, NEW en, Layout(W, d, known, st, en),
         NEW k \in Nat, k = Len(d), NEW n, n = Len(W),
         NEW i \in 1 .. k, NEW B, NEW V, Scoped(B, V, d[i])
  PROVE  ReadHere(W, d, st, i, k, n)
<1>1. Ends(W, st, en, i, k, n)
  BY EndIs
<1>2. Stands(W, B, V, known, d[i], st[i], en[i])
  BY StatementsAt
<1>w. W \in Seq(Tok)
  BY DEF Layout
<1>3. PICK b, h, R, S, m :
        b = en[i] /\ h = en[i] + 1 /\ R = ReadsOf(d[i]) /\ m = h + 1
        /\ S = Got(Texts(W), "range", st[i] + 1, n + 1)
  OBVIOUS
<1>p. PICK a : a = st[i]
  OBVIOUS
<1>q. a \in Nat /\ b \in Nat /\ a < b /\ b <= n /\ n \in Nat /\ h = b + 1 /\ m = h + 1
  BY <1>1, <1>3, <1>p, Zenon DEF Ends
<1>4. b \in Nat /\ b <= n /\ n \in Nat /\ h = b + 1 /\ h \in Nat /\ 1 <= h /\ m = h + 1
  BY <1>q
<1>5. n + 1 \in h .. n + 1
  BY <1>4
<1>6. S = R \cup Got(Texts(W), "range", h, n + 1)
  BY <1>2, <1>3, <1>5, Zenon DEF Stands
<1>7. ASSUME i = k PROVE S = R
  <2>1. b = n
    BY <1>1, <1>3, <1>7, Zenon DEF Ends
  <2>2. h = n + 1
    BY <1>4, <2>1
  <2>3. Got(Texts(W), "range", h, h) = {}
    BY <1>w, <2>2, NothingMore
  <2> QED
    BY <1>6, <2>2, <2>3
<1>8. ASSUME i # k PROVE S = R \cup Got(Texts(W), "range", st[i + 1] + 1, n + 1)
  <2>1. i + 1 \in 1 .. k /\ h = st[i + 1] /\ At(W, h) = ";"
    BY <1>1, <1>3, <1>8, Zenon DEF Ends
  <2>2. Ends(W, st, en, i + 1, k, n)
    BY <2>1, EndIs
  <2>3. PICK u : u = en[i + 1]
    OBVIOUS
  <2>4. h < u /\ u <= n /\ u \in Nat
    BY <2>1, <2>2, <2>3, Zenon DEF Ends
  <2>5. n + 1 \in m .. n + 1
    BY <1>4, <2>4
  <2>6. n + 1 \in m .. Len(W) + 1 /\ At(W, h) \notin FromKeywords \cup {"WITH"}
    BY <2>1, <2>5 DEF FromKeywords
  <2>7. Got(Texts(W), "range", h, n + 1) = Got(Texts(W), "range", m, n + 1)
    BY <1>w, <1>4, <2>6, GotSkip
  <2> QED
    BY <1>3, <1>6, <2>1, <2>7, Zenon
<1> QED
  BY <1>3, <1>7, <1>8, Zenon DEF ReadHere

\* What is read of a text is what is read of its statements.
LEMMA TextReads ==
  ASSUME NEW d \in Seq(StatementSet), NEW known, NEW W, NEW st, NEW en, Layout(W, d, known, st, en),
         NEW B, NEW V, \A i \in 1 .. Len(d) : Scoped(B, V, d[i])
  PROVE  Got(Texts(W), "range", 1, Len(W) + 1) = ReadsFrom(d, 1)
<1>1. PICK k, n : k = Len(d) /\ n = Len(W)
  OBVIOUS
<1>2. W \in Seq(Tok)
  BY DEF Layout
<1>n. k \in Nat /\ n \in Nat
  BY <1>1, <1>2, LenIs
<1>r. \A i \in 1 .. k : Scoped(B, V, d[i])
  BY <1>1
<1> DEFINE G(i) == Got(Texts(W), "range", st[i] + 1, n + 1)
<1>3. ASSUME NEW i \in 1 .. k PROVE /\ i = k => G(i) = ReadsOf(d[i])
                                    /\ i # k => G(i) = ReadsOf(d[i]) \cup G(i + 1)
  <2>1. Scoped(B, V, d[i])
    BY <1>r
  <2>2. ReadHere(W, d, st, i, k, n)
    BY <1>1, <1>n, <2>1, FromStatement
  <2> QED
    BY <2>2 DEF ReadHere
<1>g. \A i : G(i) = Got(Texts(W), "range", st[i] + 1, n + 1)
  OBVIOUS
<1> HIDE DEF G
<1> DEFINE T == {m \in Nat : m < k => G(k - m) = ReadsFrom(d, k - m)}
<1>4. 0 \in T
  <2>1. ASSUME 0 < k PROVE G(k - 0) = ReadsFrom(d, k - 0)
    <3>1. k \in 1 .. k /\ k - 0 = k
      BY <1>n, <2>1
    <3> QED
      BY <1>1, <1>n, <1>3, <3>1, ReadsFromIs
  <2> QED
    BY <2>1
<1>5. ASSUME NEW m \in Nat, m \in T PROVE m + 1 \in T
  <2>1. ASSUME m + 1 < k PROVE G(k - (m + 1)) = ReadsFrom(d, k - (m + 1))
    <3>1. PICK i : i = k - (m + 1)
      OBVIOUS
    <3>2. i \in 1 .. k /\ i # k /\ i + 1 = k - m /\ m < k
      BY <1>n, <2>1, <3>1
    <3>3. G(i + 1) = ReadsFrom(d, i + 1)
      BY <1>5, <3>2
    <3>4. G(i) = ReadsOf(d[i]) \cup G(i + 1)
      BY <1>3, <3>2
    <3>5. ReadsFrom(d, i) = ReadsOf(d[i]) \cup ReadsFrom(d, i + 1)
      BY <1>1, <1>n, <3>2, ReadsFromIs
    <3> QED
      BY <3>1, <3>3, <3>4, <3>5
  <2> QED
    BY <2>1
<1>t. \A m \in T : m < k => G(k - m) = ReadsFrom(d, k - m)
  OBVIOUS
<1> HIDE DEF T
<1>6. Nat \subseteq T
  BY <1>4, <1>5, Noting!NatSet
<1>7. CASE k = 0
  <2>1. 1 .. k = {}
    BY <1>7
  <2>2. ReadsFrom(d, 1) = {}
    BY <1>1, <2>1 DEF ReadsFrom
  <2>3. n = 0
    <3>1. \A j \in 1 .. n : FALSE
      BY <1>1, <2>1 DEF Layout
    <3> QED
      BY <1>n, <3>1
  <2>4. n + 1 = 1
    BY <2>3
  <2>5. Got(Texts(W), "range", n + 1, n + 1) = {}
    BY <1>1, <1>2, NothingMore
  <2> QED
    BY <1>1, <2>2, <2>4, <2>5, Zenon
<1>8. CASE k # 0
  <2>1. k - 1 \in Nat /\ k - 1 < k /\ k - (k - 1) = 1 /\ 1 \in 1 .. k
    BY <1>n, <1>8
  <2>2. G(1) = ReadsFrom(d, 1)
    BY <1>6, <1>t, <2>1
  <2>3. st[1] = 0
    BY <1>1, <2>1 DEF Layout
  <2>4. st[1] + 1 = 1
    BY <2>3
  <2> QED
    BY <1>1, <2>2, <2>4, <1>g, Zenon
<1> QED
  BY <1>7, <1>8
-----------------------------------------------------------------------------
\* The greatest of a set.
LEMMA MaxIs ==
  ASSUME NEW n \in Nat, NEW t \in SUBSET (0 .. n), NEW a \in t, \A y \in t : y <= a
  PROVE  Max(t) = a
<1>0. t # {}
  OBVIOUS
<1>1. Max(t) \in t /\ \A y \in t : y <= Max(t)
  BY <1>0, Noting!MaxOf DEF Max, Noting!Max
<1>2. PICK m : m = Max(t)
  OBVIOUS
<1>3. m \in t /\ m <= a /\ a <= m
  BY <1>1, <1>2, Zenon
<1>4. m = a
  BY <1>3
<1> QED
  BY <1>2, <1>4

\* The least of a set.
LEMMA MinIs ==
  ASSUME NEW t \in SUBSET Nat, NEW a \in t, \A y \in t : a <= y
  PROVE  Min(t) = a
<1>0. t # {}
  OBVIOUS
<1>1. Min(t) \in t /\ \A y \in t : Min(t) <= y
  BY <1>0, MinIn
<1>2. PICK m : m = Min(t)
  OBVIOUS
<1>3. m \in t /\ m <= a /\ a <= m
  BY <1>1, <1>2, Zenon
<1>4. m = a
  BY <1>3
<1> QED
  BY <1>2, <1>4

\* The last number of S before j.
LEMMA LastOf ==
  ASSUME NEW S, NEW a \in Nat, NEW b \in Nat, a # 0 => a \in S, \A i \in a + 1 .. b : i \notin S,
         NEW j \in a + 1 .. b
  PROVE  Max({0} \cup (1 .. j - 1 \cap S)) = a
<1>1. PICK t : t = {0} \cup (1 .. j - 1 \cap S)
  OBVIOUS
<1>2. j \in Nat /\ t \in SUBSET (0 .. j) /\ a \in t
  BY <1>1
<1>3. \A y \in t : y <= a
  BY <1>1
<1> QED
  BY <1>1, <1>2, <1>3, MaxIs

Semicolons(X) == {k \in 1 .. Len(X) : X[k] = ";"}

\* The semicolons before and after a place.
LEMMA SemicolonsOf ==
  ASSUME NEW X \in Seq(Word), NEW j \in 1 .. Len(X)
  PROVE  /\ {k \in 1 .. j - 1 : X[k] = ";"} = 1 .. j - 1 \cap Semicolons(X)
         /\ {k \in j .. Len(X) : X[k] = ";"} = j .. Len(X) \cap Semicolons(X)
<1>1. Len(X) \in Nat
  OBVIOUS
<1>2. 1 .. j - 1 \subseteq 1 .. Len(X) /\ j .. Len(X) \subseteq 1 .. Len(X)
  BY <1>1
<1> QED
  BY <1>2, Zenon DEF Semicolons

\* Tokens a + 1 to b are a statement: there is no semicolon in them, but before and behind.
IsStatement(X, a, b) ==
  /\ a \in Nat /\ b \in Nat /\ a < b /\ b <= Len(X)
  /\ a # 0 => a \in Semicolons(X)
  /\ b # Len(X) => b + 1 \in Semicolons(X)
  /\ \A i \in a + 1 .. b : i \notin Semicolons(X)

\* The statement of a token begins and ends at the semicolons around it.
LEMMA BoundsAre ==
  ASSUME NEW X \in Seq(Word), NEW a, NEW b, IsStatement(X, a, b), NEW j \in a + 1 .. b
  PROVE  /\ StatementStart(X, j) = a + 1
         /\ StatementEnd(X, j) = b + 1
<1>1. PICK S, n : S = Semicolons(X) /\ n = Len(X)
  OBVIOUS
<1>2. /\ n \in Nat /\ a \in Nat /\ b \in Nat /\ b <= n
      /\ (a # 0 => a \in S) /\ (b # n => b + 1 \in S) /\ \A i \in a + 1 .. b : i \notin S
  BY <1>1, LenIs DEF IsStatement
<1>3. j \in 1 .. n
  BY <1>2
<1>4. Max({0} \cup (1 .. j - 1 \cap S)) = a
  BY <1>2, LastOf
<1>5. Min((j .. n \cap S) \cup {n + 1}) = b + 1
  <2>1. n \in Nat /\ a \in Nat /\ b \in Nat /\ b <= n /\ j \in a + 1 .. b
    BY <1>2
  <2>2. b # n => b + 1 \in S
    BY <1>2
  <2>3. \A i \in a + 1 .. b : i \notin S
    BY <1>2
  <2>4. (j .. n \cap S) \cup {n + 1} \in SUBSET Nat /\ b + 1 \in (j .. n \cap S) \cup {n + 1}
    BY <2>1, <2>2
  <2>5. \A y \in (j .. n \cap S) \cup {n + 1} : b + 1 <= y
    BY <2>1, <2>3
  <2> QED
    BY <2>1, <2>4, <2>5, MinIs
<1>6. j \in 1 .. Len(X)
  BY <1>1, <1>3
<1>7. /\ {k \in 1 .. j - 1 : X[k] = ";"} = 1 .. j - 1 \cap S
      /\ {k \in j .. n : X[k] = ";"} = j .. n \cap S
  BY <1>1, <1>6, SemicolonsOf
<1>8. StatementStart(X, j) = 1 + a
  BY <1>4, <1>7, Zenon DEF StatementStart
<1>9. StatementEnd(X, j) = b + 1
  BY <1>1, <1>5, <1>7, Zenon DEF StatementEnd
<1>10. 1 + a = a + 1
  BY <1>2
<1> QED
  BY <1>8, <1>9, <1>10, Zenon

\* A statement ends behind its tokens.
LEMMA EndType ==
  ASSUME NEW X \in Seq(Word), NEW i \in 1 .. Len(X)
  PROVE  StatementEnd(X, i) \in i .. Len(X) + 1
<1>1. PICK t, n, u : n = Len(X) /\ u = (i .. n \cap Semicolons(X)) /\ t = u \cup {n + 1}
  OBVIOUS
<1>2. n \in Nat /\ i \in 1 .. n
  BY <1>1, LenIs
<1>3. t \in SUBSET Nat /\ t # {} /\ \A k \in t : k \in i .. n + 1
  BY <1>1, <1>2
<1>4. Min(t) \in t
  BY <1>3, MinIn
<1>5. Min(t) \in i .. n + 1
  BY <1>3, <1>4, Zenon
<1>6. {k \in i .. Len(X) : X[k] = ";"} = u
  BY <1>1, SemicolonsOf
<1> QED
  BY <1>1, <1>5, <1>6, Zenon DEF StatementEnd

\* The statements of a text, told from its tokens.
LEMMA StatementFound ==
  ASSUME NEW d \in Seq(StatementSet), NEW known, NEW W, NEW st, NEW en, Layout(W, d, known, st, en),
         NEW k \in Nat, k = Len(d),
         NEW i \in 1 .. k, NEW B, NEW V, Scoped(B, V, d[i])
  PROVE  IsStatement(Texts(W), st[i], en[i])
<1>1. PICK n, a, b, X : n = Len(W) /\ a = st[i] /\ b = en[i] /\ X = Texts(W)
  OBVIOUS
<1>2. W \in Seq(Tok)
  BY DEF Layout
<1>3. Ends(W, st, en, i, k, n)
  BY <1>1, EndIs
<1>4. Stands(W, B, V, known, d[i], st[i], en[i])
  BY StatementsAt
<1>5. /\ a \in Nat /\ b \in Nat /\ n \in Nat /\ a < b /\ b <= n
  BY <1>1, <1>3, Zenon DEF Ends
<1>s. /\ a # 0 => At(W, a) = ";"
      /\ b # n => At(W, b + 1) = ";"
  BY <1>1, <1>3, Zenon DEF Ends
<1>6. \A j \in a + 1 .. b : At(W, j) # ";"
  BY <1>1, <1>4, Zenon DEF Stands
<1>7. Len(X) = n /\ \A j \in 1 .. n : X[j] = At(W, j)
  BY <1>1, <1>2, AtIs
<1>8. a # 0 => a \in Semicolons(X)
  <2>1. a # 0 => a \in 1 .. n
    BY <1>5
  <2> QED
    BY <1>s, <1>7, <2>1, Zenon DEF Semicolons
<1>9. b # n => b + 1 \in Semicolons(X)
  <2>1. b # n => b + 1 \in 1 .. n
    BY <1>5
  <2> QED
    BY <1>s, <1>7, <2>1, Zenon DEF Semicolons
<1>10. \A j \in a + 1 .. b : j \notin Semicolons(X)
  BY <1>6, <1>7, Zenon DEF Semicolons
<1>11. IsStatement(X, a, b)
  BY <1>5, <1>7, <1>8, <1>9, <1>10, Zenon DEF IsStatement
<1> QED
  BY <1>1, <1>11, Zenon

\* A view is no query.
LEMMA VerbIs ==
  ASSUME NEW d \in Seq(StatementSet), NEW known, NEW W, NEW st, NEW en, Layout(W, d, known, st, en),
         NEW k \in Nat, k = Len(d), NEW i \in 1 .. k
  PROVE  Texts(W)[st[i] + 1] \in QueryVerbs <=> d[i].kind # "view"
<1>1. PICK s, p, o : s = d[i] /\ p = StatementTokens(d[i], known) /\ o = st[i]
  OBVIOUS
<1>2. W \in Seq(Tok) /\ Occurs(W, st[i], StatementTokens(d[i], known))
  BY DEF Layout
<1>3. s \in StatementSet /\ p = StatementTokens(s, known) /\ Occurs(W, o, p)
  BY <1>1, <1>2
<1>4. PICK x \in Word : First(x, p) /\ (x \in QueryVerbs <=> s.kind # "view")
  <2>1. "CREATE" \notin QueryVerbs /\ "CREATE" \in Word
    BY DEF QueryVerbs, Word, Syntax
  <2> QED
    BY <1>3, <2>1, StatementType
<1>5. p \in Seq(Tok) /\ Len(p) >= 1 /\ p[1] = Plain(x)
  BY <1>4 DEF First
<1>6. Len(p) \in Nat /\ 1 \in 1 .. Len(p)
  BY <1>5
<1>7. o + 1 \in 1 .. Len(W) /\ At(W, o + 1) = p[1].text
  BY <1>2, <1>3, <1>6, OccursIn
<1>8. p[1].text = x
  BY <1>5, PlainTok
<1>9. Texts(W)[o + 1] = x
  BY <1>2, <1>7, <1>8, AtIs
<1> QED
  BY <1>1, <1>4, <1>9

\* Lint looks at the tokens of queries.
LEMMA InQueryIs ==
  ASSUME NEW d \in Seq(StatementSet), NEW known, NEW W, NEW st, NEW en, Layout(W, d, known, st, en),
         NEW k \in Nat, k = Len(d),
         NEW i \in 1 .. k, NEW B, NEW V, Scoped(B, V, d[i]), NEW j \in st[i] + 1 .. en[i]
  PROVE  InQuery(Texts(W), j) <=> d[i].kind # "view"
<1>1. IsStatement(Texts(W), st[i], en[i])
  BY StatementFound
<1>2. W \in Seq(Tok)
  BY DEF Layout
<1>3. Texts(W) \in Seq(Word)
  BY <1>2, AtIs
<1>4. StatementStart(Texts(W), j) = st[i] + 1
  BY <1>1, <1>3, BoundsAre
<1>5. Texts(W)[st[i] + 1] \in QueryVerbs <=> d[i].kind # "view"
  BY VerbIs
<1> QED
  BY <1>4, <1>5 DEF InQuery
-----------------------------------------------------------------------------
\* What extractQueryStatementTables reads, statement by statement.
QueryParts(X) ==
  [i \in DOMAIN X |->
     IF i = StatementStart(X, i) /\ X[i] \in QueryVerbs
       THEN Reads(X)[<<"range", i, StatementEnd(X, i)>>]
       ELSE <<>>]

\* The type of what is read of the queries.
LEMMA QueryPartsType ==
  ASSUME NEW X \in Seq(Word)
  PROVE  QueryParts(X) \in Seq(Seq(ReadSet(Word))) /\ DOMAIN QueryParts(X) = 1 .. Len(X)
<1>1. Len(X) \in Nat /\ DOMAIN X = 1 .. Len(X)
  BY LenIs
<1>2. ASSUME NEW i \in 1 .. Len(X) PROVE QueryParts(X)[i] \in Seq(ReadSet(Word))
  <2>1. StatementEnd(X, i) \in i .. Len(X) + 1
    BY EndType
  <2>2. PICK e : e = StatementEnd(X, i)
    OBVIOUS
  <2>3. i \in 1 .. Len(X) + 1 /\ e \in 0 .. Len(X) + 1
    BY <1>1, <2>1, <2>2
  <2>4. <<"range", i, e>> \in ReadPlaces(X)
    BY <2>3, PlaceIs
  <2>5. Reads(X)[<<"range", i, e>>] \in Seq(ReadSet(Word))
    BY <2>4, ReadsType
  <2>6. <<>> \in Seq(ReadSet(Word))
    OBVIOUS
  <2>7. QueryParts(X)[i] \in {Reads(X)[<<"range", i, e>>], <<>>}
    BY <1>1, <2>2 DEF QueryParts
  <2> QED
    BY <2>5, <2>6, <2>7
<1>3. QueryParts(X) = [i \in 1 .. Len(X) |-> QueryParts(X)[i]]
  BY <1>1 DEF QueryParts
<1>4. QueryParts(X) \in [1 .. Len(X) -> Seq(ReadSet(Word))]
  BY <1>2, <1>3
<1> QED
  BY <1>1, <1>4

\* ExtractQueryStatementTables notes the reads of the queries.
LEMMA QueryTablesAre ==
  ASSUME NEW X
  PROVE  ExtractQueryStatementTables(X) = FoldLeft(Note, NoInfo, FlattenSeq(QueryParts(X)))
BY DEF ExtractQueryStatementTables, QueryParts
-----------------------------------------------------------------------------
\* What is read of a statement, up to its end.
LEMMA StatementReads ==
  ASSUME NEW d \in Seq(StatementSet), NEW known, NEW W, NEW st, NEW en, Layout(W, d, known, st, en),
         NEW k \in Nat, k = Len(d),
         NEW i \in 1 .. k, NEW B, NEW V, Scoped(B, V, d[i])
  PROVE  Got(Texts(W), "range", st[i] + 1, en[i] + 1) = ReadsOf(d[i])
<1>1. PICK n, a, b, R, z : n = Len(W) /\ a = st[i] /\ b = en[i] /\ R = ReadsOf(d[i]) /\ z = en[i] + 1
  OBVIOUS
<1>2. W \in Seq(Tok)
  BY DEF Layout
<1>3. Ends(W, st, en, i, k, n)
  BY <1>1, EndIs
<1>4. Stands(W, B, V, known, d[i], st[i], en[i])
  BY StatementsAt
<1>5. b \in Nat /\ n \in Nat /\ b <= n /\ z = b + 1
  BY <1>1, <1>3, Zenon DEF Ends
<1>6. z \in b + 1 .. n + 1 /\ z \in 1 .. n + 1
  BY <1>5
<1>7. Got(Texts(W), "range", a + 1, z) = R \cup Got(Texts(W), "range", b + 1, z)
  BY <1>1, <1>4, <1>6, Zenon DEF Stands
<1>8. Got(Texts(W), "range", z, z) = {}
  BY <1>1, <1>2, <1>6, NothingGot
<1> QED
  BY <1>1, <1>5, <1>7, <1>8

\* The part of the text's reads that a statement gives.
LEMMA PartReads ==
  ASSUME NEW d \in Seq(StatementSet), NEW known, NEW W, NEW st, NEW en, Layout(W, d, known, st, en),
         NEW k \in Nat, k = Len(d),
         NEW i \in 1 .. k, NEW B, NEW V, Scoped(B, V, d[i]), d[i].kind # "view"
  PROVE  /\ st[i] + 1 \in DOMAIN Texts(W)
         /\ ToSet(QueryParts(Texts(W))[st[i] + 1]) = ReadsOf(d[i])
<1>1. PICK X, j, a, b : X = Texts(W) /\ a = st[i] /\ b = en[i] /\ j = st[i] + 1
  OBVIOUS
<1>2. W \in Seq(Tok)
  BY DEF Layout
<1>3. X \in Seq(Word) /\ IsStatement(X, a, b)
  BY <1>1, <1>2, AtIs, StatementFound
<1>4. a \in Nat /\ b \in Nat /\ a < b /\ b <= Len(X) /\ j = a + 1
  BY <1>1, <1>3, Zenon DEF IsStatement
<1>5. j \in a + 1 .. b /\ j \in 1 .. Len(X)
  <2>1. Len(X) \in Nat
    BY <1>3, LenIs
  <2> QED
    BY <1>4, <2>1
<1>6. StatementStart(X, j) = a + 1 /\ StatementEnd(X, j) = b + 1
  BY <1>3, <1>5, BoundsAre
<1>7. X[j] \in QueryVerbs
  BY <1>1, VerbIs
<1>8. j \in DOMAIN X
  BY <1>3, <1>5, LenIs
<1>9. QueryParts(X)[j] = Reads(X)[<<"range", j, b + 1>>]
  BY <1>4, <1>6, <1>7, <1>8, Zenon DEF QueryParts
<1>10. Got(X, "range", j, b + 1) = ReadsOf(d[i])
  BY <1>1, StatementReads
<1> QED
  BY <1>1, <1>8, <1>9, <1>10, Zenon DEF Got

BeginsQuery(d, st, k, j) == \E i \in 1 .. k : d[i].kind # "view" /\ j = st[i] + 1

\* Only the statements that are queries give any.
LEMMA PartOf1 ==
  ASSUME NEW d \in Seq(StatementSet), NEW known, NEW W, NEW st, NEW en, Layout(W, d, known, st, en),
         NEW k \in Nat, k = Len(d),
         NEW B, NEW V, \A i \in 1 .. k : Scoped(B, V, d[i]),
         NEW j \in DOMAIN Texts(W), NEW x \in ToSet(QueryParts(Texts(W))[j])
  PROVE  BeginsQuery(d, st, k, j)
<1>1. PICK X : X = Texts(W)
  OBVIOUS
<1>2. W \in Seq(Tok)
  BY DEF Layout
<1>3. X \in Seq(Word) /\ Len(X) = Len(W) /\ \A m \in 1 .. Len(W) : X[m] = At(W, m)
  BY <1>1, <1>2, AtIs
<1>4. j \in 1 .. Len(W)
  BY <1>1, <1>3, LenIs
<1>5. j = StatementStart(X, j) /\ X[j] \in QueryVerbs
  <2>1. SUFFICES ASSUME ~(j = StatementStart(X, j) /\ X[j] \in QueryVerbs) PROVE FALSE
    OBVIOUS
  <2>2. QueryParts(X)[j] = <<>>
    BY <1>1, <2>1, Zenon DEF QueryParts
  <2> QED
    BY <1>1, <2>2, ToSetSmall
<1>6. PICK i \in 1 .. k : j \in st[i] + 1 .. en[i] \/ (i # 1 /\ j = st[i])
  BY <1>4 DEF Layout
<1>7. Scoped(B, V, d[i])
  OBVIOUS
<1>8. CASE i # 1 /\ j = st[i]
  <2>1. At(W, j) = ";"
    BY <1>6, <1>8 DEF Layout
  <2>2. X[j] = ";"
    BY <1>3, <1>4, <2>1, Zenon
  <2> QED
    BY <1>5, <2>2 DEF QueryVerbs
<1>9. CASE j \in st[i] + 1 .. en[i]
  <2>1. IsStatement(X, st[i], en[i])
    BY <1>1, <1>7, StatementFound
  <2>2. StatementStart(X, j) = st[i] + 1
    BY <1>3, <1>9, <2>1, BoundsAre
  <2>3. X[st[i] + 1] \in QueryVerbs <=> d[i].kind # "view"
    BY <1>1, VerbIs
  <2> QED
    BY <1>5, <2>2, <2>3 DEF BeginsQuery
<1> QED
  BY <1>6, <1>8, <1>9

\* What is read of the queries of a text.
QueriesRead(d) == UNION {ReadsOf(d[i]) : i \in {m \in 1 .. Len(d) : d[m].kind # "view"}}

\* These are the reads of the statements that are no views.
LEMMA QueryReadsAre ==
  ASSUME NEW d \in Seq(StatementSet), NEW known, NEW W, NEW st, NEW en, Layout(W, d, known, st, en),
         NEW B, NEW V, \A i \in 1 .. Len(d) : Scoped(B, V, d[i]),
         NEW r, r = FlattenSeq(QueryParts(Texts(W)))
  PROVE  r \in Seq(ReadSet(Word)) /\ ToSet(r) = QueriesRead(d)
<1>1. PICK X, k, parts : X = Texts(W) /\ k = Len(d) /\ parts = QueryParts(Texts(W))
  OBVIOUS
<1>2. W \in Seq(Tok)
  BY DEF Layout
<1>3. X \in Seq(Word) /\ k \in Nat
  BY <1>1, <1>2, AtIs, LenIs
<1>4. parts \in Seq(Seq(ReadSet(Word))) /\ DOMAIN parts = 1 .. Len(X)
  BY <1>1, <1>3, QueryPartsType
<1>5. DOMAIN X = 1 .. Len(X)
  BY <1>3, LenIs
<1>s. \A i \in 1 .. k : Scoped(B, V, d[i])
  BY <1>1
<1>6. r \in Seq(ReadSet(Word)) /\ ToSet(r) = UNION {ToSet(parts[m]) : m \in DOMAIN parts}
  BY <1>1, <1>4, ToSetFlatten
<1>7. ASSUME NEW j \in DOMAIN parts, NEW x \in ToSet(parts[j])
      PROVE  x \in QueriesRead(d)
  <2>1. j \in DOMAIN Texts(W) /\ x \in ToSet(QueryParts(Texts(W))[j])
    BY <1>1, <1>4, <1>5, <1>7
  <2>b. k = Len(d) /\ k \in Nat
    BY <1>1, <1>3
  <2>a. BeginsQuery(d, st, k, j)
    BY <1>s, <2>1, <2>b, PartOf1
  <2>2. PICK i \in 1 .. k : d[i].kind # "view" /\ j = st[i] + 1
    BY <2>a DEF BeginsQuery
  <2>3. Scoped(B, V, d[i])
    BY <1>s
  <2>4. ToSet(QueryParts(Texts(W))[st[i] + 1]) = ReadsOf(d[i])
    BY <1>1, <1>3, <2>2, <2>3, PartReads
  <2>5. x \in ReadsOf(d[i])
    BY <2>1, <2>2, <2>4
  <2> QED
    BY <1>1, <2>2, <2>5 DEF QueriesRead
<1>8. ASSUME NEW i \in 1 .. k, d[i].kind # "view", NEW x \in ReadsOf(d[i])
      PROVE  \E j \in DOMAIN parts : x \in ToSet(parts[j])
  <2>3. Scoped(B, V, d[i])
    BY <1>s
  <2>4. /\ st[i] + 1 \in DOMAIN Texts(W)
        /\ ToSet(QueryParts(Texts(W))[st[i] + 1]) = ReadsOf(d[i])
    BY <1>1, <1>3, <1>8, <2>3, PartReads
  <2> QED
    BY <1>1, <1>4, <1>5, <1>8, <2>4
<1>9. UNION {ToSet(parts[m]) : m \in DOMAIN parts} = QueriesRead(d)
  <2>1. \A x \in UNION {ToSet(parts[m]) : m \in DOMAIN parts} : x \in QueriesRead(d)
    BY <1>7
  <2>2. \A x \in QueriesRead(d) : x \in UNION {ToSet(parts[m]) : m \in DOMAIN parts}
    BY <1>1, <1>8 DEF QueriesRead
  <2> QED
    BY <2>1, <2>2
<1> QED
  BY <1>6, <1>9
-----------------------------------------------------------------------------
(* What tablesInfo holds after it noted a sequence of reads. *)

\* The name that a read binds, with what it is bound to.
Binding(r) == r.virtual \/ r.alias # r.table
BoundRead(r) == <<r.alias, IF r.virtual THEN r.alias ELSE r.table>>
BoundReads(R) == {BoundRead(r) : r \in {s \in R : Binding(s)}}
VirtualReads(R) == {r.alias : r \in {s \in R : s.virtual}}

\* The tables in FROM.
RealReads(R) == {r.table : r \in {s \in R : ~s.virtual}}
TablesAre(tables, T) == tables \in Seq(Word) /\ ToSet(tables) = T
AliasesAre(aliases, B) ==
  /\ \A n : n \in DOMAIN aliases <=> Binds(B, n)
  /\ \A n \in DOMAIN aliases : <<n, aliases[n]>> \in B
IsInfo(info) ==
  info = [aliases |-> info.aliases, realTables |-> info.realTables, virtual |-> info.virtual]

Noted(info, R) ==
  /\ IsInfo(info)
  /\ AliasesAre(info.aliases, BoundReads(R))
  /\ info.virtual = VirtualReads(R)
  /\ TablesAre(info.realTables, RealReads(R))

\* One more binding.
LEMMA BindsMore ==
  ASSUME NEW B, NEW a, NEW t
  PROVE  \A n : Binds(B \cup {<<a, t>>}, n) <=> Binds(B, n) \/ n = a
<1>1. <<a, t>>[1] = a
  OBVIOUS
<1> QED
  BY <1>1, Zenon DEF Binds

\* An alias is added to the bindings.
LEMMA AddAliasAre ==
  ASSUME NEW info, IsInfo(info), NEW B, AliasesAre(info.aliases, B), NEW a, NEW t
  PROVE  /\ IsInfo(AddAlias(info, a, t))
         /\ AliasesAre(AddAlias(info, a, t).aliases, B \cup {<<a, t>>})
         /\ AddAlias(info, a, t).virtual = info.virtual
         /\ AddAlias(info, a, t).realTables = info.realTables
<1>1. PICK f, g, new : /\ f = info.aliases /\ new = AddAlias(info, a, t)
                       /\ g = [n \in DOMAIN f \cup {a} |-> IF n = a THEN t ELSE f[n]]
  OBVIOUS
<1>2. new = [aliases |-> g, realTables |-> info.realTables, virtual |-> info.virtual]
  BY <1>1 DEF AddAlias, IsInfo
<1>3. IsInfo(new) /\ new.aliases = g /\ new.virtual = info.virtual /\ new.realTables = info.realTables
  BY <1>2 DEF IsInfo
<1>4. DOMAIN g = DOMAIN f \cup {a} /\ \A n \in DOMAIN g : g[n] = IF n = a THEN t ELSE f[n]
  BY <1>1
<1>5. \A n : Binds(B \cup {<<a, t>>}, n) <=> Binds(B, n) \/ n = a
  BY BindsMore
<1>6. \A n : n \in DOMAIN f <=> Binds(B, n)
  BY <1>1 DEF AliasesAre
<1>7. \A n \in DOMAIN f : <<n, f[n]>> \in B
  BY <1>1 DEF AliasesAre
<1>8. \A n : n \in DOMAIN g <=> Binds(B \cup {<<a, t>>}, n)
  BY <1>4, <1>5, <1>6, Zenon
<1>9. ASSUME NEW n \in DOMAIN g PROVE <<n, g[n]>> \in B \cup {<<a, t>>}
  <2>1. CASE n = a
    <3>1. g[n] = t
      BY <1>4, <2>1, Zenon
    <3> QED
      BY <2>1, <3>1, Zenon
  <2>2. CASE n # a
    <3>1. g[n] = f[n] /\ n \in DOMAIN f
      BY <1>4, <2>2, Zenon
    <3> QED
      BY <1>7, <3>1, Zenon
  <2> QED
    BY <2>1, <2>2
<1>10. AliasesAre(g, B \cup {<<a, t>>})
  BY <1>8, <1>9, Zenon DEF AliasesAre
<1> QED
  BY <1>1, <1>3, <1>10

\* A table changes no alias.
LEMMA AddRealIs ==
  ASSUME NEW info, IsInfo(info), NEW t
  PROVE  /\ IsInfo(AddReal(info, t)) /\ AddReal(info, t).aliases = info.aliases
         /\ AddReal(info, t).virtual = info.virtual
BY DEF AddReal, IsInfo

\* A table is added to the tables.
LEMMA AddRealTables ==
  ASSUME NEW info, IsInfo(info), NEW T, TablesAre(info.realTables, T), NEW t \in Word
  PROVE  TablesAre(AddReal(info, t).realTables, T \cup {t})
<1>1. PICK f, new : f = info.realTables /\ new = AddReal(info, t)
  OBVIOUS
<1>2. f \in Seq(Word) /\ ToSet(f) = T
  BY <1>1 DEF TablesAre
<1>3. CASE Contains(f, t)
  <2>1. t \in ToSet(f)
    BY <1>2, <1>3 DEF Contains, ToSet
  <2>2. new = info
    BY <1>1, <1>3 DEF AddReal
  <2> QED
    BY <1>1, <1>2, <2>1, <2>2 DEF TablesAre
<1>4. CASE ~Contains(f, t)
  <2>1. new = [info EXCEPT !.realTables = Append(f, t)]
    BY <1>1, <1>4 DEF AddReal
  <2>2. new.realTables = Append(f, t)
    BY <2>1 DEF IsInfo
  <2>3. Append(f, t) = f \o <<t>> /\ <<t>> \in Seq(Word) /\ Append(f, t) \in Seq(Word)
    BY <1>2
  <2>4. ToSet(f \o <<t>>) = ToSet(f) \cup ToSet(<<t>>)
    BY <1>2, <2>3, ToSetConcat
  <2>5. ToSet(Append(f, t)) = T \cup {t}
    BY <1>2, <2>3, <2>4, ToSetSmall
  <2> QED
    BY <1>1, <2>2, <2>3, <2>5 DEF TablesAre
<1> QED
  BY <1>3, <1>4

\* What one more read binds.
LEMMA BoundMore ==
  ASSUME NEW R, NEW e
  PROVE  /\ Binding(e) => BoundReads(R \cup {e}) = BoundReads(R) \cup {BoundRead(e)}
         /\ ~Binding(e) => BoundReads(R \cup {e}) = BoundReads(R)
BY Zenon DEF BoundReads

\* What it introduces.
LEMMA VirtualMore ==
  ASSUME NEW R, NEW e
  PROVE  /\ e.virtual => VirtualReads(R \cup {e}) = VirtualReads(R) \cup {e.alias}
         /\ ~e.virtual => VirtualReads(R \cup {e}) = VirtualReads(R)
BY Zenon DEF VirtualReads

\* Which table it is of.
LEMMA RealMore ==
  ASSUME NEW R, NEW e
  PROVE  /\ ~e.virtual => RealReads(R \cup {e}) = RealReads(R) \cup {e.table}
         /\ e.virtual => RealReads(R \cup {e}) = RealReads(R)
BY Zenon DEF RealReads

\* Noting a read adds what it binds, introduces and names.
LEMMA NoteIs ==
  ASSUME NEW info, NEW R, Noted(info, R), NEW e, e.virtual \in BOOLEAN, e.table \in Word
  PROVE  Noted(Note(info, e), R \cup {e})
<1>1. /\ IsInfo(info) /\ AliasesAre(info.aliases, BoundReads(R))
      /\ info.virtual = VirtualReads(R) /\ TablesAre(info.realTables, RealReads(R))
  BY DEF Noted
<1>2. CASE e.virtual
  <2>1. PICK mid, a, B : mid = AddAlias(info, e.alias, e.alias) /\ a = e.alias /\ B = BoundReads(R)
    OBVIOUS
  <2>2. /\ IsInfo(mid) /\ AliasesAre(mid.aliases, B \cup {<<a, a>>})
        /\ mid.virtual = info.virtual /\ mid.realTables = info.realTables
    BY <1>1, <2>1, AddAliasAre
  <2>3. Note(info, e) = [mid EXCEPT !.virtual = @ \cup {a}]
    BY <1>2, <2>1 DEF Note, AddVirtual
  <2>4. PICK new : new = Note(info, e)
    OBVIOUS
  <2>5. new = [aliases |-> mid.aliases, realTables |-> mid.realTables,
               virtual |-> mid.virtual \cup {a}]
    BY <2>2, <2>3, <2>4 DEF IsInfo
  <2>6. /\ IsInfo(new) /\ new.aliases = mid.aliases /\ new.virtual = mid.virtual \cup {a}
        /\ new.realTables = mid.realTables
    BY <2>5 DEF IsInfo
  <2>7. BoundReads(R \cup {e}) = B \cup {<<a, a>>}
    <3>1. Binding(e) /\ BoundRead(e) = <<a, a>>
      BY <1>2, <2>1, Zenon DEF Binding, BoundRead
    <3>2. BoundReads(R \cup {e}) = BoundReads(R) \cup {BoundRead(e)}
      BY <3>1, BoundMore, Zenon
    <3> QED
      BY <2>1, <3>1, <3>2, Zenon
  <2>8. VirtualReads(R \cup {e}) = VirtualReads(R) \cup {a}
    BY <1>2, <2>1, VirtualMore, Zenon
  <2>x. TablesAre(new.realTables, RealReads(R \cup {e}))
    BY <1>1, <1>2, <2>2, <2>6, RealMore, Zenon
  <2>9. Noted(new, R \cup {e})
    BY <1>1, <2>2, <2>6, <2>7, <2>8, <2>x, Zenon DEF Noted
  <2> QED
    BY <2>4, <2>9
<1>3. CASE ~e.virtual /\ e.alias # e.table
  <2>1. PICK mid, new, B :
          mid = AddReal(info, e.table) /\ new = AddAlias(mid, e.alias, e.table) /\ B = BoundReads(R)
    OBVIOUS
  <2>2. IsInfo(mid) /\ mid.aliases = info.aliases /\ mid.virtual = info.virtual
    BY <1>1, <2>1, AddRealIs
  <2>3. AliasesAre(mid.aliases, B)
    BY <1>1, <2>1, <2>2
  <2>4. /\ IsInfo(new) /\ AliasesAre(new.aliases, B \cup {<<e.alias, e.table>>})
        /\ new.virtual = mid.virtual /\ new.realTables = mid.realTables
    BY <2>1, <2>2, <2>3, AddAliasAre
  <2>5. Note(info, e) = new
    BY <1>3, <2>1 DEF Note
  <2>7. BoundReads(R \cup {e}) = B \cup {<<e.alias, e.table>>}
    <3>1. Binding(e) /\ BoundRead(e) = <<e.alias, e.table>>
      BY <1>3, Zenon DEF Binding, BoundRead
    <3>2. BoundReads(R \cup {e}) = BoundReads(R) \cup {BoundRead(e)}
      BY <3>1, BoundMore, Zenon
    <3>3. B = BoundReads(R)
      BY <2>1
    <3> QED
      BY <3>1, <3>2, <3>3, Zenon
  <2>8. VirtualReads(R \cup {e}) = VirtualReads(R)
    BY <1>3, VirtualMore, Zenon
  <2>w. TablesAre(mid.realTables, RealReads(R) \cup {e.table})
    BY <1>1, <2>1, AddRealTables
  <2>x. TablesAre(new.realTables, RealReads(R \cup {e}))
    BY <1>3, <2>4, <2>w, RealMore, Zenon
  <2>9. Noted(new, R \cup {e})
    BY <1>1, <2>2, <2>4, <2>7, <2>8, <2>x, Zenon DEF Noted
  <2> QED
    BY <2>5, <2>9
<1>4. CASE ~e.virtual /\ e.alias = e.table
  <2>1. PICK new : new = AddReal(info, e.table)
    OBVIOUS
  <2>2. IsInfo(new) /\ new.aliases = info.aliases /\ new.virtual = info.virtual
    BY <1>1, <2>1, AddRealIs
  <2>5. Note(info, e) = new
    BY <1>4, <2>1 DEF Note
  <2>7. BoundReads(R \cup {e}) = BoundReads(R)
    <3>1. ~Binding(e)
      BY <1>4, Zenon DEF Binding
    <3> QED
      BY <3>1, BoundMore, Zenon
  <2>8. VirtualReads(R \cup {e}) = VirtualReads(R)
    BY <1>4, VirtualMore, Zenon
  <2>w. TablesAre(new.realTables, RealReads(R) \cup {e.table})
    BY <1>1, <2>1, AddRealTables
  <2>x. TablesAre(new.realTables, RealReads(R \cup {e}))
    BY <1>4, <2>w, RealMore, Zenon
  <2>9. Noted(new, R \cup {e})
    BY <1>1, <2>2, <2>7, <2>8, <2>x, Zenon DEF Noted
  <2> QED
    BY <2>5, <2>9
<1> QED
  BY <1>2, <1>3, <1>4

\* What tablesInfo knows depends on what is read, and not on the order.
LEMMA NotedReads ==
  ASSUME NEW s \in Seq(ReadSet(Word))
  PROVE  Noted(FoldLeft(Note, NoInfo, s), ToSet(s))
<1> DEFINE T == {z \in Seq(ReadSet(Word)) : Noted(Noting!Fold(NoInfo, z), ToSet(z))}
<1>1. <<>> \in T
  <2>1. Noting!Fold(NoInfo, <<>>) = NoInfo /\ ToSet(<<>>) = {} /\ <<>> \in Seq(ReadSet(Word))
    BY Noting!FoldEmpty, ToSetSmall
  <2>2. IsInfo(NoInfo) /\ NoInfo.aliases = <<>> /\ NoInfo.virtual = {} /\ NoInfo.realTables = <<>>
    BY DEF NoInfo, IsInfo
  <2>3. BoundReads({}) = {} /\ VirtualReads({}) = {} /\ RealReads({}) = {}
    BY DEF BoundReads, VirtualReads, RealReads
  <2>4. AliasesAre(<<>>, {})
    BY DEF AliasesAre, Binds
  <2>x. TablesAre(<<>>, {})
    BY ToSetSmall DEF TablesAre
  <2>5. Noted(NoInfo, {})
    BY <2>2, <2>3, <2>4, <2>x DEF Noted
  <2> QED
    BY <2>1, <2>5
<1>2. ASSUME NEW z \in Seq(ReadSet(Word)), NEW e \in ReadSet(Word), z \in T PROVE Append(z, e) \in T
  <2>1. Noting!Fold(NoInfo, Append(z, e)) = Note(Noting!Fold(NoInfo, z), e)
    BY Noting!FoldAppend
  <2>2. ToSet(Append(z, e)) = ToSet(z) \cup {e}
    <3>1. Append(z, e) = z \o <<e>> /\ <<e>> \in Seq(ReadSet(Word))
      OBVIOUS
    <3>2. ToSet(z \o <<e>>) = ToSet(z) \cup ToSet(<<e>>)
      BY <3>1, ToSetConcat
    <3>3. ToSet(<<e>>) = {e}
      BY ToSetSmall
    <3> QED
      BY <3>1, <3>2, <3>3
  <2>3. e.virtual \in BOOLEAN /\ e.table \in Word
    BY DEF ReadSet
  <2>4. Noted(Noting!Fold(NoInfo, z), ToSet(z))
    BY <1>2
  <2>5. Noted(Note(Noting!Fold(NoInfo, z), e), ToSet(z) \cup {e})
    BY <2>3, <2>4, NoteIs
  <2>6. Append(z, e) \in Seq(ReadSet(Word))
    OBVIOUS
  <2> QED
    BY <2>1, <2>2, <2>5, <2>6
<1>3. \A z \in T : Noted(Noting!Fold(NoInfo, z), ToSet(z))
  OBVIOUS
<1> HIDE DEF T
<1>4. s \in T
  BY <1>1, <1>2, Noting!SeqSet
<1>5. \A b, z : FoldLeft(Note, b, z) = Noting!Fold(b, z)
  BY DEF Noting!Fold, FoldLeft, Noting!FoldLeft, MapThenFoldSet, Noting!MapThenFoldSet,
         Max, Noting!Max
<1> QED
  BY <1>3, <1>4, <1>5
-----------------------------------------------------------------------------
(* What is bound by what is read of a statement is what the statement binds. *)

\* What is bound by more reads.
LEMMA BoundUnion ==
  ASSUME NEW R, NEW S
  PROVE  /\ BoundReads(R \cup S) = BoundReads(R) \cup BoundReads(S)
         /\ BoundReads({}) = {}
BY Zenon DEF BoundReads

\* A virtual name binds itself.
LEMMA BoundVirtual ==
  ASSUME NEW n
  PROVE  BoundReads({Virtual(n)}) = {<<n, n>>}
<1>1. Binding(Virtual(n)) /\ BoundRead(Virtual(n)) = <<n, n>>
  BY DEF Binding, BoundRead, Virtual
<1> QED
  BY <1>1, Zenon DEF BoundReads

\* What is read of a table binds what the table does.
LEMMA BoundTable ==
  ASSUME NEW s
  PROVE  BoundReads(RealOf(s)) = BoundByTable(s)
<1>1. PICK r, n, a : r = Real(s.name, s.alias) /\ n = s.name /\ a = s.alias
  OBVIOUS
<1>2. (Binding(r) <=> a # n) /\ BoundRead(r) = <<a, n>>
  BY <1>1 DEF Binding, BoundRead, Real
<1>3. RealOf(s) = {r}
  BY <1>1 DEF RealOf
<1>4. CASE a = n
  <2>1. BoundReads({r}) = {}
    BY <1>2, <1>4, Zenon DEF BoundReads
  <2> QED
    BY <1>1, <1>3, <1>4, <2>1, Zenon DEF BoundByTable
<1>5. CASE a # n
  <2>1. BoundReads({r}) = {<<a, n>>}
    BY <1>2, <1>5, Zenon DEF BoundReads
  <2> QED
    BY <1>1, <1>3, <1>5, <2>1, Zenon DEF BoundByTable
<1> QED
  BY <1>4, <1>5

\* So do flat queries,
LEMMA BoundFlat ==
  ASSUME NEW q
  PROVE  BoundReads(FlatReads(q)) = BoundByFlat(q)
<1>1. \A i \in DOMAIN q.from : BoundReads(RealOf(q.from[i])) = BoundByTable(q.from[i])
  BY BoundTable
<1>2. \A b : b \in BoundReads(FlatReads(q))
               <=> \E i \in DOMAIN q.from : b \in BoundReads(RealOf(q.from[i]))
  BY Zenon DEF BoundReads, FlatReads
<1>3. \A b : b \in BoundByFlat(q) <=> \E i \in DOMAIN q.from : b \in BoundByTable(q.from[i])
  BY Zenon DEF BoundByFlat, ToSet
<1> QED
  BY <1>1, <1>2, <1>3, Zenon

\* sources,
LEMMA BoundSource ==
  ASSUME NEW s
  PROVE  BoundReads(SourceReads(s)) = BoundBySource(s)
<1>1. CASE s.kind = "sub"
  <2>1. SourceReads(s) = FlatReads(s.query) \cup {Virtual(s.alias)}
    BY <1>1 DEF SourceReads
  <2>2. BoundReads(SourceReads(s)) = BoundReads(FlatReads(s.query)) \cup BoundReads({Virtual(s.alias)})
    BY <2>1, BoundUnion
  <2>3. BoundBySource(s) = {<<s.alias, s.alias>>} \cup BoundByFlat(s.query)
    BY <1>1 DEF BoundBySource
  <2> QED
    BY <2>2, <2>3, BoundFlat, BoundVirtual
<1>2. CASE s.kind # "sub"
  <2>1. SourceReads(s) = RealOf(s) /\ BoundBySource(s) = BoundByTable(s)
    BY <1>2 DEF SourceReads, BoundBySource
  <2> QED
    BY <2>1, BoundTable
<1> QED
  BY <1>1, <1>2

\* WITH,
LEMMA BoundWith ==
  ASSUME NEW with, with = <<>> \/ with = <<with[1]>>
  PROVE  BoundReads(WithReads(with))
           = UNION {{<<w.name, w.name>>} \cup BoundByFlat(w.query) : w \in ToSet(with)}
<1>1. CASE with = <<>>
  <2>1. WithReads(with) = {} /\ ToSet(with) = {}
    BY <1>1, ToSetSmall DEF WithReads
  <2> QED
    BY <2>1, BoundUnion
<1>2. CASE with # <<>>
  <2>1. PICK v : v = with[1]
    OBVIOUS
  <2>2. ToSet(with) = {v}
    BY <1>2, <2>1, ToSetSmall
  <2>3. WithReads(with) = FlatReads(v.query) \cup {Virtual(v.name)}
    BY <1>2, <2>1 DEF WithReads
  <2>4. BoundReads(WithReads(with)) = BoundReads(FlatReads(v.query)) \cup BoundReads({Virtual(v.name)})
    BY <2>3, BoundUnion
  <2>5. BoundReads(WithReads(with)) = BoundByFlat(v.query) \cup {<<v.name, v.name>>}
    BY <2>4, BoundFlat, BoundVirtual
  <2>6. UNION {{<<w.name, w.name>>} \cup BoundByFlat(w.query) : w \in {v}}
          = {<<v.name, v.name>>} \cup BoundByFlat(v.query)
    BY Zenon
  <2> QED
    BY <2>2, <2>5, <2>6
<1> QED
  BY <1>1, <1>2

\* WHERE,
LEMMA BoundWhere ==
  ASSUME NEW where, where = <<>> \/ where = <<where[1]>>
  PROVE  BoundReads(WhereReads(where)) = UNION {BoundByFlat(w.query) : w \in ToSet(where)}
<1>1. CASE where = <<>>
  <2>1. WhereReads(where) = {} /\ ToSet(where) = {}
    BY <1>1, ToSetSmall DEF WhereReads
  <2> QED
    BY <2>1, BoundUnion
<1>2. CASE where # <<>>
  <2>1. PICK v : v = where[1]
    OBVIOUS
  <2>2. ToSet(where) = {v}
    BY <1>2, <2>1, ToSetSmall
  <2>3. WhereReads(where) = FlatReads(v.query)
    BY <1>2, <2>1 DEF WhereReads
  <2>4. UNION {BoundByFlat(w.query) : w \in {v}} = BoundByFlat(v.query)
    BY Zenon
  <2> QED
    BY <2>2, <2>3, <2>4, BoundFlat
<1> QED
  BY <1>1, <1>2

BoundBySources(q) == UNION {BoundBySource(s) : s \in ToSet(q.from)}

\* FROM,
LEMMA BoundFrom ==
  ASSUME NEW q
  PROVE  BoundReads(FromReadsOf(q)) = UNION {BoundBySource(s) : s \in ToSet(q.from)}
<1>1. \A i \in DOMAIN q.from : BoundReads(SourceReads(q.from[i])) = BoundBySource(q.from[i])
  BY BoundSource
<1>2. \A b : b \in BoundReads(FromReadsOf(q))
               <=> \E i \in DOMAIN q.from : b \in BoundReads(SourceReads(q.from[i]))
  BY Zenon DEF BoundReads, FromReadsOf
<1>3. \A b : b \in BoundBySources(q) <=> \E i \in DOMAIN q.from : b \in BoundBySource(q.from[i])
  BY Zenon DEF ToSet, BoundBySources
<1>4. BoundReads(FromReadsOf(q)) = BoundBySources(q)
  <2>1. \A b : b \in BoundReads(FromReadsOf(q)) <=> b \in BoundBySources(q)
    BY <1>1, <1>2, <1>3, Zenon
  <2> QED
    BY <2>1
<1> QED
  BY <1>4 DEF BoundBySources

\* queries
LEMMA BoundQuery ==
  ASSUME NEW q \in QuerySet
  PROVE  BoundReads(QueryReads(q)) = BoundByQuery(q)
<1>1. q.with = <<>> \/ q.with = <<q.with[1]>>
  BY DEF QuerySet
<1>2. q.where = <<>> \/ q.where = <<q.where[1]>>
  BY DEF QuerySet
<1>3. PICK a, b, c : a = WithReads(q.with) /\ b = FromReadsOf(q) /\ c = WhereReads(q.where)
  OBVIOUS
<1>4. QueryReads(q) = (a \cup b) \cup c
  BY <1>3 DEF QueryReads
<1>5. BoundReads(QueryReads(q)) = (BoundReads(a) \cup BoundReads(b)) \cup BoundReads(c)
  <2>1. BoundReads((a \cup b) \cup c) = BoundReads(a \cup b) \cup BoundReads(c)
    BY BoundUnion
  <2>2. BoundReads(a \cup b) = BoundReads(a) \cup BoundReads(b)
    BY BoundUnion
  <2> QED
    BY <1>4, <2>1, <2>2
<1>6. BoundReads(a) = UNION {{<<w.name, w.name>>} \cup BoundByFlat(w.query) : w \in ToSet(q.with)}
  BY <1>1, <1>3, BoundWith
<1>7. BoundReads(b) = UNION {BoundBySource(s) : s \in ToSet(q.from)}
  BY <1>3, BoundFrom
<1>8. BoundReads(c) = UNION {BoundByFlat(w.query) : w \in ToSet(q.where)}
  BY <1>2, <1>3, BoundWhere
<1> QED
  BY <1>5, <1>6, <1>7, <1>8, Zenon DEF BoundByQuery

\* The body of a view, and any other statement as it is.
BodyOf(s) == IF s.kind = "view" THEN s.query ELSE s

\* and statements.
LEMMA BoundStatement ==
  ASSUME NEW s \in StatementSet
  PROVE  BoundReads(ReadsOf(s)) = BoundBy(BodyOf(s))
<1>1. CASE s \in QuerySet /\ s.kind = "query"
  <2>1. ReadsOf(s) = QueryReads(s) /\ BoundBy(BodyOf(s)) = BoundByQuery(s)
    BY <1>1 DEF ReadsOf, BoundBy, BodyOf
  <2> QED
    BY <1>1, <2>1, BoundQuery
<1>2. CASE s \in ViewSet /\ s.kind = "view" /\ s.query \in QuerySet
  <2>1. s.query.kind = "query"
    BY <1>2, QueryIs
  <2>2. ReadsOf(s) = QueryReads(s.query) /\ BoundBy(BodyOf(s)) = BoundByQuery(s.query)
    BY <1>2, <2>1 DEF ReadsOf, BoundBy, BodyOf
  <2> QED
    BY <1>2, <2>2, BoundQuery
<1>3. CASE s \in UpdateSet /\ s.kind = "update"
  <2>1. ReadsOf(s) = RealOf(s.from) /\ BoundBy(BodyOf(s)) = BoundByTable(s.from)
    BY <1>3 DEF ReadsOf, BoundBy, BodyOf
  <2> QED
    BY <2>1, BoundTable
<1> QED
  BY <1>1, <1>2, <1>3, KindsAre
-----------------------------------------------------------------------------
(* The names a statement binds are no schema names. *)

NamesIn(B) == \A b \in B : b = <<b[1], b[2]>> /\ b[1] \in AnyName

\* The name of one binding.
LEMMA PairName ==
  ASSUME NEW a \in AnyName, NEW t
  PROVE  NamesIn({<<a, t>>})
<1>1. PICK p : p = <<a, t>>
  OBVIOUS
<1>2. p[1] = a /\ p = <<p[1], p[2]>>
  BY <1>1
<1>3. NamesIn({p})
  BY <1>2, Zenon DEF NamesIn
<1> QED
  BY <1>1, <1>3

\* A table binds names,
LEMMA TableNames ==
  ASSUME NEW s \in TableSet
  PROVE  NamesIn(BoundByTable(s))
<1>1. s.alias \in AnyName
  BY DEF TableSet
<1>2. NamesIn({<<s.alias, s.name>>}) /\ NamesIn({})
  BY <1>1, PairName DEF NamesIn
<1> QED
  BY <1>2, Zenon DEF BoundByTable

\* and so do flat queries,
LEMMA FlatNamesIn ==
  ASSUME NEW q \in FlatSet
  PROVE  NamesIn(BoundByFlat(q))
<1>1. \A s \in ToSet(q.from) : s \in TableSet
  BY DEF FlatSet, ToSet
<1>2. \A s \in ToSet(q.from) : NamesIn(BoundByTable(s))
  BY <1>1, TableNames
<1> QED
  BY <1>2, Zenon DEF BoundByFlat, NamesIn

\* sources,
LEMMA SourceNames ==
  ASSUME NEW s \in SourceSet
  PROVE  NamesIn(BoundBySource(s))
<1>1. CASE s.kind = "sub"
  <2>1. s.alias \in AnyName /\ s.query \in FlatSet
    BY <1>1 DEF SourceSet, SubSet, TableSet
  <2>2. NamesIn(BoundByFlat(s.query))
    BY <2>1, FlatNamesIn
  <2>3. NamesIn({<<s.alias, s.alias>>})
    BY <2>1, PairName
  <2>4. BoundBySource(s) = {<<s.alias, s.alias>>} \cup BoundByFlat(s.query)
    BY <1>1 DEF BoundBySource
  <2> QED
    BY <2>2, <2>3, <2>4, Zenon DEF NamesIn
<1>2. CASE s.kind # "sub"
  <2>1. s \in TableSet /\ BoundBySource(s) = BoundByTable(s)
    BY <1>2 DEF SourceSet, SubSet, BoundBySource
  <2> QED
    BY <2>1, TableNames
<1> QED
  BY <1>1, <1>2

\* queries
LEMMA QueryNames ==
  ASSUME NEW q \in QuerySet
  PROVE  NamesIn(BoundByQuery(q))
<1>1. \A s \in ToSet(q.from) : s \in SourceSet
  BY DEF QuerySet, ToSet
<1>2. \A w \in ToSet(q.with) : w.name \in AnyName /\ w.query \in FlatSet
  <2>1. \A w \in ToSet(q.with) : w \in WithSet
    BY DEF QuerySet, ToSet
  <2> QED
    BY <2>1 DEF WithSet
<1>3. \A w \in ToSet(q.where) : w.query \in FlatSet
  <2>1. \A w \in ToSet(q.where) : w \in WhereSet
    BY DEF QuerySet, ToSet
  <2> QED
    BY <2>1 DEF WhereSet
<1>4. \A s \in ToSet(q.from) : NamesIn(BoundBySource(s))
  BY <1>1, SourceNames
<1>5. \A w \in ToSet(q.with) : NamesIn(BoundByFlat(w.query)) /\ NamesIn({<<w.name, w.name>>})
  <2> SUFFICES ASSUME NEW w \in ToSet(q.with)
               PROVE  NamesIn(BoundByFlat(w.query)) /\ NamesIn({<<w.name, w.name>>})
    OBVIOUS
  <2>1. w.name \in AnyName /\ w.query \in FlatSet
    BY <1>2
  <2> QED
    BY <2>1, FlatNamesIn, PairName
<1>6. \A w \in ToSet(q.where) : NamesIn(BoundByFlat(w.query))
  BY <1>3, FlatNamesIn
<1>7. ASSUME NEW b \in BoundByQuery(q) PROVE b = <<b[1], b[2]>> /\ b[1] \in AnyName
  <2>1. CASE \E s \in ToSet(q.from) : b \in BoundBySource(s)
    BY <1>4, <2>1, Zenon DEF NamesIn
  <2>2. CASE \E w \in ToSet(q.with) : b \in BoundByFlat(w.query) \/ b \in {<<w.name, w.name>>}
    BY <1>5, <2>2, Zenon DEF NamesIn
  <2>3. CASE \E w \in ToSet(q.where) : b \in BoundByFlat(w.query)
    BY <1>6, <2>3, Zenon DEF NamesIn
  <2> QED
    BY <1>7, <2>1, <2>2, <2>3, Zenon DEF BoundByQuery
<1> QED
  BY <1>7, Zenon DEF NamesIn

\* and statements.
LEMMA StatementNames ==
  ASSUME NEW s \in StatementSet
  PROVE  NamesIn(BoundBy(s)) /\ NamesIn(BoundBy(BodyOf(s)))
<1>1. CASE s \in QuerySet /\ s.kind = "query"
  <2>1. BoundBy(s) = BoundByQuery(s) /\ BodyOf(s) = s
    BY <1>1 DEF BoundBy, BodyOf
  <2> QED
    BY <1>1, <2>1, QueryNames
<1>2. CASE s \in ViewSet /\ s.kind = "view" /\ s.query \in QuerySet
  <2>1. s.query.kind = "query"
    BY <1>2, QueryIs
  <2>2. BoundBy(s) = {} /\ BoundBy(BodyOf(s)) = BoundByQuery(s.query)
    BY <1>2, <2>1 DEF BoundBy, BodyOf
  <2>3. NamesIn({})
    BY Zenon DEF NamesIn
  <2> QED
    BY <1>2, <2>2, <2>3, QueryNames
<1>3. CASE s \in UpdateSet /\ s.kind = "update"
  <2>1. BoundBy(s) = BoundByTable(s.from) /\ BodyOf(s) = s /\ s.from \in TableSet
    BY <1>3 DEF BoundBy, BodyOf, UpdateSet
  <2> QED
    BY <2>1, TableNames
<1> QED
  BY <1>1, <1>2, <1>3, KindsAre

\* The names of WITH that a statement reads are virtual.
LEMMA WithIsRead ==
  ASSUME NEW s \in StatementSet, NEW R, ReadsOf(s) \subseteq R, s.kind = "query"
  PROVE  WithIn(VirtualReads(R), s)
<1>1. SUFFICES ASSUME s.with # <<>> PROVE s.with[1].name \in VirtualReads(R)
  BY DEF WithIn
<1>2. PICK n : n = s.with[1].name
  OBVIOUS
<1>3. Virtual(n) \in WithReads(s.with)
  BY <1>1, <1>2 DEF WithReads
<1>4. Virtual(n) \in R
  BY <1>3 DEF ReadsOf, QueryReads
<1>5. Virtual(n).virtual /\ Virtual(n).alias = n
  BY DEF Virtual
<1> QED
  BY <1>2, <1>4, <1>5, Zenon DEF VirtualReads
-----------------------------------------------------------------------------
\* More reads bind more.
LEMMA BoundMonotone ==
  ASSUME NEW R, NEW S, R \subseteq S
  PROVE  BoundReads(R) \subseteq BoundReads(S)
BY Zenon DEF BoundReads

\* What is read of a statement is its scope.
LEMMA ScopedBy ==
  ASSUME NEW s \in StatementSet, NEW R, s.kind # "view" => ReadsOf(s) \subseteq R
  PROVE  Scoped(BoundReads(R), VirtualReads(R), s)
<1>1. CASE s.kind = "view"
  <2>1. BoundBy(s) = {} /\ s.kind # "query"
    BY <1>1 DEF BoundBy
  <2> QED
    BY <2>1 DEF Scoped
<1>2. CASE s.kind # "view"
  <2>1. BodyOf(s) = s
    BY <1>2 DEF BodyOf
  <2>2. BoundReads(ReadsOf(s)) = BoundBy(s)
    BY <2>1, BoundStatement
  <2>3. BoundBy(s) \subseteq BoundReads(R)
    BY <1>2, <2>2, BoundMonotone
  <2>4. s.kind = "query" => WithIn(VirtualReads(R), s)
    BY <1>2, WithIsRead
  <2> QED
    BY <2>3, <2>4 DEF Scoped
<1> QED
  BY <1>1, <1>2

\* What the statements of a text bind.
BodiesBound(d) == UNION {BoundBy(BodyOf(d[i])) : i \in DOMAIN d}
QueriesBound(d) == UNION {BoundBy(d[i]) : i \in DOMAIN d}

\* All reads bind what the statements and the views' queries bind.
LEMMA AllBound ==
  ASSUME NEW d \in Seq(StatementSet)
  PROVE  BoundReads(ReadsFrom(d, 1)) = BodiesBound(d)
<1>1. DOMAIN d = 1 .. Len(d) /\ \A i \in DOMAIN d : d[i] \in StatementSet
  BY LenIs
<1>2. \A i \in DOMAIN d : BoundReads(ReadsOf(d[i])) = BoundBy(BodyOf(d[i]))
  BY <1>1, BoundStatement
<1>3. \A b : b \in BoundReads(ReadsFrom(d, 1)) <=> \E i \in DOMAIN d : b \in BoundReads(ReadsOf(d[i]))
  BY <1>1, Zenon DEF BoundReads, ReadsFrom
<1>4. \A b : b \in BodiesBound(d) <=> \E i \in DOMAIN d : b \in BoundBy(BodyOf(d[i]))
  BY Zenon DEF BodiesBound
<1> QED
  BY <1>2, <1>3, <1>4, Zenon

\* The reads of the queries bind what the statements do.
LEMMA QueryBound ==
  ASSUME NEW d \in Seq(StatementSet)
  PROVE  BoundReads(QueriesRead(d)) = QueriesBound(d)
<1>1. DOMAIN d = 1 .. Len(d) /\ \A i \in DOMAIN d : d[i] \in StatementSet
  BY LenIs
<1>2. ASSUME NEW i \in DOMAIN d
      PROVE  /\ d[i].kind # "view" => BoundReads(ReadsOf(d[i])) = BoundBy(d[i])
             /\ d[i].kind = "view" => BoundBy(d[i]) = {}
  <2>1. d[i].kind = "view" => BoundBy(d[i]) = {}
    BY DEF BoundBy
  <2>2. d[i].kind # "view" => BodyOf(d[i]) = d[i]
    BY DEF BodyOf
  <2>3. BoundReads(ReadsOf(d[i])) = BoundBy(BodyOf(d[i]))
    BY <1>1, BoundStatement
  <2> QED
    BY <2>1, <2>2, <2>3
<1>3. \A b : b \in BoundReads(QueriesRead(d))
               <=> \E i \in DOMAIN d : d[i].kind # "view" /\ b \in BoundReads(ReadsOf(d[i]))
  BY <1>1, Zenon DEF BoundReads, QueriesRead
<1>4. \A b : b \in QueriesBound(d) <=> \E i \in DOMAIN d : b \in BoundBy(d[i])
  BY Zenon DEF QueriesBound
<1>5. \A b : b \in BoundReads(QueriesRead(d)) <=> b \in QueriesBound(d)
  BY <1>2, <1>3, <1>4, Zenon
<1> QED
  BY <1>5

\* All that is bound are names.
LEMMA AllNames ==
  ASSUME NEW d \in Seq(StatementSet)
  PROVE  NamesIn(QueriesBound(d)) /\ NamesIn(BodiesBound(d))
<1>1. \A i \in DOMAIN d : d[i] \in StatementSet
  OBVIOUS
<1>2. \A i \in DOMAIN d : NamesIn(BoundBy(d[i])) /\ NamesIn(BoundBy(BodyOf(d[i])))
  BY <1>1, StatementNames
<1> QED
  BY <1>2, Zenon DEF NamesIn, QueriesBound, BodiesBound

\* Distinct names are consistent.
LEMMA DistinctIs ==
  ASSUME NEW d \in Seq(StatementSet), Distinct(d)
  PROVE  Consistent(QueriesBound(d))
<1>1. NamesIn(QueriesBound(d))
  BY AllNames
<1>2. /\ \A b \in QueriesBound(d) : ~HasTable(b[1])
      /\ \A b1, b2 \in QueriesBound(d) : b1[1] = b2[1] => b1[2] = b2[2]
  BY Zenon DEF Distinct, QueriesBound
<1> QED
  BY <1>1, <1>2, Zenon DEF Consistent, NamesIn

\* What all distinct names mean is one thing each.
LEMMA AllDistinctIs ==
  ASSUME NEW d \in Seq(StatementSet), AllDistinct(d)
  PROVE  Distinct(d) /\ Consistent(BodiesBound(d))
<1>1. NamesIn(BodiesBound(d))
  BY AllNames
<1>2. PICK e : e = [i \in DOMAIN d |-> IF d[i].kind = "view" THEN d[i].query ELSE d[i]]
  OBVIOUS
<1>3. Distinct(d) /\ Distinct(e)
  BY <1>2 DEF AllDistinct
<1>4. DOMAIN e = DOMAIN d /\ \A i \in DOMAIN d : e[i] = BodyOf(d[i])
  BY <1>2 DEF BodyOf
<1>5. QueriesBound(e) = BodiesBound(d)
  BY <1>4, Zenon DEF QueriesBound, BodiesBound
<1>6. /\ \A b \in QueriesBound(e) : ~HasTable(b[1])
      /\ \A b1, b2 \in QueriesBound(e) : b1[1] = b2[1] => b1[2] = b2[2]
  BY <1>3, Zenon DEF Distinct, QueriesBound
<1>7. Consistent(BodiesBound(d))
  BY <1>1, <1>5, <1>6, Zenon DEF Consistent, NamesIn
<1> QED
  BY <1>3, <1>7

\* The known names are those that are bound.
LEMMA KnownIs ==
  ASSUME NEW d
  PROVE  \A n : n \in Known(d) <=> Binds(QueriesBound(d), n)
<1>1. \A n : n \in Known(d) <=> \E i \in DOMAIN d : \E b \in BoundBy(d[i]) : b[1] = n
  <2>1. \A n : n \in Known(d) <=> \E i \in DOMAIN d : n \in {b[1] : b \in BoundBy(d[i])}
    BY Zenon DEF Known
  <2>2. \A n : \A i \in DOMAIN d :
          n \in {b[1] : b \in BoundBy(d[i])} <=> \E b \in BoundBy(d[i]) : b[1] = n
    BY Zenon
  <2> QED
    BY <2>1, <2>2, Zenon
<1>2. \A n : Binds(QueriesBound(d), n) <=> \E i \in DOMAIN d : \E b \in BoundBy(d[i]) : b[1] = n
  BY Zenon DEF Binds, QueriesBound
<1> QED
  BY <1>1, <1>2, Zenon

\* The tokens of a text are laid out as its statements.
LEMMA TextLaidOut ==
  ASSUME DocType
  PROVE  Tokens(doc) \in Seq(Tok) /\ \E st, en : Layout(Tokens(doc), doc, Known(doc), st, en)
<1>1. Tokens(doc) = FlattenSeq([i \in DOMAIN doc |-> StatementPart(doc, Known(doc), i)])
  BY DEF Tokens, StatementPart, Before
<1> QED
  BY <1>1, LaidOut DEF DocType
-----------------------------------------------------------------------------
\* What a token of a text is: it has its role in a query, or nothing is said of it.
TextRole(W, B, V, known, j) ==
  \/ Role(W, B, V, known, j) /\ InQuery(Texts(W), j)
  \/ IsPlain(At(W, j), W[j]) /\ At(W, j) # ";" /\ ~InQuery(Texts(W), j)
  \/ IsPlain(";", W[j]) /\ At(W, j) = ";"

\* Each token of a text is in its place.
LEMMA TextRoles ==
  ASSUME NEW d \in Seq(StatementSet), NEW known, NEW W, NEW st, NEW en, Layout(W, d, known, st, en),
         NEW B, NEW V, \A i \in 1 .. Len(d) : Scoped(B, V, d[i]), NEW j \in 1 .. Len(W)
  PROVE  TextRole(W, B, V, known, j)
<1>1. PICK k : k = Len(d)
  OBVIOUS
<1>2. k \in Nat /\ k = Len(d)
  BY <1>1, LenIs
<1>3. PICK i \in 1 .. k : j \in st[i] + 1 .. en[i] \/ (i # 1 /\ j = st[i])
  BY <1>1 DEF Layout
<1>4. Scoped(B, V, d[i])
  BY <1>1
<1>5. CASE i # 1 /\ j = st[i]
  <2>1. IsPlain(";", W[st[i]]) /\ At(W, st[i]) = ";"
    BY <1>1, <1>5 DEF Layout
  <2> QED
    BY <1>5, <2>1, Zenon DEF TextRole
<1>6. CASE j \in st[i] + 1 .. en[i]
  <2>1. InQuery(Texts(W), j) <=> d[i].kind # "view"
    BY <1>2, <1>4, <1>6, InQueryIs
  <2>2. Stands(W, B, V, known, d[i], st[i], en[i])
    BY <1>2, <1>4, StatementsAt
  <2>3. Placed(W, B, V, known, d[i], j) /\ At(W, j) # ";"
    BY <1>6, <2>2, Zenon DEF Stands
  <2> QED
    BY <2>1, <2>3, Zenon DEF TextRole, Placed
<1> QED
  BY <1>3, <1>5, <1>6

\* A text, with what was read of it: the aliases are the names of B.
Context(W, info, B, known) ==
  /\ W \in Seq(Tok) /\ AliasesAre(info.aliases, B) /\ NamesIn(B)
  /\ \A n \in info.virtual : Binds(B, n)
  /\ \A j \in 1 .. Len(W) : TextRole(W, B, info.virtual, known, j)

\* A virtual name is bound.
LEMMA VirtualBound ==
  ASSUME NEW R
  PROVE  \A n \in VirtualReads(R) : Binds(BoundReads(R), n)
<1>1. ASSUME NEW r \in R, r.virtual PROVE Binds(BoundReads(R), r.alias)
  <2>1. PICK b : b = BoundRead(r)
    OBVIOUS
  <2>2. b[1] = r.alias
    BY <2>1 DEF BoundRead
  <2>3. b \in BoundReads(R)
    BY <1>1, <2>1, Zenon DEF BoundReads, Binding
  <2> QED
    BY <2>2, <2>3, Zenon DEF Binds
<1> QED
  BY <1>1, Zenon DEF VirtualReads

\* A text that was read as R.
LEMMA ContextOf ==
  ASSUME NEW d \in Seq(StatementSet), NEW known, NEW W, NEW st, NEW en, Layout(W, d, known, st, en),
         NEW R, \A i \in 1 .. Len(d) : d[i].kind # "view" => ReadsOf(d[i]) \subseteq R,
         NEW B, B = BoundReads(R), NamesIn(B), NEW info, Noted(info, R)
  PROVE  Context(W, info, B, known)
<1>1. W \in Seq(Tok)
  BY DEF Layout
<1>2. AliasesAre(info.aliases, B) /\ info.virtual = VirtualReads(R)
  BY DEF Noted
<1>3. \A n \in info.virtual : Binds(B, n)
  BY <1>2, VirtualBound
<1>4. PICK V : V = VirtualReads(R)
  OBVIOUS
<1>5. \A i \in 1 .. Len(d) : Scoped(B, V, d[i])
  BY <1>4, ScopedBy
<1>6. \A j \in 1 .. Len(W) : TextRole(W, B, V, known, j)
  BY <1>5, TextRoles
<1> QED
  BY <1>1, <1>2, <1>3, <1>4, <1>6, Zenon DEF Context

\* What Lint knows of a text.
LEMMA LintContext ==
  ASSUME DocType, NEW W, W = Tokens(doc), NEW info, info = ExtractQueryStatementTables(Texts(W))
  PROVE  Context(W, info, QueriesBound(doc), Known(doc))
<1>1. W \in Seq(Tok) /\ \E st, en : Layout(W, doc, Known(doc), st, en)
  BY TextLaidOut
<1>2. PICK st, en : Layout(W, doc, Known(doc), st, en)
  BY <1>1
<1>3. PICK d, R, B, r : /\ d = doc /\ R = QueriesRead(doc) /\ B = BoundReads(R)
                        /\ r = FlattenSeq(QueryParts(Texts(W)))
  OBVIOUS
<1>4. d \in Seq(StatementSet) /\ Layout(W, d, Known(doc), st, en)
  BY <1>2, <1>3 DEF DocType
<1>5. B = QueriesBound(d) /\ NamesIn(B)
  BY <1>3, <1>4, QueryBound, AllNames
<1>6. \A i \in 1 .. Len(d) : d[i].kind # "view" => ReadsOf(d[i]) \subseteq R
  BY <1>3, Zenon DEF QueriesRead
<1>7. \A i \in 1 .. Len(d) : Scoped(B, VirtualReads(R), d[i])
  BY <1>3, <1>4, <1>6, ScopedBy
<1>8. r \in Seq(ReadSet(Word)) /\ ToSet(r) = R
  BY <1>3, <1>4, <1>7, QueryReadsAre
<1>9. Noted(FoldLeft(Note, NoInfo, r), ToSet(r))
  BY <1>8, NotedReads
<1>10. Noted(info, R)
  BY <1>3, <1>8, <1>9, QueryTablesAre
<1>11. Context(W, info, B, Known(doc))
  BY <1>3, <1>4, <1>5, <1>6, <1>10, ContextOf
<1> QED
  BY <1>3, <1>5, <1>11

\* What extractTables reads of a text.
LEMMA LookupReads ==
  ASSUME DocType, NEW W, W = Tokens(doc), NEW info, info = ExtractTables(Texts(W))
  PROVE  Noted(info, ReadsFrom(doc, 1))
<1>1. W \in Seq(Tok) /\ \E st, en : Layout(W, doc, Known(doc), st, en)
  BY TextLaidOut
<1>2. PICK st, en : Layout(W, doc, Known(doc), st, en)
  BY <1>1
<1>3. PICK d, R, B, X, n : /\ d = doc /\ R = ReadsFrom(doc, 1) /\ B = BoundReads(R)
                           /\ X = Texts(W) /\ n = Len(X) + 1
  OBVIOUS
<1>4. d \in Seq(StatementSet) /\ Layout(W, d, Known(doc), st, en)
  BY <1>2, <1>3 DEF DocType
<1>6. \A i \in 1 .. Len(d) : ReadsOf(d[i]) \subseteq R
  BY <1>3, Zenon DEF ReadsFrom
<1>7. \A i \in 1 .. Len(d) : Scoped(B, VirtualReads(R), d[i])
  BY <1>3, <1>4, <1>6, ScopedBy
<1>x. X \in Seq(Word) /\ Len(X) = Len(W) /\ Len(W) \in Nat
  BY <1>1, <1>3, AtIs
<1>8. PICK r : r = Reads(X)[<<"range", 1, n>>]
  OBVIOUS
<1>9. r \in Seq(ReadSet(Word))
  <2>1. 1 \in 1 .. Len(X) + 1 /\ n \in 0 .. Len(X) + 1
    BY <1>3, <1>x
  <2>2. <<"range", 1, n>> \in ReadPlaces(X)
    BY <1>x, <2>1, PlaceIs
  <2> QED
    BY <1>x, <1>8, <2>2, ReadsType
<1>10. ToSet(r) = R
  <2>1. Got(Texts(W), "range", 1, Len(W) + 1) = ReadsFrom(d, 1)
    BY <1>4, <1>7, TextReads
  <2>2. Got(X, "range", 1, n) = R
    BY <1>3, <1>x, <2>1
  <2> QED
    BY <1>8, <2>2 DEF Got
<1>11. Noted(FoldLeft(Note, NoInfo, r), ToSet(r))
  BY <1>9, NotedReads
<1>12. info = FoldLeft(Note, NoInfo, r)
  BY <1>3, <1>8 DEF ExtractTables
<1> QED
  BY <1>3, <1>10, <1>11, <1>12

\* What a lookup knows of a text.
LEMMA LookupContext ==
  ASSUME DocType, NEW W, W = Tokens(doc), NEW info, info = ExtractTables(Texts(W))
  PROVE  Context(W, info, BodiesBound(doc), Known(doc))
<1>1. PICK st, en : Layout(W, doc, Known(doc), st, en)
  BY TextLaidOut
<1>2. PICK d, R, B : d = doc /\ R = ReadsFrom(doc, 1) /\ B = BoundReads(R)
  OBVIOUS
<1>3. d \in Seq(StatementSet) /\ Layout(W, d, Known(doc), st, en)
  BY <1>1, <1>2 DEF DocType
<1>4. B = BodiesBound(d) /\ NamesIn(B)
  BY <1>2, <1>3, AllBound, AllNames
<1>5. \A i \in 1 .. Len(d) : d[i].kind # "view" => ReadsOf(d[i]) \subseteq R
  BY <1>2, Zenon DEF ReadsFrom
<1>6. Noted(info, R)
  BY <1>2, LookupReads
<1>7. Context(W, info, B, Known(doc))
  BY <1>2, <1>3, <1>4, <1>5, <1>6, ContextOf
<1> QED
  BY <1>2, <1>4, <1>7
-----------------------------------------------------------------------------
(* Lint, token by token. *)

\* The tokens around a token of a text.
LEMMA Around ==
  ASSUME NEW W \in Seq(Tok), NEW X, X = Texts(W), NEW i \in 1 .. Len(W)
  PROVE  /\ X[i] = At(W, i) /\ Next1(X, i) = At(W, i + 1)
         /\ Prev(X, i, 1) = At(W, i - 1) /\ Prev(X, i, 2) = At(W, i - 2)
         /\ Prev(X, i, 3) = At(W, i - 3)
<1>1. X \in Seq(Word) /\ Len(X) = Len(W) /\ Len(W) \in Nat /\ \A j \in 1 .. Len(W) : X[j] = At(W, j)
  BY AtIs
<1>2. DOMAIN W = 1 .. Len(W)
  BY LenIs
<1>3. Next1(X, i) = At(W, i + 1)
  <2>1. CASE i < Len(X)
    <3>1. i + 1 \in 1 .. Len(W)
      BY <1>1, <2>1
    <3>2. Next1(X, i) = X[i + 1]
      BY <2>1 DEF Next1
    <3> QED
      BY <1>1, <3>1, <3>2
  <2>2. CASE ~(i < Len(X))
    <3>1. i + 1 \notin 1 .. Len(W)
      BY <1>1, <2>2
    <3>2. Next1(X, i) = ""
      BY <2>2 DEF Next1
    <3> QED
      BY <1>2, <3>1, <3>2 DEF At
  <2> QED
    BY <2>1, <2>2
<1>4. ASSUME NEW k \in 1 .. 3 PROVE Prev(X, i, k) = At(W, i - k)
  <2>1. CASE i > k
    <3>1. i - k \in 1 .. Len(W)
      BY <1>1, <2>1
    <3>2. Prev(X, i, k) = X[i - k]
      BY <2>1 DEF Prev
    <3> QED
      BY <1>1, <3>1, <3>2
  <2>2. CASE ~(i > k)
    <3>1. i - k \notin 1 .. Len(W)
      BY <1>1, <2>2
    <3>2. Prev(X, i, k) = ""
      BY <2>2 DEF Prev
    <3> QED
      BY <1>2, <3>1, <3>2 DEF At
  <2> QED
    BY <2>1, <2>2
<1>5. 1 \in 1 .. 3 /\ 2 \in 1 .. 3 /\ 3 \in 1 .. 3
  OBVIOUS
<1> QED
  BY <1>1, <1>3, <1>4, <1>5

\* Where there is a token there is a place for it.
LEMMA SomeToken ==
  ASSUME NEW W \in Seq(Tok), NEW j \in Int, At(W, j) # ""
  PROVE  j \in 1 .. Len(W)
BY LenIs DEF At

\* What Lint says of a name t with text n behind it and p1, p2, p3 before it, if the
\* names before a dot count.
Says(info, t, n, p1, p2, p3) ==
  CASE n = "." ->
         p1 \notin FromKeywords /\ t \notin DOMAIN info.aliases /\ ~HasTable(t)
    [] n # "." /\ p1 = "." /\ IsName(p2) ->
         IF p3 \in FromKeywords THEN ~HasTable(t)
         ELSE HasTable(Resolve(info, p2)) /\ ~HasColumn(Resolve(info, p2), t)
    [] OTHER -> p1 \in FromKeywords /\ ~HasTable(t) /\ t \notin info.virtual

\* No text begins with a dot.
DotBehind(W, i) == At(W, i - 1) = "." => At(W, i - 2) # ""

\* What Lint says of a token depends on it, the one behind and the three before it.
LEMMA LintIs ==
  ASSUME NEW W \in Seq(Tok), NEW X, X = Texts(W), NEW info,
         info = ExtractQueryStatementTables(X), NEW i \in 1 .. Len(W), DotBehind(W, i)
  PROVE  i \in Lint(X) <=>
           /\ InQuery(X, i) /\ IsName(At(W, i)) /\ At(W, i + 1) # "("
           /\ Says(info, At(W, i), At(W, i + 1), At(W, i - 1), At(W, i - 2), At(W, i - 3))
<1>1. PICK t, n, p1, p2, p3 :
        /\ t = At(W, i) /\ n = At(W, i + 1)
        /\ p1 = At(W, i - 1) /\ p2 = At(W, i - 2) /\ p3 = At(W, i - 3)
  OBVIOUS
<1>2. /\ X[i] = t /\ Next1(X, i) = n
      /\ Prev(X, i, 1) = p1 /\ Prev(X, i, 2) = p2 /\ Prev(X, i, 3) = p3
  BY <1>1, Around
<1>3. i \in DOMAIN X
  BY AtIs, LenIs
<1>4. Qualified(X, i) <=> p1 = "." /\ IsName(p2)
  <2>1. ASSUME p1 = "." PROVE i > 2
    <3>1. At(W, i - 2) # ""
      BY <1>1, <2>1, Zenon DEF DotBehind
    <3>2. i - 2 \in Int
      OBVIOUS
    <3>3. i - 2 \in 1 .. Len(W)
      BY <3>1, <3>2, SomeToken
    <3> QED
      BY <3>3
  <2> QED
    BY <1>2, <2>1 DEF Qualified
<1>5. p1 = "." => X[i - 2] = p2
  <2>1. ASSUME p1 = "." PROVE X[i - 2] = p2
    <3>1. At(W, i - 2) # ""
      BY <1>1, <2>1, Zenon DEF DotBehind
    <3>2. i - 2 \in Int
      OBVIOUS
    <3>3. i - 2 \in 1 .. Len(W)
      BY <3>1, <3>2, SomeToken
    <3> QED
      BY <1>1, <3>3, AtIs
  <2> QED
    BY <2>1
<1>6. Candidate(X, i) <=> IsName(t) /\ n # "("
  BY <1>2, Zenon DEF Candidate
<1>7. i \in Lint(X) <=>
        /\ InQuery(X, i) /\ Candidate(X, i)
        /\ CASE Next1(X, i) = "." ->
                  /\ Prev(X, i, 1) \notin FromKeywords
                  /\ X[i] \notin DOMAIN info.aliases /\ ~HasTable(X[i])
             [] Next1(X, i) # "." /\ Qualified(X, i) ->
                  IF Prev(X, i, 3) \in FromKeywords
                    THEN ~HasTable(X[i])
                    ELSE /\ HasTable(Resolve(info, X[i - 2]))
                         /\ ~HasColumn(Resolve(info, X[i - 2]), X[i])
             [] OTHER ->
                  /\ Prev(X, i, 1) \in FromKeywords
                  /\ ~HasTable(X[i]) /\ X[i] \notin info.virtual
  BY <1>3 DEF Lint
<1>8. i \in Lint(X) <=>
        /\ InQuery(X, i) /\ Candidate(X, i) /\ Says(info, t, n, p1, p2, p3)
  BY <1>2, <1>4, <1>5, <1>7 DEF Says
<1> QED
  BY <1>1, <1>6, <1>8
-----------------------------------------------------------------------------
\* What was read resolves a name to what it means.
LEMMA ResolveMeans ==
  ASSUME NEW info, NEW B, AliasesAre(info.aliases, B), NEW n
  PROVE  Means(B, n, Resolve(info, n))
<1>1. PICK a, t : a = info.aliases /\ t = Resolve(info, n)
  OBVIOUS
<1>2. CASE n \in DOMAIN a
  <2>1. t = a[n] /\ Binds(B, n) /\ <<n, a[n]>> \in B
    BY <1>1, <1>2 DEF Resolve, AliasesAre
  <2> QED
    BY <1>1, <2>1 DEF Means
<1>3. CASE n \notin DOMAIN a
  <2>1. t = n /\ ~Binds(B, n)
    BY <1>1, <1>3 DEF Resolve, AliasesAre
  <2> QED
    BY <1>1, <2>1 DEF Means
<1> QED
  BY <1>2, <1>3

\* A schema name is nothing's alias.
LEMMA SchemaUnbound ==
  ASSUME NEW info, NEW B, AliasesAre(info.aliases, B), NamesIn(B), NEW n \in AnySchema
  PROVE  n \notin DOMAIN info.aliases /\ ~HasTable(n) /\ Resolve(info, n) = n
<1>1. n \notin AnyName /\ ~HasTable(n)
  BY SchemaIsNoName
<1>2. ~Binds(B, n)
  BY <1>1, Zenon DEF NamesIn, Binds
<1>3. n \notin DOMAIN info.aliases
  BY <1>2, Zenon DEF AliasesAre
<1> QED
  BY <1>1, <1>3 DEF Resolve

\* A name of a text is a word that is no keyword.
LEMMA NameIs ==
  ASSUME NEW n \in AnyName \cup AnySchema
  PROVE  IsName(n) /\ n # "" /\ n \notin FromKeywords \cup {",", ".", "(", ";"}
BY NamesAre DEF FromKeywords, Punctuation, StopWords

Judged(W, info, i) ==
  Says(info, At(W, i), At(W, i + 1), At(W, i - 1), At(W, i - 2), At(W, i - 3))

\* Behind a comma, told from the tokens of a text.
CommaBefore(W, i) == At(W, i - 1) = "," \/ (At(W, i - 1) = "." /\ At(W, i - 3) = ",")

\* What Lint makes of a token, compared with the verdict on it.
Judges(W, info, known, i) ==
  /\ DotBehind(W, i)
  /\ W[i].says = "right" /\ Judged(W, info, i) => CommaBefore(W, i) /\ At(W, i + 1) = "."
  /\ (\A n \in info.virtual : n \in known) /\ W[i].says = "wrong" /\ ~CommaBefore(W, i) =>
       Judged(W, info, i) /\ IsName(At(W, i)) /\ At(W, i + 1) # "("

\* Lint is right about a table,
LEMMA TableJudged ==
  ASSUME NEW W, NEW info, NEW known, NEW i, TableRole(W, info.virtual, known, i)
  PROVE  Judges(W, info, known, i)
<1>1. PICK t, n, p1, p2, p3, V, x :
        /\ t = At(W, i) /\ n = At(W, i + 1)
        /\ p1 = At(W, i - 1) /\ p2 = At(W, i - 2) /\ p3 = At(W, i - 3)
        /\ V = info.virtual /\ x = W[i]
  OBVIOUS
<1>2. t \in AnyName /\ n \notin {".", "("} /\ p1 \in FromKeywords \cup {","}
  BY <1>1, Zenon DEF TableRole, OneName, InList
<1>3. p1 # "." /\ (p1 = "," \/ p1 \in FromKeywords)
  BY <1>2 DEF FromKeywords
<1>4. TableVerdict(V, known, x) /\ x.text = t
  BY <1>1, Zenon DEF TableRole, IsTable
<1>5. IsName(t)
  BY <1>2, NameIs
<1>6. Says(info, t, n, p1, p2, p3) <=> p1 \in FromKeywords /\ ~HasTable(t) /\ t \notin V
  BY <1>1, <1>2, <1>3 DEF Says
<1>7. DotBehind(W, i)
  BY <1>1, <1>3, Zenon DEF DotBehind
<1>8. x.says = "right" => HasTable(t) \/ t \in V
  BY <1>4 DEF TableVerdict
<1>9. x.says = "wrong" => ~HasTable(t) /\ t \notin known
  BY <1>4 DEF TableVerdict
<1>10. Judged(W, info, i) <=> Says(info, t, n, p1, p2, p3)
  BY <1>1, Zenon DEF Judged
<1>11. p1 = "," => CommaBefore(W, i)
  BY <1>1, Zenon DEF CommaBefore
<1> QED
  BY <1>1, <1>2, <1>3, <1>5, <1>6, <1>7, <1>8, <1>9, <1>10, <1>11, Zenon DEF Judges

\* a schema name before a table,
LEMMA SchemaJudged ==
  ASSUME NEW W, NEW info, NEW known, NEW i, SchemaRole(W, i)
  PROVE  Judges(W, info, known, i)
<1>1. PICK t, n, p1, p2, p3, x :
        /\ t = At(W, i) /\ n = At(W, i + 1)
        /\ p1 = At(W, i - 1) /\ p2 = At(W, i - 2) /\ p3 = At(W, i - 3) /\ x = W[i]
  OBVIOUS
<1>2. n = "." /\ p1 \in FromKeywords \cup {","}
  BY <1>1, Zenon DEF SchemaRole, InList
<1>3. p1 # "." /\ (p1 = "," \/ p1 \in FromKeywords)
  BY <1>2 DEF FromKeywords
<1>4. x.says = "right"
  BY <1>1, Zenon DEF SchemaRole, IsSchema
<1>5. Says(info, t, n, p1, p2, p3) => p1 \notin FromKeywords
  BY <1>2 DEF Says
<1>6. DotBehind(W, i)
  BY <1>1, <1>3, Zenon DEF DotBehind
<1>7. Judged(W, info, i) <=> Says(info, t, n, p1, p2, p3)
  BY <1>1, Zenon DEF Judged
<1>8. p1 = "," => CommaBefore(W, i)
  BY <1>1, Zenon DEF CommaBefore
<1>9. W[i].says # "wrong"
  BY <1>1, <1>4
<1> QED
  BY <1>1, <1>2, <1>3, <1>5, <1>6, <1>7, <1>8, <1>9, Zenon DEF Judges

\* a table behind a schema name,
LEMMA QualifiedTableJudged ==
  ASSUME NEW W, NEW info, NEW known, NEW B, AliasesAre(info.aliases, B), NamesIn(B),
         NEW i, QualifiedTableRole(W, i)
  PROVE  Judges(W, info, known, i)
<1>1. PICK t, n, p1, p2, p3, x :
        /\ t = At(W, i) /\ n = At(W, i + 1)
        /\ p1 = At(W, i - 1) /\ p2 = At(W, i - 2) /\ p3 = At(W, i - 3) /\ x = W[i]
  OBVIOUS
<1>2. /\ t \in AnyName /\ n \notin {".", "("} /\ p1 = "." /\ p2 \in AnySchema
      /\ p3 \in FromKeywords \cup {","}
  BY <1>1, Zenon DEF QualifiedTableRole, OneName, InList
<1>3. p3 = "," \/ p3 \in FromKeywords
  BY <1>2 DEF FromKeywords
<1>4. TableVerdict({}, {}, x) /\ x.text = t
  BY <1>1, Zenon DEF QualifiedTableRole, IsQualifiedTable
<1>5. IsName(t) /\ IsName(p2) /\ p2 # ""
  BY <1>2, NameIs
<1>6. ~HasTable(Resolve(info, p2))
  BY <1>2, SchemaUnbound
<1>7. Says(info, t, n, p1, p2, p3) <=> p3 \in FromKeywords /\ ~HasTable(t)
  BY <1>2, <1>5, <1>6 DEF Says
<1>8. DotBehind(W, i)
  BY <1>1, <1>5, Zenon DEF DotBehind
<1>9. x.says = "right" => HasTable(t)
  BY <1>4 DEF TableVerdict
<1>10. x.says = "wrong" => ~HasTable(t)
  BY <1>4 DEF TableVerdict
<1>11. Judged(W, info, i) <=> Says(info, t, n, p1, p2, p3)
  BY <1>1, Zenon DEF Judged
<1>12. p3 = "," => CommaBefore(W, i)
  BY <1>1, <1>2, Zenon DEF CommaBefore
<1>13. n # "("
  BY <1>2
<1> QED
  BY <1>1, <1>3, <1>5, <1>7, <1>8, <1>9, <1>10, <1>11, <1>12, <1>13, Zenon DEF Judges

\* What is before a reference.
LEMMA BeforeRefIs ==
  ASSUME NEW W, NEW o, BeforeRef(W, o)
  PROVE  At(W, o) \notin FromKeywords \cup {".", ","}
<1>1. At(W, o) \in {"SELECT", "AND", "="}
  BY DEF BeforeRef
<1> QED
  BY <1>1 DEF FromKeywords

\* the qualifier of a reference,
LEMMA QualifierJudged ==
  ASSUME NEW W, NEW info, NEW known, NEW B, AliasesAre(info.aliases, B), Consistent(B),
         \A n : n \in known <=> Binds(B, n),
         NEW i, QualifierRole(W, B, known, i)
  PROVE  Judges(W, info, known, i)
<1>1. PICK t, n, p1, p2, p3, x :
        /\ t = At(W, i) /\ n = At(W, i + 1)
        /\ p1 = At(W, i - 1) /\ p2 = At(W, i - 2) /\ p3 = At(W, i - 3) /\ x = W[i]
  OBVIOUS
<1>2. t \in AnyName /\ n = "." /\ BeforeRef(W, i - 1)
  BY <1>1, Zenon DEF QualifierRole
<1>3. p1 \notin FromKeywords \cup {".", ","}
  BY <1>1, <1>2, BeforeRefIs, Zenon
<1>4. QualifierVerdict(B, known, x) /\ x.text = t
  BY <1>1, Zenon DEF QualifierRole, IsQualifier
<1>5. IsName(t)
  BY <1>2, NameIs
<1>6. t \in DOMAIN info.aliases <=> Binds(B, t)
  BY Zenon DEF AliasesAre
<1>7. Says(info, t, n, p1, p2, p3) <=> ~Binds(B, t) /\ ~HasTable(t)
  BY <1>2, <1>3, <1>6 DEF Says
<1>8. DotBehind(W, i)
  BY <1>1, <1>3 DEF DotBehind
<1>9. x.says = "right" => HasTable(t) \/ Binds(B, t)
  BY <1>4 DEF QualifierVerdict
<1>10. x.says = "wrong" => ~HasTable(t) /\ ~Binds(B, t)
  BY <1>4 DEF QualifierVerdict
<1>11. Judged(W, info, i) <=> Says(info, t, n, p1, p2, p3)
  BY <1>1, Zenon DEF Judged
<1>12. n # "("
  BY <1>2
<1> QED
  BY <1>1, <1>5, <1>7, <1>8, <1>9, <1>10, <1>11, <1>12, Zenon DEF Judges

\* its column,
LEMMA ColumnJudged ==
  ASSUME NEW W, NEW info, NEW known, NEW B, AliasesAre(info.aliases, B), Consistent(B),
         NEW i, ColumnRole(W, B, i)
  PROVE  Judges(W, info, known, i)
<1>1. PICK t, n, p1, p2, p3, x, real :
        /\ t = At(W, i) /\ n = At(W, i + 1)
        /\ p1 = At(W, i - 1) /\ p2 = At(W, i - 2) /\ p3 = At(W, i - 3) /\ x = W[i]
        /\ real = Resolve(info, p2)
  OBVIOUS
<1>2. /\ t \in AnyName /\ n \notin {".", "("} /\ p1 = "." /\ p2 \in AnyName
      /\ BeforeRef(W, i - 3)
  BY <1>1, Zenon DEF ColumnRole, OneName
<1>3. p3 \notin FromKeywords
  BY <1>1, <1>2, BeforeRefIs, Zenon
<1>4. ColumnVerdict(B, p2, x) /\ x.text = t
  BY <1>1, Zenon DEF ColumnRole, IsColumn
<1>5. IsName(t) /\ IsName(p2) /\ p2 # ""
  BY <1>2, NameIs
<1>6. Means(B, p2, real)
  BY <1>1, ResolveMeans
<1>7. Says(info, t, n, p1, p2, p3) <=> HasTable(real) /\ ~HasColumn(real, t)
  BY <1>1, <1>2, <1>3, <1>5 DEF Says
<1>8. DotBehind(W, i)
  BY <1>1, <1>5, Zenon DEF DotBehind
<1>9. x.says = "right" /\ HasTable(real) => HasColumn(real, t)
  BY <1>4, <1>6, Zenon DEF ColumnVerdict
<1>10. ASSUME x.says = "wrong" PROVE HasTable(real) /\ ~HasColumn(real, t)
  <2>1. PICK u : Means(B, p2, u) /\ HasTable(u) /\ ~HasColumn(u, t)
    BY <1>4, <1>10, Zenon DEF ColumnVerdict
  <2>2. u = real
    BY <1>6, <2>1, MeansOne
  <2> QED
    BY <2>1, <2>2
<1>11. Judged(W, info, i) <=> Says(info, t, n, p1, p2, p3)
  BY <1>1, Zenon DEF Judged
<1>12. n # "("
  BY <1>2
<1> QED
  BY <1>1, <1>5, <1>7, <1>8, <1>9, <1>10, <1>11, <1>12, Zenon DEF Judges
-----------------------------------------------------------------------------
\* an alias or a name of WITH
LEMMA PlainJudged ==
  ASSUME NEW W, NEW info, NEW known, NEW i, PlainRole(W, i), IsName(At(W, i))
  PROVE  Judges(W, info, known, i)
<1>1. PICK t, n, p1, p2, p3, x :
        /\ t = At(W, i) /\ n = At(W, i + 1)
        /\ p1 = At(W, i - 1) /\ p2 = At(W, i - 2) /\ p3 = At(W, i - 3) /\ x = W[i]
  OBVIOUS
<1>2. p1 \notin FromKeywords \cup {"."} /\ n # "."
  BY <1>1, Zenon DEF PlainRole
<1>3. x.says = "right"
  BY <1>1, Zenon DEF PlainRole, IsPlain
<1>4. ~Says(info, t, n, p1, p2, p3)
  BY <1>2 DEF Says
<1>5. DotBehind(W, i)
  BY <1>1, <1>2 DEF DotBehind
<1>6. Judged(W, info, i) <=> Says(info, t, n, p1, p2, p3)
  BY <1>1, Zenon DEF Judged
<1>7. W[i].says # "wrong"
  BY <1>1, <1>3
<1> QED
  BY <1>1, <1>4, <1>5, <1>6, <1>7, Zenon DEF Judges

\* and so about every name of a query.
LEMMA RoleJudged ==
  ASSUME NEW W, NEW info, NEW known, NEW B, AliasesAre(info.aliases, B), NamesIn(B),
         Consistent(B), \A n : n \in known <=> Binds(B, n),
         NEW i, Role(W, B, info.virtual, known, i), IsName(At(W, i))
  PROVE  Judges(W, info, known, i)
<1>1. CASE TableRole(W, info.virtual, known, i)
  BY <1>1, TableJudged
<1>2. CASE SchemaRole(W, i)
  BY <1>2, SchemaJudged
<1>3. CASE QualifiedTableRole(W, i)
  BY <1>3, QualifiedTableJudged
<1>4. CASE QualifierRole(W, B, known, i)
  BY <1>4, QualifierJudged
<1>5. CASE ColumnRole(W, B, i)
  BY <1>5, ColumnJudged
<1>6. CASE PlainRole(W, i)
  BY <1>6, PlainJudged
<1> QED
  BY <1>1, <1>2, <1>3, <1>4, <1>5, <1>6, Zenon DEF Role

\* Tokens that are wrong are names of queries.
LEMMA WrongRole ==
  ASSUME NEW W, NEW B, NEW V, NEW known, NEW i, TextRole(W, B, V, known, i), W[i].says = "wrong"
  PROVE  Role(W, B, V, known, i) /\ IsName(At(W, i)) /\ InQuery(Texts(W), i)
<1>1. ASSUME NEW text, IsPlain(text, W[i]) PROVE FALSE
  BY <1>1 DEF IsPlain
<1>2. Role(W, B, V, known, i) /\ InQuery(Texts(W), i)
  BY <1>1, Zenon DEF TextRole
<1>3. ~PlainRole(W, i)
  BY <1>1, Zenon DEF PlainRole
<1>4. At(W, i) \in AnyName \cup AnySchema
  <2>1. At(W, i) \in AnyName \/ At(W, i) \in AnySchema
    BY <1>2, <1>3, Zenon
       DEF Role, TableRole, SchemaRole, QualifiedTableRole, QualifierRole, ColumnRole, OneName
  <2> QED
    BY <2>1
<1> QED
  BY <1>2, <1>4, NameIs

\* What Lint reports, among the names of queries.
LEMMA ReportedName ==
  ASSUME NEW W \in Seq(Tok), NEW X, X = Texts(W), NEW i \in Lint(X)
  PROVE  i \in 1 .. Len(W) /\ IsName(At(W, i)) /\ InQuery(X, i)
<1>1. i \in DOMAIN X /\ InQuery(X, i) /\ Candidate(X, i)
  BY DEF Lint
<1>2. i \in 1 .. Len(W) /\ X[i] = At(W, i)
  BY <1>1, AtIs, LenIs
<1>3. IsName(X[i])
  BY <1>1, Zenon DEF Candidate
<1> QED
  BY <1>1, <1>2, <1>3

\* A semicolon is no name.
LEMMA SemicolonIs == ~IsName(";")
BY DEF IsName, IsIdent, Punctuation

\* BehindComma, by the texts around the token.
LEMMA BehindCommaIs ==
  ASSUME NEW W \in Seq(Tok), NEW i \in 1 .. Len(W)
  PROVE  BehindComma(Texts(W), i) <=> CommaBefore(W, i)
<1>1. PICK X : X = Texts(W)
  OBVIOUS
<1>2. Prev(X, i, 1) = At(W, i - 1) /\ Prev(X, i, 3) = At(W, i - 3)
  BY <1>1, Around
<1> QED
  BY <1>1, <1>2, Zenon DEF BehindComma, CommaBefore

\* What Lint makes of the tokens of a text in which no name stands for two things.
LEMMA LintJudges ==
  ASSUME DocType, Distinct(doc), NEW W, W = Tokens(doc), NEW X, X = Texts(W),
         NEW info, info = ExtractQueryStatementTables(X), NEW i \in 1 .. Len(W),
         IsName(At(W, i)), InQuery(X, i)
  PROVE  /\ W \in Seq(Tok) /\ Judges(W, info, Known(doc), i)
         /\ \A n \in info.virtual : n \in Known(doc)
<1>1. PICK B, known : B = QueriesBound(doc) /\ known = Known(doc)
  OBVIOUS
<1>2. Context(W, info, B, known)
  BY <1>1, LintContext
<1>3. Consistent(B)
  BY <1>1, DistinctIs DEF DocType
<1>4. \A n : n \in known <=> Binds(B, n)
  BY <1>1, KnownIs
<1>5. /\ W \in Seq(Tok) /\ AliasesAre(info.aliases, B) /\ NamesIn(B)
      /\ \A n \in info.virtual : Binds(B, n)
      /\ TextRole(W, B, info.virtual, known, i)
  BY <1>2, Zenon DEF Context
<1>6. Role(W, B, info.virtual, known, i)
  BY <1>5, SemicolonIs, Zenon DEF TextRole
<1>7. Judges(W, info, known, i)
  BY <1>3, <1>4, <1>5, <1>6, RoleJudged
<1> QED
  BY <1>1, <1>4, <1>5, <1>7, Zenon

\* Lint reports nothing that is right (lint.go:18-29).
LEMMA LintIsSound == DocType => Sound
<1> SUFFICES ASSUME DocType, Distinct(doc), NEW W, W = Tokens(doc), NEW X, X = Texts(W),
                    NEW i \in Lint(X), W[i].says = "right"
             PROVE  BehindComma(X, i) /\ Next1(X, i) = "."
  BY Zenon DEF Sound, ReportsNoneRight
<1>1. PICK info, known : info = ExtractQueryStatementTables(X) /\ known = Known(doc)
  OBVIOUS
<1>2. W \in Seq(Tok)
  BY TextLaidOut
<1>3. i \in 1 .. Len(W) /\ IsName(At(W, i)) /\ InQuery(X, i)
  BY <1>2, ReportedName
<1>4. Judges(W, info, known, i)
  BY <1>1, <1>3, LintJudges
<1>5. DotBehind(W, i)
  BY <1>4, Zenon DEF Judges
<1>6. Judged(W, info, i)
  BY <1>1, <1>2, <1>3, <1>5, LintIs DEF Judged
<1>7. CommaBefore(W, i) /\ At(W, i + 1) = "."
  BY <1>4, <1>6, Zenon DEF Judges
<1> QED
  BY <1>2, <1>3, <1>7, BehindCommaIs, Around

\* Lint reports all that is wrong (README.md:182-184, sqlctx.go:196-206).
LEMMA LintIsComplete == DocType => Complete
<1> SUFFICES ASSUME DocType, Distinct(doc), NEW W, W = Tokens(doc), NEW X, X = Texts(W),
                    NEW i \in DOMAIN W, W[i].says = "wrong", ~BehindComma(X, i)
             PROVE  i \in Lint(X)
  BY Zenon DEF Complete, ReportsAllWrong
<1>1. PICK info, known, B :
        info = ExtractQueryStatementTables(X) /\ known = Known(doc) /\ B = QueriesBound(doc)
  OBVIOUS
<1>2. W \in Seq(Tok)
  BY TextLaidOut
<1>3. i \in 1 .. Len(W)
  BY <1>2, LenIs
<1>4. TextRole(W, B, info.virtual, known, i)
  BY <1>1, <1>3, LintContext DEF Context
<1>5. IsName(At(W, i)) /\ InQuery(X, i)
  BY <1>4, WrongRole
<1>6. Judges(W, info, known, i) /\ \A n \in info.virtual : n \in known
  BY <1>1, <1>3, <1>5, LintJudges
<1>7. DotBehind(W, i)
  BY <1>6, Zenon DEF Judges
<1>8. ~CommaBefore(W, i)
  BY <1>2, <1>3, BehindCommaIs
<1>9. Judged(W, info, i) /\ At(W, i + 1) # "("
  BY <1>6, <1>8, Zenon DEF Judges
<1> QED
  BY <1>1, <1>2, <1>3, <1>5, <1>7, <1>9, LintIs DEF Judged

\* As long as no name stands for two things, Lint reports nothing right (lint.go:18-29).
THEOREM Soundness == MCSpec => []Sound
<1>1. DocType => Sound
  BY LintIsSound
<1> QED
  BY <1>1, DocTyping, PTL

\* And it reports all that is wrong, but not behind a comma, nor a name that a subquery
\* or another statement binds (README.md:182-184, 213-230, TODO.md:70-72).
THEOREM Completeness == MCSpec => []Complete
<1>1. DocType => Complete
  BY LintIsComplete
<1> QED
  BY <1>1, DocTyping, PTL
-----------------------------------------------------------------------------
(* Links. *)

\* Hover describes what goto-definition finds.
LEMMA SameAnswer ==
  ASSUME NEW info, NEW X, NEW i
  PROVE  HoverMarkdown(info, X, i) = DefinitionPosition(info, X, i)
<1>1. PICK q, n, real, b :
        /\ q = QualifierAt(X, i) /\ n = X[i] /\ real = Resolve(info, n) /\ b = BareColumn(info, n)
  OBVIOUS
<1>2. HoverMarkdown(info, X, i) =
        CASE q # "" -> {ColumnOrNone(Resolve(info, q), n)}
          [] q = "" /\ HasTable(n) -> {<<n>>}
          [] q = "" /\ ~HasTable(n) /\ real # n /\ HasTable(real) -> {<<real>>}
          [] OTHER -> b
  BY <1>1 DEF HoverMarkdown
<1>3. DefinitionPosition(info, X, i) =
        CASE q # "" -> {ColumnOrNone(Resolve(info, q), n)}
          [] q = "" /\ HasTable(n) -> {<<n>>}
          [] q = "" /\ ~HasTable(n) /\ HasTable(real) -> {<<real>>}
          [] OTHER -> b
  BY <1>1 DEF DefinitionPosition
<1>4. ~HasTable(n) /\ HasTable(real) => real # n
  OBVIOUS
<1> QED
  BY <1>2, <1>3, <1>4

Target(X, i) == SymbolTarget(X, i, ExtractTables(X))

\* A qualifier and its column.
Pair(X, i) ==
  /\ i \in DOMAIN X /\ i + 2 \in DOMAIN X
  /\ SymbolKind(X, i) = "qualifier" /\ SymbolKind(X, i + 2) = "column"

\* A link over both, and over one name.
Wide(X, l, i) == Pair(X, i) /\ Target(X, i + 2) # None /\ l = Link(i, i + 2, Target(X, i + 2))

Narrow(X, l, i) ==
  /\ i \in DOMAIN X /\ ~Pair(X, i - 2) /\ Target(X, i) # None
  /\ Pair(X, i) => Target(X, i + 2) = None
  /\ l = Link(i, i, Target(X, i))

\* The links of a text are those of one name and of two.
LEMMA LinkIs ==
  ASSUME NEW X, DOMAIN X \subseteq Int, NEW l
  PROVE  l \in DocumentLinks(X) <=> \E i \in DOMAIN X : Wide(X, l, i) \/ Narrow(X, l, i)
<1>1. PICK pairs : pairs = {i \in DOMAIN X : i + 2 \in DOMAIN X /\ SymbolKind(X, i) = "qualifier"
                                               /\ SymbolKind(X, i + 2) = "column"}
  OBVIOUS
<1>2. PICK single : single = {i \in DOMAIN X : i \notin pairs /\ i - 2 \notin pairs}
  OBVIOUS
<1>3. \A i : i \in pairs <=> Pair(X, i)
  BY <1>1, Zenon DEF Pair
<1>4. DocumentLinks(X) =
        {Link(i, i + 2, Target(X, i + 2)) : i \in {k \in pairs : Target(X, k + 2) # None}}
          \cup {Link(i, i, Target(X, i)) :
                  i \in {k \in pairs : Target(X, k + 2) = None /\ Target(X, k) # None}}
          \cup {Link(i, i, Target(X, i)) : i \in {k \in single : Target(X, k) # None}}
  BY <1>1, <1>2, Zenon DEF DocumentLinks, Target
<1>5. l \in DocumentLinks(X) <=>
        \/ \E i \in pairs : Target(X, i + 2) # None /\ l = Link(i, i + 2, Target(X, i + 2))
        \/ \E i \in pairs : Target(X, i + 2) = None /\ Target(X, i) # None /\ l = Link(i, i, Target(X, i))
        \/ \E i \in single : Target(X, i) # None /\ l = Link(i, i, Target(X, i))
  BY <1>4, Zenon
<1>6. \A i \in pairs : i \in DOMAIN X /\ Pair(X, i)
  BY <1>3, Zenon DEF Pair
<1>7. \A i \in pairs : ~Pair(X, i - 2)
  <2>1. ASSUME NEW i \in pairs, Pair(X, i - 2) PROVE FALSE
    <3>1. SymbolKind(X, i) = "qualifier" /\ i \in Int
      BY <1>6 DEF Pair
    <3>2. SymbolKind(X, (i - 2) + 2) = "column"
      BY <2>1 DEF Pair
    <3>3. (i - 2) + 2 = i
      BY <3>1
    <3> QED
      BY <3>1, <3>2, <3>3
  <2> QED
    BY <2>1
<1>8. \A i : i \in single <=> i \in DOMAIN X /\ ~Pair(X, i) /\ ~Pair(X, i - 2)
  BY <1>2, <1>3, Zenon
<1>9. ASSUME l \in DocumentLinks(X)
      PROVE  \E i \in DOMAIN X : Wide(X, l, i) \/ Narrow(X, l, i)
  BY <1>5, <1>6, <1>7, <1>8, <1>9, Zenon DEF Wide, Narrow
<1>10. ASSUME NEW i \in DOMAIN X, Wide(X, l, i) \/ Narrow(X, l, i)
       PROVE  l \in DocumentLinks(X)
  BY <1>3, <1>5, <1>8, <1>10, Zenon DEF Wide, Narrow
<1> QED
  BY <1>9, <1>10, Zenon

\* What WalkSymbols takes a token for tells what is around it.
LEMMA KindIs ==
  ASSUME NEW X, NEW i
  PROVE  /\ SymbolKind(X, i) \in {"none", "table", "qualifier", "column"}
         /\ SymbolKind(X, i) # "none" => IsName(X[i])
         /\ SymbolKind(X, i) = "qualifier" => Next1(X, i) = "."
         /\ SymbolKind(X, i) = "column" => Qualified(X, i) /\ Next1(X, i) # "."
<1>1. SymbolKind(X, i) # "none" => Candidate(X, i)
  BY DEF SymbolKind
<1>2. Candidate(X, i) => IsName(X[i])
  BY Zenon DEF Candidate
<1> QED
  BY <1>1, <1>2 DEF SymbolKind

\* The dot between a qualifier and its column is no name.
LEMMA PairDot ==
  ASSUME NEW X, DOMAIN X \subseteq Int, NEW i, Pair(X, i)
  PROVE  /\ i \in Int /\ X[i + 1] = "." /\ SymbolKind(X, i + 1) = "none"
         /\ IsName(X[i]) /\ i + 2 > 2
<1>1. i \in Int /\ SymbolKind(X, i + 2) = "column"
  BY DEF Pair
<1>2. Qualified(X, i + 2)
  BY <1>1, KindIs
<1>3. Prev(X, i + 2, 1) = "." /\ IsName(Prev(X, i + 2, 2)) /\ i + 2 > 2
  BY <1>2, Zenon DEF Qualified
<1>4. Prev(X, i + 2, 1) = X[i + 1] /\ Prev(X, i + 2, 2) = X[i]
  <2>1. i + 2 > 2
    BY <1>3
  <2>2. (i + 2) - 1 = i + 1 /\ (i + 2) - 2 = i /\ i + 2 > 1 /\ i + 2 > 2
    BY <1>1, <2>1
  <2>3. Prev(X, i + 2, 1) = X[(i + 2) - 1] /\ Prev(X, i + 2, 2) = X[(i + 2) - 2]
    BY <2>2, Zenon DEF Prev
  <2> QED
    BY <2>2, <2>3, Zenon
<1>5. X[i + 1] = "."
  BY <1>3, <1>4
<1>6. ~IsName(X[i + 1])
  BY <1>5 DEF IsName, IsIdent, Punctuation
<1> QED
  BY <1>1, <1>3, <1>4, <1>5, <1>6, KindIs
-----------------------------------------------------------------------------
\* The fields of a link.
LEMMA LinkFields ==
  ASSUME NEW f, NEW t, NEW x, NEW l, l = Link(f, t, x)
  PROVE  l.first = f /\ l.last = t /\ l.to = x
BY DEF Link

\* Only symbols have targets.
LEMMA NoTarget ==
  ASSUME NEW X, NEW i, Target(X, i) # None
  PROVE  SymbolKind(X, i) \in {"table", "qualifier", "column"}
<1>1. SymbolKind(X, i) \in {"none", "table", "qualifier", "column"}
  BY KindIs
<1>2. SymbolKind(X, i) = "none" => Target(X, i) = None
  BY DEF Target, SymbolTarget
<1> QED
  BY <1>1, <1>2

\* Two qualifiers with their columns are apart.
LEMMA PairsApart ==
  ASSUME NEW X, DOMAIN X \subseteq Int, NEW i, Pair(X, i), NEW j, Pair(X, j), i < j
  PROVE  i + 2 < j
<1>1. i \in Int /\ j \in Int
  BY PairDot
<1>2. SymbolKind(X, j) = "qualifier" /\ SymbolKind(X, i + 2) = "column"
  BY DEF Pair
<1>3. SymbolKind(X, i + 1) = "none"
  BY PairDot
<1>4. j # i + 1 /\ j # i + 2
  BY <1>2, <1>3
<1> QED
  BY <1>1, <1>4

\* A name with a link of its own is in no other.
LEMMA NarrowApart ==
  ASSUME NEW X, DOMAIN X \subseteq Int, NEW l, NEW i, Wide(X, l, i),
         NEW m, NEW j \in Int, Narrow(X, m, j)
  PROVE  i + 2 < j \/ j < i
<1>1. i \in Int /\ Pair(X, i) /\ Target(X, i + 2) # None
  BY PairDot, Zenon DEF Wide
<1>2. ~Pair(X, j - 2) /\ Target(X, j) # None /\ (Pair(X, j) => Target(X, j + 2) = None)
  BY Zenon DEF Narrow
<1>3. j # i
  BY <1>1, <1>2
<1>4. j # i + 1
  BY <1>1, <1>2, NoTarget, PairDot
<1>5. j - 2 # i
  BY <1>1, <1>2
<1> QED
  BY <1>1, <1>3, <1>4, <1>5

\* No two links of a text overlap.
LEMMA LinksApart ==
  ASSUME NEW X, DOMAIN X \subseteq Int, NEW l \in DocumentLinks(X), NEW m \in DocumentLinks(X), l # m
  PROVE  l.last < m.first \/ m.last < l.first
<1>1. PICK i \in DOMAIN X : Wide(X, l, i) \/ Narrow(X, l, i)
  BY LinkIs
<1>2. PICK j \in DOMAIN X : Wide(X, m, j) \/ Narrow(X, m, j)
  BY LinkIs
<1>3. i \in Int /\ j \in Int
  OBVIOUS
<1>4. ASSUME NEW k, NEW n
      PROVE  /\ Wide(X, n, k) => n.first = k /\ n.last = k + 2
             /\ Narrow(X, n, k) => n.first = k /\ n.last = k
  <2>1. Wide(X, n, k) => n = Link(k, k + 2, Target(X, k + 2))
    BY Zenon DEF Wide
  <2>2. Narrow(X, n, k) => n = Link(k, k, Target(X, k))
    BY Zenon DEF Narrow
  <2> QED
    BY <2>1, <2>2 DEF Link
<1>5. CASE Wide(X, l, i) /\ Wide(X, m, j)
  <2>1. i # j
    BY <1>5, Zenon DEF Wide
  <2>2. Pair(X, i) /\ Pair(X, j)
    BY <1>5, Zenon DEF Wide
  <2>3. i < j => i + 2 < j
    BY <2>2, PairsApart
  <2>4. j < i => j + 2 < i
    BY <2>2, PairsApart
  <2>5. l.first = i /\ l.last = i + 2 /\ m.first = j /\ m.last = j + 2
    BY <1>4, <1>5, Zenon
  <2> QED
    BY <1>3, <2>1, <2>3, <2>4, <2>5
<1>6. CASE Wide(X, l, i) /\ Narrow(X, m, j)
  <2>1. i + 2 < j \/ j < i
    BY <1>3, <1>6, NarrowApart
  <2>2. l.first = i /\ l.last = i + 2 /\ m.first = j /\ m.last = j
    BY <1>4, <1>6, Zenon
  <2> QED
    BY <2>1, <2>2
<1>7. CASE Narrow(X, l, i) /\ Wide(X, m, j)
  <2>1. j + 2 < i \/ i < j
    BY <1>3, <1>7, NarrowApart
  <2>2. l.first = i /\ l.last = i /\ m.first = j /\ m.last = j + 2
    BY <1>4, <1>7, Zenon
  <2> QED
    BY <2>1, <2>2
<1>8. CASE Narrow(X, l, i) /\ Narrow(X, m, j)
  <2>1. i # j
    BY <1>8, Zenon DEF Narrow
  <2>2. l.first = i /\ l.last = i /\ m.first = j /\ m.last = j
    BY <1>4, <1>8, Zenon
  <2> QED
    BY <1>3, <2>1, <2>2
<1> QED
  BY <1>1, <1>2, <1>5, <1>6, <1>7, <1>8
-----------------------------------------------------------------------------
\* The target of a column is what is described there.
LEMMA ColumnTarget ==
  ASSUME NEW X, NEW i, SymbolKind(X, i) = "column", NEW info, info = ExtractTables(X)
  PROVE  Target(X, i) = ColumnOrNone(Resolve(info, X[i - 2]), X[i])
BY DEF Target, SymbolTarget

\* The target of a table or qualifier is the table itself, or the one its alias stands for.
LEMMA TableTarget ==
  ASSUME NEW X, NEW i, SymbolKind(X, i) \in {"table", "qualifier"}, NEW info, info = ExtractTables(X),
         Target(X, i) # None
  PROVE  \/ HasTable(X[i]) /\ Target(X, i) = <<X[i]>>
         \/ ~HasTable(X[i]) /\ HasTable(Resolve(info, X[i])) /\ Target(X, i) = <<Resolve(info, X[i])>>
BY DEF Target, SymbolTarget

NoneEmpty(X) == \A j \in DOMAIN X : X[j] # ""

\* Where a link over two names leads.
LEMMA WideTarget ==
  ASSUME NEW X, DOMAIN X \subseteq Int, NoneEmpty(X),
         NEW info, info = ExtractTables(X), NEW l, NEW i, Wide(X, l, i)
  PROVE  l.to \in HoverMarkdown(info, X, l.last)
<1>1. Pair(X, i) /\ l = Link(i, i + 2, Target(X, i + 2))
  BY Zenon DEF Wide
<1>2. /\ i \in Int /\ X[i + 1] = "." /\ IsName(X[i]) /\ i + 2 > 2
      /\ SymbolKind(X, i + 2) = "column" /\ i \in DOMAIN X
  BY <1>1, PairDot, Zenon DEF Pair
<1>3. PICK j, n : j = i + 2 /\ n = X[j]
  OBVIOUS
<1>4. l.last = j /\ l.to = Target(X, j)
  <2>1. l = Link(i, j, Target(X, j))
    BY <1>1, <1>3, Zenon
  <2> QED
    BY <2>1, LinkFields
<1>5. j - 1 = i + 1 /\ j - 2 = i /\ j > 2
  <2>1. i \in Int /\ j = i + 2 /\ i + 2 > 2
    BY <1>2, <1>3
  <2> QED
    BY <2>1
<1>6. IsIdent(X[i]) /\ X[i] # ""
  BY <1>2, Zenon DEF IsName, NoneEmpty
<1>7. QualifierAt(X, j) = X[i]
  BY <1>2, <1>5, <1>6, Zenon DEF QualifierAt
<1>8. Target(X, j) = ColumnOrNone(Resolve(info, X[i]), n)
  BY <1>2, <1>3, <1>5, ColumnTarget
<1>9. PICK q : q = QualifierAt(X, j)
  OBVIOUS
<1>10. HoverMarkdown(info, X, j) = {ColumnOrNone(Resolve(info, q), n)}
  BY <1>3, <1>6, <1>7, <1>9 DEF HoverMarkdown
<1> QED
  BY <1>4, <1>7, <1>8, <1>9, <1>10

\* Where a link over one name leads.
LEMMA NarrowTarget ==
  ASSUME NEW X, DOMAIN X \subseteq Int, NEW info, info = ExtractTables(X), NEW l, NEW i, Narrow(X, l, i)
  PROVE  l.to \in HoverMarkdown(info, X, l.last) \/ (l.first = l.last /\ Prev(X, l.last, 1) = ".")
<1>1. i \in DOMAIN X /\ Target(X, i) # None /\ l = Link(i, i, Target(X, i))
  BY Zenon DEF Narrow
<1>2. l.first = i /\ l.last = i /\ l.to = Target(X, i)
  BY <1>1, LinkFields
<1>3. CASE SymbolKind(X, i) = "column"
  <2>1. Qualified(X, i)
    BY <1>3, KindIs
  <2> QED
    BY <1>2, <2>1, Zenon DEF Qualified
<1>4. CASE SymbolKind(X, i) \in {"table", "qualifier"} /\ Prev(X, i, 1) # "."
  <2>1. i > 2 => X[i - 1] # "."
    <3>1. i > 2 => i > 1
      BY <1>1
    <3> QED
      BY <1>4, <3>1, Zenon DEF Prev
  <2>2. QualifierAt(X, i) = ""
    BY <2>1, Zenon DEF QualifierAt
  <2>3. PICK n, real : n = X[i] /\ real = Resolve(info, n)
    OBVIOUS
  <2>4. \/ HasTable(n) /\ Target(X, i) = <<n>>
        \/ ~HasTable(n) /\ HasTable(real) /\ Target(X, i) = <<real>>
    BY <1>1, <1>4, <2>3, TableTarget
  <2>5. HasTable(n) => HoverMarkdown(info, X, i) = {<<n>>}
    BY <2>2, <2>3 DEF HoverMarkdown
  <2>6. ~HasTable(n) /\ HasTable(real) => HoverMarkdown(info, X, i) = {<<real>>}
    <3>1. ~HasTable(n) /\ HasTable(real) => real # n
      OBVIOUS
    <3> QED
      BY <2>2, <2>3, <3>1 DEF HoverMarkdown
  <2>7. Target(X, i) \in HoverMarkdown(info, X, i)
    BY <2>4, <2>5, <2>6
  <2> QED
    BY <1>2, <2>7
<1> QED
  BY <1>1, <1>2, <1>3, <1>4, NoTarget

\* The texts of a text: there is no empty one.
LEMMA TextWords ==
  ASSUME DocType, NEW X, X = Texts(Tokens(doc))
  PROVE  DOMAIN X \subseteq Int /\ NoneEmpty(X)
<1>1. PICK W : W = Tokens(doc)
  OBVIOUS
<1>2. W \in Seq(Tok)
  BY <1>1, TextLaidOut
<1>3. X \in Seq(Word)
  BY <1>1, <1>2, AtIs
<1>4. DOMAIN X = 1 .. Len(X)
  BY <1>3, LenIs
<1>5. \A j \in DOMAIN X : X[j] \in Word
  BY <1>3
<1>6. NoneEmpty(X)
  BY <1>5, NoEmptyWord, Zenon DEF NoneEmpty
<1>7. DOMAIN X \subseteq Int
  BY <1>4
<1> QED
  BY <1>6, <1>7, Zenon

\* Hover describes what goto-definition jumps to and what a link leads to
\* (server.go:904, 979, 1062).
LEMMA AnswersAgree == DocType => OneMeaning
<1> SUFFICES ASSUME DocType, NEW X, X = Texts(Tokens(doc)), NEW info, info = ExtractTables(X)
             PROVE  /\ \A i \in DOMAIN X : HoverMarkdown(info, X, i) = DefinitionPosition(info, X, i)
                    /\ \A l \in DocumentLinks(X) :
                         l.to \in HoverMarkdown(info, X, l.last)
                           \/ (l.first = l.last /\ Prev(X, l.last, 1) = ".")
  BY Zenon DEF OneMeaning, AnswersMeet
<1>1. DOMAIN X \subseteq Int /\ NoneEmpty(X)
  BY TextWords
<1>2. ASSUME NEW l \in DocumentLinks(X)
      PROVE  l.to \in HoverMarkdown(info, X, l.last) \/ (l.first = l.last /\ Prev(X, l.last, 1) = ".")
  <2>1. PICK i \in DOMAIN X : Wide(X, l, i) \/ Narrow(X, l, i)
    BY <1>1, LinkIs
  <2> QED
    BY <1>1, <2>1, WideTarget, NarrowTarget
<1> QED
  BY <1>2, SameAnswer

\* Hover, goto-definition and links say the same of a name (server.go:904, 979, 1062).
THEOREM Agreement == MCSpec => []OneMeaning
<1>1. DocType => OneMeaning
  BY AnswersAgree
<1> QED
  BY <1>1, DocTyping, PTL
-----------------------------------------------------------------------------
(* Completion. *)

\* Where there is no dot the clause is all that counts.
LEMMA StateIs ==
  ASSUME NEW W \in Seq(Tok), NEW X, X = Texts(W), NEW k \in 1 .. Len(W),
         At(W, k) # ".", At(W, k - 1) # "."
  PROVE  DetermineState(X, k).state = ClauseAfter(W, k)
<1>1. \A j \in 1 .. Len(W) : X[j] = At(W, j)
  BY AtIs
<1>2. X[k] # "."
  BY <1>1
<1>3. k >= 3 => X[k - 1] # "."
  <2>1. k >= 3 => k - 1 \in 1 .. Len(W)
    BY AtIs
  <2> QED
    BY <1>1, <2>1, Zenon
<1>4. DetermineState(X, k) =
        [state |-> FoldLeft(Clause, "unknown", SubSeq(X, 1, k)), qualifier |-> ""]
  BY <1>2, <1>3, Zenon DEF DetermineState
<1>5. PICK c : c = FoldLeft(Clause, "unknown", SubSeq(X, 1, k))
  OBVIOUS
<1>6. DetermineState(X, k).state = c
  <2>1. PICK r : r = DetermineState(X, k)
    OBVIOUS
  <2>2. r = [state |-> c, qualifier |-> ""]
    BY <1>4, <1>5, <2>1, Zenon
  <2>3. r.state = c
    BY <2>2
  <2> QED
    BY <2>1, <2>3
<1> QED
  BY <1>5, <1>6, Zenon DEF ClauseAfter

\* What may stand at a token is told from the clause before it.
LEMMA AtRole ==
  ASSUME NEW W, NEW B, NEW V, NEW known, NEW i, TextRole(W, B, V, known, i), W[i].at # ""
  PROVE  \/ W[i].at = "table" /\ InList(W, i - 1)
         \/ W[i].at = "column" /\ BeforeRef(W, i - 1)
<1>1. ASSUME NEW text, IsPlain(text, W[i]) PROVE FALSE
  BY <1>1, Zenon DEF IsPlain
<1>2. Role(W, B, V, known, i)
  BY <1>1, Zenon DEF TextRole
<1>3. CASE TableRole(W, V, known, i)
  BY <1>3, Zenon DEF TableRole, IsTable
<1>4. CASE SchemaRole(W, i)
  BY <1>4, Zenon DEF SchemaRole, IsSchema
<1>5. ~QualifiedTableRole(W, i)
  BY Zenon DEF QualifiedTableRole, IsQualifiedTable
<1>6. CASE QualifierRole(W, B, known, i)
  BY <1>6, Zenon DEF QualifierRole, IsQualifier
<1>7. ~ColumnRole(W, B, i)
  BY Zenon DEF ColumnRole, IsColumn
<1>8. ~PlainRole(W, i)
  BY <1>1, Zenon DEF PlainRole
<1> QED
  BY <1>2, <1>3, <1>4, <1>5, <1>6, <1>7, <1>8, Zenon DEF Role

\* Before a table of a list, and before a reference, there is a keyword or a comma.
LEMMA StateBefore ==
  ASSUME NEW W \in Seq(Tok), NEW i \in 1 .. Len(W), NEW X, X = Texts(W),
         InList(W, i - 1) \/ BeforeRef(W, i - 1)
  PROVE  DetermineState(X, i - 1).state = ClauseAfter(W, i - 1)
<1>1. PICK k : k = i - 1 /\ k \in Int /\ k - 1 = i - 2
  OBVIOUS
<1>2. At(W, k) \in FromKeywords \cup {",", "SELECT", "AND", "="} /\ At(W, k - 1) # "."
  <2>1. InList(W, k) => At(W, k) \in FromKeywords \cup {","} /\ At(W, k - 1) # "."
    BY Zenon DEF InList
  <2>2. BeforeRef(W, k) => At(W, k) \in {"SELECT", "AND", "="} /\ At(W, k - 1) # "."
    BY Zenon DEF BeforeRef
  <2>3. InList(W, k) \/ BeforeRef(W, k)
    BY <1>1
  <2> QED
    BY <2>1, <2>2, <2>3
<1>3. At(W, k) # "" /\ At(W, k) # "."
  BY <1>2 DEF FromKeywords
<1>4. k \in 1 .. Len(W)
  BY <1>1, <1>3, SomeToken
<1>5. DetermineState(X, k).state = ClauseAfter(W, k)
  BY <1>2, <1>3, <1>4, StateIs
<1> QED
  BY <1>1, <1>5

\* Completion knows the clause it is in (README.md:170-174).
LEMMA ClauseIsRight == DocType => ClauseRight
<1> SUFFICES ASSUME DocType, NEW W, W = Tokens(doc), NEW X, X = Texts(W),
                    NEW i \in DOMAIN W, W[i].at # "", Prev(X, i, 1) # "AND"
             PROVE  DetermineState(X, i - 1).state = W[i].at
  BY Zenon DEF ClauseRight, KnowsClause
<1>1. PICK info, known, B :
        info = ExtractTables(X) /\ known = Known(doc) /\ B = BodiesBound(doc)
  OBVIOUS
<1>2. W \in Seq(Tok)
  BY TextLaidOut
<1>3. i \in 1 .. Len(W)
  BY <1>2, LenIs
<1>4. TextRole(W, B, info.virtual, known, i)
  BY <1>1, <1>3, LookupContext DEF Context
<1>5. \/ W[i].at = "table" /\ InList(W, i - 1)
      \/ W[i].at = "column" /\ BeforeRef(W, i - 1)
  BY <1>4, AtRole
<1>6. DetermineState(X, i - 1).state = ClauseAfter(W, i - 1)
  BY <1>2, <1>3, <1>5, StateBefore
<1>7. At(W, i - 1) # "AND"
  BY <1>2, <1>3, Around
<1>8. CASE W[i].at = "table" /\ InList(W, i - 1)
  <2>1. ClauseAfter(W, i - 1) = "table"
    BY <1>8, Zenon DEF InList
  <2> QED
    BY <1>6, <1>8, <2>1, Zenon
<1>9. CASE W[i].at = "column" /\ BeforeRef(W, i - 1)
  <2>1. ClauseAfter(W, i - 1) = "column"
    BY <1>7, <1>9, Zenon DEF BeforeRef
  <2> QED
    BY <1>6, <1>9, <2>1, Zenon
<1> QED
  BY <1>5, <1>8, <1>9

\* Completion knows the clause it is in (README.md:170-174).
THEOREM ClauseKnown == MCSpec => []ClauseRight
<1>1. DocType => ClauseRight
  BY ClauseIsRight
<1> QED
  BY <1>1, DocTyping, PTL
-----------------------------------------------------------------------------
(* Goto-definition. *)

\* The places before a token.
LEMMA PlacesBefore ==
  ASSUME NEW n \in Nat, NEW i \in 1 .. n
  PROVE  /\ i \in Int /\ i - 1 \in Int /\ i - 2 \in Int
         /\ i - 2 \in 1 .. n => i > 2 /\ i - 1 \in 1 .. n
OBVIOUS

\* A name without a qualifier, and with one.
LEMMA NoQualifier ==
  ASSUME NEW W \in Seq(Tok), NEW X, X = Texts(W), NEW i \in 1 .. Len(W), At(W, i - 1) # "."
  PROVE  QualifierAt(X, i) = ""
<1>1. i > 2 => X[i - 1] = At(W, i - 1)
  <2>1. i > 2 => i - 1 \in 1 .. Len(W)
    BY AtIs
  <2> QED
    BY <2>1, AtIs
<1> QED
  BY <1>1, Zenon DEF QualifierAt

\* The qualifier of a name behind a dot.
LEMMA SomeQualifier ==
  ASSUME NEW W \in Seq(Tok), NEW X, X = Texts(W), NEW i \in 1 .. Len(W), At(W, i - 1) = ".",
         NEW q, q = At(W, i - 2), IsName(q), q # ""
  PROVE  QualifierAt(X, i) = q /\ X[i - 2] = q /\ i > 2
<1>1. i - 2 \in Int /\ i - 1 \in Int
  BY PlacesBefore, LenIs
<1>2. i - 2 \in 1 .. Len(W)
  BY <1>1, SomeToken
<1>3. i > 2 /\ i - 1 \in 1 .. Len(W)
  BY <1>2, PlacesBefore, LenIs
<1>4. X[i - 1] = "." /\ X[i - 2] = q
  BY <1>2, <1>3, AtIs
<1>5. IsIdent(q)
  BY Zenon DEF IsName
<1> QED
  BY <1>3, <1>4, <1>5, Zenon DEF QualifierAt

Bare(X, i) == QualifierAt(X, i) = ""

\* What a name without a qualifier is defined as.
LEMMA TableDefinition ==
  ASSUME NEW info, NEW X, NEW i, Bare(X, i)
  PROVE  /\ HasTable(X[i]) => DefinitionPosition(info, X, i) = {<<X[i]>>}
         /\ ~HasTable(X[i]) /\ HasTable(Resolve(info, X[i])) =>
              DefinitionPosition(info, X, i) = {<<Resolve(info, X[i])>>}
BY DEF DefinitionPosition, Bare

\* The definition of a column is in the table of its qualifier.
LEMMA ColumnDefinition ==
  ASSUME NEW info, NEW X, NEW i, QualifierAt(X, i) # ""
  PROVE  DefinitionPosition(info, X, i) = {ColumnOrNone(Resolve(info, QualifierAt(X, i)), X[i])}
BY DEF DefinitionPosition

\* A qualifier means one table, its own or that of the alias it is.
LEMMA QualifierMeans ==
  ASSUME NEW info, NEW B, AliasesAre(info.aliases, B), Consistent(B),
         NEW n, NEW t, Means(B, n, t), HasTable(t)
  PROVE  /\ Resolve(info, n) = t
         /\ HasTable(n) => t = n
<1>1. Means(B, n, Resolve(info, n))
  BY ResolveMeans
<1>2. Resolve(info, n) = t
  BY <1>1, MeansOne
<1>3. ASSUME HasTable(n) PROVE ~Binds(B, n)
  BY <1>3, Zenon DEF Consistent, Binds
<1>4. ~Binds(B, n) => t = n
  BY DEF Means
<1> QED
  BY <1>2, <1>3, <1>4

\* The answers for a name refer to what it refers to.
Found(W, info, i) ==
  \/ W[i].to = None
  \/ Len(W[i].to) = 1 /\ At(W, i - 1) = "."
  \/ DefinitionPosition(info, Texts(W), i) = {W[i].to}

\* Goto-definition finds a table,
LEMMA TableFound ==
  ASSUME NEW W \in Seq(Tok), NEW info, NEW known, NEW i \in 1 .. Len(W),
         TableRole(W, info.virtual, known, i)
  PROVE  Found(W, info, i)
<1> SUFFICES ASSUME W[i].to # None PROVE DefinitionPosition(info, Texts(W), i) = {W[i].to}
  BY Zenon DEF Found
<1>1. PICK X, n, x : X = Texts(W) /\ n = At(W, i) /\ x = W[i]
  OBVIOUS
<1>2. At(W, i - 1) \in FromKeywords \cup {","}
  BY Zenon DEF TableRole, InList
<1>3. At(W, i - 1) # "."
  BY <1>2 DEF FromKeywords
<1>4. TableVerdict(info.virtual, known, x) /\ x.text = n
  BY <1>1, Zenon DEF TableRole, IsTable
<1>5. x.to = <<n>> /\ HasTable(n)
  BY <1>1, <1>4, Zenon DEF TableVerdict
<1>6. QualifierAt(X, i) = "" /\ n = X[i]
  BY <1>1, <1>3, NoQualifier, AtIs
<1>7. DefinitionPosition(info, X, i) = {<<n>>}
  <2>1. HasTable(X[i])
    BY <1>5, <1>6
  <2>2. DefinitionPosition(info, X, i) = {<<X[i]>>}
    <3>1. Bare(X, i)
      BY <1>6, Zenon DEF Bare
    <3> QED
      BY <2>1, <3>1, TableDefinition
  <2> QED
    BY <1>6, <2>2
<1> QED
  BY <1>1, <1>5, <1>7, Zenon

\* a table behind a schema name,
LEMMA QualifiedTableFound ==
  ASSUME NEW W \in Seq(Tok), NEW info, NEW i \in 1 .. Len(W), QualifiedTableRole(W, i)
  PROVE  Found(W, info, i)
<1>1. PICK n, x : n = At(W, i) /\ x = W[i]
  OBVIOUS
<1>2. At(W, i - 1) = "."
  BY Zenon DEF QualifiedTableRole
<1>3. TableVerdict({}, {}, x) /\ x.text = n
  BY <1>1, Zenon DEF QualifiedTableRole, IsQualifiedTable
<1>4. x.to # None => x.to = <<n>>
  BY <1>3, Zenon DEF TableVerdict
<1>5. Len(<<n>>) = 1
  OBVIOUS
<1>6. W[i].to # None => Len(W[i].to) = 1
  BY <1>1, <1>4, <1>5, Zenon
<1> QED
  BY <1>2, <1>6, Zenon DEF Found

\* what a qualifier stands for
LEMMA QualifierFound ==
  ASSUME NEW W \in Seq(Tok), NEW info, NEW known, NEW B, AliasesAre(info.aliases, B), Consistent(B),
         NEW i \in 1 .. Len(W), QualifierRole(W, B, known, i)
  PROVE  Found(W, info, i)
<1> SUFFICES ASSUME W[i].to # None PROVE DefinitionPosition(info, Texts(W), i) = {W[i].to}
  BY Zenon DEF Found
<1>1. PICK X, n, x : X = Texts(W) /\ n = At(W, i) /\ x = W[i]
  OBVIOUS
<1>2. At(W, i - 1) # "."
  <2>1. BeforeRef(W, i - 1)
    BY Zenon DEF QualifierRole
  <2>2. At(W, i - 1) \notin FromKeywords \cup {".", ","}
    BY <2>1, BeforeRefIs, Zenon
  <2> QED
    BY <2>2
<1>3. QualifierVerdict(B, known, x) /\ x.text = n
  BY <1>1, Zenon DEF QualifierRole, IsQualifier
<1>4. PICK t : x.to = <<t>> /\ Means(B, n, t) /\ HasTable(t)
  BY <1>1, <1>3, Zenon DEF QualifierVerdict
<1>5. Resolve(info, n) = t /\ (HasTable(n) => t = n)
  BY <1>4, QualifierMeans
<1>6. QualifierAt(X, i) = "" /\ n = X[i]
  BY <1>1, <1>2, NoQualifier, AtIs
<1>7. DefinitionPosition(info, X, i) = {<<t>>}
  <2>1. /\ HasTable(X[i]) => DefinitionPosition(info, X, i) = {<<X[i]>>}
        /\ ~HasTable(X[i]) /\ HasTable(Resolve(info, X[i])) =>
             DefinitionPosition(info, X, i) = {<<Resolve(info, X[i])>>}
    <3>1. Bare(X, i)
      BY <1>6, Zenon DEF Bare
    <3> QED
      BY <3>1, TableDefinition
  <2>2. HasTable(X[i]) => X[i] = t
    BY <1>5, <1>6
  <2>3. Resolve(info, X[i]) = t
    BY <1>5, <1>6
  <2> QED
    BY <1>4, <2>1, <2>2, <2>3
<1> QED
  BY <1>1, <1>4, <1>7, Zenon

\* and a column,
LEMMA ColumnFound ==
  ASSUME NEW W \in Seq(Tok), NEW info, NEW B, AliasesAre(info.aliases, B), Consistent(B),
         NEW i \in 1 .. Len(W), ColumnRole(W, B, i)
  PROVE  Found(W, info, i)
<1> SUFFICES ASSUME W[i].to # None PROVE DefinitionPosition(info, Texts(W), i) = {W[i].to}
  BY Zenon DEF Found
<1>1. PICK X, n, x, q : X = Texts(W) /\ n = At(W, i) /\ x = W[i] /\ q = At(W, i - 2)
  OBVIOUS
<1>2. At(W, i - 1) = "." /\ q \in AnyName
  BY <1>1, Zenon DEF ColumnRole
<1>3. ColumnVerdict(B, q, x) /\ x.text = n
  BY <1>1, Zenon DEF ColumnRole, IsColumn
<1>4. PICK t : x.to = <<t, n>> /\ Means(B, q, t) /\ HasColumn(t, n)
  BY <1>1, <1>3, Zenon DEF ColumnVerdict
<1>5. HasTable(t)
  BY <1>4, Zenon DEF HasColumn
<1>6. Resolve(info, q) = t
  BY <1>4, <1>5, QualifierMeans
<1>7. IsName(q) /\ q # ""
  BY <1>2, NameIs
<1>8. QualifierAt(X, i) = q /\ n = X[i]
  <2>1. QualifierAt(X, i) = q
    BY <1>1, <1>2, <1>7, SomeQualifier, Zenon
  <2>2. n = X[i]
    BY <1>1, AtIs, Zenon
  <2> QED
    BY <2>1, <2>2
<1>9. DefinitionPosition(info, X, i) = {ColumnOrNone(t, n)}
  <2>1. QualifierAt(X, i) # ""
    BY <1>7, <1>8, Zenon
  <2>2. DefinitionPosition(info, X, i) = {ColumnOrNone(Resolve(info, q), n)}
    BY <1>8, <2>1, ColumnDefinition, Zenon
  <2> QED
    BY <1>6, <2>2, Zenon
<1>10. ColumnOrNone(t, n) = <<t, n>>
  BY <1>4, Zenon DEF ColumnOrNone
<1> QED
  BY <1>1, <1>4, <1>9, <1>10, Zenon

\* so all that refers to something.
LEMMA RoleFound ==
  ASSUME NEW W \in Seq(Tok), NEW info, NEW known, NEW B, AliasesAre(info.aliases, B), Consistent(B),
         NEW i \in 1 .. Len(W), TextRole(W, B, info.virtual, known, i)
  PROVE  Found(W, info, i)
<1>1. ASSUME NEW text, IsPlain(text, W[i]) PROVE Found(W, info, i)
  BY <1>1, Zenon DEF IsPlain, Found
<1>2. CASE Role(W, B, info.virtual, known, i)
  <2>1. CASE TableRole(W, info.virtual, known, i)
    BY <2>1, TableFound
  <2>2. CASE SchemaRole(W, i)
    BY <2>2, Zenon DEF SchemaRole, IsSchema, Found
  <2>3. CASE QualifiedTableRole(W, i)
    BY <2>3, QualifiedTableFound
  <2>4. CASE QualifierRole(W, B, known, i)
    BY <2>4, QualifierFound
  <2>5. CASE ColumnRole(W, B, i)
    BY <2>5, ColumnFound
  <2>6. CASE PlainRole(W, i)
    BY <1>1, <2>6, Zenon DEF PlainRole
  <2> QED
    BY <1>2, <2>1, <2>2, <2>3, <2>4, <2>5, <2>6, Zenon DEF Role
<1> QED
  BY <1>1, <1>2, Zenon DEF TextRole

\* Goto-definition finds what a name refers to (README.md:175-178).
LEMMA DefinitionIsRight == DocType => DefinitionRight
<1> SUFFICES ASSUME DocType, AllDistinct(doc), NEW i \in DOMAIN Tokens(doc), Tokens(doc)[i].to # None,
                    ~(Len(Tokens(doc)[i].to) = 1 /\ Prev(Texts(Tokens(doc)), i, 1) = ".")
             PROVE  DefinitionPosition(ExtractTables(Texts(Tokens(doc))), Texts(Tokens(doc)), i)
                      = {Tokens(doc)[i].to}
  BY Zenon DEF DefinitionRight, FindsReferents
<1>0. PICK W, X, info : W = Tokens(doc) /\ X = Texts(W) /\ info = ExtractTables(X)
  OBVIOUS
<1>1. PICK known, B : known = Known(doc) /\ B = BodiesBound(doc)
  OBVIOUS
<1>2. W \in Seq(Tok)
  BY <1>0, TextLaidOut
<1>3. i \in 1 .. Len(W)
  BY <1>0, <1>2, LenIs
<1>4. TextRole(W, B, info.virtual, known, i) /\ AliasesAre(info.aliases, B)
  BY <1>0, <1>1, <1>3, LookupContext DEF Context
<1>5. Consistent(B)
  BY <1>1, AllDistinctIs DEF DocType
<1>6. Found(W, info, i)
  BY <1>2, <1>3, <1>4, <1>5, RoleFound
<1>7. Prev(X, i, 1) = At(W, i - 1)
  BY <1>0, <1>2, <1>3, Around
<1> QED
  BY <1>0, <1>6, <1>7, Zenon DEF Found

\* Goto-definition finds what a name refers to (README.md:175-178).
THEOREM Definitions == MCSpec => []DefinitionRight
<1>1. DocType => DefinitionRight
  BY DefinitionIsRight
<1> QED
  BY <1>1, DocTyping, PTL
-----------------------------------------------------------------------------
(* Links lead where names refer to. *)

\* What a name is taken for, told from the texts around it.
KindFrom(n, p1, p2, p3) ==
  CASE n = "." -> IF p1 \in FromKeywords THEN "none" ELSE "qualifier"
    [] n # "." /\ p1 = "." /\ IsName(p2) -> IF p3 \in FromKeywords THEN "table" ELSE "column"
    [] OTHER -> IF p1 \in FromKeywords THEN "table" ELSE "none"
Kinded(W, i) == KindFrom(At(W, i + 1), At(W, i - 1), At(W, i - 2), At(W, i - 3))

\* A name that is not called.
Named(W, i) == At(W, i) \in AnyName /\ At(W, i + 1) # "(" /\ DotBehind(W, i)

\* WalkSymbols knows the kind of a name from the tokens around it.
LEMMA KindFound ==
  ASSUME NEW W \in Seq(Tok), NEW X, X = Texts(W), NEW i \in 1 .. Len(W), Named(W, i)
  PROVE  SymbolKind(X, i) = Kinded(W, i)
<1>1. PICK t, n, p1, p2, p3 :
        /\ t = At(W, i) /\ n = At(W, i + 1)
        /\ p1 = At(W, i - 1) /\ p2 = At(W, i - 2) /\ p3 = At(W, i - 3)
  OBVIOUS
<1>2. /\ X[i] = t /\ Next1(X, i) = n
      /\ Prev(X, i, 1) = p1 /\ Prev(X, i, 2) = p2 /\ Prev(X, i, 3) = p3
  BY <1>1, Around
<1>3. t \in AnyName /\ n # "(" /\ DotBehind(W, i)
  BY <1>1, Zenon DEF Named
<1>4. Candidate(X, i)
  <2>1. IsName(t)
    BY <1>3, NameIs
  <2> QED
    BY <1>2, <1>3, <2>1, Zenon DEF Candidate
<1>5. Qualified(X, i) <=> p1 = "." /\ IsName(p2)
  <2>1. ASSUME p1 = "." PROVE i > 2
    <3>1. At(W, i - 2) # ""
      BY <1>1, <1>3, <2>1, Zenon DEF DotBehind
    <3>2. i - 2 \in Int /\ Len(W) \in Nat
      BY AtIs, PlacesBefore
    <3>3. i - 2 \in 1 .. Len(W)
      BY <3>1, <3>2, SomeToken
    <3> QED
      BY <3>2, <3>3, PlacesBefore
  <2> QED
    BY <1>2, <2>1 DEF Qualified
<1>6. SymbolKind(X, i) = KindFrom(n, p1, p2, p3)
  BY <1>2, <1>4, <1>5 DEF SymbolKind, KindFrom
<1> QED
  BY <1>1, <1>6, Zenon DEF Kinded

\* The targets of tables and qualifiers, and of columns.
LEMMA TargetOfTable ==
  ASSUME NEW W \in Seq(Tok), NEW X, X = Texts(W), NEW info, info = ExtractTables(X),
         NEW i \in 1 .. Len(W), Named(W, i), Kinded(W, i) \in {"table", "qualifier"}, NEW n, n = At(W, i)
  PROVE  Target(X, i) = LET table == IF HasTable(n) THEN n ELSE Resolve(info, n)
                        IN  IF HasTable(table) THEN <<table>> ELSE None
<1>1. SymbolKind(X, i) \in {"table", "qualifier"}
  BY KindFound
<1>2. X[i] = n
  BY AtIs
<1> QED
  BY <1>1, <1>2 DEF Target, SymbolTarget

\* The target of a column.
LEMMA TargetOfColumn ==
  ASSUME NEW W \in Seq(Tok), NEW X, X = Texts(W), NEW info, info = ExtractTables(X),
         NEW i \in 1 .. Len(W), Named(W, i), Kinded(W, i) = "column",
         NEW q, q = X[i - 2], NEW n, n = At(W, i)
  PROVE  Target(X, i) = ColumnOrNone(Resolve(info, q), n)
<1>1. SymbolKind(X, i) = "column"
  BY KindFound
<1>2. X[i] = n
  BY AtIs
<1> QED
  BY <1>1, <1>2, ColumnTarget

\* What is no symbol has no target.
LEMMA TargetOfNone ==
  ASSUME NEW W \in Seq(Tok), NEW X, X = Texts(W),
         NEW i \in 1 .. Len(W), Named(W, i), Kinded(W, i) = "none"
  PROVE  Target(X, i) = None
<1>1. SymbolKind(X, i) = "none"
  BY KindFound
<1> QED
  BY <1>1, NoTarget

\* What has a link leads where it refers to, and has one unless it is behind a comma.
Linked(W, i) ==
  W[i].to # None =>
    /\ Target(Texts(W), i) \in {None, W[i].to}
    /\ ~CommaBefore(W, i) => Target(Texts(W), i) # None

\* The target of a table is right,
LEMMA TableLinked ==
  ASSUME NEW W \in Seq(Tok), NEW info, info = ExtractTables(Texts(W)), NEW known,
         NEW i \in 1 .. Len(W), TableRole(W, info.virtual, known, i)
  PROVE  Linked(W, i)
<1> SUFFICES ASSUME W[i].to # None
             PROVE  /\ Target(Texts(W), i) \in {None, W[i].to}
                    /\ ~CommaBefore(W, i) => Target(Texts(W), i) # None
  BY Zenon DEF Linked
<1>1. PICK X, t, x, n, p1, p2, p3 :
        /\ X = Texts(W) /\ t = At(W, i) /\ x = W[i] /\ n = At(W, i + 1)
        /\ p1 = At(W, i - 1) /\ p2 = At(W, i - 2) /\ p3 = At(W, i - 3)
  OBVIOUS
<1>2. t \in AnyName /\ n \notin {".", "("} /\ p1 \in FromKeywords \cup {","}
  BY <1>1, Zenon DEF TableRole, OneName, InList
<1>3. p1 # "." /\ n # "." /\ n # "(" /\ (p1 = "," \/ p1 \in FromKeywords)
  BY <1>2 DEF FromKeywords
<1>4. TableVerdict(info.virtual, known, x) /\ x.text = t
  BY <1>1, Zenon DEF TableRole, IsTable
<1>5. x.to = <<t>> /\ HasTable(t)
  BY <1>1, <1>4, Zenon DEF TableVerdict
<1>6. Named(W, i)
  BY <1>1, <1>2, <1>3, Zenon DEF Named, DotBehind
<1>7. KindFrom(n, p1, p2, p3) = IF p1 \in FromKeywords THEN "table" ELSE "none"
  BY <1>3 DEF KindFrom
<1>8. Kinded(W, i) = KindFrom(n, p1, p2, p3)
  BY <1>1, Zenon DEF Kinded
<1>9. CASE p1 \in FromKeywords
  <2>1. Kinded(W, i) \in {"table", "qualifier"}
    BY <1>7, <1>8, <1>9
  <2>2. Target(X, i) = <<t>>
    BY <1>1, <1>5, <1>6, <2>1, TargetOfTable
  <2>3. <<t>> # None
    BY DEF None
  <2> QED
    BY <1>1, <1>5, <2>2, <2>3
<1>10. CASE p1 \notin FromKeywords
  <2>1. Kinded(W, i) = "none"
    BY <1>7, <1>8, <1>10
  <2>2. Target(X, i) = None
    BY <1>1, <1>6, <2>1, TargetOfNone
  <2>3. CommaBefore(W, i)
    BY <1>1, <1>3, <1>10, Zenon DEF CommaBefore
  <2> QED
    BY <1>1, <2>2, <2>3
<1> QED
  BY <1>9, <1>10
-----------------------------------------------------------------------------
\* of a table behind a schema name,
LEMMA QualifiedTableLinked ==
  ASSUME NEW W \in Seq(Tok), NEW info, info = ExtractTables(Texts(W)),
         NEW B, AliasesAre(info.aliases, B), NamesIn(B),
         NEW i \in 1 .. Len(W), QualifiedTableRole(W, i)
  PROVE  Linked(W, i)
<1> SUFFICES ASSUME W[i].to # None
             PROVE  /\ Target(Texts(W), i) \in {None, W[i].to}
                    /\ ~CommaBefore(W, i) => Target(Texts(W), i) # None
  BY Zenon DEF Linked
<1>1. PICK X, t, x, n, p1, p2, p3 :
        /\ X = Texts(W) /\ t = At(W, i) /\ x = W[i] /\ n = At(W, i + 1)
        /\ p1 = At(W, i - 1) /\ p2 = At(W, i - 2) /\ p3 = At(W, i - 3)
  OBVIOUS
<1>2. /\ t \in AnyName /\ n \notin {".", "("} /\ p1 = "." /\ p2 \in AnySchema
      /\ p3 \in FromKeywords \cup {","}
  BY <1>1, Zenon DEF QualifiedTableRole, OneName, InList
<1>3. n # "." /\ n # "(" /\ (p3 = "," \/ p3 \in FromKeywords)
  BY <1>2 DEF FromKeywords
<1>4. TableVerdict({}, {}, x) /\ x.text = t
  BY <1>1, Zenon DEF QualifiedTableRole, IsQualifiedTable
<1>5. x.to = <<t>> /\ HasTable(t)
  BY <1>1, <1>4, Zenon DEF TableVerdict
<1>6. IsName(p2) /\ p2 # ""
  BY <1>2, NameIs
<1>7. Named(W, i)
  BY <1>1, <1>2, <1>3, <1>6, Zenon DEF Named, DotBehind
<1>8. KindFrom(n, p1, p2, p3) = IF p3 \in FromKeywords THEN "table" ELSE "column"
  BY <1>2, <1>3, <1>6 DEF KindFrom
<1>9. Kinded(W, i) = KindFrom(n, p1, p2, p3)
  BY <1>1, Zenon DEF Kinded
<1>10. CASE p3 \in FromKeywords
  <2>1. Kinded(W, i) \in {"table", "qualifier"}
    BY <1>8, <1>9, <1>10
  <2>2. Target(X, i) = <<t>>
    BY <1>1, <1>5, <1>7, <2>1, TargetOfTable
  <2>3. <<t>> # None
    BY DEF None
  <2> QED
    BY <1>1, <1>5, <2>2, <2>3
<1>11. CASE p3 \notin FromKeywords
  <2>1. Kinded(W, i) = "column"
    BY <1>8, <1>9, <1>11
  <2>2. X[i - 2] = p2
    BY <1>1, <1>2, <1>6, SomeQualifier, Zenon
  <2>3. Target(X, i) = ColumnOrNone(Resolve(info, X[i - 2]), t)
    BY <1>1, <1>7, <2>1, TargetOfColumn
  <2>4. ~HasTable(Resolve(info, p2))
    BY <1>2, SchemaUnbound
  <2>5. ~HasColumn(Resolve(info, p2), t)
    BY <2>4, Zenon DEF HasColumn
  <2>6. Target(X, i) = None
    BY <2>2, <2>3, <2>5, Zenon DEF ColumnOrNone
  <2>7. CommaBefore(W, i)
    BY <1>1, <1>2, <1>3, <1>11, Zenon DEF CommaBefore
  <2> QED
    BY <1>1, <2>6, <2>7
<1> QED
  BY <1>10, <1>11

\* of a qualifier
LEMMA QualifierLinked ==
  ASSUME NEW W \in Seq(Tok), NEW info, info = ExtractTables(Texts(W)), NEW known,
         NEW B, AliasesAre(info.aliases, B), Consistent(B),
         NEW i \in 1 .. Len(W), QualifierRole(W, B, known, i)
  PROVE  Linked(W, i)
<1> SUFFICES ASSUME W[i].to # None
             PROVE  /\ Target(Texts(W), i) \in {None, W[i].to}
                    /\ ~CommaBefore(W, i) => Target(Texts(W), i) # None
  BY Zenon DEF Linked
<1>1. PICK X, t, x, n, p1, p2, p3 :
        /\ X = Texts(W) /\ t = At(W, i) /\ x = W[i] /\ n = At(W, i + 1)
        /\ p1 = At(W, i - 1) /\ p2 = At(W, i - 2) /\ p3 = At(W, i - 3)
  OBVIOUS
<1>2. t \in AnyName /\ n = "." /\ BeforeRef(W, i - 1)
  BY <1>1, Zenon DEF QualifierRole
<1>3. p1 \notin FromKeywords \cup {".", ","}
  BY <1>1, <1>2, BeforeRefIs, Zenon
<1>4. p1 # "." /\ p1 \notin FromKeywords /\ n # "("
  BY <1>2, <1>3
<1>5. QualifierVerdict(B, known, x) /\ x.text = t
  BY <1>1, Zenon DEF QualifierRole, IsQualifier
<1>6. PICK u : x.to = <<u>> /\ Means(B, t, u) /\ HasTable(u)
  BY <1>1, <1>5, Zenon DEF QualifierVerdict
<1>7. Resolve(info, t) = u /\ (HasTable(t) => u = t)
  BY <1>6, QualifierMeans
<1>8. Named(W, i)
  BY <1>1, <1>2, <1>4, Zenon DEF Named, DotBehind
<1>9. KindFrom(n, p1, p2, p3) = "qualifier"
  BY <1>2, <1>4 DEF KindFrom
<1>10. Kinded(W, i) \in {"table", "qualifier"}
  <2>1. Kinded(W, i) = KindFrom(n, p1, p2, p3)
    BY <1>1, Zenon DEF Kinded
  <2> QED
    BY <1>9, <2>1
<1>11. Target(X, i) = <<u>>
  BY <1>1, <1>6, <1>7, <1>8, <1>10, TargetOfTable
<1>12. <<u>> # None
  BY DEF None
<1> QED
  BY <1>1, <1>6, <1>11, <1>12

\* and of a column,
LEMMA ColumnLinked ==
  ASSUME NEW W \in Seq(Tok), NEW info, info = ExtractTables(Texts(W)),
         NEW B, AliasesAre(info.aliases, B), Consistent(B),
         NEW i \in 1 .. Len(W), ColumnRole(W, B, i)
  PROVE  Linked(W, i)
<1> SUFFICES ASSUME W[i].to # None
             PROVE  /\ Target(Texts(W), i) \in {None, W[i].to}
                    /\ ~CommaBefore(W, i) => Target(Texts(W), i) # None
  BY Zenon DEF Linked
<1>1. PICK X, t, x, n, p1, p2, p3 :
        /\ X = Texts(W) /\ t = At(W, i) /\ x = W[i] /\ n = At(W, i + 1)
        /\ p1 = At(W, i - 1) /\ p2 = At(W, i - 2) /\ p3 = At(W, i - 3)
  OBVIOUS
<1>2. t \in AnyName /\ n \notin {".", "("} /\ p1 = "." /\ p2 \in AnyName /\ BeforeRef(W, i - 3)
  BY <1>1, Zenon DEF ColumnRole, OneName
<1>3. p3 \notin FromKeywords
  BY <1>1, <1>2, BeforeRefIs, Zenon
<1>4. IsName(p2) /\ p2 # "" /\ n # "." /\ n # "("
  BY <1>2, NameIs
<1>5. ColumnVerdict(B, p2, x) /\ x.text = t
  BY <1>1, Zenon DEF ColumnRole, IsColumn
<1>6. PICK u : x.to = <<u, t>> /\ Means(B, p2, u) /\ HasColumn(u, t)
  BY <1>1, <1>5, Zenon DEF ColumnVerdict
<1>7. Resolve(info, p2) = u
  <2>1. HasTable(u)
    BY <1>6, Zenon DEF HasColumn
  <2> QED
    BY <1>6, <2>1, QualifierMeans
<1>8. Named(W, i)
  BY <1>1, <1>2, <1>4, Zenon DEF Named, DotBehind
<1>9. KindFrom(n, p1, p2, p3) = "column"
  BY <1>2, <1>3, <1>4 DEF KindFrom
<1>10. Kinded(W, i) = "column"
  BY <1>1, <1>9, Zenon DEF Kinded
<1>11. X[i - 2] = p2
  BY <1>1, <1>2, <1>4, SomeQualifier, Zenon
<1>12. Target(X, i) = ColumnOrNone(Resolve(info, X[i - 2]), t)
  BY <1>1, <1>8, <1>10, TargetOfColumn
<1>13. Target(X, i) = <<u, t>>
  BY <1>6, <1>7, <1>11, <1>12, Zenon DEF ColumnOrNone
<1>14. <<u, t>> # None
  BY DEF None
<1> QED
  BY <1>1, <1>6, <1>13, <1>14

\* so of every name.
LEMMA RoleLinked ==
  ASSUME NEW W \in Seq(Tok), NEW info, info = ExtractTables(Texts(W)), NEW known,
         NEW B, AliasesAre(info.aliases, B), NamesIn(B), Consistent(B),
         NEW i \in 1 .. Len(W), TextRole(W, B, info.virtual, known, i)
  PROVE  Linked(W, i)
<1>1. ASSUME NEW text, IsPlain(text, W[i]) PROVE Linked(W, i)
  BY <1>1, Zenon DEF IsPlain, Linked
<1>2. CASE Role(W, B, info.virtual, known, i)
  <2>1. CASE TableRole(W, info.virtual, known, i)
    BY <2>1, TableLinked
  <2>2. CASE SchemaRole(W, i)
    BY <2>2, Zenon DEF SchemaRole, IsSchema, Linked
  <2>3. CASE QualifiedTableRole(W, i)
    BY <2>3, QualifiedTableLinked
  <2>4. CASE QualifierRole(W, B, known, i)
    BY <2>4, QualifierLinked
  <2>5. CASE ColumnRole(W, B, i)
    BY <2>5, ColumnLinked
  <2>6. CASE PlainRole(W, i)
    BY <1>1, <2>6, Zenon DEF PlainRole
  <2> QED
    BY <1>2, <2>1, <2>2, <2>3, <2>4, <2>5, <2>6, Zenon DEF Role
<1> QED
  BY <1>1, <1>2, Zenon DEF TextRole

\* So the targets of a text are right.
LEMMA TextLinked ==
  ASSUME DocType, AllDistinct(doc), NEW W, W = Tokens(doc), NEW i \in 1 .. Len(W)
  PROVE  Linked(W, i)
<1>1. PICK known, B, info : known = Known(doc) /\ B = BodiesBound(doc) /\ info = ExtractTables(Texts(W))
  OBVIOUS
<1>2. W \in Seq(Tok)
  BY TextLaidOut
<1>3. TextRole(W, B, info.virtual, known, i) /\ AliasesAre(info.aliases, B) /\ NamesIn(B)
  BY <1>1, LookupContext DEF Context
<1>4. Consistent(B)
  BY <1>1, AllDistinctIs DEF DocType
<1> QED
  BY <1>1, <1>2, <1>3, <1>4, RoleLinked

\* Every name with a target is in a link, and a link leads to the target of its last name.
LEMMA LinkOf ==
  ASSUME NEW X, DOMAIN X \subseteq Int, NEW i \in DOMAIN X, Target(X, i) # None
  PROVE  \E l \in DocumentLinks(X) : i \in l.first .. l.last
<1>1. i \in Int
  OBVIOUS
<1>2. CASE Pair(X, i - 2)
  <2>1. PICK j : j = i - 2
    OBVIOUS
  <2>2. j + 2 = i /\ j \in Int
    BY <1>1, <2>1
  <2>3. PICK l : l = Link(j, j + 2, Target(X, j + 2))
    OBVIOUS
  <2>4. Wide(X, l, j) /\ j \in DOMAIN X
    BY <1>2, <2>1, <2>2, <2>3, Zenon DEF Wide, Pair
  <2>5. l \in DocumentLinks(X)
    BY <2>4, LinkIs
  <2>6. l.first = j /\ l.last = j + 2
    BY <2>3, LinkFields
  <2>7. i \in l.first .. l.last
    BY <2>2, <2>6
  <2> QED
    BY <2>5, <2>7
<1>3. CASE Pair(X, i) /\ Target(X, i + 2) # None
  <2>1. PICK l : l = Link(i, i + 2, Target(X, i + 2))
    OBVIOUS
  <2>2. Wide(X, l, i)
    BY <1>3, <2>1, Zenon DEF Wide
  <2>3. l \in DocumentLinks(X)
    BY <2>2, LinkIs
  <2>4. l.first = i /\ l.last = i + 2
    BY <2>1, LinkFields
  <2>5. i \in l.first .. l.last
    BY <1>1, <2>4
  <2> QED
    BY <2>3, <2>5
<1>4. CASE ~Pair(X, i - 2) /\ (Pair(X, i) => Target(X, i + 2) = None)
  <2>1. PICK l : l = Link(i, i, Target(X, i))
    OBVIOUS
  <2>2. Narrow(X, l, i)
    BY <1>4, <2>1, Zenon DEF Narrow
  <2>3. l \in DocumentLinks(X)
    BY <2>2, LinkIs
  <2>4. l.first = i /\ l.last = i
    BY <2>1, LinkFields
  <2>5. i \in l.first .. l.last
    BY <1>1, <2>4
  <2> QED
    BY <2>3, <2>5
<1> QED
  BY <1>2, <1>3, <1>4

\* A link leads to the target of its last token.
LEMMA LinkLeads ==
  ASSUME NEW X, DOMAIN X \subseteq Int, NEW l \in DocumentLinks(X)
  PROVE  l.last \in DOMAIN X /\ l.to = Target(X, l.last)
<1>1. PICK i \in DOMAIN X : Wide(X, l, i) \/ Narrow(X, l, i)
  BY LinkIs
<1>2. CASE Wide(X, l, i)
  <2>1. PICK j : j = i + 2
    OBVIOUS
  <2>2. l = Link(i, j, Target(X, j)) /\ j \in DOMAIN X
    BY <1>2, <2>1, Zenon DEF Wide, Pair
  <2>3. l.last = j /\ l.to = Target(X, j)
    BY <2>2, LinkFields
  <2> QED
    BY <2>2, <2>3
<1>3. CASE Narrow(X, l, i)
  <2>1. l = Link(i, i, Target(X, i))
    BY <1>3, Zenon DEF Narrow
  <2>2. l.last = i /\ l.to = Target(X, i)
    BY <2>1, LinkFields
  <2> QED
    BY <2>2
<1> QED
  BY <1>1, <1>2, <1>3
-----------------------------------------------------------------------------
\* The places of tokens and texts.
LEMMA TextDomain ==
  ASSUME NEW W \in Seq(Tok), NEW X, X = Texts(W)
  PROVE  DOMAIN X = DOMAIN W /\ DOMAIN X = 1 .. Len(W) /\ DOMAIN X \subseteq Int
<1>1. X \in Seq(Word) /\ Len(X) = Len(W)
  BY AtIs
<1>2. DOMAIN X = 1 .. Len(W) /\ DOMAIN W = 1 .. Len(W)
  BY <1>1, LenIs
<1> QED
  BY <1>2

\* A link leads where the name it ends in refers to, no two links overlap, and every
\* name that refers to something is in one (server.go:824-893).
LEMMA LinksAreRight == DocType => LinksRight
<1> SUFFICES ASSUME DocType PROVE LinksRight
  OBVIOUS
<1>1. PICK W, X : W = Tokens(doc) /\ X = Texts(W)
  OBVIOUS
<1>2. W \in Seq(Tok)
  BY <1>1, TextLaidOut
<1>3. DOMAIN X = DOMAIN W /\ DOMAIN X = 1 .. Len(W) /\ DOMAIN X \subseteq Int
  BY <1>1, <1>2, TextDomain
<1>4. ASSUME AllDistinct(doc), NEW l \in DocumentLinks(X) PROVE W[l.last].to \in {None, l.to}
  <2>1. PICK i : i = l.last
    OBVIOUS
  <2>2. i \in 1 .. Len(W) /\ l.to = Target(X, i)
    BY <1>3, <2>1, LinkLeads
  <2>3. Linked(W, i)
    BY <1>1, <1>4, <2>2, TextLinked
  <2>4. Target(X, i) # None
    <3>1. PICK j \in DOMAIN X : Wide(X, l, j) \/ Narrow(X, l, j)
      BY <1>3, LinkIs
    <3>2. Wide(X, l, j) => l.last = j + 2 /\ Target(X, j + 2) # None
      <4>1. Wide(X, l, j) => l = Link(j, j + 2, Target(X, j + 2)) /\ Target(X, j + 2) # None
        BY Zenon DEF Wide
      <4> QED
        BY <4>1, LinkFields
    <3>3. Narrow(X, l, j) => l.last = j /\ Target(X, j) # None
      <4>1. Narrow(X, l, j) => l = Link(j, j, Target(X, j)) /\ Target(X, j) # None
        BY Zenon DEF Narrow
      <4> QED
        BY <4>1, LinkFields
    <3> QED
      BY <2>1, <3>1, <3>2, <3>3
  <2>5. W[i].to = None \/ W[i].to = Target(X, i)
    BY <1>1, <2>3, <2>4, Zenon DEF Linked
  <2> QED
    BY <2>1, <2>2, <2>5
<1>5. ASSUME AllDistinct(doc), NEW i \in DOMAIN W, W[i].to # None, ~BehindComma(X, i)
      PROVE  \E l \in DocumentLinks(X) : i \in l.first .. l.last
  <2>1. i \in 1 .. Len(W) /\ i \in DOMAIN X
    BY <1>3
  <2>2. ~CommaBefore(W, i)
    BY <1>1, <1>2, <1>5, <2>1, BehindCommaIs
  <2>3. Linked(W, i)
    BY <1>1, <1>5, <2>1, TextLinked
  <2>4. Target(X, i) # None
    BY <1>1, <1>5, <2>2, <2>3, Zenon DEF Linked
  <2> QED
    BY <1>3, <2>1, <2>4, LinkOf
<1>6. ASSUME NEW l \in DocumentLinks(X), NEW m \in DocumentLinks(X), l # m
      PROVE  l.last < m.first \/ m.last < l.first
  BY <1>3, <1>6, LinksApart
<1> QED
  BY <1>1, <1>4, <1>5, <1>6, Zenon DEF LinksRight, LinksLead, NoOverlap

\* Links lead where the names refer to, do not overlap and miss none (server.go:824-893).
THEOREM Links == MCSpec => []LinksRight
<1>1. DocType => LinksRight
  BY LinksAreRight
<1> QED
  BY <1>1, DocTyping, PTL
-----------------------------------------------------------------------------
(* What completion offers for a column. *)

\* A query from tables alone.
FromTables(q) ==
  /\ q \in QuerySet /\ q.with = <<>> /\ q.where = <<>>
  /\ \A i \in DOMAIN q.from : q.from[i].kind = "table"
NamesOf(S) == {s.name : s \in S}
RenamedIn(S) == UNION {BoundByTable(s) : s \in S}

\* Tables with an alias each.
LEMMA TablesOf ==
  ASSUME NEW q, FromTables(q), NEW S, S = ToSet(q.from)
  PROVE  /\ S \subseteq TableSet /\ S # {}
         /\ \A s, t \in S : s.alias = t.alias => s = t
<1>1. PICK from : from = q.from
  OBVIOUS
<1>2. from \in Seq(SourceSet) /\ AliasesDiffer(from)
  BY <1>1 DEF FromTables, QuerySet
<1>3. \A i \in DOMAIN from : from[i] \in SourceSet /\ from[i].kind = "table"
  BY <1>1, <1>2 DEF FromTables
<1>4. \A s \in SubSet : s.kind = "sub"
  BY DEF SubSet
<1>5. \A i \in DOMAIN from : from[i] \in TableSet
  BY <1>3, <1>4 DEF SourceSet
<1>6. \A s : s \in S <=> \E i \in DOMAIN from : from[i] = s
  BY <1>1, Zenon DEF ToSet
<1>7. S \subseteq TableSet
  BY <1>5, <1>6, Zenon
<1>8. 1 \in DOMAIN from
  BY <1>2 DEF AliasesDiffer
<1>9. \A i, j \in DOMAIN from : i # j => from[i].alias # from[j].alias
  BY <1>2, Zenon DEF AliasesDiffer
<1>10. ASSUME NEW s \in S, NEW t \in S, s.alias = t.alias PROVE s = t
  <2>1. PICK i \in DOMAIN from : from[i] = s
    BY <1>6
  <2>2. PICK j \in DOMAIN from : from[j] = t
    BY <1>6
  <2>3. i = j
    BY <1>9, <1>10, <2>1, <2>2
  <2> QED
    BY <2>1, <2>2, <2>3
<1>11. S # {}
  BY <1>6, <1>8
<1> QED
  BY <1>7, <1>10, <1>11

\* The table that is read of a table.
LEMMA RealTable ==
  ASSUME NEW s
  PROVE  RealReads(RealOf(s)) = {s.name}
<1>1. PICK r : r = Real(s.name, s.alias)
  OBVIOUS
<1>2. r.table = s.name /\ ~r.virtual
  BY <1>1 DEF Real
<1>3. RealReads({r}) = {r.table}
  BY <1>2, Zenon DEF RealReads
<1> QED
  BY <1>1, <1>2, <1>3 DEF RealOf

\* What is read of such a query.
LEMMA TablesAreRead ==
  ASSUME NEW q, FromTables(q), NEW S, S = ToSet(q.from)
  PROVE  /\ RealReads(QueryReads(q)) = NamesOf(S)
         /\ BoundReads(QueryReads(q)) = RenamedIn(S)
<1>1. QueryReads(q) = FromReadsOf(q)
  BY DEF QueryReads, WithReads, WhereReads, FromTables
<1>2. \A i \in DOMAIN q.from : SourceReads(q.from[i]) = RealOf(q.from[i])
  BY DEF FromTables, SourceReads
<1>3. \A r : r \in FromReadsOf(q) <=> \E s \in S : r \in RealOf(s)
  BY <1>2, Zenon DEF FromReadsOf, ToSet
<1>4. \A n : n \in RealReads(FromReadsOf(q)) <=> \E s \in S : n \in RealReads(RealOf(s))
  BY <1>3, Zenon DEF RealReads
<1>5. \A b : b \in BoundReads(FromReadsOf(q)) <=> \E s \in S : b \in BoundReads(RealOf(s))
  BY <1>3, Zenon DEF BoundReads
<1>6. \A s \in S : RealReads(RealOf(s)) = {s.name} /\ BoundReads(RealOf(s)) = BoundByTable(s)
  BY RealTable, BoundTable
<1>7. \A n : n \in RealReads(FromReadsOf(q)) <=> n \in NamesOf(S)
  <2>1. \A n : \A s \in S : n \in RealReads(RealOf(s)) <=> n = s.name
    BY <1>6
  <2> QED
    BY <1>4, <2>1, Zenon DEF NamesOf
<1>8. \A b : b \in BoundReads(FromReadsOf(q)) <=> b \in RenamedIn(S)
  BY <1>5, <1>6, Zenon DEF RenamedIn
<1>9. RealReads(FromReadsOf(q)) = NamesOf(S)
  BY <1>7
<1>10. BoundReads(FromReadsOf(q)) = RenamedIn(S)
  BY <1>8
<1> QED
  BY <1>1, <1>9, <1>10
-----------------------------------------------------------------------------
\* The tables of N in the schema, those of them with column c, and the aliases of t.
TablesIn(N) == {n \in N : HasTable(n)}
Holding(N, c) == {t \in TablesIn(N) : HasColumn(t, c)}
NamedAs(aliases, t) == {a \in DOMAIN aliases : aliases[a] = t /\ a # t}

\* Column c of table t, with a qualifier if another table has it too.
Offered(N, aliases, t, c, item) ==
  \/ /\ Cardinality(Holding(N, c)) > 1
     /\ \E p : item = <<p, ".", c>> /\ (p \in NamedAs(aliases, t) \/ (NamedAs(aliases, t) = {} /\ p = t))
  \/ ~(Cardinality(Holding(N, c)) > 1) /\ item = <<c>>

\* An item that is offered is a column of a table of the text.
LEMMA ItemIs ==
  ASSUME NEW N, NEW aliases, NEW item \in ScopedColumnItems(N, aliases)
  PROVE  \E t \in TablesIn(N) : \E c \in Columns[t] : Offered(N, aliases, t, c, item)
<1> DEFINE Many(k) == Cardinality({v \in {n \in N : HasTable(n)} : HasColumn(v, k)})
           Naming(v) == {a \in DOMAIN aliases : aliases[a] = v /\ a # v}
           Before1(v) == IF Naming(v) = {} THEN {v} ELSE Naming(v)
           Items(v, k) == IF Many(k) > 1 THEN {<<b, ".", k>> : b \in Before1(v)} ELSE {<<k>>}
<1>1. PICK t \in {n \in N : HasTable(n)} : item \in UNION {Items(t, k) : k \in Columns[t]}
  BY Zenon DEF ScopedColumnItems
<1>2. PICK c \in Columns[t] : item \in Items(t, c)
  BY <1>1
<1>3. t \in TablesIn(N)
  BY <1>1 DEF TablesIn
<1>4. Holding(N, c) = {u \in {n \in N : HasTable(n)} : HasColumn(u, c)}
  BY DEF Holding, TablesIn
<1>5. NamedAs(aliases, t) = Naming(t)
  BY DEF NamedAs
<1>6. CASE Many(c) > 1
  <2>1. item \in {<<p, ".", c>> : p \in Before1(t)}
    BY <1>2, <1>6
  <2>2. PICK p \in Before1(t) : item = <<p, ".", c>>
    BY <2>1
  <2>3. p \in NamedAs(aliases, t) \/ (NamedAs(aliases, t) = {} /\ p = t)
    BY <1>5, <2>2
  <2>4. Cardinality(Holding(N, c)) > 1
    BY <1>4, <1>6
  <2>5. Offered(N, aliases, t, c, item)
    BY <2>2, <2>3, <2>4, Zenon DEF Offered
  <2> QED
    BY <1>2, <1>3, <2>5
<1>7. CASE ~(Many(c) > 1)
  <2>1. item = <<c>>
    BY <1>2, <1>7
  <2>2. ~(Cardinality(Holding(N, c)) > 1)
    BY <1>4, <1>7
  <2>3. Offered(N, aliases, t, c, item)
    BY <2>1, <2>2, Zenon DEF Offered
  <2> QED
    BY <1>2, <1>3, <2>3
<1> QED
  BY <1>6, <1>7

\* f is the scope of the tables S, no two of which are the same.
Scope(S, f) ==
  /\ \A a : a \in DOMAIN f <=> \E s \in S : s.alias = a
  /\ \A s \in S : HasTable(s.name) => f[s.alias].columns = Columns[s.name]
  /\ \A s \in S : ~HasTable(s.name) => f[s.alias].columns = {}
  /\ \A s, t \in S : s.name = t.name /\ HasTable(s.name) => s = t

\* The prefix of an item is in scope, with the columns of its table.
LEMMA QualifierInScope ==
  ASSUME NEW S, NEW f, Scope(S, f), \A s, t \in S : s.alias = t.alias => s = t,
         NEW aliases, AliasesAre(aliases, RenamedIn(S)),
         NEW t \in TablesIn(NamesOf(S)), NEW p,
         p \in NamedAs(aliases, t) \/ (NamedAs(aliases, t) = {} /\ p = t)
  PROVE  p \in DOMAIN f /\ f[p].columns = Columns[t]
<1>1. HasTable(t) /\ \E s \in S : s.name = t
  BY DEF TablesIn, NamesOf
<1>2. PICK s \in S : s.name = t
  BY <1>1
<1>3. ASSUME NEW r \in S, r.name = t, r.alias = p PROVE p \in DOMAIN f /\ f[p].columns = Columns[t]
  BY <1>1, <1>3, Zenon DEF Scope
<1>4. \A b : b \in RenamedIn(S) <=> \E r \in S : r.alias # r.name /\ b = <<r.alias, r.name>>
  <2>1. \A b : \A r \in S : b \in BoundByTable(r) <=> r.alias # r.name /\ b = <<r.alias, r.name>>
    BY DEF BoundByTable
  <2>2. \A b : b \in RenamedIn(S) <=> \E r \in S : b \in BoundByTable(r)
    BY Zenon DEF RenamedIn
  <2> QED
    BY <2>1, <2>2
<1>5. CASE p \in NamedAs(aliases, t)
  <2>1. p \in DOMAIN aliases /\ aliases[p] = t
    BY <1>5 DEF NamedAs
  <2>2. <<p, t>> \in RenamedIn(S)
    BY <2>1, Zenon DEF AliasesAre
  <2>3. PICK r \in S : <<p, t>> = <<r.alias, r.name>>
    BY <1>4, <2>2
  <2>4. r.alias = p /\ r.name = t
    BY <2>3
  <2> QED
    BY <1>3, <2>4
<1>6. CASE NamedAs(aliases, t) = {} /\ p = t
  <2>1. s.alias = t
    <3>1. SUFFICES ASSUME s.alias # t PROVE FALSE
      OBVIOUS
    <3>2. PICK a : a = s.alias
      OBVIOUS
    <3>3. <<a, t>> \in RenamedIn(S)
      BY <1>2, <1>4, <3>1, <3>2, Zenon
    <3>4. Binds(RenamedIn(S), a)
      <4>1. <<a, t>>[1] = a
        OBVIOUS
      <4> QED
        BY <3>3, <4>1, Zenon DEF Binds
    <3>5. a \in DOMAIN aliases /\ <<a, aliases[a]>> \in RenamedIn(S)
      BY <3>4, Zenon DEF AliasesAre
    <3>6. PICK r \in S : <<a, aliases[a]>> = <<r.alias, r.name>>
      BY <1>4, <3>5
    <3>7. r.alias = a /\ r.name = aliases[a]
      BY <3>6
    <3>8. r = s
      BY <3>2, <3>7
    <3>9. a \in NamedAs(aliases, t)
      BY <1>2, <3>1, <3>2, <3>5, <3>7, <3>8 DEF NamedAs
    <3> QED
      BY <1>6, <3>9
  <2> QED
    BY <1>2, <1>3, <1>6, <2>1
<1> QED
  BY <1>5, <1>6
-----------------------------------------------------------------------------
\* A set with an element, of which there are no two, has cardinality one.
LEMMA CardinalityOne ==
  ASSUME NEW H, IsFiniteSet(H), NEW x \in H, ~(Cardinality(H) > 1)
  PROVE  H = {x}
<1>1. Cardinality(H) \in Nat /\ (Cardinality(H) = 0 <=> H = {})
  BY FS_CardinalityType, FS_EmptySet
<1>2. Cardinality(H) = 1
  BY <1>1
<1>3. PICK y : H = {y}
  BY <1>2, FS_Singleton
<1> QED
  BY <1>3

\* A sequence has finitely many elements.
LEMMA FiniteToSet ==
  ASSUME NEW X, NEW s \in Seq(X)
  PROVE  IsFiniteSet(ToSet(s))
<1>1. PICK n, T : n = Len(s) /\ T = ToSet(s)
  OBVIOUS
<1>2. n \in Nat /\ s \in [1 .. n -> T] /\ \A x \in T : \E i \in 1 .. n : s[i] = x
  BY <1>1 DEF ToSet
<1>3. s \in Surjection(1 .. n, T)
  BY <1>2 DEF Surjection
<1>4. IsFiniteSet(1 .. n)
  BY <1>2, FS_Interval
<1> QED
  BY <1>1, <1>3, <1>4, FS_Surjection

\* What is offered is in scope, and not ambiguous.
LEMMA OfferedInScope ==
  ASSUME NEW S, IsFiniteSet(NamesOf(S)), NEW f, Scope(S, f), \A s, t \in S : s.alias = t.alias => s = t,
         NEW aliases, AliasesAre(aliases, RenamedIn(S)),
         NEW item \in ScopedColumnItems(NamesOf(S), aliases)
  PROVE  InScope(item, f)
<1>1. PICK N : N = NamesOf(S)
  OBVIOUS
<1>2. PICK t \in TablesIn(N) : \E c \in Columns[t] : Offered(N, aliases, t, c, item)
  BY <1>1, ItemIs
<1>t. PICK c \in Columns[t] : Offered(N, aliases, t, c, item)
  BY <1>2
<1>3. CASE Cardinality(Holding(N, c)) > 1
  <2>1. PICK p : /\ item = <<p, ".", c>>
                 /\ p \in NamedAs(aliases, t) \/ (NamedAs(aliases, t) = {} /\ p = t)
    BY <1>t, <1>3, Zenon DEF Offered
  <2>2. p \in DOMAIN f /\ f[p].columns = Columns[t]
    BY <1>1, <1>2, <2>1, QualifierInScope
  <2>3. Len(item) # 1 /\ item[1] = p /\ item[3] = c
    BY <2>1
  <2> QED
    BY <1>t, <2>2, <2>3 DEF InScope
<1>4. CASE ~(Cardinality(Holding(N, c)) > 1)
  <2>1. item = <<c>>
    BY <1>t, <1>4, Zenon DEF Offered
  <2>2. t \in Holding(N, c)
    BY <1>2, <1>t DEF Holding, TablesIn, HasColumn
  <2>3. IsFiniteSet(Holding(N, c))
    <3>1. IsFiniteSet(N)
      BY <1>1
    <3>2. Holding(N, c) \subseteq N
      BY DEF Holding, TablesIn
    <3> QED
      BY <3>1, <3>2, FS_Subset
  <2>4. Holding(N, c) = {t}
    BY <1>4, <2>2, <2>3, CardinalityOne
  <2>5. PICK s \in S : s.name = t
    BY <1>1, <1>2 DEF TablesIn, NamesOf
  <2>6. PICK A : A = {a \in DOMAIN f : c \in f[a].columns}
    OBVIOUS
  <2>7. HasTable(t)
    BY <1>2 DEF TablesIn
  <2>8. s.alias \in A
    <3>1. s.alias \in DOMAIN f /\ f[s.alias].columns = Columns[t]
      BY <2>5, <2>7, Zenon DEF Scope
    <3> QED
      BY <1>t, <2>6, <3>1
  <2>9. ASSUME NEW a \in A PROVE a = s.alias
    <3>1. a \in DOMAIN f /\ c \in f[a].columns
      BY <2>6
    <3>2. PICK r \in S : r.alias = a
      BY <3>1, Zenon DEF Scope
    <3>3. HasTable(r.name)
      <4>1. ~HasTable(r.name) => f[r.alias].columns = {}
        BY Zenon DEF Scope
      <4> QED
        BY <3>1, <3>2, <4>1
    <3>4. c \in Columns[r.name]
      <4>1. f[r.alias].columns = Columns[r.name]
        BY <3>3, Zenon DEF Scope
      <4> QED
        BY <3>1, <3>2, <4>1
    <3>5. r.name \in Holding(N, c)
      BY <1>1, <3>3, <3>4 DEF Holding, TablesIn, HasColumn, NamesOf
    <3>6. r.name = s.name
      BY <2>4, <2>5, <3>5
    <3>7. r = s
      BY <3>3, <3>6, Zenon DEF Scope
    <3> QED
      BY <3>2, <3>7
  <2>10. A = {s.alias}
    BY <2>8, <2>9
  <2>11. Cardinality(A) = 1
    BY <2>10, FS_Singleton
  <2>12. Len(item) = 1 /\ item[1] = c
    BY <2>1
  <2> QED
    BY <2>6, <2>11, <2>12 DEF InScope
<1> QED
  BY <1>3, <1>4

\* The scope of a query from tables, no two of which are the same.
LEMMA ScopeOf ==
  ASSUME NEW q, FromTables(q), NEW S, S = ToSet(q.from), NEW f, f = Frame(q.from, <<>>),
         \A a, b \in DOMAIN f : f[a].table = f[b].table => a = b
  PROVE  Scope(S, f)
<1>1. S \subseteq TableSet /\ \A s, t \in S : s.alias = t.alias => s = t
  BY TablesOf
<1>2. \A s : s \in S <=> \E i \in DOMAIN q.from : q.from[i] = s
  BY Zenon DEF ToSet
<1>3. \A a : a \in DOMAIN f <=> \E s \in S : s.alias = a
  <2>1. DOMAIN f = {q.from[i].alias : i \in DOMAIN q.from}
    BY FrameDomain
  <2> QED
    BY <1>2, <2>1
<1>4. ASSUME NEW s \in S PROVE f[s.alias] = EntryOf(s, <<>>)
  <2>1. PICK a : a = s.alias
    OBVIOUS
  <2>2. a \in DOMAIN Frame(q.from, <<>>)
    BY <1>3, <2>1
  <2>3. PICK i \in DOMAIN q.from :
          q.from[i].alias = a /\ Frame(q.from, <<>>)[a] = EntryOf(q.from[i], <<>>)
    BY <2>2, FrameIs
  <2>4. q.from[i] = s
    BY <1>1, <1>2, <2>1, <2>3
  <2> QED
    BY <2>1, <2>3, <2>4
<1>5. ASSUME NEW s \in S
      PROVE  /\ HasTable(s.name) => f[s.alias].columns = Columns[s.name] /\ f[s.alias].table = s.name
             /\ ~HasTable(s.name) => f[s.alias].columns = {}
  <2>1. s.kind = "table"
    BY <1>1 DEF TableSet
  <2>2. PICK none : none = <<>>
    OBVIOUS
  <2>3. DOMAIN none = {}
    BY <2>2
  <2>4. EntryOf(s, none) = IF HasTable(s.name) THEN Entry(s.name, Columns[s.name]) ELSE Missing
    BY <2>1, <2>3 DEF EntryOf
  <2>5. f[s.alias] = EntryOf(s, none)
    BY <1>4, <2>2
  <2> QED
    BY <2>4, <2>5 DEF Entry, Missing
<1>6. ASSUME NEW s \in S, NEW t \in S, s.name = t.name, HasTable(s.name) PROVE s = t
  <2>1. f[s.alias].table = f[t.alias].table
    BY <1>5, <1>6
  <2>2. s.alias \in DOMAIN f /\ t.alias \in DOMAIN f
    BY <1>3
  <2> QED
    BY <1>1, <2>1, <2>2
<1> QED
  BY <1>3, <1>5, <1>6, Zenon DEF Scope
-----------------------------------------------------------------------------
\* After SELECT a column may stand.
LEMMA SelectState ==
  ASSUME NEW W \in Seq(Tok), NEW known, NEW q \in QuerySet, q.with = <<>>,
         Occurs(W, 0, QueryTokens(q, known))
  PROVE  DetermineState(Texts(W), 1).state = "column"
<1>1. PICK p : p = QueryTokens(q, known)
  OBVIOUS
<1>2. First("SELECT", p)
  BY <1>1, QueryFirst
<1>3. 1 \in 1 .. Len(p) /\ 1 \in 1 .. Len(W) /\ W[1] = Plain("SELECT")
  <2>1. p \in Seq(Tok) /\ Len(p) >= 1 /\ p[1] = Plain("SELECT")
    BY <1>2, Zenon DEF First
  <2>2. Len(p) \in Nat /\ Len(W) \in Nat
    BY <2>1
  <2>3. Len(p) <= Len(W) /\ W[1] = p[1]
    BY <1>1, <2>1, <2>2 DEF Occurs
  <2> QED
    BY <2>1, <2>2, <2>3
<1>4. At(W, 1) = "SELECT"
  <2>1. PICK d : d = Plain("SELECT")
    OBVIOUS
  <2>2. d.text = "SELECT"
    BY <2>1 DEF Plain, Token
  <2>3. 1 \in DOMAIN W /\ W[1] = d
    BY <1>3, <2>1
  <2> QED
    BY <2>2, <2>3 DEF At
<1>5. At(W, 0) = ""
  BY AtEnds
<1>6. PICK k : k = 0
  OBVIOUS
<1>7. ClauseAfter(W, 1) = "column"
  <2>1. k \in Nat /\ k + 1 <= Len(W) /\ k + 1 = 1
    BY <1>3, <1>6
  <2>2. ClauseAfter(W, k + 1) = "column"
    BY <1>4, <2>1, ClauseSet
  <2> QED
    BY <2>1, <2>2
<1>8. PICK m : m = 1
  OBVIOUS
<1>9. DetermineState(Texts(W), m).state = ClauseAfter(W, m)
  <2>1. At(W, m) # "." /\ At(W, m - 1) # "."
    <3>1. m - 1 = 0
      BY <1>8
    <3>2. At(W, m) = "SELECT" /\ At(W, m - 1) = ""
      BY <1>4, <1>5, <1>8, <3>1, Zenon
    <3> QED
      BY <3>2
  <2> QED
    BY <1>3, <1>8, <2>1, StateIs
<1> QED
  BY <1>7, <1>8, <1>9

\* Behind SELECT the columns of the tables of the text are offered.
LEMMA ItemsAre ==
  ASSUME NEW X, NEW info, info = ExtractTables(X), DetermineState(X, 1).state = "column",
         info.realTables # <<>>
  PROVE  ContextItems(X, 1) = ScopedColumnItems(ToSet(info.realTables), info.aliases)
<1>1. DetermineState(X, 1).state \notin {"table", "qualified"}
  OBVIOUS
<1> QED
  BY <1>1, Zenon DEF ContextItems

\* In a query from different tables, what completion offers for a column of the
\* SELECT list is in scope and not ambiguous.
FlatQuery(q, frame) ==
  /\ q.kind = "query" /\ q.with = <<>> /\ q.where = <<>>
  /\ \A i \in DOMAIN q.from : q.from[i].kind = "table"
  /\ \A a, b \in DOMAIN frame : frame[a].table = frame[b].table => a = b

\* Each of them is in scope.
LEMMA OffersAreRight ==
  ASSUME DocType, Len(doc) = 1, NEW q, q = doc[1], NEW frame, frame = Frame(q.from, <<>>),
         FlatQuery(q, frame), NEW item \in ContextItems(Texts(Tokens(doc)), 1)
  PROVE  InScope(item, frame)
<1>1. PICK W, X, info, d, S :
        /\ W = Tokens(doc) /\ X = Texts(W) /\ info = ExtractTables(X) /\ d = doc
        /\ S = ToSet(q.from)
  OBVIOUS
<1>2. d \in Seq(StatementSet) /\ Len(d) = 1 /\ q \in StatementSet
  <2>1. d \in Seq(StatementSet) /\ Len(d) = 1
    BY <1>1 DEF DocType
  <2>2. d[1] \in StatementSet
    BY <2>1
  <2> QED
    BY <1>1, <2>1, <2>2
<1>3. FromTables(q)
  <2>1. q \in QuerySet
    BY <1>2, KindsAre DEF FlatQuery
  <2> QED
    BY <2>1, Zenon DEF FromTables, FlatQuery
<1>4. ReadsFrom(doc, 1) = QueryReads(q)
  <2>1. ReadsFrom(d, 1) = ReadsOf(d[1])
    <3>1. PICK k : k = 1
      OBVIOUS
    <3>2. k \in Nat /\ k = Len(d) /\ k \in 1 .. k
      BY <1>2, <3>1
    <3>3. ReadsFrom(d, k) = ReadsOf(d[k])
      BY <3>2, ReadsFromIs
    <3> QED
      BY <3>1, <3>3
  <2> QED
    BY <1>1, <2>1 DEF ReadsOf, FlatQuery
<1>5. Noted(info, QueryReads(q))
  BY <1>1, <1>4, LookupReads
<1>6. RealReads(QueryReads(q)) = NamesOf(S) /\ BoundReads(QueryReads(q)) = RenamedIn(S)
  BY <1>1, <1>3, TablesAreRead
<1>7. AliasesAre(info.aliases, RenamedIn(S)) /\ TablesAre(info.realTables, NamesOf(S))
  BY <1>5, <1>6 DEF Noted
<1>8. info.realTables \in Seq(Word) /\ ToSet(info.realTables) = NamesOf(S)
  BY <1>7 DEF TablesAre
<1>9. S # {} /\ \A s, t \in S : s.alias = t.alias => s = t
  BY <1>1, <1>3, TablesOf
<1>10. info.realTables # <<>>
  <2>1. NamesOf(S) # {}
    BY <1>9 DEF NamesOf
  <2> QED
    BY <1>8, <2>1, ToSetSmall
<1>11. IsFiniteSet(NamesOf(S))
  BY <1>8, FiniteToSet
<1>12. Scope(S, frame)
  <2>1. \A a, b \in DOMAIN frame : frame[a].table = frame[b].table => a = b
    BY Zenon DEF FlatQuery
  <2> QED
    BY <1>1, <1>3, <2>1, ScopeOf
<1>13. DetermineState(X, 1).state = "column"
  <2>1. W \in Seq(Tok) /\ \E st, en : Layout(W, d, Known(doc), st, en)
    BY <1>1, TextLaidOut
  <2>2. PICK st, en : Layout(W, d, Known(doc), st, en)
    BY <2>1
  <2>3. Occurs(W, 0, QueryTokens(q, Known(doc)))
    <3>1. Occurs(W, st[1], StatementTokens(d[1], Known(doc))) /\ st[1] = 0
      <4>1. 1 \in 1 .. Len(d)
        BY <1>2
      <4> QED
        BY <2>2, <4>1, Zenon DEF Layout
    <3>2. StatementTokens(q, Known(doc)) = QueryTokens(q, Known(doc))
      BY <1>2, StatementIs DEF FlatQuery
    <3> QED
      BY <1>1, <3>1, <3>2
  <2> QED
    BY <1>1, <1>3, <2>1, <2>3, SelectState DEF FromTables
<1>14. item \in ScopedColumnItems(NamesOf(S), info.aliases)
  <2>1. ContextItems(X, 1) = ScopedColumnItems(ToSet(info.realTables), info.aliases)
    BY <1>1, <1>10, <1>13, ItemsAre
  <2> QED
    BY <1>1, <1>8, <2>1
<1> QED
  BY <1>7, <1>9, <1>11, <1>12, <1>14, OfferedInScope

\* So OffersInScope follows from the type of the text.
LEMMA OffersAreInScope == DocType => OffersInScope
<1> SUFFICES ASSUME DocType PROVE OffersInScope
  OBVIOUS
<1>1. PICK q, frame : q = doc[1] /\ frame = Frame(q.from, <<>>)
  OBVIOUS
<1>2. ASSUME Len(doc) = 1, FlatQuery(q, frame), NEW item \in ContextItems(Texts(Tokens(doc)), 1)
      PROVE  InScope(item, frame)
  BY <1>1, <1>2, OffersAreRight
<1> QED
  BY <1>1, <1>2, Zenon DEF OffersInScope, FlatQuery

\* What completion offers for a column is in scope and not ambiguous (README.md:173).
THEOREM Offers == MCSpec => []OffersInScope
<1>1. MCSpec => []DocType
  BY DocTyping
<1> QED
  BY <1>1, OffersAreInScope, PTL
==============================================================================
