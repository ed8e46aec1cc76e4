-------------------------- MODULE PublisherProofs --------------------------
(***************************************************************************)
(* Proofs about Publisher, for any sets of documents, handlers and         *)
(* callbacks, and any bounds.                                              *)
(***************************************************************************)
EXTENDS Publisher, TLAPS

\* The types hold as long as a call knows its document.
LEMMA TypeStep == TypeOK /\ Placed /\ [Next]_vars => TypeOK'
<1> SUFFICES ASSUME TypeOK, Placed, [Next]_vars PROVE TypeOK'
  OBVIOUS
<1> USE DEF TypeOK, Threads, client, locals, Leave, Messages, Critical, Labels
<1>1. ASSUME NEW t \in Handlers, NEW u \in Uris, NEW m \in Messages, Send(t, u, m)
      PROVE  TypeOK'
  <2>1. editor' \subseteq Uris /\ closed' \subseteq Uris
    BY <1>1 DEF Send
  <2> QED
    BY <1>1, <2>1 DEF Send
<1>2. ASSUME NEW t \in Handlers, NEW m \in {"didOpen", "didChange"}, Write(t, m)
      PROVE  TypeOK'
  <2>1. uri[t] \in Uris
    BY <1>2 DEF Write, Placed
  <2> QED
    BY <1>2, <2>1 DEF Write
<1>3. ASSUME NEW t \in Handlers, DidClose(t) PROVE TypeOK'
  BY <1>3 DEF DidClose
<1>4. ASSUME NEW t \in Handlers, Clear(t) PROVE TypeOK'
  <2>1. uri[t] \in Uris
    BY <1>4 DEF Clear, Placed
  <2>2. shown' \in [Uris -> Diagnosis]
    BY <1>4, <2>1 DEF Clear, Diagnosis
  <2> QED
    BY <1>4, <2>2 DEF Clear
<1>5. ASSUME NEW t \in Reloaders, NEW ok \in BOOLEAN, Reload(t, ok) PROVE TypeOK'
  BY <1>5 DEF Reload
<1>6. ASSUME NEW t \in Reloaders, List(t) PROVE TypeOK'
  BY <1>6 DEF List
<1>7. ASSUME NEW t \in Threads, Return(t) PROVE TypeOK'
  BY <1>7 DEF Return
<1>8. ASSUME NEW t \in Threads, NEW u \in Uris, Bump(t, u) PROVE TypeOK'
  BY <1>8 DEF Bump
<1>9. ASSUME NEW t \in Threads, Drop(t) PROVE TypeOK'
  BY <1>9 DEF Drop
<1>10. ASSUME NEW t \in Threads, Enter(t) PROVE TypeOK'
  BY <1>10 DEF Enter
<1>11. ASSUME NEW t \in Threads, ReadSchema(t) PROVE TypeOK'
  BY <1>11 DEF ReadSchema
<1>12. ASSUME NEW t \in Threads, ReadText(t) PROVE TypeOK'
  <2>1. uri[t] \in Uris
    BY <1>12 DEF ReadText, Placed
  <2>2. CASE ~docs[uri[t]].open
    BY <1>12, <2>2 DEF ReadText
  <2>3. CASE docs[uri[t]].open
    <3>1. docs[uri[t]].ver \in Nat
      BY <2>1
    <3> QED
      BY <1>12, <2>3, <3>1 DEF ReadText
  <2> QED
    BY <2>2, <2>3
<1>13. ASSUME NEW t \in Threads, Notify(t) PROVE TypeOK'
  <2>1. [kind |-> Verdict(uri[t]), ver |-> text[t], schema |-> s[t]] \in Diagnosis
    BY DEF Diagnosis, Verdict
  <2> QED
    BY <1>13, <2>1 DEF Notify
<1>14. CASE UNCHANGED vars
  BY <1>14 DEF vars
<1>15. CASE Initialize
  BY <1>15 DEF Initialize
<1> QED
  BY <1>1, <1>2, <1>3, <1>4, <1>5, <1>6, <1>7, <1>8, <1>9, <1>10, <1>11, <1>12,
     <1>13, <1>14, <1>15 DEF Next, Publish, Handle, DidOpen, DidChange

\* publishMu is held by the one thread that is between Enter and Leave.
LEMMA PlacedStep == TypeOK /\ Placed /\ [Next]_vars => Placed'
<1> SUFFICES ASSUME TypeOK, Placed, [Next]_vars PROVE Placed'
  OBVIOUS
<1> USE ThreadsAssumption
    DEF TypeOK, Placed, Threads, client, locals, Leave, Messages, Critical, Labels
<1>1. ASSUME NEW t \in Handlers, NEW u \in Uris, NEW m \in Messages, Send(t, u, m)
      PROVE  Placed'
  BY <1>1 DEF Send
<1>2. ASSUME NEW t \in Handlers, NEW m \in {"didOpen", "didChange"}, Write(t, m)
      PROVE  Placed'
  BY <1>2 DEF Write
<1>3. ASSUME NEW t \in Handlers, DidClose(t) PROVE Placed'
  BY <1>3 DEF DidClose
<1>4. ASSUME NEW t \in Handlers, Clear(t) PROVE Placed'
  BY <1>4 DEF Clear
<1>5. ASSUME NEW t \in Reloaders, NEW ok \in BOOLEAN, Reload(t, ok) PROVE Placed'
  BY <1>5 DEF Reload
<1>6. ASSUME NEW t \in Reloaders, List(t) PROVE Placed'
  BY <1>6 DEF List
<1>7. ASSUME NEW t \in Threads, Return(t) PROVE Placed'
  BY <1>7 DEF Return
<1>8. ASSUME NEW t \in Threads, NEW u \in Uris, Bump(t, u) PROVE Placed'
  BY <1>8 DEF Bump
<1>9. ASSUME NEW t \in Threads, Drop(t) PROVE Placed'
  BY <1>9 DEF Drop
<1>10. ASSUME NEW t \in Threads, Enter(t) PROVE Placed'
  BY <1>10 DEF Enter
<1>11. ASSUME NEW t \in Threads, ReadSchema(t) PROVE Placed'
  BY <1>11 DEF ReadSchema
<1>12. ASSUME NEW t \in Threads, ReadText(t) PROVE Placed'
  BY <1>12 DEF ReadText
<1>13. ASSUME NEW t \in Threads, Notify(t) PROVE Placed'
  BY <1>13 DEF Notify
<1>14. CASE UNCHANGED vars
  BY <1>14 DEF vars
<1>15. CASE Initialize
  BY <1>15 DEF Initialize
<1> QED
  BY <1>1, <1>2, <1>3, <1>4, <1>5, <1>6, <1>7, <1>8, <1>9, <1>10, <1>11, <1>12,
     <1>13, <1>14, <1>15 DEF Next, Publish, Handle, DidOpen, DidChange

\* What a thread has read under publishMu is as old as what it replaces, at most.
LEMMA AgedStep == TypeOK /\ Placed /\ Aged /\ [Next]_vars => Aged'
<1> SUFFICES ASSUME TypeOK, Placed, Aged, [Next]_vars PROVE Aged'
  OBVIOUS
<1> USE ThreadsAssumption
    DEF TypeOK, Placed, Aged, Threads, client, locals, Leave, Messages, Critical,
        Labels, Diagnosis
<1>1. ASSUME NEW t \in Handlers, NEW u \in Uris, NEW m \in Messages, Send(t, u, m)
      PROVE  Aged'
  BY <1>1 DEF Send
<1>2. ASSUME NEW t \in Handlers, NEW m \in {"didOpen", "didChange"}, Write(t, m)
      PROVE  Aged'
  BY <1>2 DEF Write
<1>3. ASSUME NEW t \in Handlers, DidClose(t) PROVE Aged'
  BY <1>3 DEF DidClose
<1>4. ASSUME NEW t \in Handlers, Clear(t) PROVE Aged'
  BY <1>4 DEF Clear
<1>5. ASSUME NEW t \in Reloaders, NEW ok \in BOOLEAN, Reload(t, ok) PROVE Aged'
  BY <1>5 DEF Reload
<1>6. ASSUME NEW t \in Reloaders, List(t) PROVE Aged'
  BY <1>6 DEF List
<1>7. ASSUME NEW t \in Threads, Return(t) PROVE Aged'
  BY <1>7 DEF Return
<1>8. ASSUME NEW t \in Threads, NEW u \in Uris, Bump(t, u) PROVE Aged'
  BY <1>8 DEF Bump
<1>9. ASSUME NEW t \in Threads, Drop(t) PROVE Aged'
  BY <1>9 DEF Drop
<1>10. ASSUME NEW t \in Threads, Enter(t) PROVE Aged'
  BY <1>10 DEF Enter
<1>11. ASSUME NEW t \in Threads, ReadSchema(t) PROVE Aged'
  <2>1. CASE schema = 0
    <3>1. /\ pc' = [pc EXCEPT ![t] = "publish"] /\ uri' = [uri EXCEPT ![t] = NoUri]
          /\ s' = [s EXCEPT ![t] = 0] /\ text' = [text EXCEPT ![t] = 0]
          /\ UNCHANGED <<shown, docs, schema>>
      BY <1>11, <2>1 DEF ReadSchema
    <3> QED
      BY <3>1
  <2>2. CASE schema # 0
    <3>1. /\ pc' = [pc EXCEPT ![t] = "text"] /\ s' = [s EXCEPT ![t] = schema]
          /\ UNCHANGED <<uri, text, shown, docs, schema>>
      BY <1>11, <2>2 DEF ReadSchema
    <3>2. uri[t] \in Uris
      BY <1>11 DEF ReadSchema
    <3> QED
      BY <2>2, <3>1, <3>2
  <2> QED
    BY <2>1, <2>2
<1>12. ASSUME NEW t \in Threads, ReadText(t) PROVE Aged'
  BY <1>12 DEF ReadText
<1>13. ASSUME NEW t \in Threads, Notify(t) PROVE Aged'
  BY <1>13 DEF Notify
<1>14. CASE UNCHANGED vars
  BY <1>14 DEF vars
<1>15. CASE Initialize
  BY <1>15 DEF Initialize
<1> QED
  BY <1>1, <1>2, <1>3, <1>4, <1>5, <1>6, <1>7, <1>8, <1>9, <1>10, <1>11, <1>12,
     <1>13, <1>14, <1>15 DEF Next, Publish, Handle, DidOpen, DidChange

\* A schema, once loaded, is replaced but never dropped.
LEMMA SchemaGrows == TypeOK /\ Next => schema' >= schema
<1> SUFFICES ASSUME TypeOK, Next PROVE schema' >= schema
  OBVIOUS
<1>1. ASSUME NEW t \in Reloaders, NEW ok \in BOOLEAN, Reload(t, ok)
      PROVE  schema' >= schema
  BY <1>1 DEF Reload, TypeOK
<1>2. CASE UNCHANGED schema
  BY <1>2 DEF TypeOK
<1>3. ASSUME NEW t \in Handlers, NEW u \in Uris, NEW m \in Messages, Send(t, u, m)
      PROVE  UNCHANGED schema
  BY <1>3 DEF Send
<1>4. ASSUME NEW t \in Handlers, Handle(t) PROVE UNCHANGED schema
  BY <1>4 DEF Handle, DidOpen, DidChange, Write, DidClose, Clear
<1>5. ASSUME NEW t \in Reloaders, List(t) PROVE UNCHANGED schema
  BY <1>5 DEF List
<1>6. ASSUME NEW t \in Threads, Publish(t) PROVE UNCHANGED schema
  BY <1>6 DEF Publish, Bump, Drop, Enter, ReadSchema, ReadText, Notify, Return
<1>7. CASE Initialize
  BY <1>7 DEF Initialize, TypeOK
<1> QED
  BY <1>1, <1>2, <1>3, <1>4, <1>5, <1>6, <1>7 DEF Next

\* What a thread owes an open document is still owed after a step, unless the
\* step is the notification that settles it.
LEMMA OwedStep ==
  ASSUME TypeOK, Placed, Next, NEW u \in Uris, docs'[u].open, schema' > 0, Owed(u)
  PROVE  \/ Owed(u)'
         \/ \E t \in Threads :
              pc[t] = "notify" /\ uri[t] = u /\ Notify(t) /\ Fresh(u)'
<1> DEFINE Goal == \/ Owed(u)'
                   \/ \E t \in Threads :
                        pc[t] = "notify" /\ uri[t] = u /\ Notify(t) /\ Fresh(u)'
<1> USE ThreadsAssumption
    DEF TypeOK, Placed, Threads, client, locals, Leave, Messages, Critical,
        Labels, Diagnosis, Superseded
<1> PICK x \in Threads : Owes(x, u)
  BY DEF Owed
<1>0. ASSUME NEW y \in Threads, Owes(y, u)' PROVE Goal
  BY <1>0 DEF Owed
<1>1. ASSUME NEW t \in Handlers, NEW w \in Uris, NEW m \in Messages, Send(t, w, m)
      PROVE  Goal
  <2>1. Owes(x, u)'
    BY <1>1 DEF Send, Owes
  <2> QED
    BY <2>1, <1>0
<1>2. ASSUME NEW t \in Handlers, NEW m \in {"didOpen", "didChange"}, Write(t, m)
      PROVE  Goal
  <2>1. CASE uri[t] = u
    <3>1. Owes(t, u)'
      BY <1>2, <2>1 DEF Write, Owes
    <3> QED
      BY <3>1, <1>0
  <2>2. CASE uri[t] # u
    <3>1. Owes(x, u)'
      BY <1>2, <2>2 DEF Write, Owes
    <3> QED
      BY <3>1, <1>0
  <2> QED
    BY <2>1, <2>2
<1>3. ASSUME NEW t \in Handlers, DidClose(t) PROVE Goal
  <2>1. Owes(x, u)'
    BY <1>3 DEF DidClose, Owes
  <2> QED
    BY <2>1, <1>0
<1>4. ASSUME NEW t \in Handlers, Clear(t) PROVE Goal
  <2>1. Owes(x, u)'
    BY <1>4 DEF Clear, Owes
  <2> QED
    BY <2>1, <1>0
<1>5. ASSUME NEW t \in Reloaders, NEW ok \in BOOLEAN, Reload(t, ok) PROVE Goal
  <2>1. Owes(t, u)'
    BY <1>5 DEF Reload, Owes
  <2> QED
    BY <2>1, <1>0
<1>6. ASSUME NEW t \in Reloaders, List(t) PROVE Goal
  <2>1. CASE x = t
    <3>1. Owes(t, u)'
      BY <1>6, <2>1 DEF List, Owes
    <3> QED
      BY <3>1, <1>0
  <2>2. CASE x # t
    <3>1. Owes(x, u)'
      BY <1>6, <2>2 DEF List, Owes
    <3> QED
      BY <3>1, <1>0
  <2> QED
    BY <2>1, <2>2
<1>7. ASSUME NEW t \in Threads, Return(t) PROVE Goal
  <2>1. Owes(x, u)'
    BY <1>7 DEF Return, Owes
  <2> QED
    BY <2>1, <1>0
<1>8. ASSUME NEW t \in Threads, NEW w \in Uris, Bump(t, w) PROVE Goal
  <2>1. CASE w = u
    <3>1. Owes(t, u)'
      BY <1>8, <2>1 DEF Bump, Owes
    <3> QED
      BY <3>1, <1>0
  <2>2. CASE w # u
    <3>1. Owes(x, u)'
      BY <1>8, <2>2 DEF Bump, Owes
    <3> QED
      BY <3>1, <1>0
  <2> QED
    BY <2>1, <2>2
<1>9. ASSUME NEW t \in Threads, Drop(t) PROVE Goal
  <2>1. Owes(x, u)'
    BY <1>9 DEF Drop, Owes
  <2> QED
    BY <2>1, <1>0
<1>10. ASSUME NEW t \in Threads, Enter(t) PROVE Goal
  <2>1. Owes(x, u)'
    BY <1>10 DEF Enter, Owes
  <2> QED
    BY <2>1, <1>0
<1>11. ASSUME NEW t \in Threads, ReadSchema(t) PROVE Goal
  <2>1. /\ pc' = [pc EXCEPT ![t] = "text"] /\ s' = [s EXCEPT ![t] = schema]
        /\ UNCHANGED <<uri, uris, mySeq, text, docs, schema, publishSeqs>>
    BY <1>11 DEF ReadSchema
  <2>2. Owes(x, u)'
    BY <1>11, <2>1 DEF ReadSchema, Owes
  <2> QED
    BY <2>2, <1>0
<1>12. ASSUME NEW t \in Threads, ReadText(t) PROVE Goal
  <2>1. CASE x # t
    <3>1. Owes(x, u)'
      BY <1>12, <2>1 DEF ReadText, Owes
    <3> QED
      BY <3>1, <1>0
  <2>2. CASE x = t
    <3>1. Owes(t, u)'
      BY <1>12, <2>2 DEF ReadText, Owes
    <3> QED
      BY <3>1, <1>0
  <2> QED
    BY <2>1, <2>2
<1>13. ASSUME NEW t \in Threads, Notify(t) PROVE Goal
  <2>1. CASE x # t \/ u \in uris[x]
    <3>1. Owes(x, u)'
      BY <1>13, <2>1 DEF Notify, Owes
    <3> QED
      BY <3>1, <1>0
  <2>2. CASE x = t /\ u \notin uris[x]
    <3>1. pc[t] = "notify" /\ uri[t] = u /\ s[t] = schema /\ text[t] = docs[u].ver
      BY <1>13, <2>2 DEF Notify, Owes
    <3>2. Fresh(u)'
      BY <1>13, <3>1 DEF Notify, Fresh, ABS!Fresh, Verdict, ABS!Verdict
    <3> QED
      BY <1>13, <3>1, <3>2
  <2> QED
    BY <2>1, <2>2
<1>15. CASE Initialize
  BY <1>15 DEF Initialize
<1> QED
  BY <1>1, <1>2, <1>3, <1>4, <1>5, <1>6, <1>7, <1>8, <1>9, <1>10, <1>11, <1>12,
     <1>13, <1>15 DEF Next, Publish, Handle, DidOpen, DidChange

\* A clearing finds its document closed, unless another handler reopened it.
LEMMA ClearedStep == TypeOK /\ Placed /\ Cleared /\ [Next]_vars => Cleared'
<1> SUFFICES ASSUME TypeOK, Placed, Cleared, [Next]_vars,
                    NEW x \in Threads, pc'[x] = "clear", Orderly(uri[x])'
             PROVE  ~docs'[uri'[x]].open
  BY DEF Cleared
<1> USE ThreadsAssumption
    DEF TypeOK, Placed, Cleared, Threads, client, locals, Leave, Messages, Critical,
        Labels, Diagnosis, Orderly, Serial
<1>1. ASSUME NEW t \in Handlers, NEW u \in Uris, NEW m \in Messages, Send(t, u, m)
      PROVE  ~docs'[uri'[x]].open
  BY <1>1 DEF Send
<1>2. ASSUME NEW t \in Handlers, NEW m \in {"didOpen", "didChange"}, Write(t, m)
      PROVE  ~docs'[uri'[x]].open
  BY <1>2 DEF Write
<1>3. ASSUME NEW t \in Handlers, DidClose(t) PROVE ~docs'[uri'[x]].open
  BY <1>3 DEF DidClose
<1>4. ASSUME NEW t \in Handlers, Clear(t) PROVE ~docs'[uri'[x]].open
  BY <1>4 DEF Clear
<1>5. ASSUME NEW t \in Reloaders, NEW ok \in BOOLEAN, Reload(t, ok)
      PROVE  ~docs'[uri'[x]].open
  BY <1>5 DEF Reload
<1>6. ASSUME NEW t \in Reloaders, List(t) PROVE ~docs'[uri'[x]].open
  BY <1>6 DEF List
<1>7. ASSUME NEW t \in Threads, Return(t) PROVE ~docs'[uri'[x]].open
  BY <1>7 DEF Return
<1>8. ASSUME NEW t \in Threads, NEW u \in Uris, Bump(t, u)
      PROVE  ~docs'[uri'[x]].open
  BY <1>8 DEF Bump
<1>9. ASSUME NEW t \in Threads, Drop(t) PROVE ~docs'[uri'[x]].open
  BY <1>9 DEF Drop
<1>10. ASSUME NEW t \in Threads, Enter(t) PROVE ~docs'[uri'[x]].open
  BY <1>10 DEF Enter
<1>11. ASSUME NEW t \in Threads, ReadSchema(t) PROVE ~docs'[uri'[x]].open
  BY <1>11 DEF ReadSchema
<1>12. ASSUME NEW t \in Threads, ReadText(t) PROVE ~docs'[uri'[x]].open
  BY <1>12 DEF ReadText
<1>13. ASSUME NEW t \in Threads, Notify(t) PROVE ~docs'[uri'[x]].open
  BY <1>13 DEF Notify
<1>14. CASE UNCHANGED vars
  BY <1>14 DEF vars
<1>15. CASE Initialize
  BY <1>15 DEF Initialize
<1> QED
  BY <1>1, <1>2, <1>3, <1>4, <1>5, <1>6, <1>7, <1>8, <1>9, <1>10, <1>11, <1>12,
     <1>13, <1>14, <1>15 DEF Next, Publish, Handle, DidOpen, DidChange

\* A step that outdates a list read for an open document, or opens the document,
\* leaves a thread that owes it.
LEMMA FollowedStep ==
  TypeOK /\ Placed /\ Aged /\ Followed /\ [Next]_vars => Followed'
<1> SUFFICES ASSUME TypeOK, Placed, Aged, Followed, [Next]_vars, NEW x \in Threads,
                    pc'[x] \in {"text", "notify"}, ~Current(x)', docs'[uri'[x]].open
             PROVE  Owed(uri[x])'
  BY DEF Followed
<1> DEFINE Outdated == /\ pc[x] \in {"text", "notify"}
                       /\ ~Current(x) /\ docs[uri[x]].open
<1> USE ThreadsAssumption
    DEF TypeOK, Placed, Threads, client, locals, Leave, Messages, Critical, Labels,
        Diagnosis, Current
<1>1. CASE UNCHANGED vars
  <2>1. Owed(uri[x])
    BY <1>1 DEF vars, Followed
  <2> QED
    BY <1>1, <2>1 DEF vars, Owed, Owes, Superseded
<1>2. CASE Next /\ Outdated /\ uri'[x] = uri[x]
  <2>1. Owed(uri[x]) /\ uri[x] \in Uris
    BY <1>2 DEF Followed
  <2>2. schema' > 0
    <3>1. schema > 0
      BY <1>2 DEF Aged
    <3>2. schema' >= schema
      BY <1>2, SchemaGrows
    <3>3. schema' \in Nat
      BY <1>2, TypeStep
    <3> QED
      BY <3>1, <3>2, <3>3
  <2>3. ASSUME NEW t \in Threads, pc[t] = "notify", Notify(t) PROVE FALSE
    <3>1. t = x
      BY <1>2, <2>3
    <3> QED
      BY <2>3, <3>1 DEF Notify
  <2> QED
    BY <1>2, <2>1, <2>2, <2>3, OwedStep
<1>3. CASE Next /\ ~(Outdated /\ uri'[x] = uri[x])
  <2>0. ASSUME NEW y \in Threads, Owes(y, uri[x])' PROVE Owed(uri[x])'
    BY <2>0 DEF Owed
  <2>1. ASSUME NEW t \in Handlers, NEW u \in Uris, NEW m \in Messages, Send(t, u, m)
        PROVE  FALSE
    BY <1>3, <2>1 DEF Send
  <2>2. ASSUME NEW t \in Handlers, NEW m \in {"didOpen", "didChange"}, Write(t, m)
        PROVE  Owed(uri[x])'
    <3>1. uri[t] = uri'[x]
      BY <1>3, <2>2 DEF Write
    <3>2. Owes(t, uri[x])'
      BY <2>2, <3>1 DEF Write, Owes
    <3> QED
      BY <2>0, <3>2
  <2>3. ASSUME NEW t \in Handlers, DidClose(t) PROVE FALSE
    BY <1>3, <2>3 DEF DidClose
  <2>4. ASSUME NEW t \in Handlers, Clear(t) PROVE FALSE
    BY <1>3, <2>4 DEF Clear
  <2>5. ASSUME NEW t \in Reloaders, NEW ok \in BOOLEAN, Reload(t, ok)
        PROVE  Owed(uri[x])'
    <3>1. Owes(t, uri[x])'
      BY <2>5 DEF Reload, Owes
    <3> QED
      BY <2>0, <3>1
  <2>6. ASSUME NEW t \in Reloaders, List(t) PROVE FALSE
    BY <1>3, <2>6 DEF List
  <2>7. ASSUME NEW t \in Threads, Return(t) PROVE FALSE
    BY <1>3, <2>7 DEF Return
  <2>8. ASSUME NEW t \in Threads, NEW u \in Uris, Bump(t, u) PROVE FALSE
    BY <1>3, <2>8 DEF Bump
  <2>9. ASSUME NEW t \in Threads, Drop(t) PROVE FALSE
    BY <1>3, <2>9 DEF Drop
  <2>10. ASSUME NEW t \in Threads, Enter(t) PROVE FALSE
    BY <1>3, <2>10 DEF Enter
  <2>11. ASSUME NEW t \in Threads, ReadSchema(t) PROVE FALSE
    BY <1>3, <2>11 DEF ReadSchema
  <2>12. ASSUME NEW t \in Threads, ReadText(t) PROVE FALSE
    BY <1>3, <2>12 DEF ReadText
  <2>13. ASSUME NEW t \in Threads, Notify(t) PROVE FALSE
    BY <1>3, <2>13 DEF Notify
  <2>15. CASE Initialize
    BY <1>3, <2>15 DEF Initialize
  <2> QED
    BY <1>3, <2>1, <2>2, <2>3, <2>4, <2>5, <2>6, <2>7, <2>8, <2>9, <2>10, <2>11,
       <2>12, <2>13, <2>15 DEF Next, Publish, Handle, DidOpen, DidChange
<1> QED
  BY <1>1, <1>2, <1>3

\* An open document that is fresh stays fresh, or a thread comes to owe it.
LEMMA FreshStep ==
  ASSUME TypeOK, Placed, Followed, Cleared, Next, NEW u \in Uris,
         docs'[u].open, schema' > 0, docs[u].open, Orderly(u), Fresh(u)
  PROVE  Fresh(u)' \/ Owed(u)'
<1> DEFINE Goal == Fresh(u)' \/ Owed(u)'
<1> USE ThreadsAssumption
    DEF TypeOK, Placed, Threads, client, locals, Leave, Messages, Critical, Labels,
        Diagnosis, Fresh, ABS!Fresh, Verdict, ABS!Verdict
<1>1. ASSUME NEW t \in Handlers, NEW w \in Uris, NEW m \in Messages, Send(t, w, m)
      PROVE  Goal
  BY <1>1 DEF Send
<1>2. ASSUME NEW t \in Handlers, NEW m \in {"didOpen", "didChange"}, Write(t, m)
      PROVE  Goal
  <2>1. CASE uri[t] = u
    BY <1>2, <2>1 DEF Write, Owed, Owes
  <2>2. CASE uri[t] # u
    BY <1>2, <2>2 DEF Write
  <2> QED
    BY <2>1, <2>2
<1>3. ASSUME NEW t \in Handlers, DidClose(t) PROVE Goal
  BY <1>3 DEF DidClose
<1>4. ASSUME NEW t \in Handlers, Clear(t) PROVE Goal
  <2>1. uri[t] # u
    BY <1>4 DEF Clear, Cleared
  <2> QED
    BY <1>4, <2>1 DEF Clear
<1>5. ASSUME NEW t \in Reloaders, NEW ok \in BOOLEAN, Reload(t, ok) PROVE Goal
  <2>1. Owes(t, u)'
    BY <1>5 DEF Reload, Owes
  <2> QED
    BY <2>1 DEF Owed
<1>6. ASSUME NEW t \in Reloaders, List(t) PROVE Goal
  BY <1>6 DEF List
<1>7. ASSUME NEW t \in Threads, Return(t) PROVE Goal
  BY <1>7 DEF Return
<1>8. ASSUME NEW t \in Threads, NEW w \in Uris, Bump(t, w) PROVE Goal
  BY <1>8 DEF Bump
<1>9. ASSUME NEW t \in Threads, Drop(t) PROVE Goal
  BY <1>9 DEF Drop
<1>10. ASSUME NEW t \in Threads, Enter(t) PROVE Goal
  BY <1>10 DEF Enter
<1>11. ASSUME NEW t \in Threads, ReadSchema(t) PROVE Goal
  BY <1>11 DEF ReadSchema
<1>12. ASSUME NEW t \in Threads, ReadText(t) PROVE Goal
  BY <1>12 DEF ReadText
<1>13. ASSUME NEW t \in Threads, Notify(t) PROVE Goal
  <2>1. CASE uri[t] # u
    BY <1>13, <2>1 DEF Notify
  <2>2. CASE uri[t] = u /\ Current(t)
    BY <1>13, <2>2 DEF Notify, Current
  <2>3. CASE uri[t] = u /\ ~Current(t)
    <3>1. Owed(u)
      BY <1>13, <2>3 DEF Notify, Followed
    <3> QED
      BY <3>1, OwedStep
  <2> QED
    BY <2>1, <2>2, <2>3
<1>15. CASE Initialize
  BY <1>15 DEF Initialize
<1> QED
  BY <1>1, <1>2, <1>3, <1>4, <1>5, <1>6, <1>7, <1>8, <1>9, <1>10, <1>11, <1>12,
     <1>13, <1>15 DEF Next, Publish, Handle, DidOpen, DidChange

\* A step that opens a document, or installs the first schema, leaves a thread
\* that owes the document.
LEMMA StartStep ==
  ASSUME TypeOK, Placed, Next, NEW u \in Uris, docs'[u].open, schema' > 0,
         ~(docs[u].open /\ schema > 0)
  PROVE  Owed(u)'
<1> USE ThreadsAssumption
    DEF TypeOK, Placed, Threads, client, locals, Leave, Messages, Critical, Labels
<1>1. ASSUME NEW t \in Handlers, NEW w \in Uris, NEW m \in Messages, Send(t, w, m)
      PROVE  FALSE
  BY <1>1 DEF Send
<1>2. ASSUME NEW t \in Handlers, NEW m \in {"didOpen", "didChange"}, Write(t, m)
      PROVE  Owed(u)'
  <2>1. uri[t] = u
    BY <1>2 DEF Write
  <2>2. Owes(t, u)'
    BY <1>2, <2>1 DEF Write, Owes
  <2> QED
    BY <2>2 DEF Owed
<1>3. ASSUME NEW t \in Handlers, DidClose(t) PROVE FALSE
  BY <1>3 DEF DidClose
<1>4. ASSUME NEW t \in Handlers, Clear(t) PROVE FALSE
  BY <1>4 DEF Clear
<1>5. ASSUME NEW t \in Reloaders, NEW ok \in BOOLEAN, Reload(t, ok) PROVE Owed(u)'
  <2>1. Owes(t, u)'
    BY <1>5 DEF Reload, Owes
  <2> QED
    BY <2>1 DEF Owed
<1>6. ASSUME NEW t \in Reloaders, List(t) PROVE FALSE
  BY <1>6 DEF List
<1>7. ASSUME NEW t \in Threads, Publish(t) PROVE FALSE
  BY <1>7 DEF Publish, Bump, Drop, Enter, ReadSchema, ReadText, Notify, Return
<1>8. CASE Initialize
  BY <1>8 DEF Initialize
<1> QED
  BY <1>1, <1>2, <1>3, <1>4, <1>5, <1>6, <1>7, <1>8 DEF Next, Handle, DidOpen, DidChange

LEMMA NoLostUpdateStep ==
  TypeOK /\ IInv /\ [Next]_vars => NoLostUpdate'
<1> SUFFICES ASSUME TypeOK, IInv, [Next]_vars, NEW u \in Uris,
                    docs'[u].open, schema' > 0, Orderly(u)'
             PROVE  Fresh(u)' \/ Owed(u)'
  BY DEF NoLostUpdate
<1>1. CASE UNCHANGED vars
  BY <1>1 DEF vars, locals, client, IInv, NoLostUpdate, Orderly, Fresh, ABS!Fresh,
     Owed, Owes, Superseded
<1>2. CASE Next /\ ~(docs[u].open /\ schema > 0)
  BY <1>2, StartStep DEF IInv
<1>3. CASE Next /\ docs[u].open /\ schema > 0
  <2>1. Orderly(u)
    BY <1>3 DEF Orderly, client, Next, Initialize, Publish, Handle, DidOpen, DidChange, Send,
       Write, DidClose, Clear, Reload, List, Return, Bump, Drop, Enter, ReadSchema,
       ReadText, Notify
  <2>2. CASE Fresh(u)
    BY <1>3, <2>1, <2>2, FreshStep DEF IInv
  <2>3. CASE Owed(u)
    BY <1>3, <2>3, OwedStep DEF IInv
  <2> QED
    BY <1>3, <2>1, <2>2, <2>3 DEF IInv, NoLostUpdate
<1> QED
  BY <1>1, <1>2, <1>3

LEMMA Initially == Init => TypeOK /\ IInv
<1> SUFFICES ASSUME Init PROVE TypeOK /\ IInv
  OBVIOUS
<1> USE ThreadsAssumption DEF Init, Critical, Messages
<1>1. TypeOK
  BY DEF TypeOK, Labels, Diagnosis
<1>2. Placed /\ Aged /\ Followed /\ Cleared
  BY DEF Placed, Aged, Followed, Cleared
<1>3. NoLostUpdate
  BY DEF NoLostUpdate
<1> QED
  BY <1>1, <1>2, <1>3 DEF IInv

LEMMA Inductive == TypeOK /\ IInv /\ [Next]_vars => TypeOK' /\ IInv'
  BY TypeStep, PlacedStep, AgedStep, FollowedStep, ClearedStep, NoLostUpdateStep
     DEF IInv

\* In every behaviour the state is of the right type and the inductive
\* invariant holds: publishMu has one holder, which has read nothing newer
\* than is kept nor older than is shown.
THEOREM Invariance == Spec => [](TypeOK /\ IInv)
  BY Initially, Inductive, PTL DEF Spec

\* Every variable keeps its type.
THEOREM Typed == Spec => []TypeOK
  BY Invariance, PTL

\* For any number of documents, handlers, callbacks, edits and reloads: an open
\* document shows its latest text linted under the latest schema, or a thread
\* is on its way to publish that; with concurrent handlers, as long as the
\* document was never closed.
THEOREM LastUpdatePublished == Spec => []NoLostUpdate
<1>1. IInv => NoLostUpdate
  BY DEF IInv
<1> QED
  BY Invariance, <1>1, PTL

LEMMA ShownStep ==
  TypeOK /\ IInv /\ [Next]_vars =>
    [\A u \in Uris : /\ shown'[u].ver >= shown[u].ver
                     /\ shown'[u].schema >= shown[u].schema]_vars
<1> DEFINE Grows == \A u \in Uris : /\ shown'[u].ver >= shown[u].ver
                                    /\ shown'[u].schema >= shown[u].schema
<1> SUFFICES ASSUME TypeOK, IInv, Next PROVE Grows
  OBVIOUS
<1> USE DEF TypeOK, Diagnosis, IInv
<1>1. CASE UNCHANGED shown
  BY <1>1
<1>2. ASSUME NEW t \in Handlers, Clear(t) PROVE Grows
  BY <1>2 DEF Clear
<1>3. ASSUME NEW t \in Threads, Notify(t) PROVE Grows
  BY <1>3 DEF Notify, Aged, Placed, Critical
<1> QED
  BY <1>1, <1>2, <1>3 DEF Next, Publish, Handle, DidOpen, DidChange, Send,
     Initialize, Write, DidClose, Reload, List, Return, Bump, Drop, Enter, ReadSchema, ReadText

\* No list is ever replaced by one computed from an older text or schema, also
\* with requests handled concurrently and documents closed and reopened.
THEOREM NeverOverwrittenByStale == Spec => StaleNeverOverwrites
  BY Invariance, ShownStep, PTL DEF Spec, StaleNeverOverwrites

\* Under serial dispatch docs holds what the editor has open, but for the document
\* whose notification is being handled.
Told ==
  /\ \A t \in Handlers :
       /\ pc[t] \in {"didOpen", "didChange"} => uri[t] \in editor
       /\ pc[t] = "didClose" => uri[t] \notin editor
  /\ \A u \in Uris :
       (\A t \in Handlers : pc[t] \in Messages => uri[t] # u)
         => (docs[u].open <=> u \in editor)

LEMMA ToldStep == Serial /\ TypeOK /\ Placed /\ Told /\ [Next]_vars => Told'
<1> SUFFICES ASSUME Serial, TypeOK, Placed, Told, [Next]_vars PROVE Told'
  OBVIOUS
<1> USE ThreadsAssumption
    DEF TypeOK, Placed, Told, Threads, client, locals, Leave, Messages, Serial
<1>1. ASSUME NEW t \in Handlers, NEW u \in Uris, NEW m \in Messages, Send(t, u, m)
      PROVE  Told'
  <2>1. /\ editor' = IF m = "didOpen" THEN editor \cup {u}
                     ELSE IF m = "didClose" THEN editor \ {u} ELSE editor
        /\ pc' = [pc EXCEPT ![t] = m] /\ uri' = [uri EXCEPT ![t] = u]
        /\ pc[t] = "idle" /\ UNCHANGED docs /\ (m = "didOpen" <=> u \notin editor)
    BY <1>1 DEF Send, Legal
  <2> QED
    BY <2>1
<1>2. ASSUME NEW t \in Handlers, NEW m \in {"didOpen", "didChange"}, Write(t, m)
      PROVE  Told'
  BY <1>2 DEF Write
<1>3. ASSUME NEW t \in Handlers, DidClose(t) PROVE Told'
  <2>1. uri[t] \in Uris
    BY <1>3 DEF DidClose
  <2>2. /\ docs'[uri[t]].open = FALSE
        /\ \A u \in Uris : u # uri[t] => docs'[u] = docs[u]
    BY <1>3, <2>1 DEF DidClose
  <2> QED
    BY <1>3, <2>1, <2>2 DEF DidClose
<1>4. ASSUME NEW t \in Handlers, Clear(t) PROVE Told'
  BY <1>4 DEF Clear
<1>5. ASSUME NEW t \in Threads, Publish(t) PROVE Told'
  <2>1. UNCHANGED <<editor, docs>>
    BY <1>5 DEF Publish, Bump, Drop, Enter, ReadSchema, ReadText, Notify, Return
  <2>2. pc[t] \notin Messages /\ pc'[t] \notin Messages
    BY <1>5 DEF Publish, Bump, Drop, Enter, ReadSchema, ReadText, Notify, Return
  <2>3. \A x \in Threads : x # t => pc'[x] = pc[x] /\ uri'[x] = uri[x]
    BY <1>5 DEF Publish, Bump, Drop, Enter, ReadSchema, ReadText, Notify, Return
  <2> QED
    BY <2>1, <2>2, <2>3
<1>6. CASE \/ \E t \in Reloaders : List(t) \/ \E ok \in BOOLEAN : Reload(t, ok)
           \/ Initialize \/ UNCHANGED vars
  BY <1>6 DEF List, Reload, Initialize, vars
<1> QED
  BY <1>1, <1>2, <1>3, <1>4, <1>5, <1>6 DEF Next, Handle, DidOpen, DidChange

LEMMA AlwaysTold == ASSUME Serial PROVE Spec => []Told
<1>1. Init => Told
  BY DEF Init, Told, Threads, Messages
<1>2. TypeOK /\ IInv /\ Told /\ [Next]_vars => Told'
  BY ToldStep DEF IInv
<1> QED
  BY <1>1, <1>2, Invariance, PTL DEF Spec

\* Under serial dispatch every step is one that Diagnostics allows, or a stutter.
LEMMA RefinementStep ==
  Serial /\ TypeOK /\ IInv /\ [Next]_vars => [ABS!Next]_(ABS!vars)
<1> SUFFICES ASSUME Serial, TypeOK, IInv, [Next]_vars
             PROVE  ABS!Next \/ UNCHANGED ABS!vars
  OBVIOUS
<1> USE DEF TypeOK, IInv, ABS!vars, Messages, Critical
<1>1. ASSUME NEW t \in Handlers, NEW m \in {"didOpen", "didChange"}, Write(t, m)
      PROVE  ABS!Next
  <2>1. uri[t] \in Uris
    BY <1>1 DEF Write, Placed, Threads
  <2>2. ABS!Write(uri[t])
    BY <1>1 DEF Write, ABS!Write
  <2> QED
    BY <2>1, <2>2 DEF ABS!Next
<1>2. ASSUME NEW t \in Handlers, DidClose(t) PROVE ABS!Next
  <2>1. uri[t] \in Uris
    BY <1>2 DEF DidClose, Placed, Threads
  <2>2. ABS!Close(uri[t])
    BY <1>2 DEF DidClose, ABS!Close
  <2> QED
    BY <2>1, <2>2 DEF ABS!Next
<1>3. ASSUME NEW t \in Handlers, Clear(t) PROVE ABS!Next
  <2>1. uri[t] \in Uris /\ ~docs[uri[t]].open
    BY <1>3 DEF Clear, Placed, Cleared, Orderly, Threads
  <2>2. ABS!Clear(uri[t])
    BY <1>3, <2>1 DEF Clear, ABS!Clear
  <2> QED
    BY <2>1, <2>2 DEF ABS!Next
<1>4. ASSUME NEW t \in Reloaders, NEW ok \in BOOLEAN, Reload(t, ok)
      PROVE  ABS!Next \/ UNCHANGED ABS!vars
  <2>1. CASE ok
    BY <1>4, <2>1 DEF Reload, ABS!Next, ABS!Install
  <2>2. CASE ~ok
    BY <1>4, <2>2 DEF Reload
  <2> QED
    BY <2>1, <2>2
<1>5. ASSUME NEW t \in Threads, Notify(t) PROVE ABS!Next
  <2>1. /\ uri[t] \in Uris
        /\ text[t] \in shown[uri[t]].ver .. docs[uri[t]].ver
        /\ s[t] \in shown[uri[t]].schema .. schema
    BY <1>5 DEF Notify, Placed, Aged, Threads, Diagnosis
  <2>2. ABS!Publish(uri[t])
    BY <1>5, <2>1 DEF Notify, Verdict, ABS!Publish, ABS!Verdict
  <2> QED
    BY <2>1, <2>2 DEF ABS!Next
<1>6. CASE UNCHANGED <<docs, schema, shown>>
  BY <1>6
<1>7. CASE Initialize
  BY <1>7 DEF Initialize, ABS!Next, ABS!Install
<1> QED
  BY <1>1, <1>2, <1>3, <1>4, <1>5, <1>6, <1>7 DEF vars, Next, Publish, Handle, DidOpen,
     DidChange, Send, List, Return, Bump, Drop, Enter, ReadSchema, ReadText

\* With requests dispatched one after the other, the threads of server.go, with
\* the timer callbacks among them, implement what Diagnostics promises.
THEOREM Refinement ==
  ASSUME Serial
  PROVE  Spec => ImplementsDiagnostics
<1>1. Init => ABS!Init
  BY DEF Init, ABS!Init
<1>2. TypeOK /\ IInv /\ [Next]_vars => [ABS!Next]_(ABS!vars)
  BY RefinementStep
<1> QED
  BY Invariance, <1>1, <1>2, PTL DEF Spec, ABS!Spec, ImplementsDiagnostics
=============================================================================
