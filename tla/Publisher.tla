----------------------------- MODULE Publisher -----------------------------
(***************************************************************************)
(* How internal/lsp/server.go keeps the editor's diagnostics up to date:   *)
(* the handlers didOpen, didChange and didClose, the timer callback that   *)
(* reloads the schema and republishes every open document, and             *)
(* publishDiagnostics, which they share.                                   *)
(*                                                                         *)
(* Every thread has a pc naming the statement it is about to run.  A step  *)
(* is what the Go code does under one critical section, or between two     *)
(* accesses to shared state.                                               *)
(*                                                                         *)
(* A text is the number of times its document was written, a schema the    *)
(* number of schemas installed: what the linter makes of them is left out, *)
(* which text and which schema it was given is kept.                       *)
(***************************************************************************)
EXTENDS Naturals

CONSTANTS
  Uris,         \* documents the editor may open
  SchemaUris,   \* the ones isInSchemaDir answers true for
  Handlers,     \* goroutines that run LSP requests: one if the connection
                \* dispatches serially, several if it "dispatches each request
                \* in its own goroutine" (server.go:62)
  Reloaders,    \* goroutines that run the callback of time.AfterFunc; a second
                \* timer can fire while the first callback is still running
  NoThread, NoUri,
  MaxSends,     \* bound: notifications the editor sends
  MaxReloads    \* bound: callbacks that run

Threads == Handlers \cup Reloaders

ASSUME UrisAssumption == SchemaUris \subseteq Uris /\ NoUri \notin Uris
ASSUME ThreadsAssumption ==
  Handlers \cap Reloaders = {} /\ NoThread \notin Threads
ASSUME BoundsAssumption == MaxSends \in Nat /\ MaxReloads \in Nat

VARIABLES
  editor,       \* documents the editor has open, as far as it has told
  closed,       \* history: documents a didClose was ever sent for
  sends,        \* notifications sent so far
  docs,         \* docs[u].open: u is a key of docs; docs[u].ver: its text
  schema,       \* loadedSchema, 0 for nil
  reloads,      \* callbacks run so far
  publishMu,    \* the thread that holds publishMu, or NoThread
  publishSeqs,  \* publishSeqs[u]: the counter of u
  shown,        \* shown[u]: the last list notified for u
  pc,           \* pc[t]: what t does next
  uri,          \* uri[t]: the argument of the call t is in
  uris,         \* uris[t]: the documents t has still to publish
  mySeq,        \* mySeq[t]: the counter value t drew
  s,            \* s[t]: the schema t has read
  text          \* text[t]: the text t has read

client == <<editor, closed, sends>>
locals == <<uri, uris, mySeq, s, text>>
vars == <<client, docs, schema, reloads, publishMu, publishSeqs, shown, pc, locals>>

Messages == {"didOpen", "didChange", "didClose"}
Labels == {"idle", "clear", "list", "publish", "lock", "schema", "text", "notify"}
            \cup Messages
Critical == {"schema", "text", "notify"}   \* publishMu is held here

Diagnosis == [kind : {"empty", "lint"}, ver : Nat, schema : Nat]

TypeOK ==
  /\ editor \subseteq Uris /\ closed \subseteq Uris /\ sends \in Nat
  /\ docs \in [Uris -> [open : BOOLEAN, ver : Nat]]
  /\ schema \in Nat /\ reloads \in Nat
  /\ publishMu \in Threads \cup {NoThread}
  /\ publishSeqs \in [Uris -> Nat]
  /\ shown \in [Uris -> Diagnosis]
  /\ pc \in [Threads -> Labels]
  /\ uri \in [Threads -> Uris \cup {NoUri}]
  /\ uris \in [Threads -> SUBSET Uris]
  /\ mySeq \in [Threads -> Nat]
  /\ s \in [Threads -> Nat]
  /\ text \in [Threads -> Nat]

(* The server has started: no schema, no document. *)
Init ==
  /\ editor = {} /\ closed = {} /\ sends = 0
  /\ docs = [u \in Uris |-> [open |-> FALSE, ver |-> 0]]
  /\ schema = 0 /\ reloads = 0
  /\ publishMu = NoThread
  /\ publishSeqs = [u \in Uris |-> 0]
  /\ shown = [u \in Uris |-> [kind |-> "empty", ver |-> 0, schema |-> 0]]
  /\ pc = [t \in Threads |-> "idle"]
  /\ uri = [t \in Threads |-> NoUri]
  /\ uris = [t \in Threads |-> {}]
  /\ mySeq = [t \in Threads |-> 0]
  /\ s = [t \in Threads |-> 0]
  /\ text = [t \in Threads |-> 0]
-----------------------------------------------------------------------------
(* The editor, and the connection that hands its notification to a handler. *)

\* LSP: a document is opened once before it is changed or closed.
Legal(u, m) == (m = "didOpen") <=> (u \notin editor)

\* initialize loads the schema, unless that fails.  No notification comes before
\* its answer, and the watcher is started after the load.
Initialize ==
  /\ schema = 0 /\ sends = 0 /\ reloads = 0
  /\ \A u \in Uris : ~docs[u].open
  /\ schema' = 1
  /\ UNCHANGED <<client, docs, reloads, publishMu, publishSeqs, shown, pc, locals>>

Send(t, u, m) ==
  /\ pc[t] = "idle" /\ sends < MaxSends /\ Legal(u, m)
  /\ editor' = CASE m = "didOpen"   -> editor \cup {u}
                 [] m = "didChange" -> editor
                 [] m = "didClose"  -> editor \ {u}
  /\ closed' = IF m = "didClose" THEN closed \cup {u} ELSE closed
  /\ sends' = sends + 1
  /\ pc' = [pc EXCEPT ![t] = m]
  /\ uri' = [uri EXCEPT ![t] = u]
  /\ UNCHANGED <<docs, schema, reloads, publishMu, publishSeqs, shown,
                 uris, mySeq, s, text>>
-----------------------------------------------------------------------------
(* The handlers. *)

\* didOpen and didChange store a text under docsMu, then publish.  didChange
\* does not ask whether the document is open.
Write(t, m) ==
  /\ pc[t] = m
  /\ docs' = [docs EXCEPT ![uri[t]] = [open |-> TRUE, ver |-> @.ver + 1]]
  /\ pc' = [pc EXCEPT ![t] = "publish"]
  /\ uris' = [uris EXCEPT ![t] = {uri[t]}]
  /\ uri' = [uri EXCEPT ![t] = NoUri]
  /\ UNCHANGED <<client, schema, reloads, publishMu, publishSeqs, shown,
                 mySeq, s, text>>

DidOpen(t) == Write(t, "didOpen")

DidChange(t) == Write(t, "didChange")

\* Mutant: the entry is not deleted.
DidCloseKeeps(t) ==
  /\ pc[t] = "didClose"
  /\ pc' = [pc EXCEPT ![t] = "clear"]
  /\ UNCHANGED <<client, docs, schema, reloads, publishMu, publishSeqs, shown, locals>>

DidClose(t) ==
  /\ pc[t] = "didClose"
  /\ docs' = [docs EXCEPT ![uri[t]].open = FALSE]
  /\ pc' = [pc EXCEPT ![t] = "clear"]
  /\ UNCHANGED <<client, schema, reloads, publishMu, publishSeqs, shown, locals>>

\* The end of didClose: an empty list, sent without publishMu and without
\* drawing from publishSeqs.
Clear(t) ==
  /\ pc[t] = "clear"
  /\ shown' = [shown EXCEPT ![uri[t]].kind = "empty"]
  /\ pc' = [pc EXCEPT ![t] = "idle"]
  /\ uri' = [uri EXCEPT ![t] = NoUri]
  /\ UNCHANGED <<client, docs, schema, reloads, publishMu, publishSeqs,
                 uris, mySeq, s, text>>
-----------------------------------------------------------------------------
(* The timer callback: loadAndSetSchema, then republishAllDiagnostics. *)

\* A load that fails leaves the schema alone; the callback goes on either way.
Reload(t, ok) ==
  /\ pc[t] = "idle" /\ reloads < MaxReloads
  /\ schema' = IF ok THEN schema + 1 ELSE schema
  /\ reloads' = reloads + 1
  /\ pc' = [pc EXCEPT ![t] = "list"]
  /\ UNCHANGED <<client, docs, publishMu, publishSeqs, shown, locals>>

List(t) ==
  /\ pc[t] = "list"
  /\ uris' = [uris EXCEPT ![t] = {u \in Uris : docs[u].open}]
  /\ pc' = [pc EXCEPT ![t] = "publish"]
  /\ UNCHANGED <<client, docs, schema, reloads, publishMu, publishSeqs, shown,
                 uri, mySeq, s, text>>

\* Nothing is left to publish: a handler answers, a callback ends.
Return(t) ==
  /\ pc[t] = "publish" /\ uris[t] = {}
  /\ pc' = [pc EXCEPT ![t] = "idle"]
  /\ UNCHANGED <<client, docs, schema, reloads, publishMu, publishSeqs, shown,
                 locals>>
-----------------------------------------------------------------------------
(* publishDiagnostics(u). *)

\* Mutant: the counter runs downwards.
BumpDown(t, u) ==
  /\ pc[t] = "publish" /\ u \in uris[t]
  /\ publishSeqs' = [publishSeqs EXCEPT ![u] = @ - 1]
  /\ mySeq' = [mySeq EXCEPT ![t] = publishSeqs[u] - 1]
  /\ uri' = [uri EXCEPT ![t] = u]
  /\ uris' = [uris EXCEPT ![t] = @ \ {u}]
  /\ pc' = [pc EXCEPT ![t] = "lock"]
  /\ UNCHANGED <<client, docs, schema, reloads, publishMu, shown, s, text>>

\* Mutant: the value drawn is the one before the increment.
BumpAfter(t, u) ==
  /\ pc[t] = "publish" /\ u \in uris[t]
  /\ publishSeqs' = [publishSeqs EXCEPT ![u] = @ + 1]
  /\ mySeq' = [mySeq EXCEPT ![t] = publishSeqs[u]]
  /\ uri' = [uri EXCEPT ![t] = u]
  /\ uris' = [uris EXCEPT ![t] = @ \ {u}]
  /\ pc' = [pc EXCEPT ![t] = "lock"]
  /\ UNCHANGED <<client, docs, schema, reloads, publishMu, shown, s, text>>

\* The caller has only this document to publish, or ranges over a Go map:
\* the order is any.
Bump(t, u) ==
  /\ pc[t] = "publish" /\ u \in uris[t]
  /\ publishSeqs' = [publishSeqs EXCEPT ![u] = @ + 1]
  /\ mySeq' = [mySeq EXCEPT ![t] = publishSeqs[u] + 1]
  /\ uri' = [uri EXCEPT ![t] = u]
  /\ uris' = [uris EXCEPT ![t] = @ \ {u}]
  /\ pc' = [pc EXCEPT ![t] = "lock"]
  /\ UNCHANGED <<client, docs, schema, reloads, publishMu, shown, s, text>>

\* Mutant: publishMu is not released.
LeaveLocked(t) ==
  /\ pc' = [pc EXCEPT ![t] = "publish"]
  /\ uri' = [uri EXCEPT ![t] = NoUri]
  /\ mySeq' = [mySeq EXCEPT ![t] = 0]
  /\ s' = [s EXCEPT ![t] = 0]
  /\ text' = [text EXCEPT ![t] = 0]
  /\ UNCHANGED <<publishMu, uris>>

\* Back in the caller; the locals die.
Leave(t) ==
  /\ pc' = [pc EXCEPT ![t] = "publish"]
  /\ uri' = [uri EXCEPT ![t] = NoUri]
  /\ mySeq' = [mySeq EXCEPT ![t] = 0]
  /\ s' = [s EXCEPT ![t] = 0]
  /\ text' = [text EXCEPT ![t] = 0]
  /\ publishMu' = NoThread
  /\ UNCHANGED uris

Superseded(t) == publishSeqs[uri[t]] # mySeq[t]

\* Mutant: a thread that finds publishMu taken gives up.
DropBusy(t) ==
  /\ pc[t] = "lock" /\ (publishMu # NoThread \/ Superseded(t))
  /\ pc' = [pc EXCEPT ![t] = "publish"]
  /\ uri' = [uri EXCEPT ![t] = NoUri]
  /\ mySeq' = [mySeq EXCEPT ![t] = 0]
  /\ UNCHANGED <<client, docs, schema, reloads, publishMu, publishSeqs, shown,
                 uris, s, text>>

\* publishMu is taken, and a later publish of the document was requested
\* meanwhile: it is left to that one.
Drop(t) ==
  /\ pc[t] = "lock" /\ publishMu = NoThread /\ Superseded(t)
  /\ Leave(t)
  /\ UNCHANGED <<client, docs, schema, reloads, publishSeqs, shown>>

\* Mutant: publishMu is not waited for.
EnterUnlocked(t) ==
  /\ pc[t] = "lock" /\ ~Superseded(t)
  /\ publishMu' = t
  /\ pc' = [pc EXCEPT ![t] = "schema"]
  /\ UNCHANGED <<client, docs, schema, reloads, publishSeqs, shown, locals>>

Enter(t) ==
  /\ pc[t] = "lock" /\ publishMu = NoThread /\ ~Superseded(t)
  /\ publishMu' = t
  /\ pc' = [pc EXCEPT ![t] = "schema"]
  /\ UNCHANGED <<client, docs, schema, reloads, publishSeqs, shown, locals>>

\* currentSchema(): with none loaded nothing is sent.
ReadSchema(t) ==
  /\ pc[t] = "schema"
  /\ IF schema = 0
       THEN Leave(t)
       ELSE /\ s' = [s EXCEPT ![t] = schema]
            /\ pc' = [pc EXCEPT ![t] = "text"]
            /\ UNCHANGED <<publishMu, uri, uris, mySeq, text>>
  /\ UNCHANGED <<client, docs, schema, reloads, publishSeqs, shown>>

\* The text is read under docsMu: with the document closed nothing is sent.
ReadText(t) ==
  /\ pc[t] = "text"
  /\ IF ~docs[uri[t]].open
       THEN Leave(t)
       ELSE /\ text' = [text EXCEPT ![t] = docs[uri[t]].ver]
            /\ pc' = [pc EXCEPT ![t] = "notify"]
            /\ UNCHANGED <<publishMu, uri, uris, mySeq, s>>
  /\ UNCHANGED <<client, docs, schema, reloads, publishSeqs, shown>>

Verdict(u) == IF u \in SchemaUris THEN "empty" ELSE "lint"

Notify(t) ==
  /\ pc[t] = "notify"
  /\ shown' = [shown EXCEPT ![uri[t]] =
                 [kind |-> Verdict(uri[t]), ver |-> text[t], schema |-> s[t]]]
  /\ Leave(t)
  /\ UNCHANGED <<client, docs, schema, reloads, publishSeqs>>
-----------------------------------------------------------------------------
Publish(t) ==
  \/ \E u \in Uris : Bump(t, u)
  \/ Drop(t) \/ Enter(t) \/ ReadSchema(t) \/ ReadText(t) \/ Notify(t)
  \/ Return(t)

Handle(t) == DidOpen(t) \/ DidChange(t) \/ DidClose(t) \/ Clear(t)

Next ==
  \/ Initialize
  \/ \E t \in Handlers :
       (\E u \in Uris, m \in Messages : Send(t, u, m)) \/ Handle(t)
  \/ \E t \in Reloaders : (\E ok \in BOOLEAN : Reload(t, ok)) \/ List(t)
  \/ \E t \in Threads : Publish(t)

Spec == Init /\ [][Next]_vars
-----------------------------------------------------------------------------
(* Properties. *)

ABS == INSTANCE Diagnostics
  WITH Uris <- Uris, SchemaUris <- SchemaUris,
       docs <- docs, schema <- schema, shown <- shown

Fresh(u) == ABS!Fresh(u)

Serial == \A h1, h2 \in Handlers : h1 = h2

\* t has still to publish u, from state it has not read yet or that is current.
Owes(t, u) ==
  \/ u \in uris[t]
  \/ pc[t] = "list"
  \/ /\ uri[t] = u
     /\ \/ pc[t] = "lock" /\ ~Superseded(t)
        \/ pc[t] = "schema"
        \/ pc[t] = "text" /\ s[t] = schema
        \/ pc[t] = "notify" /\ s[t] = schema /\ text[t] = docs[u].ver

Owed(u) == \E t \in Threads : Owes(t, u)

\* The clearing of a closed document cannot overtake its reopening.
Orderly(u) == Serial \/ u \notin closed

\* An open document that some schema could be used for shows its present text
\* linted under the present schema, or a thread is on its way to publish just
\* that.  Dropping superseded work (server.go:627) and publishing outside
\* docsMu never lose the last edit or the last reload.
NoLostUpdate ==
  \A u \in Uris :
    docs[u].open /\ schema > 0 /\ Orderly(u) => Fresh(u) \/ Owed(u)

\* Once no handler is at work, a document that is closed shows nothing:
\* didClose clears "any prior diagnostics so stale errors don't linger"
\* (server.go:607).
ClosedIsClear ==
  (\A t \in Threads : pc[t] = "idle") => \A u \in Uris : ABS!Dismissed(u)

\* The invariant that NoLostUpdate and StaleNeverOverwrites are proved from.
\* Where each thread's locals and publishMu stand.
Placed ==
  \A t \in Threads :
    /\ pc[t] \in Critical <=> publishMu = t
    /\ pc[t] \in Messages \cup Critical \cup {"clear", "lock"} => uri[t] \in Uris
    /\ pc[t] \in Messages \cup {"clear"} => t \in Handlers
    /\ pc[t] \in {"didClose", "clear"} => uri[t] \in closed
    /\ pc[t] \in Messages \cup {"idle", "clear", "list"} => uris[t] = {}

\* What was read is no older than what is shown, and no newer than what is kept.
Aged ==
  /\ \A u \in Uris : shown[u].ver <= docs[u].ver /\ shown[u].schema <= schema
  /\ \A t \in Threads :
       /\ pc[t] \in {"text", "notify"} =>
            /\ shown[uri[t]].schema <= s[t]
            /\ 0 < s[t] /\ s[t] <= schema
       /\ pc[t] = "notify" =>
            shown[uri[t]].ver <= text[t] /\ text[t] <= docs[uri[t]].ver

Current(t) ==
  /\ s[t] = schema
  /\ pc[t] = "notify" => text[t] = docs[uri[t]].ver

\* A thread about to send an outdated list is followed by one that corrects it.
Followed ==
  \A t \in Threads :
    pc[t] \in {"text", "notify"} /\ ~Current(t) /\ docs[uri[t]].open
      => Owed(uri[t])

\* A clearing that no other handler can have overtaken finds its document closed.
Cleared ==
  \A t \in Threads :
    pc[t] = "clear" /\ Orderly(uri[t]) => ~docs[uri[t]].open

\* Inductive: together with TypeOK it is kept by every step.
IInv == Placed /\ Aged /\ Followed /\ Cleared /\ NoLostUpdate

\* The list shown for a document is never replaced by one that was computed
\* from an older text or under an older schema (server.go:66-69: "stale
\* diagnostics can never overwrite a newer one").
StaleNeverOverwrites ==
  [][\A u \in Uris : /\ shown'[u].ver >= shown[u].ver
                     /\ shown'[u].schema >= shown[u].schema]_vars

\* Seen through docs, schema and shown alone, the threads do what Diagnostics
\* allows.
ImplementsDiagnostics == ABS!Spec
=============================================================================
