---------------------------- MODULE Diagnostics ----------------------------
(***************************************************************************)
(* What pgls promises the editor about the diagnostics of a document,      *)
(* with no thread, lock or sequence number in sight.                       *)
(*                                                                         *)
(* The server keeps the documents the editor has opened and a schema that  *)
(* is replaced from time to time; the editor shows, per document, the last *)
(* list it was sent.  A list may be computed from a document and a schema  *)
(* that have been superseded meanwhile, but lists never go back in time,   *)
(* and only a closed document has its list cleared.                        *)
(***************************************************************************)
EXTENDS Naturals

CONSTANTS Uris,         \* documents
          SchemaUris    \* the ones that lie under the schema directory

VARIABLES docs,         \* docs[u]: is u open, and how many times was it written
          schema,       \* number of schemas installed so far, 0 for none
          shown         \* shown[u]: what the editor shows for u

vars == <<docs, schema, shown>>

\* A schema file is sent an empty list whatever it holds, any other
\* document the result of the linter.
Verdict(u) == IF u \in SchemaUris THEN "empty" ELSE "lint"

Diagnosis == [kind : {"empty", "lint"}, ver : Nat, schema : Nat]

Init ==
  /\ docs = [u \in Uris |-> [open |-> FALSE, ver |-> 0]]
  /\ schema = 0
  /\ shown = [u \in Uris |-> [kind |-> "empty", ver |-> 0, schema |-> 0]]

Write(u) ==
  /\ docs' = [docs EXCEPT ![u] = [open |-> TRUE, ver |-> @.ver + 1]]
  /\ UNCHANGED <<schema, shown>>

Close(u) ==
  /\ docs' = [docs EXCEPT ![u].open = FALSE]
  /\ UNCHANGED <<schema, shown>>

Install ==
  /\ schema' = schema + 1
  /\ UNCHANGED <<docs, shown>>

\* The list sent was computed from some version of the document and some
\* schema, neither older than those of the list it replaces.
Publish(u) ==
  /\ \E v \in shown[u].ver .. docs[u].ver, g \in shown[u].schema .. schema :
       shown' = [shown EXCEPT ![u] = [kind |-> Verdict(u), ver |-> v, schema |-> g]]
  /\ UNCHANGED <<docs, schema>>

Clear(u) ==
  /\ ~docs[u].open
  /\ shown' = [shown EXCEPT ![u].kind = "empty"]
  /\ UNCHANGED <<docs, schema>>

Next ==
  \/ \E u \in Uris : Write(u) \/ Close(u) \/ Publish(u) \/ Clear(u)
  \/ Install

Spec == Init /\ [][Next]_vars

\* The editor shows for u what the linter says of its present text under
\* the present schema.
Fresh(u) ==
  shown[u] = [kind |-> Verdict(u), ver |-> docs[u].ver, schema |-> schema]

\* Nothing is owed for a closed document, or while no schema was loaded.
Settled(u) == docs[u].open /\ schema > 0 => Fresh(u)

\* A document the editor has closed shows nothing.
Dismissed(u) == ~docs[u].open => shown[u].kind = "empty"
=============================================================================
