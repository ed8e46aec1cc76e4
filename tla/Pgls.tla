-------------------------------- MODULE Pgls --------------------------------
(***************************************************************************)
(* The server as a whole: HotReload, which keeps the loaded schema equal   *)
(* to the directory, and Publisher, which keeps the editor's diagnostics   *)
(* equal to what the linter says of its documents under that schema.       *)
(*                                                                         *)
(* They meet at the end of a load.  initialize installs the first schema   *)
(* and then watches; a timer callback installs a later one, or fails, and  *)
(* goes on to republish every open document.  The goroutine of a callback  *)
(* is HotReload's while it loads and Publisher's while it republishes, so  *)
(* that the next load may begin before the republishing has ended.         *)
(*                                                                         *)
(* Publisher numbers the schemas in the order they are installed; what a   *)
(* number stands for is kept in the history variable contents.             *)
(***************************************************************************)
EXTENDS Naturals, Sequences

CONSTANTS
  Uris, SchemaUris, Handlers, Reloaders, NoThread, NoUri, MaxSends,
  Files, Root, SubDirs, NewDirs, DirOf, Others, Main, Callbacks, EarlyDirs,
  MaxQueue, MaxEdits

ASSUME DocumentsAssumption == SchemaUris \subseteq Uris /\ NoUri \notin Uris
ASSUME ThreadsAssumption ==
  Handlers \cap Reloaders = {} /\ NoThread \notin Handlers \cup Reloaders
ASSUME FilesAssumption ==
  /\ Root \notin SubDirs /\ NewDirs \subseteq SubDirs
  /\ Files # {} /\ DirOf \in [Files -> {Root} \cup SubDirs]
  /\ Files \cap ({Root} \cup SubDirs) = {}
  /\ Others \cap (Files \cup {Root} \cup SubDirs) = {}
ASSUME LoadersAssumption == Main \notin Callbacks
ASSUME BoundsAssumption ==
  /\ EarlyDirs \subseteq {Root} \cup SubDirs
  /\ MaxSends \in Nat /\ MaxQueue \in Nat \ {0} /\ MaxEdits \in Nat

VARIABLES
  editor, closed, sends, docs, schema, reloads, publishMu, publishSeqs, shown,
  pc, uri, uris, mySeq, s, text,                            \* of Publisher
  disk, dirs, edits, watched, events, timer, loaded, loads,
  todoDirs, todoFiles, merged,                              \* of HotReload
  contents      \* history: contents[n] is what schema n was built from

\* Every callback is due to a change, and there are MaxEdits of these.
P == INSTANCE Publisher WITH MaxReloads <- MaxEdits

H == INSTANCE HotReload WITH pc <- loads

pvars == <<editor, closed, sends, docs, schema, reloads, publishMu, publishSeqs,
           shown, pc, uri, uris, mySeq, s, text>>
hvars == <<disk, dirs, edits, watched, events, timer, loaded, loads, todoDirs,
           todoFiles, merged>>
vars == <<pvars, hvars, contents>>

Init == P!Init /\ H!Init /\ contents = <<>>
-----------------------------------------------------------------------------
\* The editor has to wait for the answer to initialize.
Initialized == loads[Main] = "done"

\* Steps of the editor, the handlers and the republishing.
Send(t, u, m) == Initialized /\ P!Send(t, u, m) /\ UNCHANGED <<hvars, contents>>

Handle(t) == P!Handle(t) /\ UNCHANGED <<hvars, contents>>

List(t) == P!List(t) /\ UNCHANGED <<hvars, contents>>

Publish(t) == P!Publish(t) /\ UNCHANGED <<hvars, contents>>

\* Changes to the schema directory.
Change ==
  /\ \/ \E f \in Files, sql \in {"none", "good", "broken"} : H!Edit(f, sql)
     \/ \E d \in NewDirs : H!MkDir(d)
     \/ \E o \in Others : H!Touch(o)
  /\ UNCHANGED <<pvars, contents>>

\* The walk of a load, up to its end.
Fails(l, f) == H!ReadFile(l, f) /\ disk[f].sql # "good"

Walk(l) ==
  /\ \/ \E d \in H!Dirs : H!ListDir(l, d)
     \/ \E f \in Files : H!ReadFile(l, f) /\ disk[f].sql = "good"
  /\ UNCHANGED <<pvars, contents>>

\* What follows the load in the callback, whether it has succeeded or not.
Republish(ok) == \E t \in Reloaders : P!Reload(t, ok)

LoadFails(l) ==
  /\ \E f \in Files : Fails(l, f)
  /\ IF l = Main THEN UNCHANGED pvars ELSE Republish(FALSE)
  /\ UNCHANGED contents

\* Mutant: a callback installs the schema and returns.
LoadSucceedsQuietly(l) ==
  /\ H!Install(l)
  /\ IF l = Main
       THEN P!Initialize
       ELSE /\ schema' = schema + 1
            /\ UNCHANGED <<editor, closed, sends, docs, reloads, publishMu,
                           publishSeqs, shown, pc, uri, uris, mySeq, s, text>>
  /\ contents' = Append(contents, loaded')

LoadSucceeds(l) ==
  /\ H!Install(l)
  /\ IF l = Main THEN P!Initialize ELSE Republish(TRUE)
  /\ contents' = Append(contents, loaded')

Load(l) == Walk(l) \/ LoadFails(l) \/ LoadSucceeds(l)

\* The watcher's goroutine and its timer.
StartSchemaWatcher == H!StartSchemaWatcher /\ UNCHANGED <<pvars, contents>>

RunWatcher == H!RunWatcher /\ UNCHANGED <<pvars, contents>>

Fire(c) == H!Fire(c) /\ UNCHANGED <<pvars, contents>>

Next ==
  \/ \E t \in Handlers :
       (\E u \in Uris, m \in P!Messages : Send(t, u, m)) \/ Handle(t)
  \/ \E t \in Reloaders : List(t)
  \/ \E t \in P!Threads : Publish(t)
  \/ \E l \in H!Loaders : Load(l)
  \/ \E c \in Callbacks : Fire(c)
  \/ Change \/ StartSchemaWatcher \/ RunWatcher

Spec == Init /\ [][Next]_vars

\* The Go scheduler runs every runnable goroutine, timers fire, and a sync.Mutex is
\* handed over; the editor and the file system owe nothing.
Fairness ==
  /\ \A t \in Handlers : WF_vars(Handle(t))
  /\ \A t \in Reloaders : WF_vars(List(t))
  /\ \A t \in P!Threads : WF_vars(Publish(t))
  /\ \A l \in H!Loaders : WF_vars(Load(l))
  /\ WF_vars(\E c \in Callbacks : Fire(c))
  /\ WF_vars(StartSchemaWatcher) /\ WF_vars(RunWatcher)

FairSpec == Spec /\ Fairness
-----------------------------------------------------------------------------
(* Properties. *)

\* The editor shows for u what the linter says of its present text under the
\* schema that is on disk.
Shows(u) ==
  /\ shown[u].kind = P!Verdict(u) /\ shown[u].ver = docs[u].ver
  /\ shown[u].schema > 0 /\ contents[shown[u].schema] = disk

\* No edit of a document and no change on disk gets lost on its way from the
\* one component to the other: an open document shows the list for its text and
\* the files on disk, or a thread owes it that, or a reload is to come
\* (README.md:209, server.go:514-517).  Nothing is said while a file does not
\* parse.
NothingLost ==
  H!Loadable =>
    \A u \in Uris : docs[u].open /\ P!Orderly(u) =>
      Shows(u) \/ P!Owed(u) \/ H!Pending

\* No request, event, timer or load is left, and no thread is at work.
AtRest == H!AtRest /\ \A t \in P!Threads : pc[t] = "idle"

\* NothingLost as the user sees it: at rest docs has the documents that the editor has
\* open and no others, and each of these shows the list for its text and the files on
\* disk.  What a closed document shows is another matter (ClosedIsClear).
UpToDateAtRest ==
  AtRest /\ H!Loadable =>
    \A u \in Uris : /\ docs[u].open <=> u \in editor
                    /\ u \in editor => Shows(u)

\* The list shown was computed from a schema that was installed before.
Linked ==
  /\ Len(contents) = schema
  /\ loaded = IF schema = 0 THEN H!Unread ELSE contents[schema]

\* After the last edit and the last change every open document comes to show, for
\* good, what the linter says under the files on disk, or under the last schema
\* that could be loaded.
EventuallyShown ==
  <>[](\A u \in Uris :
         /\ P!ABS!Settled(u)
         /\ docs[u].open /\ H!Loadable => Shows(u))
=============================================================================
