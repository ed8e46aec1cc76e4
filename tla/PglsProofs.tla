----------------------------- MODULE PglsProofs -----------------------------
(* Proofs about Pgls: the theorems about Publisher and HotReload, put together. *)
EXTENDS Pgls, TLAPS

PP == INSTANCE PublisherProofs WITH MaxReloads <- MaxEdits

HP == INSTANCE HotReloadProofs WITH pc <- loads

\* PP and P are two instances of the same module.
LEMMA SamePublisher == P!Next => PP!Next
<1>1. P!Initialize <=> PP!Initialize
  BY DEF P!Initialize, PP!Initialize, P!client, PP!client, P!locals, PP!locals
<1>2. \A t, u, m : P!Send(t, u, m) <=> PP!Send(t, u, m)
  BY DEF P!Send, PP!Send, P!Legal, PP!Legal
<1>3. \A t, m : P!Write(t, m) <=> PP!Write(t, m)
  BY DEF P!Write, PP!Write, P!client, PP!client
<1>4. \A t : P!DidClose(t) <=> PP!DidClose(t)
  BY DEF P!DidClose, PP!DidClose, P!client, PP!client, P!locals, PP!locals
<1>5. \A t : P!Clear(t) <=> PP!Clear(t)
  BY DEF P!Clear, PP!Clear, P!client, PP!client
<1>6. \A t, ok : P!Reload(t, ok) <=> PP!Reload(t, ok)
  BY DEF P!Reload, PP!Reload, P!client, PP!client, P!locals, PP!locals
<1>7. \A t : P!List(t) <=> PP!List(t)
  BY DEF P!List, PP!List, P!client, PP!client
<1>8. \A t : P!Return(t) <=> PP!Return(t)
  BY DEF P!Return, PP!Return, P!client, PP!client, P!locals, PP!locals
<1>9. \A t, u : P!Bump(t, u) <=> PP!Bump(t, u)
  BY DEF P!Bump, PP!Bump, P!client, PP!client
<1>10. \A t : P!Leave(t) <=> PP!Leave(t)
  BY DEF P!Leave, PP!Leave
<1>11. \A t : P!Drop(t) <=> PP!Drop(t)
  BY <1>10 DEF P!Drop, PP!Drop, P!client, PP!client, P!Superseded, PP!Superseded
<1>12. \A t : P!Enter(t) <=> PP!Enter(t)
  BY DEF P!Enter, PP!Enter, P!client, PP!client, P!locals, PP!locals, P!Superseded, PP!Superseded
<1>13. \A t : P!ReadSchema(t) <=> PP!ReadSchema(t)
  BY <1>10 DEF P!ReadSchema, PP!ReadSchema, P!client, PP!client
<1>14. \A t : P!ReadText(t) <=> PP!ReadText(t)
  BY <1>10 DEF P!ReadText, PP!ReadText, P!client, PP!client
<1>15. \A t : P!Notify(t) <=> PP!Notify(t)
  BY <1>10 DEF P!Notify, PP!Notify, P!client, PP!client, P!Verdict, PP!Verdict
<1> QED
  BY <1>1, <1>2, <1>3, <1>4, <1>5, <1>6, <1>7, <1>8, <1>9, <1>11, <1>12, <1>13, <1>14, <1>15
     DEF P!Next, PP!Next, P!Handle, PP!Handle, P!DidOpen, PP!DidOpen, P!DidChange,
     PP!DidChange, P!Publish, PP!Publish, P!Threads, PP!Threads, P!Messages, PP!Messages

LEMMA SameHotReload == H!Next => HP!Next
<1>1. \A f, sql : H!Edit(f, sql) <=> HP!Edit(f, sql)
  BY DEF H!Edit, HP!Edit, H!Queue, HP!Queue, H!MayEdit, HP!MayEdit, H!walk, HP!walk
<1>2. \A d : H!MkDir(d) <=> HP!MkDir(d)
  BY DEF H!MkDir, HP!MkDir, H!Queue, HP!Queue, H!MayEdit, HP!MayEdit, H!walk, HP!walk
<1>3. \A l : H!Loaded(l) <=> HP!Loaded(l)
  BY DEF H!Loaded, HP!Loaded, H!Unread, HP!Unread
<1>4. \A l, d : H!ListDir(l, d) <=> HP!ListDir(l, d)
  BY DEF H!ListDir, HP!ListDir, H!Present, HP!Present, H!Below, HP!Below, H!env, HP!env
<1>5. \A l, f : H!ReadFile(l, f) <=> HP!ReadFile(l, f)
  BY <1>3 DEF H!ReadFile, HP!ReadFile, H!env, HP!env
<1>6. \A l : H!Install(l) <=> HP!Install(l)
  BY <1>3 DEF H!Install, HP!Install, H!env, HP!env
<1>7. \A d : H!Watch(d) <=> HP!Watch(d)
  BY DEF H!Watch, HP!Watch, H!Below, HP!Below, H!env, HP!env
<1>8. H!StartWatcher <=> HP!StartWatcher
  BY DEF H!StartWatcher, HP!StartWatcher, H!env, HP!env
<1>9. H!SqlEvent <=> HP!SqlEvent
  BY DEF H!SqlEvent, HP!SqlEvent, H!Takes, HP!Takes, H!env, HP!env, H!walk, HP!walk
<1>10. H!DirEvent <=> HP!DirEvent
  BY DEF H!DirEvent, HP!DirEvent, H!Takes, HP!Takes, H!Dirs, HP!Dirs, H!env, HP!env,
     H!walk, HP!walk
<1>11. \A c : H!Fire(c) <=> HP!Fire(c)
  BY DEF H!Fire, HP!Fire, H!env, HP!env
<1>12. H!OtherEvent <=> HP!OtherEvent
  BY DEF H!OtherEvent, HP!OtherEvent, H!Takes, HP!Takes, H!env, HP!env, H!walk, HP!walk
<1>13. \A o : H!Touch(o) <=> HP!Touch(o)
  BY DEF H!Touch, HP!Touch, H!Contains, HP!Contains, H!Queue, HP!Queue, H!env, HP!env,
     H!walk, HP!walk
<1> QED
  BY <1>1, <1>2, <1>4, <1>5, <1>6, <1>7, <1>8, <1>9, <1>10, <1>11, <1>12, <1>13
     DEF H!Next, HP!Next, H!Load, HP!Load, H!StartSchemaWatcher,
     HP!StartSchemaWatcher, H!RunWatcher, HP!RunWatcher, H!Loaders, HP!Loaders,
     H!Dirs, HP!Dirs

\* Seen through the variables of Publisher, every step of the server is a step
\* of Publisher or leaves it alone; a failed load (server.go:416-419) is a callback
\* that republishes under the schema there was.
THEOREM IsPublisher == Spec => PP!Spec
<1>1. Init => PP!Init
  BY DEF Init, P!Init, PP!Init, P!Threads, PP!Threads
<1>2. [Next]_vars => [PP!Next]_(PP!vars)
  <2>1. UNCHANGED pvars => UNCHANGED PP!vars
    BY DEF pvars, PP!vars, PP!client, PP!locals
  <2>2. UNCHANGED vars => UNCHANGED PP!vars
    BY <2>1 DEF vars
  <2>3. Next => P!Next \/ UNCHANGED pvars
    BY DEF Next, Send, Handle, List, Publish, Change, Load, Walk, LoadFails,
       LoadSucceeds, Republish, StartSchemaWatcher, RunWatcher, Fire, P!Next
  <2> QED
    BY <2>1, <2>2, <2>3, SamePublisher
<1> QED
  BY <1>1, <1>2, PTL DEF Spec, PP!Spec

\* Seen through the variables of HotReload, every step of the server, from
\* initialize's load (server.go:134) to the last callback's (server.go:515), is a
\* step of HotReload or leaves it alone.
THEOREM IsHotReload == Spec => HP!Spec
<1>1. Init => HP!Init
  BY DEF Init, H!Init, HP!Init, H!Loaders, HP!Loaders, H!Dirs, HP!Dirs,
     H!Unread, HP!Unread
<1>2. [Next]_vars => [HP!Next]_(HP!vars)
  <2>1. UNCHANGED hvars => UNCHANGED HP!vars
    BY DEF hvars, HP!vars, HP!env, HP!walk
  <2>2. UNCHANGED vars => UNCHANGED HP!vars
    BY <2>1 DEF vars
  <2>3. Next => H!Next \/ UNCHANGED hvars
    BY DEF Next, Send, Handle, List, Publish, Change, Load, Walk, Fails, LoadFails,
       LoadSucceeds, StartSchemaWatcher, RunWatcher, Fire, H!Next, H!Load
  <2> QED
    BY <2>1, <2>2, <2>3, SameHotReload
<1> QED
  BY <1>1, <1>2, PTL DEF Spec, HP!Spec

\* The assumptions of Pgls are those of the two modules.
LEMMA PublisherAssumptions ==
  PP!UrisAssumption /\ PP!ThreadsAssumption /\ PP!BoundsAssumption
BY DocumentsAssumption, ThreadsAssumption, BoundsAssumption
   DEF PP!UrisAssumption, PP!ThreadsAssumption, PP!BoundsAssumption, PP!Threads

LEMMA HotReloadAssumptions ==
  HP!DirsAssumption /\ HP!LoadersAssumption /\ HP!BoundsAssumption
BY FilesAssumption, LoadersAssumption, BoundsAssumption
   DEF HP!DirsAssumption, HP!LoadersAssumption, HP!BoundsAssumption, HP!Dirs

\* The schema with the number in use is the one that was installed last.
LEMMA LinkedStep ==
  HP!TypeOK /\ PP!TypeOK /\ contents \in Seq([Files -> HP!Content]) /\ Linked
    /\ HP!TypeOK' /\ [Next]_vars
    => contents' \in Seq([Files -> HP!Content]) /\ Linked'
<1> SUFFICES ASSUME HP!TypeOK, PP!TypeOK, contents \in Seq([Files -> HP!Content]),
                    Linked, HP!TypeOK', [Next]_vars
             PROVE  contents' \in Seq([Files -> HP!Content]) /\ Linked'
  OBVIOUS
<1>1. schema \in Nat /\ loaded' \in [Files -> HP!Content]
  BY DEF HP!TypeOK, PP!TypeOK
<1>2. CASE UNCHANGED <<schema, loaded, contents>>
  BY <1>2 DEF Linked, H!Unread
<1>3. ASSUME NEW l \in H!Loaders, LoadSucceeds(l)
      PROVE  contents' \in Seq([Files -> HP!Content]) /\ Linked'
  <2>1. schema' = schema + 1 /\ contents' = Append(contents, loaded')
    BY <1>3 DEF LoadSucceeds, Republish, P!Initialize, P!Reload
  <2> QED
    BY <1>1, <2>1 DEF Linked
<1>4. ASSUME NEW l \in H!Loaders, Load(l), ~LoadSucceeds(l)
      PROVE  UNCHANGED <<schema, loaded, contents>>
  BY <1>4 DEF Load, Walk, LoadFails, Fails, Republish, H!ListDir, H!ReadFile,
     P!Reload, pvars
<1>5. ASSUME NEW t \in P!Threads, Publish(t) PROVE UNCHANGED <<schema, loaded, contents>>
  BY <1>5 DEF Publish, hvars, P!Publish, P!Bump, P!Drop, P!Enter, P!ReadSchema,
     P!ReadText, P!Notify, P!Return
<1>6. ASSUME NEW t \in Handlers, Handle(t) PROVE UNCHANGED <<schema, loaded, contents>>
  BY <1>6 DEF Handle, hvars, P!Handle, P!DidOpen, P!DidChange, P!Write, P!DidClose,
     P!Clear
<1>7. CASE \/ Change \/ StartSchemaWatcher \/ RunWatcher \/ \E c \in Callbacks : Fire(c)
           \/ \E t \in Reloaders : List(t)
           \/ \E t \in Handlers, u \in Uris, m \in P!Messages : Send(t, u, m)
           \/ UNCHANGED vars
  BY <1>7, <1>2 DEF Change, H!Edit, H!MkDir, H!Touch, StartSchemaWatcher,
     H!StartSchemaWatcher, H!Watch, H!StartWatcher, RunWatcher, H!RunWatcher, H!SqlEvent,
     H!DirEvent, H!OtherEvent, Fire, H!Fire, List, P!List, Send, P!Send, vars, pvars, hvars
<1> QED
  BY <1>2, <1>3, <1>4, <1>5, <1>6, <1>7 DEF Next

LEMMA AlwaysLinked == Spec => []Linked
<1> DEFINE Inv == contents \in Seq([Files -> HP!Content]) /\ Linked
<1>1. Init => Inv
  BY DEF Init, P!Init, H!Init, Linked
<1>2. HP!TypeOK /\ PP!TypeOK /\ Inv /\ HP!TypeOK' /\ [Next]_vars => Inv'
  BY LinkedStep
<1>3. Spec => []HP!TypeOK
  BY IsHotReload, HotReloadAssumptions, HP!Typed, PTL
<1>4. Spec => []PP!TypeOK
  BY IsPublisher, PublisherAssumptions, PP!Typed, PTL
<1>5. Inv => Linked
  OBVIOUS
<1> HIDE DEF Inv
<1> QED
  BY <1>1, <1>2, <1>3, <1>4, <1>5, PTL DEF Spec

\* Edits and changes: from the components' invariants to the whole.
LEMMA ShowsOrOwes ==
  PP!TypeOK /\ PP!NoLostUpdate /\ HP!TypeOK /\ HP!NoLostReload /\ Linked => NothingLost
<1> SUFFICES ASSUME PP!TypeOK, PP!NoLostUpdate, HP!TypeOK, HP!NoLostReload, Linked,
                    H!Loadable, NEW u \in Uris, docs[u].open, P!Orderly(u), ~H!Pending
             PROVE  Shows(u) \/ P!Owed(u)
  BY DEF NothingLost
<1>1. loaded = disk
  BY DEF HP!NoLostReload, HP!Loadable, H!Loadable, HP!Pending, H!Pending, HP!Requested,
     H!Requested, HP!Loaders, H!Loaders, HP!Loading, H!Loading, HP!OnTrack, H!OnTrack
<1>2. schema > 0
  <2>1. PICK f \in Files : TRUE
    BY FilesAssumption
  <2>2. disk[f].sql # "unread" /\ H!Unread[f].sql = "unread"
    BY DEF HP!TypeOK, H!Unread
  <2>3. schema # 0
    BY <1>1, <2>2 DEF Linked
  <2> QED
    BY <2>3 DEF PP!TypeOK
<1>3. PP!Fresh(u) \/ PP!Owed(u)
  BY <1>2 DEF PP!NoLostUpdate, PP!Orderly, P!Orderly, PP!Serial, P!Serial
<1>4. PP!Fresh(u) => Shows(u)
  BY <1>1, <1>2 DEF PP!Fresh, PP!ABS!Fresh, PP!ABS!Verdict, Shows, P!Verdict, Linked
<1>5. PP!Owed(u) => P!Owed(u)
  BY DEF PP!Owed, P!Owed, PP!Owes, P!Owes, PP!Threads, P!Threads, PP!Superseded,
     P!Superseded
<1> QED
  BY <1>3, <1>4, <1>5

\* For any documents, files, handlers and number of changes: an open document
\* shows the list for its text under the files on disk, or that list is owed, if
\* loads do not overlap and files change only in directories that are watched.
THEOREM EndToEnd ==
  ASSUME EarlyDirs = {}, H!OneLoad, H!Roomy
  PROVE  Spec => []NothingLost
<1>1. HP!OneLoad /\ HP!Roomy
  BY DEF HP!OneLoad, H!OneLoad, HP!Roomy, H!Roomy, HP!IsFiniteSet, H!IsFiniteSet,
     HP!Cardinality, H!Cardinality
<1>2. Spec => []HP!NoLostReload
  BY <1>1, IsHotReload, HotReloadAssumptions, HP!NothingLost, PTL
<1>3. Spec => []HP!TypeOK
  BY IsHotReload, HotReloadAssumptions, HP!Typed, PTL
<1>4. Spec => []PP!NoLostUpdate
  BY IsPublisher, PublisherAssumptions, PP!LastUpdatePublished, PTL
<1>5. Spec => []PP!TypeOK
  BY IsPublisher, PublisherAssumptions, PP!Typed, PTL
<1> QED
  BY <1>2, <1>3, <1>4, <1>5, AlwaysLinked, ShowsOrOwes, PTL

\* At rest nothing is owed and nothing is pending.
LEMMA NothingLeft ==
  ASSUME PP!Serial, PP!Placed, PP!Told, NothingLost
  PROVE  UpToDateAtRest
<1> SUFFICES ASSUME AtRest, H!Loadable, NEW u \in Uris
             PROVE  (docs[u].open <=> u \in editor) /\ (u \in editor => Shows(u))
  BY DEF UpToDateAtRest
<1>1. docs[u].open <=> u \in editor
  BY DEF PP!Told, PP!Messages, AtRest, P!Threads
<1>2. P!Orderly(u)
  BY DEF PP!Serial, P!Orderly, P!Serial
<1>3. ~H!Pending
  BY LoadersAssumption DEF AtRest, H!AtRest, H!Pending, H!Requested, H!Loading, H!Loaders
<1>4. ~P!Owed(u)
  BY DEF AtRest, PP!Placed, PP!Messages, PP!Threads, P!Threads, P!Owed, P!Owes
<1> QED
  BY <1>1, <1>2, <1>3, <1>4 DEF NothingLost

\* Under the same assumptions and serial dispatch: when the server is at rest,
\* the documents it has are those the editor has open, and each shows the list
\* for its text under the files on disk.
THEOREM AtRestUpToDate ==
  ASSUME EarlyDirs = {}, H!OneLoad, H!Roomy, P!Serial
  PROVE  Spec => []UpToDateAtRest
<1>1. PP!Serial
  BY DEF PP!Serial, P!Serial
<1>2. Spec => [](PP!TypeOK /\ PP!IInv)
  BY IsPublisher, PublisherAssumptions, PP!Invariance, PTL
<1>3. Spec => []PP!Told
  BY <1>1, IsPublisher, PublisherAssumptions, PP!AlwaysTold, PTL
<1>4. PP!IInv => PP!Placed
  BY DEF PP!IInv
<1>5. PP!Placed /\ PP!Told /\ NothingLost => UpToDateAtRest
  BY <1>1, NothingLeft
<1> QED
  BY <1>2, <1>3, <1>4, <1>5, EndToEnd, PTL
=============================================================================
