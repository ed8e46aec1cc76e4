-------------------------- MODULE HotReloadProofs --------------------------
(***************************************************************************)
(* Proofs about HotReload, for any files and directories and any number of *)
(* changes: when loads do not overlap and files change only in watched     *)
(* directories, no change is lost.                                         *)
(***************************************************************************)
EXTENDS HotReload, FiniteSetTheorems, TLAPS

LEMMA ContentFacts == /\ Unread \in [Files -> Content]
                      /\ DirOf \in [Files -> Dirs]
                      /\ Root \in Dirs /\ NewDirs \subseteq Dirs
  BY DirsAssumption DEF Unread, Content, Dirs

\* An event is the name of what has changed.
Event == Files \cup Dirs \cup Others

\* Queueing appends the event or drops it.
LEMMA QueueIs ==
  ASSUME TypeOK, NEW d, NEW ev \in Event, Queue(d, ev)
  PROVE  /\ events' \in Seq(Event) /\ Len(events') <= MaxQueue
         /\ \A i \in DOMAIN events : i \in DOMAIN events' /\ events'[i] = events[i]
         /\ \A i \in DOMAIN events' :
              \/ i \in DOMAIN events /\ events'[i] = events[i]
              \/ i = Len(events) + 1 /\ events'[i] = ev
<1>1. events \in Seq(Event) /\ Len(events) <= MaxQueue /\ MaxQueue \in Nat
  BY BoundsAssumption DEF TypeOK, Event
<1> HIDE DEF Event
<1>2. CASE events' = Append(events, ev) /\ Len(events) < MaxQueue
  BY <1>1, <1>2
<1>3. CASE events' = events
  BY <1>1, <1>3
<1> QED
  BY <1>2, <1>3 DEF Queue

\* Taking an event leaves the others in their order.
LEMMA TakesIs ==
  ASSUME TypeOK, NEW kind, Takes(kind)
  PROVE  /\ events' \in Seq(Event) /\ Len(events') <= MaxQueue
         /\ 1 \in DOMAIN events /\ events[1] \in kind
         /\ \A i \in DOMAIN events' :
              i \in Nat /\ i + 1 \in DOMAIN events /\ events'[i] = events[i + 1]
         /\ \A i \in DOMAIN events :
              \/ i = 1
              \/ i - 1 \in DOMAIN events' /\ events'[i - 1] = events[i]
<1>1. events \in Seq(Event) /\ Len(events) <= MaxQueue /\ MaxQueue \in Nat
  BY BoundsAssumption DEF TypeOK, Event
<1>2. events # <<>> /\ events' = Tail(events) /\ Head(events) \in kind
  BY DEF Takes
<1> HIDE DEF Event
<1>3. events' \in Seq(Event) /\ Len(events') = Len(events) - 1 /\ Len(events) \in Nat
      /\ Len(events) >= 1
  BY <1>1, <1>2
<1>4. \A i \in 1 .. Len(events') : events'[i] = events[i + 1]
  BY <1>1, <1>2
<1>5. events[1] \in kind
  BY <1>1, <1>2
<1> QED
  BY <1>1, <1>3, <1>4, <1>5

LEMMA TypeStep == TypeOK /\ Existing /\ [Next]_vars => TypeOK'
<1> SUFFICES ASSUME TypeOK, Existing, [Next]_vars PROVE TypeOK'
  OBVIOUS
<1> USE ContentFacts, BoundsAssumption DEF TypeOK, Existing, env, walk
<1>1. ASSUME NEW f \in Files, NEW sql \in {"none", "good", "broken"}, Edit(f, sql)
      PROVE  TypeOK'
  <2>1. [ver |-> edits + 1, sql |-> sql] \in Content
    BY DEF Content
  <2>2. events' \in Seq(Event) /\ Len(events') <= MaxQueue
    <3>1. f \in Event /\ Queue(DirOf[f], f)
      BY <1>1 DEF Edit, Event
    <3> QED
      BY <3>1, QueueIs
  <2> QED
    BY <1>1, <2>1, <2>2 DEF Edit, Event
<1>2. ASSUME NEW d \in NewDirs, MkDir(d) PROVE TypeOK'
  <2>1. events' \in Seq(Event) /\ Len(events') <= MaxQueue
    <3>1. d \in Event /\ Queue(Root, d)
      BY <1>2 DEF MkDir, Event
    <3> QED
      BY <3>1, QueueIs
  <2> QED
    BY <1>2, <2>1 DEF MkDir, Event
<1>3. ASSUME NEW l \in Loaders, NEW d \in Dirs, ListDir(l, d) PROVE TypeOK'
  <2>1. Below(d) \subseteq Dirs /\ Present(d) \subseteq Files
    BY DEF Below, Present
  <2>2. [f \in Files |->
          IF \/ DirOf[f] = d /\ f \notin Present(d)
             \/ d = Root /\ DirOf[f] \notin dirs
            THEN disk[f] ELSE merged[l][f]] \in [Files -> Content]
    OBVIOUS
  <2> QED
    BY <1>3, <2>1, <2>2 DEF ListDir
<1>4. ASSUME NEW l \in Loaders, NEW f \in Files, ReadFile(l, f) PROVE TypeOK'
  <2>1. CASE disk[f].sql # "good"
    <3>1. Loaded(l) /\ UNCHANGED <<disk, dirs, edits, watched, events, timer, loaded>>
      BY <1>4, <2>1 DEF ReadFile
    <3> QED
      BY <3>1 DEF Loaded
  <2>2. CASE disk[f].sql = "good"
    <3>1. /\ merged' = [merged EXCEPT ![l] = [@ EXCEPT ![f] = disk[f]]]
          /\ todoFiles' = [todoFiles EXCEPT ![l] = @ \ {f}]
          /\ UNCHANGED <<pc, todoDirs, disk, dirs, edits, watched, events, timer, loaded>>
      BY <1>4, <2>2 DEF ReadFile
    <3>2. [merged[l] EXCEPT ![f] = disk[f]] \in [Files -> Content]
      OBVIOUS
    <3> QED
      BY <3>1, <3>2
  <2> QED
    BY <2>1, <2>2
<1>5. ASSUME NEW l \in Loaders, Install(l) PROVE TypeOK'
  BY <1>5 DEF Install, Loaded
<1>6. ASSUME NEW d \in Dirs, Watch(d) PROVE TypeOK'
  <2>1. Main \in Loaders
    BY DEF Loaders
  <2> QED
    BY <1>6, <2>1 DEF Watch, Below
<1>7. CASE StartWatcher
  BY <1>7 DEF StartWatcher
<1>8. CASE SqlEvent
  BY <1>8, TakesIs DEF SqlEvent, Event
<1>9. CASE DirEvent
  <2>1. events' \in Seq(Event) /\ Len(events') <= MaxQueue /\ Head(events) \in Dirs
    BY <1>9, TakesIs DEF DirEvent, Takes
  <2>2. Head(events) \in dirs
    BY <1>9, <2>1, TakesIs DEF DirEvent, Takes
  <2> QED
    BY <1>9, <2>1, <2>2 DEF DirEvent, Event
<1>10. ASSUME NEW c \in Callbacks, Fire(c) PROVE TypeOK'
  BY <1>10 DEF Fire
<1>11. CASE UNCHANGED vars
  BY <1>11 DEF vars
<1>12. ASSUME NEW o \in Others, Touch(o) PROVE TypeOK'
  <2>1. events' \in Seq(Event) /\ Len(events') <= MaxQueue
    <3>1. o \in Event /\ Queue(Root, o)
      BY <1>12 DEF Touch, Event
    <3> QED
      BY <3>1, QueueIs
  <2> QED
    BY <1>12, <2>1 DEF Touch, Event
<1>13. CASE OtherEvent
  BY <1>13, TakesIs DEF OtherEvent, Event
<1> QED
  BY <1>1, <1>2, <1>3, <1>4, <1>5, <1>6, <1>7, <1>8, <1>9, <1>10, <1>11, <1>12, <1>13
     DEF Next, Load, StartSchemaWatcher, RunWatcher

LEMMA ExistingStep == TypeOK /\ Existing /\ [Next]_vars => Existing'
<1> SUFFICES ASSUME TypeOK, Existing, [Next]_vars PROVE Existing'
  OBVIOUS
<1> USE ContentFacts, BoundsAssumption DEF TypeOK, Existing, env, walk
<1>1. ASSUME NEW f \in Files, NEW sql \in {"none", "good", "broken"}, Edit(f, sql)
      PROVE  Existing'
  <2>1. f \in Event /\ Queue(DirOf[f], f) /\ f \notin Dirs /\ DirOf[f] \in dirs
        /\ UNCHANGED <<dirs, todoDirs>>
    BY <1>1, DirsAssumption DEF Edit, MayEdit, Event
  <2> QED
    BY <2>1, QueueIs
<1>2. ASSUME NEW d \in NewDirs, MkDir(d) PROVE Existing'
  <2>1. d \in Event /\ Queue(Root, d) /\ dirs' = dirs \cup {d} /\ UNCHANGED todoDirs
    BY <1>2 DEF MkDir, Event
  <2> QED
    BY <2>1, QueueIs
<1>3. ASSUME NEW l \in Loaders, NEW d \in Dirs, ListDir(l, d) PROVE Existing'
  BY <1>3 DEF ListDir, Below
<1>4. ASSUME NEW l \in Loaders, NEW f \in Files, ReadFile(l, f) PROVE Existing'
  BY <1>4 DEF ReadFile, Loaded
<1>5. ASSUME NEW l \in Loaders, Install(l) PROVE Existing'
  BY <1>5 DEF Install, Loaded
<1>6. ASSUME NEW d \in Dirs, Watch(d) PROVE Existing'
  BY <1>6 DEF Watch, Below, Loaders
<1>7. CASE StartWatcher
  BY <1>7 DEF StartWatcher
<1>8. CASE SqlEvent
  BY <1>8, TakesIs DEF SqlEvent
<1>9. CASE DirEvent
  BY <1>9, TakesIs DEF DirEvent
<1>10. ASSUME NEW c \in Callbacks, Fire(c) PROVE Existing'
  BY <1>10 DEF Fire, Loaders
<1>11. CASE UNCHANGED vars
  BY <1>11 DEF vars
<1>12. ASSUME NEW o \in Others, Touch(o) PROVE Existing'
  <2>1. o \in Event /\ Queue(Root, o) /\ o \notin Dirs /\ UNCHANGED <<dirs, todoDirs>>
    BY <1>12, DirsAssumption DEF Touch, Event
  <2> QED
    BY <2>1, QueueIs
<1>13. CASE OtherEvent
  BY <1>13, TakesIs DEF OtherEvent
<1> QED
  BY <1>1, <1>2, <1>3, <1>4, <1>5, <1>6, <1>7, <1>8, <1>9, <1>10, <1>11, <1>12, <1>13
     DEF Next, Load, StartSchemaWatcher, RunWatcher

\* Before the watches are installed only initialize runs.
LEMMA StartedStep ==
  ASSUME TypeOK, Started, [Next]_vars, EarlyDirs = {}
  PROVE  Started'
<1> USE LoadersAssumption DEF TypeOK, Started, env, walk, Loaders
<1>1. ASSUME NEW f \in Files, NEW sql \in {"none", "good", "broken"}, Edit(f, sql)
      PROVE  Started'
  BY <1>1 DEF Edit, MayEdit
<1>2. ASSUME NEW d \in NewDirs, MkDir(d) PROVE Started'
  BY <1>2 DEF MkDir, MayEdit
<1>3. ASSUME NEW l \in Loaders, NEW d \in Dirs, ListDir(l, d) PROVE Started'
  BY <1>3 DEF ListDir
<1>4. ASSUME NEW l \in Loaders, NEW f \in Files, ReadFile(l, f) PROVE Started'
  BY <1>4 DEF ReadFile, Loaded
<1>5. ASSUME NEW l \in Loaders, Install(l) PROVE Started'
  BY <1>5 DEF Install, Loaded
<1>6. ASSUME NEW d \in Dirs, Watch(d) PROVE Started'
  BY <1>6 DEF Watch
<1>7. CASE StartWatcher
  BY <1>7 DEF StartWatcher
<1>8. CASE SqlEvent
  BY <1>8 DEF SqlEvent, Takes
<1>9. CASE DirEvent
  BY <1>9 DEF DirEvent, Takes
<1>10. ASSUME NEW c \in Callbacks, Fire(c) PROVE Started'
  BY <1>10 DEF Fire
<1>11. CASE UNCHANGED vars
  BY <1>11 DEF vars
<1>12. ASSUME NEW o \in Others, Touch(o) PROVE Started'
  <2>1. o \in Event /\ Queue(Root, o)
    BY <1>12 DEF Touch, Event
  <2>2. \A i \in DOMAIN events' :
          \/ i \in DOMAIN events /\ events'[i] = events[i]
          \/ events'[i] = o
    BY <2>1, QueueIs
  <2> QED
    BY <1>12, <2>2 DEF Touch
<1>13. CASE OtherEvent
  BY <1>13 DEF OtherEvent, Takes
<1> QED
  BY <1>1, <1>2, <1>3, <1>4, <1>5, <1>6, <1>7, <1>8, <1>9, <1>10, <1>11, <1>12, <1>13
     DEF Next, Load, StartSchemaWatcher, RunWatcher

\* A directory that is made was not there before: no event in the queue names it.
LEMMA QueuedStep ==
  ASSUME TypeOK, Existing, Queued, [Next]_vars
  PROVE  Queued'
<1>0. /\ NewDirs \subseteq Dirs /\ Files \cap Dirs = {}
      /\ Others \cap Files = {} /\ Others \cap Dirs = {}
  BY DirsAssumption DEF Dirs
<1>1. ASSUME NEW d, NEW ev \in Event, Queue(d, ev),
             \/ ev \in Files
             \/ /\ ev \in NewDirs \cup Others
                /\ \A i \in DOMAIN events : events[i] # ev
      PROVE  Queued'
  <2>1. \A i \in DOMAIN events' :
          \/ i \in DOMAIN events /\ events'[i] = events[i]
          \/ i = Len(events) + 1 /\ events'[i] = ev
    BY <1>1, QueueIs
  <2>2. ASSUME NEW i \in DOMAIN events', events'[i] \in Dirs
        PROVE  events'[i] \in NewDirs
    BY <1>0, <1>1, <2>1, <2>2 DEF Queued
  <2>3. ASSUME NEW i \in DOMAIN events', NEW j \in DOMAIN events',
               i # j, events'[i] = events'[j]
        PROVE  events'[i] \in Files
    <3>1. CASE i \in DOMAIN events /\ j \in DOMAIN events
               /\ events'[i] = events[i] /\ events'[j] = events[j]
      BY <2>3, <3>1 DEF Queued
    <3>2. CASE events'[i] = ev /\ events'[j] = ev
               /\ (\/ i \in DOMAIN events /\ events[i] = ev
                   \/ j \in DOMAIN events /\ events[j] = ev)
      BY <1>1, <3>2
    <3> QED
      BY <2>1, <2>3, <3>1, <3>2
  <2> QED
    BY <2>2, <2>3 DEF Queued
<1>2. ASSUME NEW f \in Files, NEW sql \in {"none", "good", "broken"}, Edit(f, sql)
      PROVE  Queued'
  BY <1>1, <1>2 DEF Edit, Event
<1>3. ASSUME NEW d \in NewDirs, MkDir(d) PROVE Queued'
  <2>1. \A i \in DOMAIN events : events[i] # d
    BY <1>0, <1>3 DEF MkDir, Existing
  <2> QED
    BY <1>0, <1>1, <1>3, <2>1 DEF MkDir, Event
<1>4. ASSUME NEW o \in Others, Touch(o) PROVE Queued'
  <2>1. \A i \in DOMAIN events : events[i] # o
    BY <1>4 DEF Touch, Contains, TypeOK
  <2> QED
    BY <1>1, <1>4, <2>1 DEF Touch, Event
<1>5. CASE UNCHANGED events
  BY <1>5 DEF Queued
<1>6. ASSUME NEW kind, Takes(kind) PROVE Queued'
  <2>1. \A i \in DOMAIN events' :
          i \in Nat /\ i + 1 \in DOMAIN events /\ events'[i] = events[i + 1]
    BY <1>6, TakesIs
  <2> QED
    BY <2>1 DEF Queued
<1> QED
  BY <1>2, <1>3, <1>4, <1>5, <1>6 DEF Next, Load, StartSchemaWatcher, RunWatcher,
     ListDir, ReadFile, Install, Watch, StartWatcher, SqlEvent, DirEvent, OtherEvent,
     Fire, vars

\* A full queue holds more events than there are new directories and other files.
LEMMA FullRequests ==
  ASSUME TypeOK, Queued, Roomy, Len(events) >= MaxQueue
  PROVE  \E i \in DOMAIN events : events[i] \in Files
<1> DEFINE n == Len(events)
           S == 1 .. n
           T == NewDirs \cup Others
<1>1. events \in Seq(Event) /\ MaxQueue \in Nat
  BY BoundsAssumption DEF TypeOK, Event
<1>2. n \in Nat /\ DOMAIN events = S /\ \A i \in S : events[i] \in Event
  BY <1>1
<1> SUFFICES ASSUME \A i \in S : events[i] \notin Files PROVE FALSE
  BY <1>2
<1>3. \A i \in S : events[i] \in T
  BY <1>2 DEF Event, Queued
<1>4. events \in [S -> T]
  BY <1>1, <1>2, <1>3
<1>5. IsFiniteSet(S) /\ Cardinality(S) = n
  <2> HIDE DEF n
  <2>1. 1 \in Int /\ n \in Int /\ (1 > n => n = 0)
    BY <1>2
  <2> QED
    BY <1>2, <2>1, FS_Interval
<1>6. IsFiniteSet(T) /\ Cardinality(T) \in Nat /\ Cardinality(T) < MaxQueue
  BY FS_CardinalityType DEF Roomy
<1>7. Cardinality(T) < Cardinality(S)
  BY <1>1, <1>2, <1>5, <1>6
<1>8. PICK i, j \in S : i # j /\ events[i] = events[j]
  <2> HIDE DEF S, T
  <2> QED
    BY <1>4, <1>5, <1>6, <1>7, FS_PigeonHole
<1> QED
  BY <1>2, <1>8 DEF Queued

\* A change to a watched file is queued, or dropped from a queue that holds an
\* event as good.
LEMMA EditRequests ==
  ASSUME TypeOK, Queued, EarlyDirs = {}, Roomy,
         NEW f \in Files, NEW sql \in {"none", "good", "broken"}, Edit(f, sql)
  PROVE  Requested'
<1>1. DirOf[f] \in watched /\ events \in Seq(Event) /\ f \in Event /\ MaxQueue \in Nat
  BY BoundsAssumption DEF Edit, MayEdit, TypeOK, Event
<1>2. CASE Len(events) < MaxQueue
  <2>1. events' = Append(events, f)
    BY <1>1, <1>2 DEF Edit, Queue
  <2>2. Len(events) + 1 \in DOMAIN events' /\ events'[Len(events) + 1] = f
    <3> HIDE DEF Event
    <3> QED
      BY <1>1, <2>1
  <2> QED
    BY <2>2 DEF Requested
<1>3. CASE Len(events) >= MaxQueue
  <2>1. UNCHANGED events
    BY <1>1, <1>3 DEF Edit, Queue, TypeOK
  <2> QED
    BY <1>3, <2>1, FullRequests DEF Requested
<1> QED
  BY <1>1, <1>2, <1>3

\* A request stands until the timer fires.
LEMMA RequestStays ==
  ASSUME TypeOK, Requested, [Next]_vars
  PROVE  Requested' \/ \E c \in Callbacks : Fire(c)
<1> USE DEF env, walk
<1>1. ASSUME UNCHANGED timer, NEW d, NEW ev \in Event, Queue(d, ev)
      PROVE  Requested'
  BY <1>1, QueueIs DEF Requested
<1>2. ASSUME NEW f \in Files, NEW sql \in {"none", "good", "broken"}, Edit(f, sql)
      PROVE  Requested'
  BY <1>1, <1>2 DEF Edit, Event
<1>3. ASSUME NEW d \in NewDirs, MkDir(d) PROVE Requested'
  BY <1>1, <1>3, DirsAssumption DEF MkDir, Event, Dirs
<1>4. ASSUME NEW o \in Others, Touch(o) PROVE Requested'
  BY <1>1, <1>4 DEF Touch, Event
<1>5. CASE UNCHANGED <<timer, events>>
  BY <1>5 DEF Requested
<1>6. CASE SqlEvent
  BY <1>6 DEF SqlEvent, Requested
<1>7. CASE DirEvent \/ OtherEvent
  <2>1. PICK kind \in {Dirs, Others} : Takes(kind) /\ UNCHANGED timer
    BY <1>7 DEF DirEvent, OtherEvent
  <2>2. events[1] \notin Files
    BY <2>1, TakesIs, DirsAssumption
  <2>3. ASSUME NEW i \in DOMAIN events, events[i] \in Files
        PROVE  \E k \in DOMAIN events' : events'[k] \in Files
    BY <2>1, <2>2, <2>3, TakesIs
  <2> QED
    BY <2>1, <2>3 DEF Requested
<1> QED
  BY <1>2, <1>3, <1>4, <1>5, <1>6, <1>7 DEF Next, Load, StartSchemaWatcher, RunWatcher,
     ListDir, ReadFile, Install, Watch, StartWatcher, vars

\* A load in progress that is on track stays on track while it goes on.
LEMMA LoadingStep ==
  ASSUME TypeOK, Existing, Loadable, NEW l \in Loaders, Loading(l),
         \/ \E d \in Dirs : ListDir(l, d)
         \/ \E f \in Files : ReadFile(l, f)
  PROVE  Loading(l)'
<1> USE ContentFacts DEF TypeOK, env, walk
<1>1. ASSUME NEW d \in Dirs, ListDir(l, d) PROVE Loading(l)'
  <2>1. pc'[l] = "walk" /\ UNCHANGED <<disk, dirs>>
    BY <1>1 DEF ListDir, Loading
  <2>2. /\ todoDirs'[l] = (todoDirs[l] \ {d}) \cup Below(d)
        /\ todoFiles'[l] = todoFiles[l] \cup Present(d)
    BY <1>1 DEF ListDir
  <2>3. ASSUME NEW f \in Files
        PROVE  merged'[l][f] = IF \/ DirOf[f] = d /\ f \notin Present(d)
                                  \/ d = Root /\ DirOf[f] \notin dirs
                                 THEN disk[f] ELSE merged[l][f]
    BY <1>1 DEF ListDir
  <2>4. ASSUME NEW f \in Files PROVE OnTrack(l, f)'
    <3>1. OnTrack(l, f) /\ disk[f] \in Content /\ disk[f].sql # "broken"
          /\ disk[f].sql # "unread"
      BY DEF Loading, Loadable
    <3>2. CASE DirOf[f] = d /\ f \in Present(d)
      BY <2>1, <2>2, <3>1, <3>2 DEF OnTrack, Present, Content
    <3>3. CASE DirOf[f] = d /\ f \notin Present(d)
      BY <2>1, <2>2, <2>3, <3>1, <3>3 DEF OnTrack, Present
    <3>4. CASE DirOf[f] # d
      <4>1. f \notin Present(d)
        BY <3>4 DEF Present
      <4> QED
        BY <2>1, <2>2, <2>3, <3>1, <3>4, <4>1 DEF OnTrack, Below
    <3> QED
      BY <3>2, <3>3, <3>4
  <2> QED
    BY <2>1, <2>4 DEF Loading
<1>2. ASSUME NEW f \in Files, ReadFile(l, f) PROVE Loading(l)'
  <2>1. disk[f].sql = "good"
    BY <1>2 DEF ReadFile, Loading, OnTrack
  <2>2. /\ merged' = [merged EXCEPT ![l] = [@ EXCEPT ![f] = disk[f]]]
        /\ todoFiles' = [todoFiles EXCEPT ![l] = @ \ {f}]
        /\ UNCHANGED <<pc, todoDirs, disk>>
    BY <1>2, <2>1 DEF ReadFile
  <2>3. ASSUME NEW g \in Files PROVE OnTrack(l, g)'
    <3>1. OnTrack(l, g)
      BY DEF Loading
    <3>2. CASE g = f
      BY <2>2, <3>2 DEF OnTrack
    <3>3. CASE g # f
      BY <2>2, <3>1, <3>3 DEF OnTrack
    <3> QED
      BY <3>2, <3>3
  <2> QED
    BY <2>2, <2>3 DEF Loading
<1> QED
  BY <1>1, <1>2

\* What one loader does, and what changes no loader, leaves the others on track.
LEMMA LoadingKept ==
  ASSUME NEW l \in Loaders, UNCHANGED disk,
         pc'[l] = pc[l], todoDirs'[l] = todoDirs[l],
         todoFiles'[l] = todoFiles[l], merged'[l] = merged[l]
  PROVE  Loading(l)' <=> Loading(l)
BY DEF Loading, OnTrack

\* A load that begins will install the present contents.
LEMMA FireLoads ==
  ASSUME TypeOK, Started, NEW c \in Callbacks, Fire(c)
  PROVE  Loading(c)' /\ UNCHANGED <<disk, loaded>>
BY DEF TypeOK, Started, Fire, Loading, OnTrack, Loaders, env

\* No step but the end of a load and an edit throws a load off track.
LEMMA LoadingStays ==
  ASSUME TypeOK, Existing, Loadable, Next, UNCHANGED disk,
         NEW l \in Loaders, Loading(l), pc'[l] = "walk"
  PROVE  Loading(l)'
<1> USE DEF TypeOK, env, walk
<1>1. ASSUME NEW k \in Loaders, Load(k) PROVE Loading(l)'
  <2>1. CASE k # l
    <3>1. /\ pc'[l] = pc[l] /\ todoDirs'[l] = todoDirs[l]
          /\ todoFiles'[l] = todoFiles[l] /\ merged'[l] = merged[l]
      BY <1>1, <2>1 DEF Load, ListDir, ReadFile, Install, Loaded
    <3> QED
      BY <3>1, LoadingKept
  <2>2. CASE k = l /\ Install(k)
    BY <2>2 DEF Install, Loaded
  <2>3. CASE k = l /\ ~Install(k)
    BY <1>1, <2>3, LoadingStep DEF Load
  <2> QED
    BY <2>1, <2>2, <2>3
<1>2. ASSUME NEW c \in Callbacks, Fire(c) PROVE Loading(l)'
  <2>1. c # l
    BY <1>2 DEF Fire, Loading
  <2>2. /\ pc'[l] = pc[l] /\ todoDirs'[l] = todoDirs[l]
        /\ todoFiles'[l] = todoFiles[l] /\ merged'[l] = merged[l]
    BY <1>2, <2>1 DEF Fire
  <2> QED
    BY <2>2, LoadingKept
<1>3. ASSUME NEW d \in Dirs, Watch(d) PROVE Loading(l)'
  <2>1. l # Main
    BY <1>3 DEF Watch, Loading
  <2>2. /\ pc'[l] = pc[l] /\ todoDirs'[l] = todoDirs[l]
        /\ todoFiles'[l] = todoFiles[l] /\ merged'[l] = merged[l]
    BY <1>3, <2>1 DEF Watch
  <2> QED
    BY <2>2, LoadingKept
<1>4. CASE StartWatcher
  <2>1. l # Main
    BY <1>4 DEF StartWatcher, Loading
  <2>2. /\ pc'[l] = pc[l] /\ todoDirs'[l] = todoDirs[l]
        /\ todoFiles'[l] = todoFiles[l] /\ merged'[l] = merged[l]
    BY <1>4, <2>1 DEF StartWatcher
  <2> QED
    BY <2>2, LoadingKept
<1>5. CASE UNCHANGED walk
  BY <1>5, LoadingKept
<1> QED
  BY <1>1, <1>2, <1>3, <1>4, <1>5
     DEF Next, StartSchemaWatcher, RunWatcher, Edit, MkDir, SqlEvent, DirEvent,
         OtherEvent, Touch

\* A load off track was thrown off by an edit, whose request still stands: the
\* only request that is served is that of a load which begins.
LEMMA CorrectedStep ==
  ASSUME TypeOK, Existing, Started, Queued, Corrected, [Next]_vars,
         EarlyDirs = {}, OneLoad, Roomy
  PROVE  Corrected'
<1> USE DEF Corrected
<1> SUFFICES ASSUME NEW l \in Loaders, pc'[l] = "walk", Loadable', ~Loading(l)'
             PROVE  Requested'
  OBVIOUS
<1>1. CASE \E f \in Files, sql \in {"none", "good", "broken"} : Edit(f, sql)
  BY <1>1, EditRequests
<1>2. ASSUME NEW c \in Callbacks, Fire(c) PROVE FALSE
  <2>1. l # c
    BY <1>2, FireLoads
  <2>2. l = Main
    BY <2>1 DEF OneLoad, Loaders
  <2> QED
    BY <1>2, <2>1, <2>2 DEF Fire, Started, TypeOK, Loaders
<1>3. CASE UNCHANGED vars
  BY <1>3, LoadingKept DEF vars, env, walk, Requested, Loadable
<1>4. CASE /\ Next /\ UNCHANGED disk /\ ~\E c \in Callbacks : Fire(c)
  <2>1. Loadable
    BY <1>4 DEF Loadable
  <2>2. pc[l] = "walk"
    BY <1>4 DEF Next, Load, StartSchemaWatcher, RunWatcher, Edit, MkDir, ListDir,
       ReadFile, Install, Loaded, Watch, StartWatcher, SqlEvent, DirEvent,
       OtherEvent, Touch, walk, TypeOK
  <2>3. ~Loading(l)
    BY <1>4, <2>1, LoadingStays
  <2> QED
    BY <1>2, <2>1, <2>2, <2>3, RequestStays
<1>5. \/ \E f \in Files, sql \in {"none", "good", "broken"} : Edit(f, sql)
      \/ UNCHANGED disk
  BY DEF Next, Load, StartSchemaWatcher, RunWatcher, MkDir, ListDir, ReadFile,
     Install, Watch, StartWatcher, SqlEvent, DirEvent, OtherEvent, Touch, Fire, vars, env
<1> QED
  BY <1>1, <1>2, <1>3, <1>4, <1>5

LEMMA NoLostReloadStep ==
  ASSUME TypeOK, Existing, Started, Queued, Corrected, NoLostReload, [Next]_vars,
         EarlyDirs = {}, OneLoad, Roomy
  PROVE  NoLostReload'
<1> SUFFICES ASSUME Loadable', loaded' # disk', ~Requested'
             PROVE  \E l \in Loaders : Loading(l)'
  BY DEF NoLostReload, Pending
<1>1. CASE \E f \in Files, sql \in {"none", "good", "broken"} : Edit(f, sql)
  BY <1>1, EditRequests
<1>2. ASSUME NEW c \in Callbacks, Fire(c) PROVE \E l \in Loaders : Loading(l)'
  BY <1>2, FireLoads DEF Loaders
<1>3. CASE UNCHANGED vars
  BY <1>3, LoadingKept
     DEF vars, env, walk, NoLostReload, Pending, Requested, Loadable
<1>4. CASE /\ Next /\ UNCHANGED disk /\ ~\E c \in Callbacks : Fire(c)
  <2>1. Loadable /\ ~Requested
    BY <1>4, RequestStays DEF Loadable
  <2>2. ASSUME NEW k \in Loaders, Install(k) PROVE FALSE
    <3>1. Loading(k) /\ loaded' = merged[k]
      BY <2>1, <2>2 DEF Install, Corrected
    <3>2. merged[k] = disk
      <4>1. \A f \in Files : merged[k][f] = disk[f]
        BY <2>2, <3>1 DEF Install, Loading, OnTrack
      <4> QED
        BY <4>1 DEF TypeOK
    <3> QED
      BY <1>4, <3>1, <3>2
  <2>3. ASSUME NEW k \in Loaders, NEW f \in Files, ReadFile(k, f), disk[f].sql # "good"
        PROVE  FALSE
    BY <2>1, <2>3 DEF ReadFile, Corrected, Loading, OnTrack
  <2>4. UNCHANGED loaded
    BY <1>4, <2>2 DEF Next, Load, StartSchemaWatcher, RunWatcher, Edit, MkDir, ListDir,
       ReadFile, Watch, StartWatcher, SqlEvent, DirEvent, OtherEvent, Touch
  <2>5. PICK l \in Loaders : Loading(l)
    BY <1>4, <2>1, <2>4 DEF NoLostReload, Pending
  <2>6. pc'[l] = "walk"
    BY <1>4, <2>2, <2>3, <2>5 DEF Loading, Next, Load, StartSchemaWatcher, RunWatcher,
       Edit, MkDir, ListDir, ReadFile, Watch, StartWatcher, SqlEvent, DirEvent,
       OtherEvent, Touch, walk, TypeOK
  <2> QED
    BY <1>4, <2>1, <2>5, <2>6, LoadingStays
<1>5. \/ \E f \in Files, sql \in {"none", "good", "broken"} : Edit(f, sql)
      \/ UNCHANGED disk
  BY DEF Next, Load, StartSchemaWatcher, RunWatcher, MkDir, ListDir, ReadFile,
     Install, Watch, StartWatcher, SqlEvent, DirEvent, OtherEvent, Touch, Fire, vars, env
<1> QED
  BY <1>1, <1>2, <1>3, <1>4, <1>5

LEMMA Initially == Init => TypeOK /\ IInv
<1> SUFFICES ASSUME Init PROVE TypeOK /\ IInv
  OBVIOUS
<1> USE ContentFacts, DirsAssumption, LoadersAssumption, BoundsAssumption DEF Init
<1>1. TypeOK
  <2>1. disk \in [Files -> Content] /\ \A f \in Files : disk[f].sql # "unread"
    <3>1. \A x \in [ver : {0}, sql : {"none", "good", "broken"}] :
            x \in Content /\ x.sql # "unread"
      BY DEF Content
    <3>2. disk \in [Files -> [ver : {0}, sql : {"none", "good", "broken"}]]
      OBVIOUS
    <3> QED
      BY <3>1, <3>2
  <2>2. todoDirs \in [Loaders -> SUBSET Dirs] /\ todoFiles \in [Loaders -> SUBSET Files]
    OBVIOUS
  <2>3. merged \in [Loaders -> [Files -> Content]] /\ loaded \in [Files -> Content]
    OBVIOUS
  <2>4. pc \in [Loaders -> {"idle", "walk", "watch", "done"}]
    OBVIOUS
  <2>5. events \in Seq(Files \cup Dirs \cup Others) /\ Len(events) <= MaxQueue
    OBVIOUS
  <2> QED
    BY <2>1, <2>2, <2>3, <2>4, <2>5 DEF TypeOK
<1>2. Existing
  BY DEF Existing, Dirs
<1>3. Started /\ Queued
  BY DEF Started, Queued, Loaders
<1>4. Main \in Loaders /\ Loading(Main)
  BY DEF Loading, OnTrack, Loaders
<1>5. Corrected
  BY <1>4 DEF Corrected, Loaders
<1>6. NoLostReload
  BY <1>4 DEF NoLostReload, Pending
<1> QED
  BY <1>1, <1>2, <1>3, <1>5, <1>6 DEF IInv

\* Every variable keeps its type, and only directories that exist are visited,
\* watched or named by an event (server.go:489-534, load.go:16-22).
THEOREM Typed == Spec => [](TypeOK /\ Existing)
<1>1. Init => TypeOK /\ Existing
  BY Initially DEF IInv
<1>2. TypeOK /\ Existing /\ [Next]_vars => (TypeOK /\ Existing)'
  BY TypeStep, ExistingStep
<1> QED
  BY <1>1, <1>2, PTL DEF Spec

\* The inductive invariant: what runs before the watches are installed, what is
\* in the event queue, and that a load off track is followed by another.
THEOREM Invariance ==
  ASSUME EarlyDirs = {}, OneLoad, Roomy
  PROVE  Spec => []IInv
<1>1. Init => TypeOK /\ IInv
  BY Initially
<1>2. TypeOK /\ IInv /\ [Next]_vars => (TypeOK /\ IInv)'
  <2> SUFFICES ASSUME TypeOK, IInv, [Next]_vars PROVE (TypeOK /\ IInv)'
    OBVIOUS
  <2> QED
    BY TypeStep, ExistingStep, StartedStep, QueuedStep, CorrectedStep, NoLostReloadStep
       DEF IInv
<1> QED
  BY <1>1, <1>2, PTL DEF Spec

\* No change of the schema directory is lost: what the server uses is what is on
\* disk, or an event, the timer or a load is on its way to make it so, whatever
\* the load has read so far and however often it fails (server.go:414-542).
THEOREM NothingLost ==
  ASSUME EarlyDirs = {}, OneLoad, Roomy
  PROVE  Spec => []NoLostReload
<1>1. IInv => NoLostReload
  BY DEF IInv
<1> QED
  BY <1>1, Invariance, PTL

\* Under the same assumptions the ways in which the schema stays outdated
\* (runs hot_reload_overtaken, hot_reload_new_dir) are
\* closed: at rest the server uses what is on disk.
THEOREM UpToDateAtRest ==
  ASSUME EarlyDirs = {}, OneLoad, Roomy
  PROVE  Spec => []LoadedAtRest
<1>1. NoLostReload => LoadedAtRest
  BY LoadersAssumption DEF NoLostReload, LoadedAtRest, AtRest, Pending, Requested,
     Loading, Loaders
<1> QED
  BY <1>1, NothingLost, PTL
=============================================================================
