----------------------------- MODULE HotReload -----------------------------
(***************************************************************************)
(* How internal/lsp/server.go keeps the loaded schema equal to the .sql    *)
(* files on disk: initialize loads the directory and then watches it,      *)
(* runWatcher turns file events into a debounced timer, and the timer's    *)
(* callback loads the directory again.                                     *)
(*                                                                         *)
(* schema.Load is a walk, one directory listing and one file at a time,    *)
(* with edits in between.  The content of a file is the number of the edit *)
(* that wrote it and whether it parses.  The 200 ms of the timer are left  *)
(* out: it may fire at any moment after it was set.                        *)
(***************************************************************************)
EXTENDS Naturals, FiniteSets, SequencesExt

CONSTANTS
  Files,        \* the .sql files that may exist
  Root,         \* the schema directory
  SubDirs,      \* directories below it
  NewDirs,      \* the ones that do not exist when the server starts
  DirOf,        \* DirOf[f]: the directory of f
  Others,       \* other files of Root, in the queue once at a time
  Main,         \* the goroutine that runs initialize
  Callbacks,    \* goroutines for the timer's callback: one if a load always
                \* ends before the timer can fire again, else more
  EarlyDirs,    \* directories whose files may change before they are watched
  MaxQueue,     \* events the kernel queues before it drops them
  MaxEdits      \* bound: changes made to the directory

Dirs == {Root} \cup SubDirs
Loaders == Callbacks \cup {Main}

ASSUME DirsAssumption ==
  /\ Root \notin SubDirs /\ NewDirs \subseteq SubDirs
  /\ DirOf \in [Files -> Dirs]
  /\ Files \cap Dirs = {} /\ Others \cap (Files \cup Dirs) = {}
ASSUME LoadersAssumption == Main \notin Callbacks
ASSUME BoundsAssumption ==
  EarlyDirs \subseteq Dirs /\ MaxQueue \in Nat \ {0} /\ MaxEdits \in Nat

VARIABLES
  disk,         \* disk[f]: the content of f
  dirs,         \* directories that exist
  edits,        \* changes made so far
  watched,      \* directories with a watch
  events,       \* what has changed: events the watcher has not taken yet
  timer,        \* is the timer set
  loaded,       \* loadedSchema: the contents it was built from
  pc,           \* pc[l]: what l does next
  todoDirs,     \* todoDirs[l]: directories l has still to visit
  todoFiles,    \* todoFiles[l]: files l has listed and still to read
  merged        \* merged[l]: the contents l has read

env == <<disk, dirs, edits>>
walk == <<pc, todoDirs, todoFiles, merged>>
vars == <<env, watched, events, timer, loaded, walk>>

Content == [ver : Nat, sql : {"none", "good", "broken", "unread"}]
Unread == [f \in Files |-> [ver |-> 0, sql |-> "unread"]]

TypeOK ==
  /\ disk \in [Files -> Content] /\ \A f \in Files : disk[f].sql # "unread"
  /\ dirs \subseteq Dirs /\ edits \in Nat
  /\ watched \subseteq dirs
  /\ events \in Seq(Files \cup Dirs \cup Others)
  /\ Len(events) <= MaxQueue /\ timer \in BOOLEAN
  /\ loaded \in [Files -> Content]
  /\ pc \in [Loaders -> {"idle", "walk", "watch", "done"}]
  /\ todoDirs \in [Loaders -> SUBSET Dirs]
  /\ todoFiles \in [Loaders -> SUBSET Files]
  /\ merged \in [Loaders -> [Files -> Content]]

Init ==
  /\ dirs = Dirs \ NewDirs
  /\ disk \in [Files -> [ver : {0}, sql : {"none", "good", "broken"}]]
  /\ \A f \in Files : DirOf[f] \notin dirs => disk[f].sql = "none"
  /\ edits = 0 /\ watched = {} /\ events = <<>> /\ timer = FALSE
  /\ loaded = Unread
  /\ pc = [l \in Loaders |-> IF l = Main THEN "walk" ELSE "idle"]
  /\ todoDirs = [l \in Loaders |-> IF l = Main THEN {Root} ELSE {}]
  /\ todoFiles = [l \in Loaders |-> {}]
  /\ merged = [l \in Loaders |-> Unread]

Present(d) == {f \in Files : DirOf[f] = d /\ disk[f].sql # "none"}
-----------------------------------------------------------------------------
(* The file system, and the events it queues for a watched directory. *)

\* A full queue drops the event.  The error that the watcher gets for it is logged.
Queue(d, what) ==
  events' = IF d \in watched /\ Len(events) < MaxQueue THEN Append(events, what)
                                                       ELSE events

MayEdit(d) ==
  /\ d \in dirs /\ edits < MaxEdits
  /\ \/ d \in EarlyDirs
     \/ d \in watched /\ pc[Main] = "done"

\* A file is created, overwritten or removed.
Edit(f, sql) ==
  /\ MayEdit(DirOf[f])
  /\ sql = "none" => disk[f].sql # "none"
  /\ disk' = [disk EXCEPT ![f] = [ver |-> edits + 1, sql |-> sql]]
  /\ edits' = edits + 1
  /\ Queue(DirOf[f], f)
  /\ UNCHANGED <<dirs, watched, timer, loaded, walk>>

MkDir(d) ==
  /\ MayEdit(Root) /\ d \in NewDirs \ dirs
  /\ dirs' = dirs \cup {d}
  /\ edits' = edits + 1
  /\ Queue(Root, d)
  /\ UNCHANGED <<disk, watched, timer, loaded, walk>>

\* Another file changes, of which no event is in the queue.
Touch(o) ==
  /\ Root \in watched /\ ~Contains(events, o)
  /\ Queue(Root, o)
  /\ UNCHANGED <<env, watched, timer, loaded, walk>>
-----------------------------------------------------------------------------
(* loadAndSetSchema: schema.Load, and the assignment under schemaMu. *)

\* What follows a load: initialize goes on to watch the directory, a callback
\* to republish (module Publisher).
Loaded(l) ==
  /\ pc' = [pc EXCEPT ![l] = IF l = Main THEN "watch" ELSE "idle"]
  /\ todoDirs' = [todoDirs EXCEPT ![l] = IF l = Main THEN {Root} ELSE {}]
  /\ todoFiles' = [todoFiles EXCEPT ![l] = {}]
  /\ merged' = [merged EXCEPT ![l] = Unread]

Below(d) == IF d = Root THEN dirs \ {Root} ELSE {}

\* A directory is listed; what is not there then will not be loaded.
ListDir(l, d) ==
  /\ pc[l] = "walk" /\ d \in todoDirs[l]
  /\ todoDirs' = [todoDirs EXCEPT ![l] = (@ \ {d}) \cup Below(d)]
  /\ todoFiles' = [todoFiles EXCEPT ![l] = @ \cup Present(d)]
  /\ merged' = [merged EXCEPT ![l] =
       [f \in Files |->
          IF \/ DirOf[f] = d /\ f \notin Present(d)
             \/ d = Root /\ DirOf[f] \notin dirs
            THEN disk[f] ELSE @[f]]]
  /\ UNCHANGED <<env, watched, events, timer, loaded, pc>>

\* A file is read and parsed; one that is gone or malformed fails the load.
ReadFile(l, f) ==
  /\ pc[l] = "walk" /\ f \in todoFiles[l]
  /\ IF disk[f].sql # "good"
       THEN Loaded(l)
       ELSE /\ merged' = [merged EXCEPT ![l][f] = disk[f]]
            /\ todoFiles' = [todoFiles EXCEPT ![l] = @ \ {f}]
            /\ UNCHANGED <<pc, todoDirs>>
  /\ UNCHANGED <<env, watched, events, timer, loaded>>

Install(l) ==
  /\ pc[l] = "walk" /\ todoDirs[l] = {} /\ todoFiles[l] = {}
  /\ loaded' = merged[l]
  /\ Loaded(l)
  /\ UNCHANGED <<env, watched, events, timer>>
-----------------------------------------------------------------------------
(* startSchemaWatcher and runWatcher. *)

\* addDirsRecursively: a directory is watched before its entries are listed.
Watch(d) ==
  /\ pc[Main] = "watch" /\ d \in todoDirs[Main]
  /\ watched' = watched \cup {d}
  /\ todoDirs' = [todoDirs EXCEPT ![Main] = (@ \ {d}) \cup Below(d)]
  /\ UNCHANGED <<env, events, timer, loaded, pc, todoFiles, merged>>

StartWatcher ==
  /\ pc[Main] = "watch" /\ todoDirs[Main] = {}
  /\ pc' = [pc EXCEPT ![Main] = "done"]
  /\ UNCHANGED <<env, watched, events, timer, loaded, todoDirs, todoFiles, merged>>

Takes(kind) ==
  /\ pc[Main] = "done" /\ events # <<>> /\ Head(events) \in kind
  /\ events' = Tail(events)

\* Mutant: the timer is stopped and not set anew.
SqlEventStops ==
  /\ Takes(Files)
  /\ timer' = ~timer
  /\ UNCHANGED <<env, watched, loaded, walk>>

\* Mutant: whatever is created is watched.
SqlEventWatches ==
  /\ Takes(Files)
  /\ timer' = TRUE /\ watched' = watched \cup {Head(events)}
  /\ UNCHANGED <<env, loaded, walk>>

\* An event about a .sql file sets the timer, or sets it anew.
SqlEvent ==
  /\ Takes(Files)
  /\ timer' = TRUE
  /\ UNCHANGED <<env, watched, loaded, walk>>

\* A new directory is watched; what it holds by then is not looked at.
DirEvent ==
  /\ Takes(Dirs)
  /\ watched' = watched \cup {Head(events)}
  /\ UNCHANGED <<env, timer, loaded, walk>>

OtherEvent ==
  /\ Takes(Others)
  /\ UNCHANGED <<env, watched, timer, loaded, walk>>

\* Mutant: the callback republishes and does not load.
FireWithoutLoad(c) ==
  /\ timer /\ pc[c] = "idle"
  /\ timer' = FALSE
  /\ UNCHANGED <<env, watched, events, loaded, walk>>

\* The timer fires in a goroutine of its own.
Fire(c) ==
  /\ timer /\ pc[c] = "idle"
  /\ timer' = FALSE
  /\ pc' = [pc EXCEPT ![c] = "walk"]
  /\ todoDirs' = [todoDirs EXCEPT ![c] = {Root}]
  /\ UNCHANGED <<env, watched, events, loaded, todoFiles, merged>>
-----------------------------------------------------------------------------
Load(l) ==
  \/ \E d \in Dirs : ListDir(l, d)
  \/ \E f \in Files : ReadFile(l, f)
  \/ Install(l)

StartSchemaWatcher == (\E d \in Dirs : Watch(d)) \/ StartWatcher

RunWatcher == SqlEvent \/ DirEvent \/ OtherEvent

Next ==
  \/ \E f \in Files, sql \in {"none", "good", "broken"} : Edit(f, sql)
  \/ \E d \in NewDirs : MkDir(d)
  \/ \E o \in Others : Touch(o)
  \/ \E l \in Loaders : Load(l)
  \/ StartSchemaWatcher \/ RunWatcher
  \/ \E c \in Callbacks : Fire(c)

Spec == Init /\ [][Next]_vars

\* Goroutines run, timers fire; the file system owes nothing.
Fairness ==
  /\ \A l \in Loaders : WF_vars(Load(l))
  /\ WF_vars(StartSchemaWatcher) /\ WF_vars(RunWatcher)
  /\ WF_vars(\E c \in Callbacks : Fire(c))

FairSpec == Spec /\ Fairness
-----------------------------------------------------------------------------
(* Properties. *)

\* Every file parses: a load that is not disturbed succeeds.
Loadable == \A f \in Files : disk[f].sql # "broken"

\* What l is going to load for f, if nothing changes, is what is on disk.
OnTrack(l, f) ==
  \/ f \in todoFiles[l] /\ disk[f].sql = "good"
  \/ f \notin todoFiles[l] /\ {DirOf[f], Root} \cap todoDirs[l] # {}
  \/ f \notin todoFiles[l] /\ merged[l][f] = disk[f]

\* l is going to install the present state of the disk.
Loading(l) == pc[l] = "walk" /\ \A f \in Files : OnTrack(l, f)

\* A load has been asked for that has not begun.
Requested == timer \/ \E i \in DOMAIN events : events[i] \in Files

Pending == Requested \/ \E l \in Loaders : Loading(l)

\* The loaded schema is the one on disk, or an event, the timer or a load is
\* on its way to make it so (README.md:209: "editing or adding .sql files
\* triggers a reload").  Nothing is said while a file does not parse.
NoLostReload == Loadable => loaded = disk \/ Pending

\* NoLostReload as the user sees it: once the server is at rest, the schema it
\* uses is the one on disk.
AtRest ==
  /\ pc[Main] = "done" /\ events = <<>> /\ ~timer
  /\ \A c \in Callbacks : pc[c] = "idle"

LoadedAtRest == AtRest /\ Loadable => loaded = disk

\* The invariant that NoLostReload is proved from, for loads that do not overlap,
\* files that change only in watched directories, and a queue that new directories
\* and other files alone do not fill.
OneLoad == \A c1, c2 \in Callbacks : c1 = c2
Roomy ==
  IsFiniteSet(NewDirs \cup Others) /\ Cardinality(NewDirs \cup Others) < MaxQueue

\* Only existing directories are visited, watched or named by an event.
Existing ==
  /\ \A l \in Loaders : todoDirs[l] \subseteq dirs
  /\ \A i \in DOMAIN events : events[i] \in Dirs => events[i] \in dirs
  /\ Root \in dirs

\* Until initialize has installed the watches nothing else happens.
Started ==
  /\ \A c \in Callbacks : /\ pc[c] \in {"idle", "walk"}
                          /\ pc[c] = "idle" => todoFiles[c] = {}
  /\ pc[Main] \in {"walk", "watch", "done"}
  /\ pc[Main] # "done" =>
       /\ ~timer /\ \A i \in DOMAIN events : events[i] \in Others
       /\ \A c \in Callbacks : pc[c] = "idle"

\* A directory is queued once, so that in a full queue there is another event: one
\* about a .sql file, as good as those that are dropped.
Queued ==
  /\ \A i \in DOMAIN events : events[i] \in Dirs => events[i] \in NewDirs
  /\ \A i, j \in DOMAIN events : i # j /\ events[i] = events[j] => events[i] \in Files

\* A load that is going to install outdated contents is followed by another.
Corrected ==
  \A l \in Loaders : pc[l] = "walk" /\ Loadable /\ ~Loading(l) => Requested

IInv == Existing /\ Started /\ Queued /\ Corrected /\ NoLostReload

\* After the last change, the schema on disk is loaded for good.
EventuallyLoaded == <>[](Loadable => loaded = disk)
=============================================================================
