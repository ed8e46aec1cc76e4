------------------------------- MODULE Startup -------------------------------
(***************************************************************************)
(* initialize, from the settings to the schema, and the reloads that       *)
(* follow: Config says where the schema is, SchemaLoad what it holds.      *)
(* A load is one step here; what may happen while one is under way is in   *)
(* module HotReload.                                                       *)
(***************************************************************************)
EXTENDS Config, SchemaLoad

CONSTANTS
  Requests,     \* what the editor, .pgls.json and the command line may say
  Contents,     \* what a file may hold
  FirstDisk,    \* the files, by path, when the server starts
  Dirs,         \* the directories that exist then
  NewDirs,      \* and those that are made later
  Cwd,          \* where the server was started
  MaxEdits      \* bound: changes of files

ASSUME RequestsAssumption == Requests \subseteq RequestType

\* A path is that of a file or leads to others, never both.
ASSUME DiskAssumption ==
  /\ Contents \subseteq Content /\ \A f \in DOMAIN FirstDisk : FirstDisk[f] \in Content
  /\ IsFiniteSet(DOMAIN FirstDisk) /\ DOMAIN FirstDisk \subseteq Path \ {<<>>}
  /\ \A f, g \in DOMAIN FirstDisk : IsPrefix(f, g) => f = g

ASSUME DirsAssumption == Dirs \cup NewDirs \subseteq Path \ DOMAIN FirstDisk

ASSUME OrderAssumption == NameOrder \in Seq(Names) /\ Names = ToSet(NameOrder)
ASSUME CwdAssumption == Cwd \in Path
ASSUME BoundAssumption == MaxEdits \in Nat

VARIABLES
  params,           \* what is said
  initialized,      \* has initialize returned
  disk,             \* disk[f]: what f holds
  dirs,             \* directories that exist
  edits,            \* changes made so far
  loadedSchema,     \* the schema, if there is one
  loadedSchemaDir,  \* the directory it was loaded from
  watching,         \* the directory that is watched
  watched,          \* the directories that have a watch
  created,          \* new directories, as the watcher will find them
  unseen,           \* history: .sql files changed without a watch since the last load
  timer,            \* is the timer set
  loadedSQLFuncs,   \* the SQL functions
  toasts            \* what the user was told

env == <<disk, dirs, edits>>
watches == <<watching, watched, created>>
vars == <<params, initialized, env, loadedSchema, loadedSchemaDir, watches, unseen,
          timer, loadedSQLFuncs, toasts>>

\* filepath.Abs.
Abs(d) == Join(IF d.abs THEN <<>> ELSE Cwd, d.names)
All(dir) == IF dir = <<>> THEN <<>> ELSE <<Abs(dir[1])>>

Init ==
  /\ params \in Requests /\ initialized = FALSE
  /\ disk = FirstDisk /\ dirs = Dirs /\ edits = 0
  /\ loadedSchema = <<>> /\ loadedSchemaDir = <<>> /\ watching = <<>> /\ timer = FALSE
  /\ watched = {} /\ created = {} /\ unseen = {}
  /\ loadedSQLFuncs = Defaults /\ toasts = {}
-----------------------------------------------------------------------------
\* What is there already stays when the load fails.
LoadAndSetSchema(dir) ==
  LET result == IF dir \in dirs THEN Load(disk, dir) ELSE <<>>
  IN  /\ IF result = <<>>
           THEN UNCHANGED <<loadedSchema, loadedSchemaDir>>
           ELSE loadedSchema' = result /\ loadedSchemaDir' = <<dir>>
      /\ unseen' = {}

\* Mutant: only the directory itself is watched.
WatchTop(dir) == watching' = <<dir>> /\ watched' = {dir}

\* addDirsRecursively, and the goroutine of runWatcher.
WatchBelow(dir) ==
  /\ watching' = <<dir>>
  /\ watched' = {d \in dirs : IsPrefix(dir, d)}

\* Mutant: a directory that is not there counts as watched.
WatchAnyway(dir) == WatchBelow(dir)

\* Mutant: what could not be loaded is not watched.
WatchLoaded(dir) ==
  IF loadedSchemaDir' = <<dir>> THEN WatchBelow(dir) ELSE UNCHANGED <<watching, watched>>

\* Without the directory there is no watcher, and no other call to start one.
StartSchemaWatcher(dir) ==
  IF dir \in dirs THEN WatchBelow(dir) ELSE UNCHANGED <<watching, watched>>

Initialize ==
  LET dir == SchemaDir(params)
  IN  /\ ~initialized /\ initialized' = TRUE
      /\ IF dir = <<>>
           THEN UNCHANGED <<loadedSchema, loadedSchemaDir, watching, watched, unseen>>
           ELSE LoadAndSetSchema(Abs(dir[1])) /\ StartSchemaWatcher(Abs(dir[1]))
      /\ loadedSQLFuncs' = SetSQLFunctions(SQLFunctionsFromOptions(params))
      /\ toasts' = Toasts(params)
      /\ UNCHANGED <<params, env, created, timer>>

\* A change of a file; with a watch on its directory, runWatcher sets the timer.
Edit(f, c) ==
  LET sql == Last(f) \in SqlNames
  IN  /\ edits < MaxEdits /\ Front(f) \in dirs /\ disk[f] # c
      /\ disk' = [disk EXCEPT ![f] = c] /\ edits' = edits + 1
      /\ timer' = (timer \/ (sql /\ Front(f) \in watched))
      /\ unseen' = unseen \cup (IF sql /\ Front(f) \notin watched THEN {f} ELSE {})
      /\ UNCHANGED <<params, initialized, dirs, loadedSchema, loadedSchemaDir, watches,
                     loadedSQLFuncs, toasts>>

MkDir(d) ==
  /\ d \in NewDirs \ dirs /\ Front(d) \in dirs
  /\ dirs' = dirs \cup {d}
  /\ created' = created \cup (IF Front(d) \in watched THEN {d} ELSE {})
  /\ UNCHANGED <<params, initialized, disk, edits, loadedSchema, loadedSchemaDir,
                 watching, watched, unseen, timer, loadedSQLFuncs, toasts>>

\* runWatcher comes to a new directory; what it holds by then is not looked at.
WatchNew(d) ==
  /\ d \in created
  /\ watched' = watched \cup {d} /\ created' = created \ {d}
  /\ UNCHANGED <<params, initialized, env, loadedSchema, loadedSchemaDir, watching,
                 unseen, timer, loadedSQLFuncs, toasts>>

\* The timer's callback.
Reload ==
  /\ timer /\ timer' = FALSE
  /\ LoadAndSetSchema(watching[1])
  /\ UNCHANGED <<params, initialized, env, watches, loadedSQLFuncs, toasts>>

Next ==
  \/ Initialize \/ Reload
  \/ \E f \in DOMAIN disk, c \in Contents : Edit(f, c)
  \/ \E d \in NewDirs : MkDir(d) \/ WatchNew(d)

Spec == Init /\ [][Next]_vars
-----------------------------------------------------------------------------
\* Mutant: a path is compared without its end.
ExemptByPrefix(path) ==
  loadedSchemaDir # <<>> /\ InsidePrefix(path, loadedSchemaDir[1])

\* isInSchemaDir: files that are not checked.
IsInSchemaDir(path) == loadedSchemaDir # <<>> /\ Inside(path, loadedSchemaDir[1])
-----------------------------------------------------------------------------
(* Properties. *)

TypeOK ==
  /\ params \in Requests /\ initialized \in BOOLEAN /\ timer \in BOOLEAN
  /\ edits \in 0 .. MaxEdits /\ dirs \in SUBSET (Dirs \cup NewDirs)
  /\ Len(loadedSchema) <= 1 /\ Len(watching) <= 1
  /\ loadedSchema = <<>> <=> loadedSchemaDir = <<>>
  /\ watching # <<>> => watching[1] \in dirs
  /\ watched \cup created \subseteq dirs
  /\ timer \/ watched # {} \/ created # {} => watching # <<>>
  /\ unseen \subseteq DOMAIN disk
  /\ toasts \subseteq {"file", "options", "functions"}

\* The directory that would be used if .pgls.json were not there.
WithoutFile == SchemaDir([params EXCEPT !.file.state = "absent"])

\* Nothing that .pgls.json says makes the server load or watch a directory outside
\* the workspace; only the editor and the command line may name one, siblings whose
\* names begin like the workspace's and ways back through ".." included
\* (README.md:86-90, server.go:264-272).
FileStaysInside ==
  LET root == WorkspaceRoot(params)
  IN  \A dir \in {loadedSchemaDir, watching} :
        \/ dir \in {<<>>, All(WithoutFile)}
        \/ root # <<>> /\ IsPrefix(Clean(root[1]), dir[1])

\* The directory if .pgls.json is asked alone.
FromFileAlone == SchemaDir([params EXCEPT !.options.state = "absent", !.flag = <<>>])

\* If .pgls.json alone leads to a directory, nothing that the editor or the command
\* line adds leads elsewhere (README.md:79-84).
EditorCannotOverride ==
  FromFileAlone # <<>> =>
    {loadedSchemaDir, watching} \subseteq {<<>>, All(FromFileAlone)}

\* In directories made later below dir files have changed before there was a watch.
Unseen(dir) == \E f \in unseen : IsPrefix(dir, f) /\ Front(f) \notin Dirs

\* Once no reload is due and all files parse, the schema holds the last declaration
\* of every table, from all .sql files of the directory and no other, with
\* positions goto-definition can use; also when the load of initialize failed
\* (server.go:461-465), but not when the directory was made later, nor after a change
\* in a later subdirectory that had no watch yet, up to the next load.
Current ==
  \A dir \in ToSet(All(SchemaDir(params))) \cap (Dirs \cup ToSet(watching)) :
    initialized /\ ~timer /\ ~Unseen(dir) /\ Parses(disk, dir) =>
      /\ loadedSchemaDir = <<dir>>
      /\ RightSchema(loadedSchema[1], disk, dir)

\* A file that is half written or broken takes no table away: a table that was
\* known is forgotten only when all files parse and none declares it.
NoTableLost ==
  [][\A old \in ToSet(loadedSchema) : \A name \in DOMAIN old :
       \/ name \in DOMAIN loadedSchema'[1]
       \/ /\ Parses(disk, loadedSchemaDir'[1])
          /\ \A d \in Declarations(disk, loadedSchemaDir'[1]) :
               disk[d[1]].stmts[d[2]].name # name]_vars

\* The files a schema comes from are not checked against it, and no file from
\* elsewhere goes unchecked (server.go:433-437).  Only of a schema in the root of
\* the file system all files are checked: no path begins with "//".
OnlySchemaFilesExempt ==
  \A f \in DOMAIN disk :
    IsInSchemaDir(f) <=> \E dir \in ToSet(loadedSchemaDir) \ {<<>>} : IsPrefix(dir, f)

\* The lists of SQL functions that .pgls.json and the editor give, in this order.
Lists ==
  Field(LoadConfigFile(params), "sqlFunctions")
    \o Field(InitOptionsConfig(params), "sqlFunctions")

\* Calls go undetected only if the list that counts is empty.  Else its valid
\* entries hold, the last for each name; a list of nothing but mistakes leaves the
\* defaults, and not in silence (README.md:63-77, server.go:327-335).
DetectionAsAsked ==
  LET list == Lists[1]
      valid == {i \in DOMAIN list : Valid(list[i])}
      Overridden(i) == \E j \in valid : j > i /\ list[j].name = list[i].name
  IN  initialized =>
        /\ DOMAIN loadedSQLFuncs = {} <=> Lists # <<>> /\ list = <<>>
        /\ Lists # <<>> /\ list # <<>> =>
             IF valid = {}
               THEN loadedSQLFuncs = Defaults /\ "functions" \in toasts
               ELSE /\ DOMAIN loadedSQLFuncs = {list[i].name : i \in valid}
                    /\ \A i \in valid :
                         Overridden(i) \/ loadedSQLFuncs[list[i].name] = list[i].argIndex[1]
=============================================================================
