------------------------------- MODULE Config -------------------------------
(***************************************************************************)
(* What initialize makes of the settings (internal/lsp/server.go 96-395):  *)
(* .pgls.json at the workspace root, initializationOptions of the editor   *)
(* and the -schema flag decide where the schema is, and the first two      *)
(* which calls of a Go file carry SQL.                                     *)
(*                                                                         *)
(* What the code may lack, a pointer that may be nil or a string that may  *)
(* be "", is a sequence of no or one element.  A path is the sequence of   *)
(* its names; as it is given, it may have "." and ".." among them.  Where  *)
(* the code compares paths as strings, Written is the string.              *)
(***************************************************************************)
EXTENDS Integers, SequencesExt

CONSTANTS
  Spelling,     \* Spelling[n]: the characters of the name n
  Defaults      \* goast.DefaultSQLFunctions: the argument, by function name

Names == DOMAIN Spelling

\* A name has a character, and none of its characters separates names.
ASSUME SpellingAssumption ==
  /\ {".", ".."} \cap Names = {}
  /\ \A n \in Names : /\ Spelling[n] # <<>>
                       /\ Spelling[n] \in Seq(ToSet(Spelling[n]) \ {"/"})
  /\ \A m, n \in Names : Spelling[m] = Spelling[n] => m = n

ASSUME DefaultsAssumption == DOMAIN Defaults # {}

Path == Seq(Names)
Given == Seq(Names \cup {".", ".."})

(* What the editor sends, the state of .pgls.json and the flag. *)
Option(S) == {s \in Seq(S) : Len(s) <= 1}
Directories == [abs : BOOLEAN, names : Given]
Entries == [name : STRING, argIndex : Option(Int)]
Settings == [schemaDir : Option(Directories), sqlFunctions : Option(Seq(Entries))]
Sources ==
  [state : {"absent", "unreadable", "malformed", "ok"}, settings : Settings]
RequestType ==
  [roots : [1 .. 3 -> Option(Given)], file : Sources, options : Sources,
   flag : Option(Directories)]

OrElse(o, p) == IF o = <<>> THEN p ELSE o
-----------------------------------------------------------------------------
(* Paths. *)

\* filepath.Clean, one name further: the parent of the root is the root.
Step(path, n) ==
  CASE n = "."  -> path
    [] n = ".." -> IF path = <<>> THEN <<>> ELSE Front(path)
    [] OTHER    -> Append(path, n)

Clean(names) == FoldLeft(Step, <<>>, names)
Join(root, names) == Clean(root \o names)

Spell(w, n) == w \o <<"/">> \o Spelling[n]
Written(path) == IF path = <<>> THEN <<"/">> ELSE FoldLeft(Spell, <<>>, path)

\* Mutant: the separator is missing.
InsidePrefix(path, root) == IsPrefix(Written(root), Written(path))

\* No path begins with "//": below the root of the file system nothing is inside
\* but itself.
Inside(path, root) ==
  path = root \/ IsPrefix(Written(root) \o <<"/">>, Written(path))
-----------------------------------------------------------------------------
(* The sources.                                                                *)

\* workspaceFolders, rootUri and rootPath, in this order.
WorkspaceRoot(params) ==
  OrElse(params.roots[1], OrElse(params.roots[2], params.roots[3]))

\* A source is absent, unreadable, malformed or an object of settings; decoding
\* is strict and gives all of it or nothing.
Decoded(source) == IF source.state = "ok" THEN <<source.settings>> ELSE <<>>

\* Without a workspace .pgls.json is not looked for.
LoadConfigFile(params) ==
  IF WorkspaceRoot(params) = <<>> THEN <<>> ELSE Decoded(params.file)

InitOptionsConfig(params) == Decoded(params.options)

\* The value of a field in a source that may be missing.
Field(cfg, f) == IF cfg = <<>> THEN <<>> ELSE cfg[1][f]
-----------------------------------------------------------------------------
(* The schema directory: absolute, or relative to where the server was started. *)

At(path) == <<[abs |-> TRUE, names |-> path]>>

SchemaDirFromConfigFile(params) ==
  LET dir == Field(LoadConfigFile(params), "schemaDir")
      root == WorkspaceRoot(params)[1]
  IN  IF dir = <<>> \/ dir[1].abs \/ ~Inside(Join(root, dir[1].names), Clean(root))
        THEN <<>>
        ELSE At(Join(root, dir[1].names))

ResolveSchemaDir(dir, root) ==
  IF dir = <<>> \/ dir[1].abs \/ root = <<>> THEN dir ELSE At(Join(root[1], dir[1].names))

SchemaDirOfOptions(params) ==
  ResolveSchemaDir(Field(InitOptionsConfig(params), "schemaDir"), WorkspaceRoot(params))

\* Mutant: the editor is asked first.
SchemaDirOfEditor(params) ==
  OrElse(SchemaDirOfOptions(params), OrElse(SchemaDirFromConfigFile(params), params.flag))

SchemaDir(params) ==
  OrElse(SchemaDirFromConfigFile(params), OrElse(SchemaDirOfOptions(params), params.flag))
-----------------------------------------------------------------------------
(* The SQL functions. *)

SQLFunctionsFromOptions(params) ==
  OrElse(Field(LoadConfigFile(params), "sqlFunctions"),
         Field(InitOptionsConfig(params), "sqlFunctions"))

Valid(e) == e.name # "" /\ e.argIndex # <<>> /\ e.argIndex[1] >= 0

\* An entry replaces an earlier one for its name.
Configure(set, e) ==
  IF Valid(e)
    THEN [n \in {e.name} \cup DOMAIN set |->
            IF n = e.name THEN e.argIndex[1] ELSE set[n]]
    ELSE set

Configured(entries) == FoldLeft(Configure, <<>>, entries)

AllInvalid(funcs) ==
  funcs # <<>> /\ funcs[1] # <<>> /\ DOMAIN Configured(funcs[1]) = {}

\* Mutant: no way back when all entries are wrong.
SetWithoutFallback(funcs) == IF funcs = <<>> THEN Defaults ELSE Configured(funcs[1])

\* Without a list, or with one that holds nothing but mistakes, the defaults.
SetSQLFunctions(funcs) ==
  IF funcs = <<>> \/ AllInvalid(funcs) THEN Defaults ELSE Configured(funcs[1])

\* What the user is told with window/showMessage.
Toasts(params) ==
  {m \in {"file", "options", "functions"} :
     CASE m = "file"      -> /\ WorkspaceRoot(params) # <<>>
                             /\ params.file.state \in {"unreadable", "malformed"}
       [] m = "options"   -> params.options.state = "malformed"
       [] m = "functions" -> AllInvalid(SQLFunctionsFromOptions(params))}
=============================================================================
