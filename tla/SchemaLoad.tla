----------------------------- MODULE SchemaLoad -----------------------------
(***************************************************************************)
(* schema.Load as a function of the directory: the walk in lexical order,  *)
(* the tables of each file, and their merge (schema/load.go, schema.go).   *)
(* HotReload has the walk step by step, with changes in between.           *)
(*                                                                         *)
(* A path is the sequence of its names.  A file holds the statements that  *)
(* pg_query finds in it, or does not parse.  A statement is a CREATE TABLE *)
(* or something else; its elements are the names of columns, and "" for a  *)
(* constraint.  A position is a file, a statement of it and an element of  *)
(* that, 0 for the name of the table; Posenc turns bytes into lines and    *)
(* characters.  Types are left out.                                        *)
(***************************************************************************)
EXTENDS Integers, FiniteSets, SequencesExt

CONSTANTS
  NameOrder,    \* the names of files and directories, in lexical order
  SqlNames      \* the names that end in .sql, in any letter case

Absent == [state |-> "absent", stmts |-> <<>>]
Broken == [state |-> "broken", stmts |-> <<>>]
Holding(stmts) == [state |-> "parsed", stmts |-> stmts]

Statement ==
  [kind : {"create"}, schema : STRING, name : STRING, elts : Seq(STRING)]
    \cup [kind : STRING \ {"create"}]
Content == [state : {"absent", "broken", "parsed"}, stmts : Seq(Statement)]

Rank(n) == CHOOSE i \in DOMAIN NameOrder : NameOrder[i] = n

\* filepath.WalkDir visits a directory in the place of its name.
Before(p, q) ==
  \E i \in DOMAIN p \cap DOMAIN q :
    Rank(p[i]) < Rank(q[i]) /\ \A j \in 1 .. i - 1 : p[j] = q[j]

\* The files that are read, in the order of the walk.
SqlFiles(disk, dir) ==
  {f \in DOMAIN disk : /\ IsPrefix(dir, f) /\ Last(f) \in SqlNames
                       /\ disk[f].state # "absent"}

Walk(disk, dir) ==
  LET files == SqlFiles(disk, dir)
  IN  CHOOSE w \in [1 .. Cardinality(files) -> files] :
        \A i, j \in DOMAIN w : i < j => Before(w[i], w[j])
-----------------------------------------------------------------------------
PositionAt(path, i, k) == [path |-> path, stmt |-> i, elt |-> k]

\* Columns in the order they are declared; constraints are no columns.
ColumnOf(c, path, i, k) ==
  IF c.elts[k] = "" THEN <<>>
                    ELSE <<[name |-> c.elts[k], position |-> PositionAt(path, i, k)]>>

Columns(c, path, i) ==
  FoldLeft(LAMBDA cols, col : cols \o col, <<>>,
           [k \in DOMAIN c.elts |-> ColumnOf(c, path, i, k)])

TableFromCreate(c, path, i) ==
  [schema |-> c.schema, name |-> c.name, columns |-> Columns(c, path, i),
   position |-> PositionAt(path, i, 0)]

\* Mutant: of two tables of a name the first stays.
MergeFirst(merged, tables) ==
  [n \in DOMAIN merged \cup DOMAIN tables |->
     IF n \in DOMAIN merged THEN merged[n] ELSE tables[n]]

\* Tables go by their bare name; a later definition replaces an earlier one.
Merge(merged, tables) ==
  [n \in DOMAIN merged \cup DOMAIN tables |->
     IF n \in DOMAIN tables THEN tables[n] ELSE merged[n]]

TableOf(stmts, path, i) ==
  [n \in IF stmts[i].kind = "create" THEN {stmts[i].name} ELSE {} |->
     TableFromCreate(stmts[i], path, i)]

Parse(stmts, path) ==
  FoldLeft(Merge, <<>>, [i \in DOMAIN stmts |-> TableOf(stmts, path, i)])

\* Mutant: a file that does not parse is skipped.
LoadSkipping(disk, dir) ==
  LET w == Walk(disk, dir)
  IN  <<FoldLeft(Merge, <<>>, [i \in DOMAIN w |-> Parse(disk[w[i]].stmts, w[i])])>>

\* All files or nothing: the schema, or <<>> for an error.
Load(disk, dir) ==
  LET w == Walk(disk, dir)
  IN  IF \E f \in SqlFiles(disk, dir) : disk[f].state = "broken"
        THEN <<>>
        ELSE <<FoldLeft(Merge, <<>>, [i \in DOMAIN w |-> Parse(disk[w[i]].stmts, w[i])])>>
-----------------------------------------------------------------------------
(* The reference: what the files declare, read one after the other.            *)

Parses(disk, dir) == \A f \in SqlFiles(disk, dir) : disk[f].state # "broken"

\* The statements that declare a table, as a file and an index.
Declarations(disk, dir) ==
  UNION {{<<f, i>> : i \in {j \in DOMAIN disk[f].stmts : disk[f].stmts[j].kind = "create"}} :
         f \in SqlFiles(disk, dir)}

Later(d, e) == Before(e[1], d[1]) \/ (d[1] = e[1] /\ d[2] > e[2])

\* The tables are those that are declared, each from its last declaration, and all
\* positions lead to the name they are the position of.
RightSchema(tables, disk, dir) ==
  LET all == Declarations(disk, dir)
      Stmt(d) == disk[d[1]].stmts[d[2]]
      Place(position) == <<position.path, position.stmt>>
  IN  /\ DOMAIN tables = {Stmt(d).name : d \in all}
      /\ \A name \in DOMAIN tables :
           LET t == tables[name]
               d == Place(t.position)
           IN  /\ d \in all /\ t.position.elt = 0 /\ Stmt(d).name = name
               /\ \A e \in all : Stmt(e).name = name => ~Later(e, d)
               /\ {<<c.name, Place(c.position), c.position.elt>> : c \in ToSet(t.columns)}
                    = {<<Stmt(d).elts[k], d, k>> :
                         k \in {j \in DOMAIN Stmt(d).elts : Stmt(d).elts[j] # ""}}
=============================================================================
