------------------------------ MODULE MCStartup ------------------------------
(* An instance of Startup for TLC: a workspace /w with the directories db and  *)
(* db/a, a sibling /wx of the workspace, and a directory that is made late.    *)
EXTENDS Startup

LexicalOrder == <<"a", "a.sql", "db", "late", "notes.md", "w", "wx", "x.sql", "z.SQL">>
SpellingOf ==
  [n \in {"a", "db", "late", "w", "a.sql", "notes.md", "x.sql", "z.SQL"} |-> <<n>>]
    @@ [wx |-> <<"w", "x">>]

W == <<"w">>
Db == <<"w", "db">>
ExistingDirs == {<<>>, W, <<"wx">>, Db, <<"w", "db", "a">>}
LateDirs == {<<"w", "late">>}
StartedIn == W

Create(schema, name, elts) ==
  [kind |-> "create", schema |-> schema, name |-> name, elts |-> elts]
Index == [kind |-> "index"]

Users == Create("", "users", <<"id", "", "name">>)
OtherUsers == Create("audit", "users", <<"at">>)

SomeContents ==
  {Absent, Broken, Holding(<<Users>>),
   Holding(<<OtherUsers, Index, Create("", "orders", <<"id">>)>>),
   Holding(<<Users, Users>>)}

Disk(contents) ==
  (<<"w", "db", "a", "z.SQL">> :> contents) @@ (<<"w", "db", "a.sql">> :> Holding(<<Users>>))
    @@ (<<"w", "late", "a.sql">> :> Absent) @@ (<<"w", "notes.md">> :> Broken)
    @@ (<<"wx", "x.sql">> :> Holding(<<OtherUsers>>))

FilesAtStart == Disk(Holding(<<OtherUsers>>))

(* The settings. *)
Rel(names) == <<[abs |-> FALSE, names |-> names]>>
At1(names) == <<[abs |-> TRUE, names |-> names]>>

Entry(name, arg) == [name |-> name, argIndex |-> arg]
ListsOfFunctions ==
  {<<>>, << <<>> >>, << <<Entry("Query", <<>>)>> >>,
   << <<Entry("Get", <<0>>), Entry("", <<1>>), Entry("Get", <<2>>), Entry("Q", <<-1>>)>> >>}

DefaultFunctions == [Query |-> 0, QueryContext |-> 1]

Source(state, dir, funcs) ==
  [state |-> state, settings |-> [schemaDir |-> dir, sqlFunctions |-> funcs]]
Nothing == Source("absent", <<>>, <<>>)

FileDirs ==
  {<<>>, Rel(<<"db">>), Rel(<<".">>), Rel(<<"late">>), Rel(<<"..", "wx">>),
   Rel(<<"db", "..", "..", "w", "db">>), At1(<<"wx">>)}

ConfigFiles ==
  {Nothing, Source("unreadable", <<>>, <<>>), Source("malformed", <<>>, <<>>)}
    \cup {Source("ok", dir, <<>>) : dir \in FileDirs}
    \cup {Source("ok", Rel(<<"db">>), funcs) : funcs \in ListsOfFunctions}

Options ==
  {Nothing, Source("malformed", <<>>, <<>>), Source("ok", At1(<<"wx">>), <<>>),
   Source("ok", Rel(<<"..", "wx">>), << <<Entry("Get", <<0>>)>> >>)}

\* No workspace, or /w, which the editor may write in another way.
Roots ==
  {<< <<>>, <<>>, <<>> >>, << <<>>, <<W>>, << <<"wx">> >> >>,
   << << <<"w", "db", ".", "..">> >>, <<>>, <<W>> >>}

AllRequests ==
  [roots : Roots, file : ConfigFiles, options : Options, flag : {<<>>, Rel(<<"db">>)}]
=============================================================================
