# pgls in TLA+

pgls is a language server for SQL: it loads the `CREATE TABLE` statements of a
schema directory, and completes, explains and checks SQL files and the SQL
strings of Go files against them. This directory holds TLA+ models of it, the
TLC configurations that check them, and proofs for TLAPS.

    tlc -config Publisher_serial.cfg MCPublisher.tla     # model-check a run
    tlapm PublisherProofs.tla                            # check the proofs of a module

`PROJECT.json` lists the components, the runs, the definitions with the source
lines they model, the hazards, the findings and the theorems.

## Inventory

| Component | Source | State | Operations | What makes it correct |
|---|---|---|---|---|
| Diagnostics publisher | `src/internal/lsp/server.go` 544-686 | `docs` under `docsMu`, `loadedSchema` under `schemaMu`, `publishMu`, `publishSeqs` | didOpen, didChange, didClose, republishAllDiagnostics, publishDiagnostics | the last edit and the last reload are published; lists never go back in time; a closed document shows nothing |
| Schema watcher and reload | `server.go` 414-542, `src/schema/load.go` | `loadedSchema`, `watcherStarted`, the debounce timer, fsnotify's queue | initialize's load, startSchemaWatcher, runWatcher, the timer's callback | once the directory is at rest the loaded schema is the one on disk |
| Document store and positions | `server.go` 559-601, `src/internal/posenc/posenc.go` | `docs` | incremental edits, UTF-16 and byte offsets | `docs` mirrors the editor's buffer; conversions round-trip and clamp |
| SQL context | `src/internal/sqlctx/sqlctx.go`, `symbols.go` | none | tokenize, Analyze, WalkSymbols | visible tables and aliases are those of SQL's scoping, up to the documented leakage |
| Linter | `src/internal/sqlctx/lint.go` | none | Lint | false negatives, "never false positives" (README.md:221-223) |
| Go embedding | `src/internal/goast/goast.go` | none | FindAllSQL, FindSQL | exactly the marked literals and the configured call arguments; an issue is shown where hover finds the same SQL |
| Schema parsing | `src/schema/schema.go`, `load.go` | none | Parse, Load | the last definition of a name wins, with its own positions; all files or nothing |
| Configuration | `server.go` 96-395, `src/main.go` | `cliDir`, `loadedSQLFuncs`, `loadedSchemaDir` | initialize, loadConfigFile, setSQLFunctions | precedence of the sources; .pgls.json does not lead outside the workspace; a mistake does not switch detection off |
| Completion, hover, definition, links | `server.go` 700-1182 | none, reads `docs` and the schema | one request each | answers from one document and one schema |

The handlers and the timer callbacks meet in the publisher: a handler writes
`docs` and publishes that document, a callback replaces `loadedSchema` and
publishes every open document, and `publishMu` is taken before `schemaMu`,
`docsMu` and `sqlFuncsMu`, each of which is released before the next is taken.
The watcher's goroutine feeds the callbacks through a timer that it stops and
sets anew on every event. The handler of initialize comes before all of this:
from the settings it takes the directory to load and to watch and the names of
the functions whose arguments are SQL. What is checked, and what a request looks
at, is a whole document or, in a Go file, the literals that goast finds in it.

The comment on `publishMu` (server.go:60-63) says that requests are dispatched
in goroutines of their own. That is decided by glsp and jsonrpc2, which are not
part of the repository. The set `Handlers` of module `Publisher` stands for
either: one handler is serial dispatch, more are concurrent dispatch. Timer
callbacks are concurrent with the handlers in both cases.

## Modules

### Diagnostics: what is promised

Documents, a schema and what the editor shows, nothing else. A list may be
computed from a superseded text or schema, but never from older ones than the
list it replaces (`Publish`), and only a closed document is cleared (`Clear`).

### Publisher: how server.go does it

One `pc` per goroutine; a step is what the code does in one critical section, or
between two accesses to shared state.

| Action | Code |
|---|---|
| `Initialize` | initialize's load, before any notification, 121-138 |
| `Send` | the editor's notification reaches a handler (external) |
| `DidOpen`, `DidChange`, `DidClose`, `Clear` | the handlers, 559-615; `DidClose` deletes the entry, `Clear` sends the empty list |
| `Reload(t, ok)`, `List`, `Return` | the callback: loadAndSetSchema, 414-431, with the assignment or with an error; republishAllDiagnostics, 544-557 |
| `Bump` | drawing a number from `publishSeqs`, 618-620 |
| `Drop`, `Enter` | taking `publishMu`, with the number outdated or not, 622-629 |
| `ReadSchema`, `ReadText`, `Notify` | the body of publishDiagnostics, 633-686, with its early returns |

The variables carry the code's names (`docs`, `schema` for `loadedSchema`,
`publishMu`, `publishSeqs`, `uri`, `uris`, `mySeq`, `s`, `text`); `editor`,
`closed`, `sends`, `reloads` and `shown` are the environment's. A text is the
number of writes of its document and a schema the number of installs, so that
the properties tell which ones a list was made from; the linter's result is left
out, except that files in the schema directory get an empty list (`Verdict`).
A whole load is one step here; its inside is module HotReload.

### HotReload: from the disk to the loaded schema

| Action | Code |
|---|---|
| `Edit`, `MkDir`, `Touch`, `Queue` | changes to the directory, to other files in it, and the kernel's event queue (external) |
| `ListDir`, `ReadFile`, `Install` | schema.Load's walk, load.go 11-44, and loadAndSetSchema, server.go 414-431; a file that is gone or does not parse fails the load |
| `Watch`, `StartWatcher` | startSchemaWatcher and addDirsRecursively, 466-499 |
| `SqlEvent`, `DirEvent`, `OtherEvent` | runWatcher's loop, 521-541 |
| `Fire` | the timer's goroutine, 514-517 |

Five constants choose what may go wrong: `Callbacks` (may two loads overlap),
`NewDirs` (may directories appear), `EarlyDirs` (may files change before their
directory is watched), `Others` (files whose events start no load and take a
place in the queue) and `MaxQueue` (when the kernel drops events). The callback's
republish is the callback of Publisher.

### Pgls: the server from the disk to the editor

Publisher and HotReload share one event, the end of a load. `LoadSucceeds` is
HotReload's `Install` together with Publisher's `Initialize` or `Reload`, and
`LoadFails` the failing `ReadFile` together with `Reload`; every other action is
one of either module with the variables of the other unchanged. A callback's
goroutine is HotReload's while it loads and Publisher's while it republishes, as
in the function given to time.AfterFunc (server.go:514-517); two names for one
goroutine allow the next callback to load while this one republishes. The
history variable `contents` says what was on disk for each number of a schema.

### Config, SchemaLoad and Startup: from the settings to the schema

`Config` is what initialize makes of its sources (server.go 96-395): which
workspace root counts, what of .pgls.json and initializationOptions survives
decoding, `SchemaDir` with the checks on paths, `SetSQLFunctions` with its
fallback. A path is the sequence of its names; where the code compares paths as
strings, `Written` gives the string, so that `/w` and `/wx` are told apart by
what `Inside` does and not by construction.

`SchemaLoad` is schema.Load as a function of the directory: the walk in lexical
order, `Parse` (schema.go) for each file, and the merge, later tables replacing
earlier ones. A position is a file, a statement and an element of it.
`RightSchema` is the reference: it says of a result that it holds exactly the
last declarations, without a merge.

`Startup` is the system around both: `Initialize` (server.go 121-138), `Edit` and
`MkDir` (external), `WatchNew` for the watcher's coming to a new directory,
`Reload` for the timer's callback. A change sets the timer only in a directory that
has a watch; the history variable `unseen` keeps the files that changed in others. A
load is one step here; HotReload takes it apart.

### Posenc: bytes and UTF-16 code units

A text is a sequence of runes, and a rune is its kind: all that counts is how
many bytes and code units it takes and whether it ends a line. `ByteToLSP` and
`LSPToByte` (posenc.go 10-81) are operators on such texts. They are checked
against a reference, `PositionAfter` and `RunesBefore`, which walks over the
runes the way the language server protocol defines a position. MCGoast
enumerates the texts.

### Goast: the SQL in a Go file

`Goast` is internal/goast on what go/parser yields: literals, groups of comments
and calls, at places of the text. `Marked` and `CallSQLPositions` say which
literals count, `FindAllSQL` and `FindSQL` take them out, `Blocks`, `SqlAt` and
`MakeDiagnostic` are how server.go uses them. Offsets are bytes of the file, and
a raw string loses its carriage returns on the way, as with Go up to 1.25, where
`BasicLit.End` counts the value without them.

`MCGoast` writes Go files line by line: blank lines, comments with and without
marker, assignments with a comment before or after the literal, calls, nested or
not, with literals of one and of two lines, empty, and with carriage returns.
Beside the file it keeps what the repository's README.md (185-197) says of each
literal, by its own rule: a flag `above` that the line directly above has a marker.
A second flag, `grouped`, is for what the code adds to that: the comments on lines
that follow each other are one group, and a marker in any of them counts.

### DocSync: the text the server works on

An editor with a buffer sends batches of edits; `DidOpen`, `DidChange` and
`DidClose` (server.go 559-606) keep the one document in `docs`.
`ApplyContentChange` (584-601) goes through the byte offsets of Posenc, the
editor through the meaning of positions, so that the two sides compute a text in
different ways.

### Sqlctx and Lookup: reading SQL without parsing it

`Sqlctx` is internal/sqlctx on token sequences. A token is its text; the lexer,
libpg_query or a regular expression, is external.

| Operator | Code |
|---|---|
| `ExtractTablesRange`, `ReadTableList`, `ReadCTEDefinitions`, `SkipBalancedParens` | the loops of the extractor, sqlctx.go 256-401, each as what it reads at one token and where it goes on |
| `Reads`, `ReadAt`, `Note` | the extractor as a whole: one function of the loop, the token and the end of its range, giving the sequence of tables, aliases and names that are read from there on; what tablesInfo holds after them |
| `ExtractTables`, `ExtractQueryStatementTables` | its two entries, 195-225 |
| `Lint`, `InQuery` | lint.go: the positions with an issue, in the statements that are looked at |
| `SymbolKind` | WalkSymbols, symbols.go: what a token is taken for |
| `DetermineState`, `Clause` | determineState, sqlctx.go 403-444: a fold over the tokens before the cursor |
| `QualifierAt` | IdentifierAt, 63-79 |

`Lookup` is what server.go makes of it: `DefinitionPosition` (979-1002),
`HoverMarkdown` (1062-1101), `SymbolTarget` and `DocumentLinks` (863-933),
`ScopedColumnItems` and `ContextItems` (729-822). Where the code ranges over a
map, the operator is the set of the possible answers.

`Scoping` is the reference: queries with WITH, subqueries in FROM and in
WHERE EXISTS, aliases, schema names, and CREATE VIEW and UPDATE statements, as
records. `Tokens` writes a text out, and with each token what PostgreSQL says of
it: whether it is wrong, what it refers to, and whether a table or a column
stands there. It resolves names in nested scopes, which Sqlctx does not do. What
the limitations in the repository's README.md (213-230) exempt is "free": names
that leak out of subqueries, columns of WITH queries and subqueries. So are names
that leak from one statement of a text into another, of which only TODO.md:70-72
speaks. `MCSqlctx` writes all the texts of a bounded size and compares.

## Runs

Passing:

- `publisher_serial`: one handler, two callbacks, two documents of which one is
  a schema file, 4 notifications, 2 reloads. Four notifications are enough to
  open, change, close and reopen a document, or to work on both; two callbacks
  and a handler are enough for one thread to hold `publishMu` while another
  waits and a third supersedes it. `NoLostUpdate`, `StaleNeverOverwrites`, the
  inductive invariant `IInv` and the refinement of `Diagnostics` hold.
- `publisher_concurrent`: two handlers and a callback on one document. Work
  superseded through `publishSeqs` is never the last; `StaleNeverOverwrites`
  needs no assumption about closing, `NoLostUpdate` needs that the document was
  never closed (see below).
- `hot_reload_one_load`: loads do not overlap, files change only in watched
  directories, a subdirectory appears, another file changes as often as it likes, and
  the queue of three events overflows. `NoLostReload` and `EventuallyLoaded` hold:
  dropped events do no harm as long as an event about a `.sql` file is still queued,
  which it is when the queue has room for more than what else may be in it (`Roomy`).
  The invariant `IInv` that the proof uses holds as well.
- `pgls`: one document, one schema file and a subdirectory that appears, two
  changes on disk and two notifications, two callbacks. `NothingLost`: an open
  document shows the list for its text and the files on disk, or is owed it, or a
  reload is to come. `UpToDateAtRest` is the same for a server at rest, and
  `EventuallyShown` that rest comes, under fairness, in each document with the
  last schema that could be loaded. Two changes let a load fail and the file be
  repaired, or the second load begin while the first callback republishes; two
  notifications let an edit or a didClose come in between.
- `startup`: every combination of no workspace or one, thirteen kinds of
  .pgls.json, four of initializationOptions and two of the flag, then up to two
  changes of files. The directories are a workspace `/w`, a sibling `/wx` whose
  name begins like it, two schema directories one in the other, and one that is
  made late and has a file; the paths go through `..` and back. These are 312
  settings. `FileStaysInside`, `EditorCannotOverride`, `OnlySchemaFilesExempt` and
  `DetectionAsAsked` are about the settings, `Current` and `NoTableLost` about the
  schema; `Current` needs a watch on every directory that was there at the start, and
  says nothing of a change in a later one that the watcher has not come to. Two changes are
  enough to break a file and repair it, or to declare a table again elsewhere.
- `goast`: all plain texts of up to four runes and all Go files of up to three
  lines made of the lines above. `RoundTrip`, `MeansLSP` and `Monotone` are about
  positions: four runes put a surrogate pair, a byte that is not UTF-8 or a line
  feed before, between and after others. `FindsWhatItSays`: the literals
  that README.md describes are checked, and of others only those below a group of
  comments of which one that is not the last is a marker. `ShownWhereFound`: where an issue is
  shown, hover and completion find the same place of the same SQL.
  `NothingOutside`: a cursor outside finds nothing. Three lines are a marker, a
  literal that may end a line further, and a literal below it.
- `docsync`: a buffer of up to three runes and up to two edits under way, in one
  batch or in two: `Mirror`. Two edits are what it takes for the second to refer
  to the result of the first; a range over a line feed takes three runes.
- `sqlctx`: all queries with up to two sources (the first may be a subquery, of
  one or two tables), a WITH, or a subquery in WHERE, over a schema with two
  tables that share a column, an unknown table and two aliases; and all pairs of
  flat statements, CREATE VIEW and UPDATE among them, with schema names and
  mistakes. As long as no name is bound to two things (`Distinct`), Lint flags
  nothing right (`Sound`) and all that is wrong (`Complete`); goto-definition and
  links lead to what a name refers to (`DefinitionRight`, `LinksRight`), and hover
  speaks of the same (`OneMeaning`, in any text); completion knows its clause
  (`ClauseRight`) and offers columns that PostgreSQL accepts (`OffersInScope`), and
  also in a text that is only half written aliases resolve (`AliasResolved`): each
  text is cut off after every token, the short queries also inside of one and of two
  more subqueries that are still open.

Violations, each a disagreement between the code and what it says of itself:

- `publisher_close_race`: a list already computed by a reload is sent after the
  one with which didClose clears the document; it stays (server.go:607).
- `hot_reload_overtaken`: of two overlapping loads the older one installs last
  (README.md:209).
- `hot_reload_new_dir`: a file in a new subdirectory is there before the watch
  (README.md:209).
- `sqlctx_shadowed`: an alias given twice, in the query and in its subquery,
  makes a valid column wrong (README.md:221-223, "never false positives").

The passing runs hold under conditions, and each condition has a reason. Where
it is not one of these runs, it is one of the following. Interleavings:

- Two handlers at once (`Orderly`): the empty list of didClose, sent without
  `publishMu` (server.go:608-613), can arrive after the list of a document that
  was reopened meanwhile.
- `EarlyDirs` with the root directory: initialize loads the schema before it
  watches it (server.go:134-135), and a change in between is in neither. No run has
  it.
- `Roomy`: a queue that is full of events about directories and files other than
  `.sql` files has no room for one about a `.sql` file. The kernel drops that, the
  error the watcher gets for it is only logged (server.go:551-556), and the change is
  not loaded, although README.md:209 says that it triggers a reload.

Settings:

- `EditorCannotOverride` starts from a .pgls.json that leads to a directory. One
  that does not parse, lacks the field, or is rejected lets the editor's
  initializationOptions decide (server.go:254-261), although README.md:79-84
  says that .pgls.json wins when both are present. A rejected schemaDir, and an
  invalid entry among valid ones, are only logged (server.go:278-288, 339-343).
- `Current` leaves out a directory that is made after the start: then the load and
  the watcher have failed, and since only initialize calls startSchemaWatcher
  (server.go:135) the retry its comment describes (463-465) never happens.
- With `/` as the workspace every schemaDir but `.` is rejected, for no path begins
  with `//` (server.go:285), and with `/` as the schema directory every document
  is checked (server.go:455). No property is violated; `Inside` says so.

Go files:

- A raw string that spans lines with carriage returns shows issues too early, by a
  byte for each one before them (goast.go:67-75). `ShownWhereFound` says that they
  stay within the literal, and that nothing drifts in any other.
- README.md:187-188 wants the marker comment on the line directly above the literal,
  as does the comment at goast.go:46-47. The code takes the group of comments that
  ends there (goast.go:156-168): with a plain comment between the marker and the
  literal, and no blank line, the literal is checked. `FindsWhatItSays` allows it.
- Of two groups of comments that end on one line only the last counts
  (goast.go:156-159): `/* language=sql */ x() // note` above a literal does not
  mark it. MCGoast writes at most one group to a line.
- A literal that is not closed yet, while it is being typed, loses its last
  character with the quote it does not have (goast.go:134-143). The literals of
  MCGoast are complete.

SQL:

- `Distinct` also excludes WITH names that are tables. In
  `WITH users AS (SELECT orders.total FROM orders) SELECT users.total FROM users`
  Lint checks `total` against the table users (lint.go:118), although
  README.md:215-220 says that WITH names do not false-flag.
- After a comma, Lint sees no FROM keyword: an unknown table in
  `FROM users, nope` is not flagged (lint.go:135, README.md:182), and the schema
  name in `FROM users, public.orders` is flagged (lint.go:73-86).
  `Complete` and `Sound` leave these out (`BehindComma`).
- In `FROM public.users`, goto-definition on `users` takes `public` for the
  qualifier of a column and finds nothing (sqlctx.go:73, server.go:980-990,
  README.md:175).
- After `WHERE EXISTS (SELECT a.id FROM users a) AND`, completion still is in the
  FROM clause of the subquery and offers tables (sqlctx.go:418, README.md:173).
- An alias of a CREATE VIEW is not Lint's, which extracts from queries alone, but
  it is completion's, hover's, goto-definition's and the links', which read all
  statements (sqlctx.go:174, symbols.go:32): before or after a query with the same
  alias it takes its place. Therefore `AllDistinct` for these.
- In `SELECT b.id FROM (SELECT a.id FROM users a`, with the parenthesis still
  open, the alias `a` is not resolved: the body is read up to the token before
  the last, which is no parenthesis here (sqlctx.go:288, README.md:174). In it the
  body of a further subquery again ends a token earlier: the alias needs as many
  tokens behind it as there are parentheses around it. `AliasResolved` says that it
  needs no more.

## Bounds

`MaxSends`, `MaxReloads`, `MaxEdits`, `MaxRunes`, `MaxLines` and `MaxStatements`
bound the environment's actions and are guards of those actions alone; nothing
the server does is bounded. The runs end when they are used up, which is why
deadlock is not checked: a server at rest waits for the editor. Handlers and
callbacks are interchangeable, so `publisher_serial` and `publisher_concurrent`
use symmetry over them; the runs with liveness properties do not.

In Pgls every callback is due to a change, so that `MaxReloads` is `MaxEdits`. Its
instance has one document and one file: Publisher's runs have two documents,
HotReload's two files, and what the composition adds, that the version on disk
travels with the schema's number, concerns each document by itself.

The texts of MCSqlctx have one level of nesting, two sources in FROM and at most
`MaxStatements` statements. The extractor's state that outlives a subquery or a
statement is the flat map alone, so one that comes before and one that comes
after is what it takes for a name to leak, to hide or to be hidden; of the two
aliases one can be distinct from, or the same as, the other. Nesting and several
statements are not combined. These texts are written, not reached by a system:
the one variable is the text. The same goes for MCGoast, and for what Startup does
before initialize: `Requests` are all of its initial states.

## Fairness

Weak fairness of what a goroutine does by itself: handling a request it was
given, publishing, loading, watching, and a set timer firing. The Go scheduler
runs every runnable goroutine. Nothing is assumed of the editor and the disk.
Taking `publishMu` is weakly fair too: in the bounded instance the other threads
finish, after which the mutex stays free until it is taken; without bounds one
would appeal to sync.Mutex handing itself to a waiter that starves. A document
that is edited for ever faster than a publish runs may never be shown fresh: the
code drops superseded work on purpose.

The liveness properties are `EventuallyLoaded` (HotReload) and `EventuallyShown`
(Pgls), which needs the fairness of both components.

## Proofs

`PublisherProofs` proves, for any sets of documents, handlers and callbacks and
any bounds, from the named assumptions of `Publisher` (schema files are
documents, handlers are not callbacks, the values for "none" are none of them):

- `Typed`: `TypeOK`;
- `Invariance`: the inductive invariant `IInv`;
- `LastUpdatePublished`: `NoLostUpdate`;
- `NeverOverwrittenByStale`: `StaleNeverOverwrites`;
- `Refinement`: with serial dispatch, `Spec` implements `Diagnostics`;

and the lemma `AlwaysTold` (`Told`: with serial dispatch `docs` has the documents
the editor has open, as soon as the handlers are idle).

`NoLostUpdate` alone is not inductive: a thread holding `publishMu` with an
outdated text could overwrite a fresh list. `Followed` says that such a thread is
always followed by one that owes the document a publish, and `Cleared` that a
clearing finds its document closed. The argument goes by three lemmas:
`StartStep` (a step that creates an obligation leaves a thread that meets it),
`OwedStep` (an obligation passes on from thread to thread until `Notify` settles
it) and `FreshStep` (a settled document stays so or is owed again). `Placed` and
`Aged` say where the locals and the lock stand and order the versions read,
shown and kept; `StaleNeverOverwrites` and the refinement follow from `Aged`.

`HotReloadProofs` proves, for any files, directories and number of changes:

- `Typed`: `TypeOK`, without further assumptions;
- `Invariance`, `NothingLost`, `UpToDateAtRest`: `IInv`, `NoLostReload` and
  `LoadedAtRest` under three assumptions on the constants: `EarlyDirs = {}`
  (files change only in directories that are watched), `OneLoad` (a load ends
  before the next callback starts) and `Roomy` (the event queue has room for more
  events than there are new directories and other files). Without the first or the second
  `LoadedAtRest` is false, as the runs `hot_reload_new_dir` and
  `hot_reload_overtaken` show. The queue may overflow however often.

`NoLostReload` is not inductive by itself: a load that has already read a file
which then changes will install outdated contents. `OnTrack` says when the walk
is still going to load the present content of a file, and `Corrected` that a
load off track has been requested again. `LoadingStep` is the heart of the
proof: listing a directory or reading a file keeps a load on track, whatever
was listed before. `EditRequests` says that every change is requested, also when
the queue is full: by `Queued` a directory or another file is queued once, and by the
pigeonhole principle (`FullRequests`) a full queue then holds an event about a `.sql` file,
which is as good as the one that is dropped. `RequestStays` says that a request
stands until a load begins.

`PglsProofs` proves, for the composition:

- `IsPublisher`, `IsHotReload`: the composition implements both of its components;
- `EndToEnd`: `NothingLost`, under the assumptions of HotReload's theorems
  (`EarlyDirs = {}`, `OneLoad`, `Roomy`);
- `AtRestUpToDate`: `UpToDateAtRest`, with serial dispatch in addition. It is about the
  documents the editor has open, which then are those in `docs`; a closed one may still
  show a list, as the run `publisher_close_race` finds.

Nothing is proved twice: as every step of Pgls is a step of a component or leaves
its variables alone, Pgls has the invariants of both. What ties the two
together is `Linked`, that `contents` has an entry for every schema installed and
that the last one is what is loaded. `ShowsOrOwes` then is the argument: when no
reload is to come, what is loaded is on disk, so that a list that is fresh for
the last schema is fresh for the disk, and one that is not is owed. `NothingLeft`
removes what is owed or to come when nothing runs.

`FoldFacts` is about data. The operators on texts, paths, lists and statements are
folds, and the provers take no induction over them; but the statement that a set of
numbers which holds 0, and with a number the next one, holds all numbers, is within
their reach (`NatSet`, from the well-foundedness of the numbers), and so is the same
for sequences made by appending (`SeqSet`). `FoldFacts` takes FoldLeft apart into
the recursive function it is defined by, shows that the function exists and is unique
(`Computed`, `Agree`), and concludes what a fold of no element, of one more, of a
concatenation and of typed elements is. It is a module with the operator as a
constant; the others instantiate it with theirs. A lemma about all texts then is
one about a set of texts that holds the empty one, and with a text every longer one.

`StartupProofs` proves, for any settings, directories, files and number of changes:

- `TypeCorrect`: `TypeOK`;
- `FileDecides`, `FileLeadsInside`: `EditorCannotOverride`, `FileStaysInside`;
- `OnlySchemaFilesAreExempt`: `OnlySchemaFilesExempt`;
- `FunctionsAsAsked`: `DetectionAsAsked`;
- `SchemaCurrent`, `NoTableIsLost`: `Current`, `NoTableLost`.

The assumptions are about the world: the settings have their fields
(`RequestsAssumption`), a name has at least a character, none of which is a slash, and
no two names are spelled alike (`SpellingAssumption`), the names are ordered
(`OrderAssumption`), there are finitely many files, and what is a file has nothing
below it (`DiskAssumption`), which is also what makes the order of the walk total.
Four invariants carry the proofs. `Detects`: the SQL functions and the toasts are those
of the request. `Led`: only the directory of `SchemaDir` is loaded or watched. `DiskOK`:
the files stay files. `Fresh`: without a timer set, with files that parse, and with no
change in a late directory that went unseen, the schema is the right one, and a
directory that was there is watched, with those below it.
`Current` is not inductive without it, because a load that fails leaves a schema that
is right only for an earlier disk: `FreshStep` shows that a change that could make it
right or wrong sets the timer or goes unseen, and `EditElsewhere` that no other change
matters. Three
groups of lemmas are about operators. `InsideMeans`: a path is inside another as a
string exactly if it is inside as a sequence of names, the root of the file system
apart; `FirstName` is why, as a slash follows every name and is in none.
`ConfiguredSays`: the set of functions has the last valid entry of each name.
`LoadRight`: the walk visits every file once and in order (`SortedExists`,
`SortedOnto`), the fold of `Merge` keeps the last of each name (`FoldMerges`), and
`ColumnsAre` says the same of columns, so that what `Load` yields satisfies
`RightSchema`, which knows nothing of walks and merges.

`TextProofs` begins with the two conversions of posenc, on texts of any length. `At`,
`LineAt` and `CharAt` are the offset, line and character of a place between two
runes, and each grows, or starts again, rune by rune (`AtGrows`, `LineGrows`,
`CharGrows`). `ByteToLSPIs` and `LSPToByteIs` say that the operators go to
such places; the scan along a line stops at the first place where it may (`ScanIs`),
which is what LSP means (`ScanMeans`), comes back to where a position came from
(`ScanReturns`), and is monotone in the position (`ScanMonotone`).

Of posenc and goast it concludes, for the texts and the Go files that MCGoast can write,
without bound on their length:

- `OffsetsRoundTrip`, `PositionsMeanLSP`, `PositionsKeepOrder`: `RoundTrip`, `MeansLSP`
  and `Monotone`, from `FileOK` (what is written are runes, literals, groups of comments
  and calls);
- `ShownThere`: `ShownWhereFound`;
- `FindsThem`, `NothingFoundOutside`: `FindsWhatItSays` and `NothingOutside`, for any
  SQL functions with an index (`FuncsAssumption`).

None of the last three is inductive. `ShownThere` needs `Placed`: the literals of the
file are between quotes, come one after the other and have carriage returns only if
they are raw. What is written at the end leaves them there (`QuotesStay`, `LitsStay`), a
literal at the end is such a one (`PutLitPlaced`), and `LiteralSpans` then says where the
bytes of a literal begin and end, that go/ast counts them without carriage returns
(`StripIs`, `StripConcat`, `LiteralIs`), and that no two literals share a place
(`FoundAt`, `StartsApart`). `FindsThem` needs `Tells`, which says by which way a literal
is SQL. Until there is a call, the lines of the literals (`LitLines`) and those that
comments end on (`Marks`) say of each literal what is said of it (`Told`, `Follows`);
a new comment counts for the line below it and takes nothing back (`MarkAdded`,
`MarkBelow`), one that goes on a group takes the place of the group (`ToldJoined`), and no
comment is above a line that is yet to come (`FarBelow`). That the code finds no more
than a marker's group allows is the same with the wider flag (`Narrower`). A call has its literal in the
slot of its function, or another one, and the call around it has none (`NameIs`,
`SlotIs`, `CallSlots`); what else is said of its literals is the marker above their
line (`SaidIs`). The call is the last line, so that `Called` says no more than that the
literals are the ones that are found. `NothingFoundOutside` follows from the
same invariant and `OutsideIs`: where something is found, the cursor is in a literal or
right before or after its quotes.

Of DocSync it proves `BufferMirrored`: `Mirror`, for texts, insertions (any texts, by
`InsertsAssumption`), batches and queues of any length. `ApplyMeans` is the heart:
cutting the text at byte offsets (`CutIs`) is what an edit means, if its range is a
legal one. `Mirror` says nothing of the edits in a batch being legal where they will
be applied, and is not inductive. `InStep` says it of every message under way, in the
text that the ones before it leave (`LegalAll`, `Sound`), and that this leads to the
editor's buffer; `BatchApplies` goes through a batch and `InboxType` through the queue.

`ScopingProofs` and `SqlctxProofs` prove, for any schema, any names, aliases and schema
names, and any number of statements in a text:

- `DocTyping`: the statements are those of the grammar (`DocType`);
- `Soundness`, `Completeness`: `Sound` and `Complete`, what Lint reports;
- `Definitions`, `Links`, `Agreement`: `DefinitionRight`, `LinksRight`, `OneMeaning`;
- `ClauseKnown`, `Offers`: `ClauseRight` and `OffersInScope`, what completion offers;

from two assumptions on the constants: names are no keywords (`NamesAssumption`), and a
schema name is the name of nothing else (`SchemasAssumption`). In the model nothing
recurs but functions: the extractor is one function of the places of a text, and a
place is nearer to the end than the one it is read from (`Ahead`, `Nearer`), which is what
makes the function exist and have a type (`ReadsType`).

The argument connects a grammar that nests with a reader that does not. A *piece* is a
part of a text such that, wherever it stands between two places of the right kind (`Left`,
`Right`), each of its tokens has a role told by the few tokens around it (`Role`), and the
extractor reads what the piece says and goes on after it (`Reading`). Two pieces that fit
are one (`PieceJoin`); tables (`TableFits`), references (`RefPiece`), flat queries
(`FlatPiece`), subqueries (`SubPiece`), WITH (`WithPiece`), WHERE and with them all queries
(`QueryPiece`) and updates are pieces, and a view reads like the query in it (`ViewAt`).
Parentheses around a piece are a pair that the extractor skips or enters (`PairedIs`,
`ParensAt`). `Layout` puts statements one after the other; by induction over them the
extractor reads from each what the rest of the text says (`FromStatement`), and what Lint
extracts is what the queries say (`QueryReadsAre`). `Noted` says what tablesInfo holds after
any sequence of reads: its aliases are bound by them, its virtual names introduced, its
tables named; and what is bound by what is read of a statement is what the statement
binds (`BoundStatement`), the right hand of `Distinct`. After that each property is about one
token and its role: `RoleJudged` for Lint, `RoleFound` for goto-definition, `RoleLinked` for
links. That two links do not overlap needs none of this (`LinksApart`), nor does
`Agreement`, which goes by the definitions alone; `Offers` adds that a flat query's scope is
what its sources are called (`QualifierInScope`).

Only model-checked:

- the liveness properties, which the proof system cannot treat;
- `AliasResolved`: it is about texts that are cut off anywhere. The proofs about texts go
  by the statements they are made of, and a text that ends within a statement is made of
  none.

## Not modelled

- Of Go: the parser, the wording of markers (`language=sql` in any case), escapes
  in interpreted strings, whose value the code takes as written, and files with
  a byte order mark or `//line` directives.
- Of CREATE TABLE: the types of columns and their layout; statements that the
  parser of libpg_query finds are given.
- Of the configuration: JSON, percent-decoding of file URIs, Windows paths and
  symbolic links; a source with an unknown field or a value of the wrong type is
  "malformed" like one that is no JSON.
- Of SQL: the lexer with its quoting and letter case, the keywords beyond those
  of the language in Scoping (the sets in Sqlctx hold the ones that matter for
  it), unqualified columns, joins with ON, column lists of WITH, GROUP BY and
  the like; of the keywords of determineState (sqlctx.go:419-433) HAVING, ON, USING,
  RETURNING, GROUP, ORDER, BY, TRUNCATE, LIMIT and OFFSET. WITH queries in one another and subqueries of subqueries nest by the
  same recursion, but are not in the texts that are checked.
- Positions inside a surrogate pair, which LSP leaves undefined (`Monotone`
  covers them, the other properties do not), and ranges whose end is before their start, which no editor
  sends.
- Carriage returns in the texts of Posenc and DocSync. At the end of a line `\r\n`,
  LSPToByte clamps a place past the end to the `\n`, behind the `\r` where LSP's line
  has ended; `MeansLSP` does not see that.
- Notifications handled out of order in DocSync: glsp and jsonrpc2 decide
  whether that can happen. If it did, edits would be applied to the wrong text.
- Removed and renamed subdirectories, symbolic links, and files that are
  replaced while the kernel reads them.
- The handlers of completion, hover, definition and links around the lookup:
  they read the text and the schema at two moments and change no state; the
  wording and layout of what they answer.
- `showError`, logging and the JSON-RPC layer.

## Plan

Done, in this order: Diagnostics, Publisher and HotReload with their proofs,
Posenc, DocSync, Sqlctx and Lookup with their reference Scoping; then Pgls with
its proofs, Config, SchemaLoad and Startup, Goast; then FoldFacts and the proofs about
Startup, Posenc, DocSync and Goast; then those about Scoping, Sqlctx and Lookup. What is
left:

1. Requests that read the text, the schema and the functions at three moments,
   in Pgls.
2. Removed and renamed directories in HotReload.
3. Queries nested in one of several statements, in MCSqlctx.
