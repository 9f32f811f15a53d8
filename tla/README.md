# A verification project for luabox

luabox is a static toolchain for Lua: a type checker, linter, formatter,
bundler and cross-dialect lowering compiler behind one command line, and a
language server over the same analyses. This directory holds TLA+ models of the
parts of it whose correctness depends on the order in which things happen, and
of the algorithms whose correctness depends on more cases than a test tries;
the TLC configurations that check them on small instances; and the TLAPS proofs
that carry the most important results to every instance.

## 1. The system

### 1.1 Components

| Component | Code | State it keeps | Operations |
|---|---|---|---|
| Virtual file system and analysis host | `crates/luabox-db/src/{vfs,host,db,query}.rs` | interned paths, disk and overlay text, dialects, salsa inputs, a change counter | `Change::{SetFileText, SetOverlay, ClearOverlay, SetDialect, SetStrictness}`, `set_root`, `snapshot`, tracked queries |
| Language server session | `crates/luabox-lsp/src/server.rs` (`run`, `main_loop`, create windows, shutdown handshake) | the pending queue, progress sequence, `create_unanswered`, `shutting_down` | initialise, open a create window, drain, handle a message, shutdown, exit |
| Published diagnostics | `server.rs` (`ForeignLedger`, `publish_recorded`) | own, workspace and contributed groups per path; the client's panels | `record`, `published_set`, publish |
| Language server documents | `server.rs` (didOpen, didChange, didClose, watched files, reload) | `open_docs`, the ambient and cycle caches, the configuration | text synchronisation, watched-file batches, configuration reload, republish |
| Editor features | `crates/luabox-lsp/src/{hover,completion,rename,...}.rs` | none (pure functions of a snapshot) | one handler per request |
| Watch mode | `crates/luabox-cli/src/watch.rs` | an armed notifier, an event channel | debounce, filter, rerun |
| Atomic file rewriting | `crates/luabox-cli/src/atomic_write.rs`, `fmt_cmd.rs`, `lint_cmd.rs` | a target file, a sibling temporary | create, write, sync, copy permissions, rename, clean up |
| Self upgrade | `crates/luabox-cli/src/upgrade_cmd.rs` | the installed binary, a staging directory | resolve, download, verify, extract, replace |
| Bundler | `crates/luabox-bundle/src/{lib,resolve}.rs` | a work stack, modules by path and by require string | discover, resolve, rewrite, emit; the runtime `__luabox_require` |
| Build pipeline | `crates/luabox-cli/src/{build_cmd,modes}.rs` | the output tree | gate on check, lower, emit, package |
| Check and lint drivers | `crates/luabox-cli/src/{check_cmd,lint_cmd,emit,project}.rs` | findings, verdict | collect, analyse, render, exit status |
| Class hierarchy | `crates/luabox-types/src/{class_graph,env}.rs` | declared parents, merged class surfaces | declare, cycle report, merge |
| Type inference and assignability | `crates/luabox-types/src/{infer,assign,generics,...}.rs` | none (pure) | infer, check |
| Syntax, HIR, lowering | `crates/luabox-{syntax,hir,lower}` | none (pure) | lex, parse, resolve gotos, restructure |
| Lint rules | `crates/luabox-lint` | none (pure) | rules, levels, suppressions |
| Manifest and layout | `crates/luabox-manifest` | none | parse, discover, collect |
| Diagnostics rendering | `crates/luabox-diag` | none | index, render |
| Operations scripts | `scripts/` | release artefacts, runner caches | install, sweep, gates |

### 1.2 How the components interact

There are three ways into the analyses. The **command line** is sequential:
one process walks the project (`luabox-manifest`), parses and checks every file
(`luabox-syntax`, `luabox-hir`, `luabox-types`, `luabox-lint`), renders
(`luabox-diag`) and exits. **Watch mode** wraps a command in a loop fed by the
operating system's file notifications, on another thread, through a channel.
The **language server** keeps the same analyses alive in one process: its one
thread reads client messages from an ordered channel, writes each edit into the
analysis host as a `Change`, takes a snapshot, and publishes what the passes
over the snapshot found. It keeps three kinds of derived state, and each is a
way to go stale: the salsa inputs, which mirror the virtual file system; the
caches of the merged ambient layer and of the class cycles, keyed on the host's
change counter; and the ledger of what every document's panel should show, of
which the client holds a copy.

### 1.3 What is hard

* **Ordering.** While the server waits for the answer to a progress-token
  create it reads the transport ahead of its own loop, in up to three places,
  and a shutdown or an exit may be among what it reads. Passes over different
  files publish into one document in any order.
* **Staleness.** Editor text, disk text and configuration move independently;
  watched-file events arrive late, in batches, and are resolved by reading a
  disk that has moved on. Caches are keyed on a counter that sees some of this.
* **Late and lost messages.** Answers after their timeout, clients that answer
  nothing, that vanish, that say `shutdown` twice; watchers that overflow.
* **Feedback.** A watched command reads, and a formatter rewrites, the very
  files whose events rerun it.

### 1.4 What makes each component correct

* Host: inputs equal what the virtual file system says; equal revisions mean
  equal inputs, and a moved revision means a changed input; an overlay shadows
  the disk.
* Session: every message is taken up once and in order; reports go out under
  accepted tokens only; every token begun is ended; a client that leaves is
  left alone, and its session ends as it said it should; no request hangs.
* Published diagnostics: every panel is what the ledger holds; what an editor
  shows is a function of the last pass over each file and of nothing else.
* Documents: no cache is served stale; an open document is what the client
  typed, a closed one what the disk holds; after a reload or a batch the open
  documents have been checked against the world as it is.
* Watch mode: a watcher at rest has reported on the tree as it stands, and it
  comes to rest.
* Atomic rewriting: whoever opens a source finds a whole text, which is one the
  user saved or the new form of one; mode and link survive; nothing is left
  behind that no crash explains.
* Upgrade, scaffolding, builds: what is installed was listed by its own tag's
  checksums; nothing the user wrote is lost; a build that succeeds has
  refreshed everything.
* Every command: its exit status says what it found and did, whoever stops
  reading it.
* Bundler: the bundle holds what the entry reaches, once, and runs as the files
  do under Lua's own `require`.
* Parser: no text makes it panic, and its tree is the text.
* Parser, lowering, minifier, rename: the program that comes out is the program
  that went in, by Lua's own rules.
* Types: what a class inherits does not depend on how its ancestry is walked,
  assignability is the coinductive relation, and a published type covers what
  a run finds there.

## 2. The plan

Order is by how much of the system rests on the component, and by how little a
unit test sees of it. All of these exist; what could come next is the last row.

| | Module | Models | Abstract specification | Run | Proof |
|---|---|---|---|---|---|
| 1 | `AnalysisHost` | vfs.rs, host.rs | `VersionedInputs` | `server_state` | typing, mirror, cache key, refinement |
| 2 | `LspSession` | the session | | `lsp_session` | six safety theorems |
| 3 | `ForeignLedger` | the ledger and the panels | `CrossFilePanels` | `server_state` | typing, panels current, refinement |
| 4 | `LspDocuments`, `RangedEdits` | documents, disk, configuration; the host's changes composed with the server's caches; edits of parts of a text | the client's text | `server_state` | typing and six safety theorems |
| | `ServerState` | the parts of rows 1, 3 and 4, side by side | | `server_state` | what is proved of rows 1 and 3, for the server's constants |
| 5 | `WatchLoop` | watch mode over a command | | `watch_loop` | typing, current and tidy at rest |
| 6 | `AtomicWrite` | `write_atomic`, several writers of one source | `AtomicText` | `atomic_write` | typing, privacy, wholeness, mode, clean-up, refinement |
| 7 | `SelfUpgrade`, `Scaffold`, `BuildOutputs`, `CommandVerdict`, `ClassCycles` | upgrade_cmd.rs, init and new, the output tree, exit statuses, the search for cyclic classes | reachability | `commands` | through the composition |
| 8 | `CommandLine` | the five of row 7, side by side | | `commands` | typing and seven safety theorems |
| 9 | `Bundler` | discovery and the run of a bundle | `LuaRequire` | `commands` | typing, exactness, refinement |
| 10 | `NameResolution`, `Minify`, `References` | scopes, `--minify`, rename | Lua's scopes | `algorithms` | |
| 11 | `Parser`, `Parsing` | the parser, and the parser at work on a text | `LuaGrammar`; the text | `algorithms` | never panics, the tree is the text |
| 12 | `Lowering` | gotos and `<close>` for older targets | `LuaText` | `algorithms` | |
| 13 | `ClassShape`, `ClassMerge` | what a class is and inherits | paths of declarations | `algorithms` | |
| 14 | `Assignability`, `FlowTypes` | the type relation, the flow of types | coinduction; runs | `algorithms` | |
| 15 | next: table shapes, generic unification, the lexer, source maps, and `LspSession` driving `LspDocuments` through its windows | | | | |

Modules to be proved about hold no RECURSIVE operator; constants carry named
assumptions; a module's theorems live in `<Module>_proofs`, those of
`CommandLine` and `Bundler` together in `Commands_proofs`, those of `ServerState`
in `LspDocuments_proofs`.

## 3. The modules

Every module cites the code next to each action; `PROJECT.json` maps every
definition to its lines. `MC<Module>` extends a module for TLC. A definition
whose comment begins with "Mutant" is not part of the specification: it is what
a definition would be after a plausible bug, and each checked property is
shown to fail when its mutant takes the definition's place.

### 3.1 AnalysisHost and VersionedInputs

`interned`, `disk`, `overlay` and `dialect` are the `Vfs`; `inputs`, `files`,
`strictness` and `root` the salsa inputs the host writes; `revision` its change
counter; `held` a snapshot some consumer derived a value from. One action per
`Change`, `SetRoot` and `Snapshot`. `SyncFile` is `sync_file` with the bump of
`apply_change`: the input is compared field by field and the counter moves when
one differs, or when the path is new. The four `Change`s on a path go through
`Edit`, as they go through `intern`, a setter and `sync_file` in the code.

`VersionedInputs` is what a cache needs to know: a world, a counter that moves
with every write, and snapshots. The refinement maps the world to everything a
query can read (`World`).

Run `server_state`, in the behaviours that are about the host alone: two paths,
two texts (one of them empty, which a file with no text reads as), two dialects,
two levels, two roots; `MaxRevision` 4 bounds
the writes. Four writes suffice for the cases that differ: interning two paths
in either order, text under an overlay, and an overlay dropped over changed
text. The guard of the bound also stops the changes that would write nothing
once it is reached.

### 3.2 LspSession

The transport is a log: `sent` never changes but at its end, `next` is the
first message still on the wire, and `pending`, the server's queue, holds
positions in the log; `done` is the last message taken up. `mode` is where the
server's thread is: `announce`, about to ask for a token; `window`, waiting in
`await_progress_create`; `work`, in the job itself; `register`, between
`Server::new` and `bootstrap`; `loop`; `handshake`; `stopped`. `token`, `seq`,
`createUnanswered` and `shuttingDown` are the server's fields. Two variables
are the client's: `asked` and `verdict`, which requests it owes an answer and
what it answered. `progress` is what was reported under each token.

Abstracted: all requests but `shutdown` are one kind, `query`, because
`handle_request` answers each of them or fails the session; the notifications
that reload the configuration are the kind `reload`, with the republish that
may meet a closed transport at its end; notifications that only change
documents are in `LspDocuments`. The client has advertised work-done progress
(one that has not opens no window at all, and is what `AnnounceSilently` gives).
The initialize handshake is over when the model starts.

Both waits end in a timeout the model allows at any moment; the second one only
when nothing is left to read, as its channel is read first. The client may
answer a create at any time, its own shutdown behind it or not, as LSP lets it.

How a session ends is one property over all of that, `EndsAsTheClientSaid`: the
ending is a function of the order in which the client said things, whichever
windows its words landed in. An answer that comes behind a shutdown is among
the things it may have said, and the server calls it a protocol error and exits
with status 1. What the changelog says of a shutdown sent into a create window
is therefore not so (`LeavesAWindowCleanly`, run `lsp_session_late_answer`).

Run `lsp_session`: four messages, under `FairSpec`. Four are enough for a reload
and a shutdown within its window, a refusal that arrives behind a second
create, and an exit behind a shutdown that a window has drained; the proofs
take any number.

Fairness: `WF_vars(Server)`. The server is one thread that blocks only on
receives with a deadline, or in the loop on an empty channel when there is
nothing to do; its scheduling by the operating system is all that is assumed.
Nothing is assumed of the client.

### 3.3 ForeignLedger and CrossFilePanels

`own`, `contributions` and `workspace` are the ledger's maps, pruned as the
code prunes them; `shown` is what the client shows under each URI. A pass over
a file yields any findings of its own, any findings in other files and any
answer for the workspace (`Answers`); `PublishRecorded` is `record` followed by
the publishes of every path it returned, each with `published_set` and under
the URI `publish_recorded` picks. `Skipped` is `WorkspaceScan::Skipped`: no
path that reaches `publish_lua` today is unknown to the host, and the arm is
modelled as the code keeps it. `CloseScratch` is the close of a buffer with
nothing on disk, the one publish that is not a pass; which documents are open is
in `LspDocuments`, the ledger does not ask.

Findings are tagged with the pass they come from, so two contributors with the
same finding show it twice, as the code's vectors do; their order is not
modelled.

`CrossFilePanels` refreshes every panel on every pass. That the ledger, which
republishes only what it believes moved, implements it is the property that the
four failures of its doc comment violate.

Run `server_state`, in the behaviours that are about the ledger alone: three
files (two contributors and a target is the least
case of "last writer won"), one finding, workspace answers that are empty or
name two files. The client spells a document's URI as
the server does; one that writes `file:///c%3A/...` keeps a stale panel under
its own spelling when another file's pass moves the document, which the
constant `ClientUri` can express.

### 3.4 LspDocuments

The environment: `fs` and `manifest` on disk, the client's `buffer`s, and
`events`, the watched-file changes it has seen and not reported. The server is
one record, because a handler makes several changes in a row, and the handlers
are functions on it: `SetFileText`, `SetOverlay`, `ClearOverlay`, `SetDialects`
and `SetStrictness` are `AnalysisHost`'s changes with its counter;
`MergedAmbient` and `CyclePass` the two caches; `PublishLua` a pass, which
records in `checked` the view it saw and in `slot` the workspace it derived
cycles from. Every message is one step, except `didChangeWatchedFiles`, which
takes a step per event because it reads the disk for each and the disk may move
in between; `before` is the view the batch started from, for `OpenDocsRechecked`.

A deleted file keeps its place in the host with an empty text. `edited` marks
files the client edited without opening them, for which neither the disk nor
the client can be said to be right (#83).

Run `server_state`: two files, two texts, manifests one setting apart from the
first (dialect, strictness, definition packages), four moves by the client, the
disk and whoever edits `luabox.toml` together; reading and reporting are free.
Four moves are enough for each of the defects that the comments of the code
recall, and the mutants reproduce them. Every file is the project's: the
watcher's batches index a file that `ProjectSources` excludes, a known limit. The
two files are symmetric, of the host and of the documents. A behaviour of
`MCServerState` (an instance of `ServerState`, which puts the parts side by side)
is about one part of the server's state, the documents, one
text, the host or the ledger: they share no variable there, and the rest stays where
it starts.

A `didChange` there takes the client's text for the server's. `RangedEdits` says
why it may, for the text of one document. The client edits what lies between
two cuts and sends it as positions in lines and UTF-16 units (`Edit`), or
replaces everything (`Replace`); `DidChange` brings any first few of the changes
on their way, and `ApplyContentChanges` maps each through a fresh `LineIndex`
(`Offset`) to bytes. A character is told by its widths in bytes and units, and a
position may run past the end of its line or of the text. `EditsArrive`: when
none is on its way, both hold one text, and the positions the server derives
from byte offsets (`Position`) are the client's. `LspDocuments` takes the
module as an instance; the behaviours about one text have texts of up to four
characters and line endings, with two edits of any parts, which is enough for the second to be in the coordinates the first
left, on another line, and past characters of several widths.

Assumed: the client's watcher sees every change from the start; `didSave` does
nothing; the lint configuration and the known globals are not cached beyond a
reload and follow the configuration.

### 3.5 WatchLoop

`disk` holds for each input the edit it dates from and its state: `tidy`,
`untidy` or `unreadable`. `channel` is the notifier's channel, an event being
the set of its paths; `raw` the batch being collected. A run reads its inputs in
any order (check reads them in parallel), stops at one it cannot read, and with
`Formats` rewrites an untidy one before it reads the next, by one rename: the
event names the temporary and the target. The manifest is one of the `Sources`.
`out_dir` is fixed when the watch starts, as in the code.

Fairness: `WF_vars(Loop)`, the loop's thread runs, and `WF_vars(WindowCloses)`,
the deadline of an open window passes. The second is more than the first: a
window whose deadline slid with each event would be kept open by `NextEvent`
for ever, and `WindowsClose`, a part of `LoopSettles`, is what the code's fixed
deadline earns. No fairness is given to the user or to other programs.

Run `watch_loop`: two sources, a formatter, two edits and at most two noise
events waiting; two edits is the least for one to fall inside the run the other
caused. The constants `DepDefs` (inputs no event names, a dependency's
definitions) and `Overflows` (a notice without a path, which the loop takes for
an empty batch) stand for two known limits; the run leaves both out.

### 3.6 AtomicWrite and AtomicText

`dir` is the directory as processes see it, `journal` what the disk holds of
it, `file` the inodes; a `job` is a worker's call of `write_atomic`, from its
read to its rename or its clean-up, a `run` a process with its id and its
`TEMP_SEQUENCE`. Every call may fail (`Fails`, and the second failure in
`Clean`), a process may be killed between any two calls, and `PowerLoss` leaves
what was synced and journalled. Process ids are used again, which is why the
staged name is created with truncation and why a temporary may be found there.

`AtomicText` is the promise of the module's header: a register whose contents
are whole texts, replaced in one step, and which a crash may set back to a text
it has held. The refinement reads the source through the directory.

Run `atomic_write`: a run of lint --fix whose two workers are handed the source
and a symbolic link to it; three inodes, one process id, two temporaries, one
save or deletion by the user, one loss of power. Two workers and one user are
the least for a write that lands between another's read and rename; inodes are
symmetric.

### 3.7 The commands: CommandLine and its parts

* `SelfUpgrade`: processes that resolve a tag, download the archive and
  SHA256SUMS, compare, extract and rename over the binary, from a server that
  may upload a release anew between the downloads and a network that delivers
  anything.
* `Scaffold`: init and new, one action per file, each write whole, torn or
  failed, and a look at a file a step of its own before its write; at any
  moment the user makes the directory, writes and removes files of the same
  names. `there` holds, for each command, the user's files it began among, less
  those the user has touched since.
* `BuildOutputs`: the check gate and the artifacts of the plain, tree and love
  modes, run after run, with kills and half-written files. A build of mode love
  takes the first archiver there is (`ZipTools`): `zip -r`, which updates the
  archive that is there, or python, which writes it anew. The run `commands`
  has both, from one build to the next; the run `love_archive` has zip, and
  shows that a file the project has lost stays in the archive.
* `CommandVerdict`: a command is the straight line of its fallible calls, its
  effects and its writes, transcribed from its source (`Program`); `emit` turns
  a closed pipe into an exit with the status recorded so far.
* `ClassCycles`: the depth-first search for cyclic ancestry that check begins
  with, a step per turn of its loop, on frames of its own in place of recursion.
  A frame holds the parents it has visited: `next_parent` counts them in a list
  without repeats, whose order `Parent` takes from the declarations. The
  reference is reachability, `Ancestors`, a least set.

### 3.8 Bundler and LuaRequire

The first part is the discovery worklist, one action per branch of the walk of
a require, with the modules in the order they are found and the names the
calls are rewritten to; the second is the bundle's run under the shim it
carries. `LuaRequire` is Lua's own `require` over `package.loaded`, and the run
of a bundle refines it for programs that give each file one name (with two, Lua
loads a file twice and the bundle, by design, once).

A program (`Programs`) gives each file what `load_module` takes from it: its
literal requires in source order, whether it has a dynamic one, and for the run
whether it publishes its table early and what it returns. `pending` is the
worklist, `active` the module whose edges are being walked, `modules` and
`rewrites` the result. `Emit` is the end of discovery, and the runtime's steps
are those of `LuaRequire` but for the calls that were rewritten.

`MCCommands` extends the bundler and the composition, and picks one `subject`
per behaviour: they share no state. Run `commands`: two processes, two tags, two
builds of a release and two uploads; two entry points, two assets and three
moves of the user; eight commands; four declarations of up to four classes, of
which one may be declared twice, name a parent twice over, itself or none;
bundles of three files with up to two requires each, over four names
that lead to a file and two that do not. Two upgrades, two entries and three
files are the least with an interleaving, a success beside a failure, and a
cycle that does not hold the entry.

### 3.9 The algorithms

A behaviour of `MCAlgorithms` picks a subject and the outline of an input,
completes it, and an invariant compares the code's answer with what it stands
for. The inputs are the cross product of small parts chosen for one subject
each; they are listed, with comments, in the module.

* `NameResolution` is luabox-hir's lowering of scopes: what a name resolves to,
  and what a goto does; functions come as `local function f`, `function f` and
  `local f = function`. `Minify` gives the reference, Lua's scopes read off the
  paths of a program, and the renaming of --minify. Inputs: three statements
  with two names, fresh spellings included, or gotos among labels around a
  function.
* `References` is find references and rename over two files, from every token
  of both. Inputs: the statements above with member accesses, dotted functions
  and methods.
* `Parser` is the parser's rules as sequences of steps over a stack of open
  nodes, with its budgets of nesting and height, and what it does after an
  error; `LuaGrammar` is the manual's grammar and precedences and lparser.c's
  levels. Inputs: nine programs that hold every production, and all that one
  token changed, inserted or removed makes of them; every expression of three
  operators; nestings up to a twentieth of the real limits.
* `Parsing` is the same parser a step at a time, for the two promises parser.rs
  opens with: it panics on no input, which here is that rowan's assertions and
  the depth counter hold at each step, and its tree is the text. Both are one
  property, `ParsesAnyText`. Inputs: two programs with white space where
  trivia is flushed, and all that one token changed, inserted or removed makes
  of them; a nesting limit of 3 and a height limit of 4, which some of them
  overrun, so that refusals, flat chains and recovery all occur.
* `Lowering` is the check of gotos, their rewriting for 5.1 and that of `<close>`,
  as edits of a token sequence; `LuaText` runs a text, and refuses what Lua
  refuses. Inputs: four statements in a loop or before a use, every outcome of
  three conditions, six steps.
* `ClassShape` is the fold of a class's ancestry under the diamond guard with
  both its limits, and the walk over ancestors' names; the reference is the set
  of paths through the declarations. `ClassMerge` is the merge of a class's
  declarations within a file and across files, the reference being that one
  file and two say the same.
* `Assignability` is `Ctx::check` as a search through an and-or tree with its
  list of pairs seen; the reference is the greatest relation closed under the
  rules.
* `FlowTypes` is the walk of a body with narrowing and joins; the reference is
  what the variables hold in every run. Runs of the kind the walk is made for:
  a loop's body once, no break, a closure called where it stands.

## 4. The runs

| Run | Shows |
|---|---|
| `lsp_session` | nothing drained is lost or reordered, progress only under accepted tokens, sessions end as the client said they should; every request is settled and an exit ends the session |
| `lsp_session_late_answer` | fails: a shutdown sent into a create window ends in a protocol error when the answer to the create comes behind it |
| `server_state` | caches, open text, disk text and open panels stay current through edits, disk moves and reloads; edits of parts of a text make the server's text the client's; after any edits, the host's inputs mirror its virtual file system and its counter is a sound and tight cache key; the ledger implements wholesale refreshing of every panel |
| `lsp_documents_dialect` | fails: a file opened after a dialect reload is parsed under the old dialect |
| `watch_loop` | a watcher at rest is current and tidy, and it comes to rest |
| `atomic_write` | a rewrite under failures, kills and power losses implements an atomic register, keeps mode and link, and leaves nothing unexplained |
| `commands` | upgrades, scaffolding, builds, exit statuses and bundles do what they promise, however they fail; the search for cyclic classes reports exactly those |
| `algorithms` | every pure algorithm agrees with what it stands for, over all inputs of its bounded set; at every step of the parser nothing panics, and its tree is the text |
| `assignability` | fails: a pair of names refuted once is taken for granted by the rest of the same query |
| `love_archive` | fails: a file removed from the project stays in the .love archive |
| `references` | fails: references to a global include the declarations of locals of its name |
| `flow_types` | fails: a union that is one type, here the nil or false left of an unknown, stays one member of an inferred union; a type test would drop it whole |

The six failing runs are the findings in `PROJECT.json`, each with the sentence
of the code's own documentation it contradicts. Where a property of a passing
run makes an exception for a known limit of the code, section 6 lists it.

## 5. What is proved

TLAPS checks the following for every value of the constants allowed by the
modules' assumptions (`HostAssumption`, `SessionAssumption`, `WatchAssumption`,
`LedgerAssumption`, `DocumentsAssumption`, `WriteAssumption`, `ParsingAssumption`,
`BundleAssumption`, and `CommandAssumption`, which gathers those of the commands), which are typing and distinctness of the "no value"
constants, and which TLC evaluates in the runs. `HostAssumption` and
`LedgerAssumption` are hypotheses of their modules' theorems; `PartsAssumption`
(`ServerState`) assumes them of the server's constants.

* **AnalysisHost_proofs**: `TypeCorrect`, `MirrorExact`, `CacheKeySound`,
  `HostImplementsVersionedInputs`. The mirror is inductive together with
  typing. `EqualRevisionSameWorld` is not inductive: a held snapshot from the
  future would break it, so the invariant adds that its revision is at most the
  host's.
* **LspSession_proofs**: `TypeCorrect`, `ArrivalOrder`, `AcceptedTokens`,
  `TokensClosed`, `LeavingClientUndisturbed`, `SessionEndsAsSaid`. The invariant
  has four parts.
  `Ordered` is typing, the order of the queue and a budget: tokens are finitely
  many, so it has to be shown that creates are no more than reloads taken up
  plus two. `VerdictsAreAnswers` ties the client's answers on the log to the
  create they answer, without which `AcceptedTokens` could not tell whose
  acceptance the window read. `OpenWhileWorking` says a token is open exactly
  while its job runs. `EndersEnd` says that a session-ender taken up leads into
  the handshake or out of the loop, which together with the queue's order gives
  that no create follows one. `SessionEndsAsSaid` adds `Settled`: until it
  stops, and in the ends that owe the client nothing, the session has answered
  every request it took up, and until it stops it has taken up no exit. What
  ends a session is then the message last taken up, and whether a shutdown lies
  before it decides which end it is.
* **ForeignLedger_proofs**: `TypeCorrect`, `PanelsStayCurrent`,
  `LedgerImplementsPanels`, for clients that spell a document's URI as the
  server does (`SameSpelling`). Typing and `PanelsCurrent` are inductive
  together; a lemma (`EveryStepRecords`) brings every action to one form,
  `Recording`, so that each fact is proved once.
* **LspDocuments_proofs**: `TypeCorrect`, `CachesStayFresh`, `WorkspaceStaysCurrent`,
  `ClientsTextKept`, `HostFollowsTheDisk`, `OpenDocumentsFollow`, `EditsAreServed`. Handlers are
  functions on the server's record, so the proof is about those: `Good` says
  what every function keeps (caches no newer than the counter, and equal to
  what they derive from when their keys agree). `OverlaysAreTheClients`,
  `DiskFollowed` and `OverlaysOwned` relate the host to the client's buffers
  and to the disk, up to the events still on their way (`EventsTell`); `Phases`
  says what the steps of one batch have done so far.
  `EditsAreServed` is about `RangedEdits`, for all texts and edits. The invariant,
  `EditsCorrect`, is that the changes on their way make the client's text of the
  server's: applying one more is one more splice (`AppliesMore`), and applying
  a list is applying its first part and then the rest (`AppliesInParts`). A
  splice is the client's edit (`EditIsSent`) because the position of a cut is
  mapped to it (`OffsetIsCut`), also from past the end of a line, where it is
  the \r of the ending that stops the count; and a byte offset is named as the
  client names it (`PositionIsPlace`). Both rest on counting: a line's number is
  how many line feeds come before it, and no two lines have one (`NthIs`). That
  sums over a text, and lists of changes, are what their recursive definitions
  say is shown without an induction theorem, from the first number that some
  property fails for (`UpTo`, `Iterates`).
  `HostMirrorsVfs`, `HostKeySound`, `HostIsVersioned` and `LedgerIsPanels` are
  the theorems of `AnalysisHost_proofs` and `ForeignLedger_proofs` for those
  parts of `ServerState`: the proofs are instantiated there, and two lemmas say
  that the instances are the parts (`HostIsTheHost`, `LedgerIsTheLedger`).
* **WatchLoop_proofs**: `TypeCorrect`, `WatchStaysCurrent`, `FormatterLeavesTidy`,
  for any inputs whose events name them (`EventsNameInputs`). The invariant
  says that what was read and has since changed is named by an event still on
  its way (`ChangesAreNamed`), which needs the watcher armed before the first
  read (`Armed`) and an account of how a run ended (`EndAccounted`); `Tidied`
  adds what a finished run has done to what it read.
* **AtomicWrite_proofs**: `TypeCorrect`, `StagesAlone`, `NeverAPrefix`,
  `KeepsModeAndLink`, `LeavesNoTemporary`, `WriteImplementsAtomicText`. Six parts: processes that are
  alive have ids of their own (`RunsDiffer`); a worker under way holds the name
  and the inode it says (`WorkersHold`); staged names differ between workers
  (`TempsDiffer`), and inodes between names (`NamesDiffer`), together with the
  journal; what each inode holds at each step, and that the source's is synced
  (`Contents`); and the account of temporaries. The hard step is `Create`: the
  name may belong to a dead process's temporary, whose inode it truncates,
  which is private because no two names share an inode and the journal names
  none that is staged.
* **Commands_proofs**, the bundle: `BundleTypesCorrect`, `BundlesAreExact`, `BundlesRunLikeLua`. The
  invariant (`BundleInv`) has the registry of modules (`Registry`: the entry first,
  no file twice, every name one that some file requires its file by), the
  walk's progress (`FoundIsReached` one way, `EdgesWalked` the other: each
  require of a file found is rewritten, left to the host, or still waits), and
  what the run may assume (`RunIsLast`, `StackOfModules`). That everything
  reachable is found at the end is a least-set argument: when nothing waits,
  the files found are closed under `Requires`. Refinement needs that a call
  rewritten to a name reaches the file Lua would, which for programs that give
  each file one name makes the rewriting the identity.
* **Commands_proofs**, the other commands: `InstalledListed` and `VerifiedInstalled` (upgrade),
  `UsersFilesAreSafe` (init and new), `StatusIsTrue` and `StatusSurvivesReaders`
  (exit statuses), `BuildsAreCurrent` (builds),
  `CyclesAreReported` (the search for cyclic classes), and `TypesCorrect` of all five, each a theorem of `CommandSpec`, so of any
  interleaving of the commands; `EachIsItself` shows that the composition is
  each part's own specification on that part's variables. One invariant per
  part. `UpgradeInv` says of every process what it holds, and that what passed
  verification was listed under its tag at some time. `ScaffoldInv` adds that
  a process about to write the manifest or the .gitignore began among none of
  the user's that is left alone (what was looked for stays missing from what
  the process began among, whoever writes meanwhile), and that a `new` under
  way, which found no directory, began among none of the user's files. `VerdictInv` follows the straight line of calls:
  `Promises` bounds what the rest of the line can still find, write and do,
  and `RecordedInTime` says that a finding is on record before the write whose
  reader may be gone. `BuildInv` says that the artifacts a build has passed are
  current (`DoneIsCurrent`), in the order the code makes them (`InOrder`).
  `BuildsAreCurrent` assumes that no two entry points share a basename
  (`EntriesHaveNames`): without it the code does otherwise, which section 6
  lists.
  `CyclesAreReported` is the correctness of a strongly connected component
  search for every graph of declarations, and its invariant, `SearchInv`, is
  that of a depth-first walk with a low-link. The numbers and the stack:
  indices are the order of entering (`Numbered`), the component stack holds the
  names that are on it in that order (`Stacked`), and the frames a path of
  increasing indices (`OnPath`). The walk: parents seen have been entered
  (`SeenEntered`), and what has left the stack is closed under parents
  (`OffClosed`). Ancestry: each frame's name leads to everything entered after
  it that is still on the stack (`Down`), and each of those back to some frame
  before it (`Up`), so the stack above a root is one component. The link: it is
  the index of a name reachable on the stack (`LinkReached`) and no greater than any that an
  edge from the frame's own segment of the stack leads to (`LinkLeast`), so a root's link is its
  own index exactly when nothing above it leads below it. `SelfSeen` and
  `Grouped` say what has been recorded. The walk picks the first name and the
  first parent: that a set of numbers has a first (`FirstIs`) is obtained from
  the well-foundedness of inclusion on finite sets, which the library states
  without an operator parameter.
* **Parsing_proofs**: `ParserInductive`, `ParserNeverPanics`,
  `ParserKeepsTheText`, `ParserParsesAnyText`, for every text and every two
  budgets. The parser is a stack machine: what is left of a rule is a list of
  steps, so the invariant is about the list. A parser has not begun
  (`Started`), is at work (`Busy`) or is done (`Ended`). At work it is `Ready`:
  the open nodes lie one inside the other and begin with no trivia (`Opened`);
  the finished children span the text up to the next token, each accounted for
  by its own children, with its height (`Spelled`); the steps left finish every
  open node but those they open themselves, give back the depth that was taken,
  and hold only markers that will be in the innermost node when they are used,
  the latest first (`Pending`); and the last four are the end of a file
  (`EndsRight`). Inside a step the balance is off by so many nodes and so much
  depth (`Works`), and it is shown for each rule that what it gives to the list
  makes up for what it opened and took (`Runs` adds up over lists put together,
  so a rule's list is read off its parts). A marker stays usable (`Handy`)
  while the operations between taking it and using it leave trivia flushed
  before it. A chain of operators that associate to the right is opened in one
  step, which is shown to be opening its levels one by one (`OpenedNext`). That
  the tree is the text then follows from the spans, from the root down, over
  numbers instead of trees (`BelowLies`, `BelowReaches`).

Not proved of the parser: that it ends, which is liveness; that the heights in
its budget are the tree's and not only bounds on it, and that it accepts Lua's
grammar with Lua's grouping, which the run checks (`ParserIsFaithful`).

Only model-checked, on the instances above: liveness, which needs fairness and
ENABLED, beyond this prover; and the modules with recursive operators or whose
results are inductions over trees, which are the other algorithms of section 3.9.

## 6. What is not modelled, and why

* **What a pass finds**: any findings at all, in the models of the server and
  of watch mode.
* **Table shapes, calls, generic unification, the checks over expressions**, and
  the lowering of annotations to types: the parts of type inference that remain.
* **Lexer, dialect gates, formatter, polyfills, source maps**: conversions of text.
* **Lint rules, rendering, documentation, manifests, scripts**: pure functions of
  a file, or outside the program.
* **Editor features** other than rename and references: each a pure function of
  one snapshot, which no handler holds across a write. That salsa would wait
  for a snapshot that is still held is therefore a matter of scopes and not of
  state.
* **Order of findings within a panel, and of files within the project**, on
  which a merge that lets the first declaration win may depend.
* **Consumers of an edited open document** keep their findings until their own
  next pass; the code does so by design, and no property says otherwise.
* **A watcher registration the client rejects, or that starts late**: documented
  in `main_loop` as a known gap. `LspDocuments` starts with a working watcher.

### Known limits

These are what the code does where a property that holds makes an exception, or
where the instances checked leave a case out. Each is visible in the module
named.

* `AtomicWrite`: a save between a command's read and its rename is overwritten;
  the abstract register allows exactly that.
* `BuildOutputs`: entry points of one basename overwrite each other and both are
  reported as built; `zip -r` keeps entries of an earlier archive (the run
  `love_archive`).
* `Scaffold`: a luabox.toml or a .gitignore written between the look for it and
  its write (scaffold.rs:18 and 26, 46 and 47) is overwritten, the model does
  so, and the property is of files that were there when the command began;
  init overwrites a rockspec and an entry file without a look.
* `References`: a cursor on a method's declaration, `function T:m()`, is at the
  place of its implicit self (luabox-hir lower.rs gives the binding the method
  name's range), so the method's own branch in `decl_target_at` is not reached
  and a rename changes the declaration only. A new name is not checked for
  capture. Keys of table constructors and @field lines are not modelled.
* `FlowTypes`: a union that is one type stays one member of a union (the run
  `flow_types`), so the run `algorithms` leaves out type tests of such a mixture;
  an assignment to a declared variable while it is narrowed leaves
  the narrowed type; the narrowing after an early return in a nested function
  leaks into what follows it; a loop's body is walked once; `unknown` is dropped
  from unions by design.
* `Lowering`: a backward conditional goto becomes a repeat whose body scopes the
  region's locals; a break directly in a backward region is not refused;
  `<close>` in a repeat's body leaves the condition outside the closure; a
  trailing label of 5.2 and 5.3 with gotos from before ends up inside one.
  Varargs, several names to a local, `<const>` and `_ENV` are left out.
* `ClassShape`: a class's own indexer loses to an inherited one; which ancestor
  trips the depth limit depends on the order of parents.
* `ClassMerge`: across files, a field that is public first and private later gets
  the later scope; a field in a later file than its method loses the method's
  tags; parameters that a file's second block adds are erased within the file.
  Definition files merge whole, the first winning.
* `Assignability`: the list of pairs seen never shrinks (the run `assignability`).
* `RangedEdits` (`WellEnded`): a lone carriage return ends a line for clients and not for the
  server; texts that hold one are left out.
* `Parser`: functions nested as call arguments exceed the depth budget before
  lparser.c's, although docs/03-reference/02-limitations.md:864 has "Anything
  reference Lua accepts, luabox parses" (the property excepts them); it accepts an `elseif` after `else`, any expression as
  the target of an assignment, a trailing comma in a parameter list, and more
  than one `;` after return (`Tolerated`); stray separators in a table and `...`
  in the middle of parameters are documented (`Documented`).
