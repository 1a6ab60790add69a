# A verification development of Jabar

Jabar is a Java language server.  It answers from SCIP shards that a Bazel
aspect writes, not from a compiler of its own, so what makes it correct is
mostly *which* index it serves, *when* it replaces it, and *about which text*
it lets that index answer.  This directory holds TLA+ models of that logic, the
TLC configurations that check them, and theorems checked by TLAPS.

Paths below are relative to the repository; `server.rs`, `index_cache.rs`,
`documents.rs`, `handlers.rs` and `line_index.rs` are under
`crates/jabar-server/src/`, `clientLifecycle.ts` and `extension.ts` under
`editors/vscode/src/`, and `telemetry` is `crates/telemetry/src/lib.rs`.  `PROJECT.json` maps every definition to its lines.

    tlc -workers 4 -config LifecycleSafety.cfg MCLifecycle
    tlc -workers 4 -config IndexCache.cfg MCIndexCache
    tlc -workers 4 -config Navigation.cfg MCNavigation
    tlc -workers 4 -config Session.cfg MCSession
    tlapm GenerationProofs.tla
    tlapm ServedProofs.tla
    tlapm CacheProofs.tla
    tlapm VfsProofs.tla
    tlapm SessionProofs.tla
    tlapm FreshnessProofs.tla
    tlapm NavigationProofs.tla
    tlapm CursorProofs.tla


## 1. The system

### Threads and what they share

One server process has one **event loop** thread, which owns `struct Server`
(server.rs:538) and runs one handler at a time, to its end.  Everything else
talks to it over channels: the LSP connection, the file watcher's debouncer
thread, the **generation workers** (a thread each for startup, a refresh, an
explicit load), the cache writer thread and a `tick` every 300 s.  The arms of
the `select!` (server.rs:836) are served in no particular order.  Workers share
no memory with the loop: what a worker needs is captured when it is spawned,
what it finds arrives as one result message.  What workers do share with the
rest of the world is the file system: a git checkout whose HEAD a user moves,
shard directories that builds rewrite, and the cache directory another server
process may use as well.

### Components

| Component | State | Operations | Hard behaviour |
|---|---|---|---|
| Event loop and index lifecycle (`server.rs`) | `index`, `index_dir`, `index_shards`, `provenance`, `provenance_stale`, cache flags, the three running flags, `refresh_again`, `refresh_intent`, `refresh_revision`, `explicit_load`, `startup_state`, progress flags, `watcher`, `shutdown_requested` | startup, shard event, branch switch, watcher error, timer, load request, three result handlers, shutdown | workers' results that arrive after the state they were started in is gone; changes queued behind a worker; cancellation of a thread that cannot be stopped |
| Generation workers (`server.rs`, `symbol-index`) | the captured generation and key | capture the key, scan, decode, rescan, confirm the key, start a watcher, recheck, build | the checkout and the shards change between any two of these steps; panics |
| File watcher (`watcher`) | debounced batch, channel | gather, coalesce, dispatch; report an error | coalescing must keep a branch switch; events are lost; a watcher starts after a scan |
| Index cache (`index_cache.rs`) | a generation directory per snapshot, `CURRENT` | load, store, invalidate, prune | a crash between two file operations, two servers, a stale key |
| Cache writer queue (`server.rs`) | one pending job, `cache_epoch` | `send_latest`, publish if current | an obsolete write published after an invalidation |
| Document freshness (`server.rs`, `documents.rs`) | open documents, `stale_documents` | didOpen, didChange, didClose, install, positional query | edits made or saved while a generation is read; notifications still in the channel |
| Vfs (`vfs`) | contents by file, change log | set contents, take changes | merging the changes to one file between two drains |
| base-db (`base-db`) | source roots, file texts | apply a change batch | not used by the server yet |
| Symbol index (`symbol-index`) | definitions, references, occurrences, interned paths and symbols | scan, validated load, add a shard, snapshot, lookup, search | the load protocol; overlapping shards; ids after a snapshot |
| Line index (`line_index.rs`) | none | offset to position and back | characters wider than a byte, line ends |
| Query handlers (`handlers.rs`), overlay | none | pure functions of a text and an index | columns in two encodings; nested callables and several sites of a symbol; results cut at a limit; which of the index and the live text answers for a file |
| Telemetry (`telemetry`) | in-flight guard; per operation: counters and a ring of durations | start, finish, mark failed or stale, drop, record, health | handlers that panic or return early; a ring that is full; rates over few records |
| VS Code client (`editors/vscode`) | the current client, the queue of operations, a flag that it shuts down | start, restart, shutdown | settings that change and windows that close between two awaits; a stop or a start that fails |
| Build model, paths, LSP surface, tools | none kept between calls | run Bazel, parse, convert | process I/O |

### How they interact

A watcher change, a tick, a result or a request makes the loop run a handler;
the handler may spawn a worker, but only one generation worker may run at a
time, so a change that meets one is remembered (`refresh_again`) and scheduled
when that worker's result is handled (`schedule_queued_refresh`).  Work that
has become pointless is not stopped but made obsolete: `refresh_revision` is
incremented and the result is dropped when it arrives.  A worker checks that
HEAD is what it was and that the shards scan the same before and after it
decodes them; the startup worker starts its watcher *before* a last look at
HEAD so that no movement falls in between.  A generation from the Bazel output
tree is cached, and a later session serves the snapshot at once and refreshes
behind it.  Installing any generation recomputes which open files its answers
would be wrong about.

### What makes each part correct

* Lifecycle: at most one generation worker, whatever is cancelled; every load
  request answered once; progress reports paired; a queued change never
  stranded; an index of the old branch never installed after a switch; a shard
  event acted on in the end; a worker's place given back, unless a reload's
  thread panicked.
* Workers: an installed index was decoded from exactly the shards its manifest
  names; a movement of HEAD is never unnoticed.
* Cache: a snapshot is called verified only when its shards were seen; a
  reader gets a whole snapshot or none; crashes leave neither a damaged
  snapshot published, nor the lock held, nor generations that add up.
* Freshness: no positional answer from an index of another text; unsaved text
  never answered about; a rebuild makes a file answerable again.
* Vfs: a drain delivers the net change, so that the database is a copy of the
  files, and a drain that is applied makes every write before it visible.
* Text and answers: the server's text is the one that LSP gives the client's
  edits; a cursor finds what the indexer saw at that character; overlapping
  shards make the index of their union; callers and calls agree, up to the
  number that a response carries.
* Search: the best matches whatever the order of a hash table, and none from
  the index for a file that is read live.
* Client: one server that answers at most, none left behind by a shutdown, no
  change of the settings lost, no failure that blocks the queue.
* Telemetry: the health a server reports is that of the replies it sent.


## 2. The modules

### LoopHandlers

The handlers of the event loop as functions from the server's state, a record
with the fields of `struct Server`, to its next state.  A handler that calls
another is the composition of the two, so every trailing
`schedule_queued_refresh` or `write_cache_async` is part of it.  The record
also holds what handlers create or emit: the workers whose result has not been
handled, the number of replies each load request has had, and the number of
progress reports the client sees open.

Two counters are represented by what they decide.  `refresh_revision` is only
compared with the revision a worker started under; a worker carries the answer
(`current`) and an increment clears it in every worker.  `cache_epoch`
likewise: only the latest write can still publish, so `cache_job` is that one.

### GenerationLifecycle

One process and its world: the handlers above as actions, one per arm of the
`select!`; the steps of a worker, one per point where the file system is read;
the debounced watchers of the server and of a worker that has started one; git
writing `.git/HEAD` or `.git/index`; builds; the cache writer; and faults.

| Actions | Code |
|---|---|
| `StartupResult`, `RefreshResult`, `ExplicitLoadResult`, `FileChange`, `RefreshTick`, `LoadRequest`, `Shutdown` | the arms of `Server::run` |
| `WorkerBegins` | key captured and checked; a cached snapshot tried (`discover_index`, `index_cache::load`) |
| `WorkerScans`, `WorkerDecodes`, `WorkerRescans` | `scan_shards` and `load_validated_shards_with` |
| `WorkerConfirms` | the last provenance check, and what becomes of the load |
| `WorkerWatches`, `WorkerRechecks` | `FileWatcher::spawn`, then the second look at HEAD in `schedule_startup` |
| `WorkerBuilds` | `build_index`, once, if `index.auto` |
| `WorkerPanics` | a panic while decoding: caught for startup and explicit workers, fatal to a refresh worker |
| `GitWrites`, `BuildWrites`, `DebounceServer`, `DebounceWorker`, `ServerLosesEvents`, `WorkerLosesEvents` | the world and the watchers: the server's, and one a worker has started and not handed over |
| `WriterStores` | the cache writer |

A shard generation is identified by when it was written, and an index by the
generation it was decoded from.  `moved_at` is a history variable: the latest
generation when HEAD last moved.

### DocumentFreshness

An editor with buffers, disk, the ordered channel of notifications, the
server's documents and Vfs contents, `stale_documents`, builds that rewrite the
shard of a changed source, and a generation read at one moment and installed at
another.  The shards may be of any texts at the start (a source may have been
saved and not built in an earlier session; `docs/index-cache.md` 51-57 says that
this cannot be detected), and other programs write sources too
(`OtherWrites`).  What the server cannot know of is kept in two history variables:
`unnoticed`, the files whose text on disk neither a build before the server
started nor a notice told of, and `overwritten`, those another program wrote since
the server last compared them with a buffer.  The properties name them as their exceptions.
A text is a model value: only equality of texts matters.  `Shadowed` and
`LiveText` are the files, and the text of each, that a symbol search and an
outline read in place of the index; `WorkspaceSymbol` and `DocumentSymbols`
name the text each of the two answers from.

### IndexCache, CacheRegister

The cache's files and everyone who touches them: event loops of several
servers, their cache writer threads, and startup workers that load.

| Actions | Code |
|---|---|
| `AskForWrite`, `TrySend`, `Evict` | `write_cache_async` and the loop of `send_latest`, one step per channel operation |
| `SupersedeWrites` | any other increment of `cache_epoch` |
| `ConfirmEmpty`, `Invalidate`, `BumpEpoch` | the `Empty` arm of `on_refresh_result`, its two effects apart |
| `WriterTakes` ... `WriterEnds` | `store`, one step per file operation or check that something can come between |
| `WriterFails` | its error path, taken by a failed check or a failed operation |
| `WriterCleans`, `WriterRemoves` | `cleanup`: what is listed, then one file at a time |
| `ReadPointer`, `ReadManifest`, `ReadIndex` | `load` |
| `Crash`, `FileOperationFails`, `BuildWrites`, `HeadMoves` | the world |

A directory has a state (`new`, `staging`, `final`, `removed`) and two files.
`is_current` and `still_current`, which the code evaluates one right after the
other, are read at one moment.  `reader[r].seen` is a history variable: the
snapshot published when the read began.  CacheRegister is the abstract
specification: a register that is written, erased and read.  IndexCache
implements it, with `value` what CURRENT points at.

### Vfs, VfsDatabase, Mirror

Vfs has the interner, the state of each id, the change log with the merging of
`record`, and the revision.  VfsDatabase composes it with base-db's
`apply_vfs_changes`: writes, drains, and the application of a batch some time
after it was taken.  `drained` is a history variable.  A query (`file_text`,
`has_file`) reads the texts and checks nothing, so it is not an action: what it
finds after a drain was applied is `ReadAfterWrite`.  Nothing in the server
drains a Vfs into a database yet (server.rs:2333 drops the batch); the
composition is that of base-db's tests.  Mirror is the abstract specification:
no ids, no log, a whole copy of the files at each drain.

### LineIndex, SymbolIndex, Navigation

LineIndex has the table of a text and the conversions between offsets and
positions, over characters that have a length in bytes and one in UTF-16 units.
The section at its end is a reference definition of LSP positions that counts
characters and has no table.  SymbolIndex has the tables of an index and how a
shard's rows are added to them, with interned symbols and path ids, and the
lookups.  The maps from a name, a path or a symbol to definitions are read off
the list of definitions.  `SortedBy` is `sort_by_key`: a stable sort by a tuple
of numbers.

Navigation composes the two with `documents.rs` and `handlers.rs`: edits, alone
and in batches of two, of an open document (`DidChange`, `DidChangeTwice`), a
cold load shard by shard (`LoadShard`, `FinishLoad`), `AppendShard` and
`ReadSnapshot`.  The handlers are operators on its state: the symbol under a
cursor, the conversion of a range, definition, references, implementations,
whether there is a hover, symbol search, the call hierarchy, cut in the order
in which it is found at `CALL_HIERARCHY_LIMIT`, and the outline.
Of a name that is searched for only the letters matter, as numbers, and the
order of the hash table that search walks is any order.
`intended` is the text as LSP defines it, computed without the line table;
`loaded` is the list of shards so far.  Edits come before shards in a behaviour
because the document and the index have nothing in common, so their order
changes no state in which both are done.

### ClientLifecycle

The extension's queue of operations.  An operation is a chain of awaits, and
there is one action per stretch between two awaits:

| Actions | Code |
|---|---|
| `SettingsChange`, `Deactivate` | `onDidChangeConfiguration` and `deactivate` in extension.ts, which enqueue |
| `BeginStart`, `BeginRestart`, `BeginShutdown` | the tail of the queue settles, and the next operation runs to its first await |
| `StopResolves`, `StopRejects` | `await previous.stop()` returns or throws |
| `StartResolves`, `StartRejects`, `MessageDismissed` | `await client.start()` in `startClient`, and the message that a failed start shows |
| `AnswersShutdown`, `Exits` | the server's end of a stop |

A client is its number in the order of starting and stands for its server
process.  Of `vscode-languageclient` it is assumed that `stop` resolves only
when `shutdown` was answered and that a `start` that rejects leaves no server.
A stop that rejects may leave the server in any state, running included.

### Telemetry, Requests, Session

Telemetry has the guard and the counters of one operation, the ring of
durations, and what health and concerns are computed from them.  Requests has
the handlers of `server.rs` as functions from what there is to know when a
query comes (its *world*: is an index loaded, is the file inside the workspace,
is it stale, how many results are there, does the handler panic) to the reply
and the guard they leave.  Session composes both with ClientLifecycle: each
server that is started has a telemetry of its own, answers queries in any
world, and may have a load open when it is shut down.  Its history variable
`told` is the set of the replies all clients got, numbered where they say the
same.  Sessions and clients meet in
one step: a shutdown cancels, answers and records an open load before it is
answered itself.

### MCLifecycle, MCFreshness, MCIndexCache, MCNavigation, MCSession

The first three add symmetry to the specifications: of requests and commits, of
texts, and of commits.  It is used in runs that check safety only.
MCNavigation has the characters and the shards, MCSession the operations that a
behaviour uses and the durations of its records.

### GenerationProofs, ServedProofs, CacheProofs, VfsProofs, SessionProofs, FreshnessProofs, NavigationProofs, CursorProofs

The proofs: see section 5.

A definition named `...Mutant` is a variant with one careless edit (a dropped
guard, a missing reset).  No specification uses it.  For each property there is
one that violates it under the same configuration.


## 3. The runs

| Run | Checks | Shows |
|---|---|---|
| LifecycleSafety | `TypeOK`, `OneGenerationWorker`, `AnsweredOnce`, `OneProgressReport`, `QueuedChangeIsCarried`, `IndexMatchesManifest`, `VerifiedWasOnDisk`, `NoUnseenMove`, `NothingInstalledUnbidden` | the bookkeeping of the loop and the load protocol, with every kind of action and fault; until a load is asked for, no movement of HEAD goes unnoticed, though a watcher loses events |
| LifecycleWatched | `NoticeIsReconciled`, `RefreshEnds` | a session that watches its shards, a branch switch and two builds, without loads, with a reload that panics or a watcher that loses events: a shard event is acted on, and a reload ends unless its thread panicked |
| LifecycleLiveness | `EveryLoadAnswered`, `CachedSessionReconciles` | every load answered, periodic reconciliation works, with one fault of any kind that is not at startup |
| Freshness | `TypeOK`, `StartupAnswersMatchDocument`, `UnsavedIsStale`, `SymbolsAreCurrent` | one file whose shard may be of another text, reopened with unsaved text or written by another program at any moment: no positional answer from an index of another text, and symbols of a file that is open or known to be stale from its text of now, but for texts of which nothing told the server |
| IndexCache | `TypeOK`, `CurrentIsWhole`, `LockIsHeldByPublisher`, `PruningLeavesTwo`, `DroppedForNewer`, `ImplementsRegister` | two servers, a reader, a crash or a failed operation anywhere: what is published is whole, the lock comes back, final directories do not add up, the latest write gets through, and reads are those of a register |
| VfsDatabase | `TypeOK`, `LogIsNetChange`, `ReadAfterWrite`, `ImplementsMirror` | two files written and deleted in every order around drains that arrive late: the log makes of the files as they were the files as they are, and the database is a copy |
| Navigation | `TypeOK`, `ServerHasIntendedText`, `IndexIsUnionOfShards`, `CursorRoundTrip`, `SearchFindsBest`, `CallsAreDual`, `OutlineNests` | both encodings, edits at every position of a text and past it, every cursor, and overlapping shards in every order; definitions, references, implementations and hovers agree with what the indexer saw, and a search keeps the best matches within its limit; callers and calls agree up to theirs |
| Session | `TypeOK`, `ReachableServer`, `SettingsTakeEffect`, `HealthMatchesReplies`, `OperationsEnd` | an editor whose settings change and window closes at any moment, stops and starts that fail, and servers whose health is compared with the replies they sent, where the records are what telemetry documents |
| FindingLoadMissesMove | `MovesAreNoticed` | violated: see below |
| FindingCachedNeverReloads | `ReloadsOnItsOwn` | violated |
| FindingReloadForgetsEdits | `AnswersMatchDocument` | violated |
| FindingLateWriterWins | `LateWriterReplacesNothingNewer` | violated |

### Bounds, and why they are enough

* Two commits: a movement is to another commit or, for a rewritten
  `.git/index`, to the same one.  `MaxMoves` is one: a movement falls on either
  side of every step of a worker and of a fault.  That HEAD goes away and comes
  back, which is how a check of equality is deceived, is left to the theorem
  `NoMoveUnseen`, which is for any number of movements.
* `MaxStamp`: generation 1 is only ever cached, 2 is on disk at the start, 3
  and 4 are written while the server runs, and a build may also remove
  everything.  Two builds give a worker a change to miss on each side of a
  read.  In LifecycleSafety generation 3 decodes to no symbol.
* Two load requests: one in flight and one refused, or one after another.  A
  third would repeat one of these, since at most one is ever accepted at a time.
* One fault of any kind.  Faults leave no trace in the state but their effect.
* Freshness: one file, as the handlers of one file do not look at another, and
  the theorems are for any number; three texts, so that disk, shard and buffer
  can all differ and an edit can be undone; four notifications in flight, so
  that a file can be opened, edited, closed and opened again before the server
  hears of it.

* IndexCache: two servers, one of which can ask for two writes and the other
  for one, so that three generations can exist at once, which is when pruning
  removes one; one reader, since readers do not affect anyone; one build or
  movement of HEAD; one crash or failed operation.  Names come in order, as
  they do while the clock is not set back.
* VfsDatabase: two files, so that one id's change cannot hide another's; three
  contents (empty, text, not UTF-8); six writes that change something, which is
  one more than it takes to create, drain, delete, write again, delete and
  write a file.
* Navigation: characters of one byte and unit, two bytes and one unit, four
  bytes and two units, and the newline.  Texts of three characters have a wide
  character before, at and after a position, or on either side of a line end;
  batches of two start from a text of at most one.  The rows are of two methods,
  one inside the other, that call each other and themselves, a second site of
  the outer one, and a class named by a wider range; the shards hold one row
  each, or many with a local and an unreadable range.  There are up to three
  shards, and up to four characters and shards together, so three shards with
  one character or one shard with three: three declaration sites are enough to
  nest and to be in either order, and a snapshot falls before, between or after
  the shards.  `MaxU32` is 255: no column comes near it.  Search has two queries
  of one letter, the empty one, and a limit of two, so that a full heap meets a
  better candidate.  A response carries two calls, and the shards have a method
  with three callers and one with three calls, so that either direction is cut
  where the other is not.
* Session: one change of the settings, so that a restart falls on every side of
  a shutdown, and at most two servers; three replies of all servers with a ring
  of two durations, so that the ring wraps; limits of one with up to two
  results, which are on both sides of each.  A behaviour uses one operation of
  the ten, or two together, since operations have nothing in common but the
  server.  `MaxMicros` is below one of the durations.

### Findings

* **An explicit load can miss a branch switch** (FindingLoadMissesMove).
  `load_index` looks at HEAD for the last time before it starts its watcher
  (server.rs:1487), unlike startup (server.rs:633), and installing the result
  drops the old watcher with whatever it had gathered.  A switch in between is
  served as current from then on.
* **A cached session stops reloading after git writes `.git/index`**
  (FindingCachedNeverReloads).  Its shards are not watched and the timer does
  nothing while it waits for a build, so no build is noticed.
* **A reload forgets edits that were saved after its shards were built**
  (FindingReloadForgetsEdits).  `refresh_document_freshness` compares buffers
  with disk only; just the startup install keeps the older marks, although the
  comment on `stale_documents` says that a mark survives a save.
* **A late writer replaces a newer snapshot** (FindingLateWriterWins).  The
  shards are scanned before `PUBLISH.lock` is taken and the epoch belongs to
  one process, so of two servers the one that waits for the lock can overwrite
  the snapshot of a newer build with its own.  The next start serves it until
  it reconciles.

Where the code is not what a comment or a document of the repository says, and
no run is kept for it; the properties that come near it state it as an
exception, or do not rely on it:

* **A panic in a reload is for ever.**  The refresh thread has no
  `catch_unwind` (server.rs:1083), so its result never comes and
  `refresh_running` stays set: no later reload starts, and a load is refused
  with "retry when it completes" (server.rs:1527).  `RefreshEnds`,
  `NoticeIsReconciled` and `CachedSessionReconciles` except it (`ReloadPanicked`).
* **A `Modify` may have the old contents.**  A change is documented as relative
  to the last `take_changes` and a `Modify` as "Was present, content differs"
  (vfs lib.rs:78-83); a file changed and changed back between two drains, or
  deleted and written again as it was, is logged as a `Modify` with the contents
  of the last drain.  `LogIsNetChange` claims what the log makes of the files, and not
  that each entry changes something.
* **A stale answer cannot be told from its revision.**  `Revision` is documented
  as what makes it detectable (vfs lib.rs:136-141), but base-db keeps no
  revision, and a batch that was taken and not applied does not show in
  `has_pending_changes`.  No property speaks of it.
* **What telemetry counts.**  Calls cut at `CALL_HIERARCHY_LIMIT` are recorded as
  all there are (server.rs:2116-2122), although `total` is documented as how many
  exist (telemetry lib.rs:116-122); an open buffer that truly declares nothing is
  recorded as `FileNotIndexed`, which health calls misleading (server.rs:1973,
  telemetry 155 and 189); a refusal for staleness is counted among the stale
  reads, documented as answers (server.rs:1990-2011, telemetry 611).
  `HealthMatchesReplies` says nothing of the truncation of call hierarchies, and
  of those two concerns only that they are not raised without such a reply.

Also seen while modelling: an edit that is undone leaves its file refused until
it is installed again, with an error that advises a rebuild which has nothing to
do; positional queries in a file that no shard covers record `NoMatch`; results
of startup are not recorded; while the message that the server could not start
is open, every restart and the shutdown wait behind it; two matches of one rank,
name, path and symbol come in table order; a session without a cache misses a
build that writes between startup's second scan and its watcher; if the notice
of a branch switch is lost, every reload fails its first provenance check and
the old index is kept for ever, which is why `NoticeIsReconciled` and
`CachedSessionReconciles` except `provenance # head`; an explicit load clears
stale marks without any rebuild; a file that another program writes, or that was
opened with unsaved text and saved before its `didOpen` was handled, is not
marked; a cached session whose shards were removed forces a full reload, with a
progress report, at every tick; a writer between its last check and its rename
of the pointer publishes again what `invalidate` has just withdrawn; the `-tmp`
directory of a writer that crashed is never removed; moving a file to another
source root does not change the durability of its text before it is next
written; the fields of one declaration (`int a, b;`) all have the declaration as
their span, so the outline hangs the second under the first; `span_len` gives
the same size to spans over the same number of lines whose end column is not
after their start column, so that an outer callable can win over one inside it;
a carriage return counts as a character of its line; `utf16_to_byte_col` wraps
for columns near 2^32.


## 4. Fairness

`FairSpec` assumes weak fairness of what the platform schedules: a worker that
is not finished takes its next step, the debouncer fires, the timer ticks, the
cache writer runs, and the event loop handles what is ready.  `select!` chooses
at random among the ready arms, so each of the arms (a result, a file change,
the tick) has fairness of its own.  Nothing is assumed of the user, git,
builds, faults or shutdown, and a reload that panicked does nothing more.
`RefreshEnds` gives up at shutdown because the client may send `exit` next.  In DocumentFreshness the editor is under no
fairness: it may stop anywhere.

Session's `FairSpec` assumes that promises settle: the queue's next operation
begins when the one before it has settled (the job queue of JavaScript), a
server spawns or does not, a server answers the `shutdown` it was asked for,
and `stop` then resolves; it may also reject instead.  Nobody has to change
settings, send requests, close the window or answer a message, which is why
`OperationsEnd` excepts the message that a start failed.


## 5. What is proved

For every value of the constants, from `NoneAssumption` and
`LifecycleAssumption` only:

| Theorem (GenerationProofs) | Property |
|---|---|
| `TypeCorrect` | `TypeOK` |
| `OneWorker` | `OneGenerationWorker` |
| `LoadsAnsweredOnce` | `AnsweredOnce` |
| `ProgressIsPaired` | `OneProgressReport` |
| `QueueIsCarried` | `QueuedChangeIsCarried` |
| `NothingWhileAwaitingBuild` | `NoReloadWhileAwaitingBuild` (not in a run: proved for every instance) |

None of these is inductive alone.  `TypeOK` itself is not: the handler of an
explicit load's result counts a reply for the request its worker carries, so
that worker must carry one.  `GenerationInvariant` is `TypeOK` with

* `Seats`: each worker holds the running flag of its kind and each running flag
  is held by a worker; there is at most one worker; a startup worker outlives
  its flag only after a shutdown, and only while no directory has been adopted
  (so nothing can be scheduled beside it); an explicit worker's request was
  asked, and is the pending one unless that was cancelled;
* `Reports`: a progress flag is up exactly for the refresh that runs and the
  load that is owed an answer, and the number of open reports is their sum;
* `Answered`, `Waiting`: `AnsweredOnce` and `NoReloadWhileAwaitingBuild`;
* `Unqueued`: nothing is queued before a directory is known, which is why a
  superseded startup may skip the queue;
* `Carried`: a queued change has a worker.

The first five of these are kept by every handler *and by the states in the middle of
one*: a result handler first removes its worker together with its flag.
`Carried` is false there and is restored by the `schedule_queued_refresh` that
ends the handler.  That is how the proof goes: a lemma for each helper about
any state, composed as the handlers compose them; one lemma (`WorkersGoOn`) for
every step that replaces workers by workers of the same kind and request, which
covers the steps of workers, gathering of events and `Supersede`; one (`Frame`)
for assignments that touch none of it.  The module begins with the same lemmas
for membership in `Server`.

What is served has a module of its own, from the same assumptions:

| Theorem (ServedProofs) | Property |
|---|---|
| `ServedInductive` | the inductive invariant, `ServedInvariant` |
| `IndexMatches` | `IndexMatchesManifest` |
| `VerifiedOnDisk` | `VerifiedWasOnDisk` |
| `InstalledOnlyIfAsked` | `NothingInstalledUnbidden` |
| `NoMoveUnseen` | `NoUnseenMove` |

`GenerationInvariant` says which workers there are, `ServedInvariant` what each
of them knows.  `Rising`: no directory holds a generation newer than the last
build, and a build's is newer than all before it, so a directory that has lost
a generation does not get it back.  `Reading` rests on that: if what a worker
decoded is not what it scanned, the directory has already left what was
scanned for good, and the second scan will see it; this is why comparing the
two scans is enough although nothing looks at the disk in between.  `Faithful`:
what a finished worker reports is what it scanned.  `Based`: only a startup
worker starts from the cache, and the generation a reload compares with, if its
result still counts, is the one that is served, which is what `refresh_revision`
is for.  `Matching` is the two invariants for the index installed, and
`Noticed` and `Warned` are `NoUnseenMove` for the server and for a result on its
way: if HEAD is not the commit that was checked, the watcher has the notice, or a
`WatcherError` in its place if its backend lost it.

Scheduling, cancelling and answering are all instances of one relation, `Tame`:
nothing served changes, workers in flight may become obsolete, new ones know
nothing.  It is reflexive and composes, so a handler that ends with three such
calls is tame after its own assignments, and `TameFacts` carries the invariant
over it once.  `NoUnseenMove` holds until the client asks for a load, and what it
says of a state (`MovesAreNoticed`) is false after one: see
FindingLoadMissesMove.

From `CacheAssumption` alone:

| Theorem (CacheProofs) | Property |
|---|---|
| `CacheTypeCorrect` | `TypeOK` |
| `CurrentStaysWhole` | `CurrentIsWhole` |
| `LockIsReleased` | `LockIsHeldByPublisher` |
| `CacheIsARegister` | `ImplementsRegister`: the refinement of CacheRegister |
| `TwoGenerationsAreLeft` | `PruningLeavesTwo` |
| `JobsAreDroppedForNewer` | `DroppedForNewer` |

`CacheInvariant` adds what the argument needs: `Owned`, a writer between taking
a job and renaming the pointer has a directory in the state that its place
says, with the files it has written so far; `Apart`, no two writers have the
same directory and none has the published one before it points at it;
`Condemned`, what a writer is about to remove is neither published nor another
writer's, which pruning owes to the lock; and `ReadersKnow`, the directory a
reader has the name of holds what it held when the read began, or less.  The
last is why a reader that loses a race with pruning misses, and never returns a
mixture.  With it each step of `load` is a step of the register.
Two more invariants serve the two action properties.  `PrunesRest`: while a
writer that has listed the directories holds the lock, all final generations are
on its list but two, since `FinalsShrink` shows that only a publisher adds one
and the lock keeps other publishers out.  `Sends`: the loop holds a job exactly
while it is inside `send_latest`.

From `VfsAssumption` alone:

| Theorem (VfsProofs) | Property |
|---|---|
| `VfsTypeCorrect` | `TypeOK` |
| `LogIsAlwaysNet` | `LogIsNetChange` |
| `DeletesAreKnown` | `DeletesAreOfKnownFiles` (not in a run) |
| `ReadsSeeWrites` | `ReadAfterWrite` |
| `VfsIsAMirror` | `ImplementsMirror`: the refinement of Mirror |

`VfsInvariant` adds `NoPathTwice` (ids are unique), `Told` (the database knows
only ids that existed at the last drain) and `InStep`: the texts, once the
batch on its way is applied, are those of the files at the last drain.
`LogIsNetChange` takes it from there to the files of today, which gives
`ReadAfterWrite`; `WriteById` first does away with the interner, and `Recorded`
goes through the branches of `record` once.

From `ClientAssumption` alone, for any number of changes of the settings:

| Theorem (SessionProofs) | Property |
|---|---|
| `ClientIsTyped` | `ClientTypeOK` |
| `ServerIsReachable` | `ReachableServer` |
| `SettingsHaveEffect` | `SettingsTakeEffect` |

`ClientInv` is what an operation knows at each of its awaits.
`AwaitsInOrder`: a stop is of the current client and has been asked for, and
during a start there is no current client.  `StartIsFirst`: the start is only
ever at the head of the queue, with no server yet.  `OneAnswers`: a server that
runs is the current one, one that starts is the one awaited.  `ShutdownAsks`:
once the shutdown has left the queue, nothing is started and the current
client has been asked to stop.  `RestartPending`: settings that the last client
was not started with have a restart or the start in the queue, unless its
predecessor would not stop.  Each is broken by some step without another of
them; for example `RestartPending` survives the failure of a stop only because
`AwaitsInOrder` says that the stop was of the last client.

The module also carries this over to sessions: `SessionIsAClient` shows that
Session refines ClientLifecycle (queries, loads and records are stutters, a
server's shutdown is `AnswersShutdown`), and `SessionHasOneServer` and
`SessionHasSettings` follow for the specification that the run checks, for any
limits, operations and durations.

From these and the assumptions of Telemetry, Requests and Session, for any
window, limits, operations, durations and number of replies:

| Theorem (SessionProofs) | Property |
|---|---|
| `SessionIsTyped` | `TypeOK` |
| `HealthIsOfReplies` | `HealthMatchesReplies` |

`SessionInv` adds to `ClientInv` what ties counters to replies.  `Tallied`: of
every server and operation, each counter is the number of the replies it is
about (`Tallies`), the samples are `Ring`, the latest durations in the order in
which a ring overwrites them, and there is a count of the one reason that the
operation gives for an empty answer.  `Replies`: a reply that is sent is not in
`told` yet, so that it counts.  `Bounded`: a server that has not answered its
shutdown has room for the one record that a shutdown adds to an open load; it
needs `StartPending`, that a start that resolves is not of a server that was
shut down already.  TLC checked `SessionInv` on the run's instance first.

`RequestAgrees` goes through the handlers and shows of each, in any world, that
the guard it drops says what its reply says (`Says`): this is where a handler
that counts an error as an answer, or leaves its guard without an outcome on a
path that answers, would be found.  `TallyKept` then shows that a record and a
reply that agree keep the tally.  For the percentiles, `SortedFacts` shows that
there is an order to sort by (every place has the number of the samples that
precede it, a different one for each), `NearestRank` that what stands at the
rank is the nearest-rank percentile, and `RingPercentile` that a ring has the
same percentiles as the latest durations in order, being a rearrangement of them.

From `FreshnessAssumption` alone, for any files and texts, any number of
notices in flight, and whether or not indexes are reloaded:

| Theorem (FreshnessProofs) | Property |
|---|---|
| `DocumentsAreTyped` | `TypeOK` |
| `UnsavedTextIsStale` | `UnsavedIsStale` |
| `StartupMatchesDocument` | `StartupAnswersMatchDocument` |
| `StartupSymbolsAreCurrent` | `SymbolsAreCurrent` |

`FreshInv` says what the ordered channel gives.  `LastWord`: the last notice
about a file, or the document if there is none, is what the buffer holds.
`ChangesDiffer`: a change comes after a text of an open file and is another one
than that.  With `Recorded` (the Vfs has the document of an open file) this is
why `did_change` marks the file although it compares with the Vfs and not with
the disk: the text it gets is never the one recorded.  `EditsAreNoted` is the
heart of it: until another generation than startup's is served, a file that is
not `unnoticed` is marked, or has a notice on its way that will mark it (a
change, or an open with another text than the file's), or is `Untouched`, with
one text on disk, in its shard, in the buffer, in every notice, in what the
worker read and in the index.  Nothing is assumed of the shards at the start: a
file whose shard is of another text is `unnoticed` from then on.  The invariant is
kept by a build, which the guard shows to be of a file that was touched; by a
save, after which an open on its way may mark nothing, and then `OpeningUnheard`
says so; and by an install of startup's, which keeps the marks.  An install of
any other does not keep them, and that is what FindingReloadForgetsEdits shows.
There is one lemma for each action; the three handlers share `HandledKeeps`.

From `SymbolAssumption`, `InputAssumption` and `ShardAssumption`, for any
shards, any number of them, and texts of any length.  `SearchIsBest` is also
from `SearchAssumption`, which says that names are sequences of numbers, that
paths and symbols have an order, and that a list of references may have one at
least (`REFERENCE_LIMIT` is 5000); `TextIsIntended` from `CharAssumption` and
`ColumnAssumption`, for texts whose columns stay below `MaxU32` while they are
converted; `CursorIsRoundTrip` from all of these:

| Theorem (NavigationProofs, the last in CursorProofs) | Property |
|---|---|
| `NavigationTypeOK` | `TypeOK` |
| `IndexIsUnion` | `IndexIsUnionOfShards` |
| `CallsDual` | `CallsAreDual` |
| `OutlineIsNested` | `OutlineNests` |
| `SearchIsBest` | `SearchFindsBest` |
| `TextIsIntended` | `ServerHasIntendedText` |
| `CursorIsRoundTrip` | `CursorRoundTrip` |

`NavInv` relates the index to `Seen`, the rows of all shards so far, table by
table (`PathsHold`, `NamesHold`, `SitesHold`, `UsesHold`, `OccurrencesHold`): an
entry is there if and only if some row asks for it, with ids for what they
stand for.  `Tidy` says what holds during a cold load already (no path, name or
declaration twice, occurrences in source order without repetition), and
`AllDistinct` what only its end brings (no use twice).  `Holds` is kept
by a row, thus by a document, thus by a shard, thus by each action; a snapshot
keeps it because nothing that was interned is renumbered when the map of path
ids is rebuilt.

The tables are computed by recursive functions over rows, and the library's
induction theorems, which take an operator, cannot be used.  The
proofs use one fact instead, that a set of numbers has a least element
(`LeastOf`, from the well-foundedness of `<`): `UpTo` says that a set with 0
and with every successor contains an interval, and is applied to the *set* of
the steps up to which a fact holds; `Recursion` builds the recursive function on
an interval.  With them come `SortedByFacts` (a stable insertion sort has the
same elements, in order), `DeduplicatedFacts`, `AddRowHolds`, `AddDocumentFacts`
and `AddShardFacts`.  `CallsDual` then needs no induction: `IncomingAre` and
`OutgoingAre` show that what each direction gives is in one relation `CalledFrom`
between declaration sites, that it gives all of the relation unless it is full
(`CallLimitedFacts`), and that the early exits of the two scans skip only what is
outside.

`OutlineIsNested` is by the invariant `WalkHolds` of the walk: the stack has, in
their order, all the declarations so far that hold a later one, and every parent
is the last declaration before that holds it.  That one which is closed is not
needed again is `HoldsBetween`: in source order a declaration that holds a later
name holds all names between the two.  This takes names that are apart and not
empty, each inside its own declaration's span, which the property assumes of a
file; that spans nest it does not assume.

`SearchIsBest` is by an invariant of the scan, `BestHolds`: of what was offered so
far, the heap has as many as the limit allows and nothing outside it ranks
before anything in it.  A candidate that meets a full heap replaces the worst one
or is dropped, and either way this holds again (`KeepHolds`), because the order
of the ranks is linear (`RanksAreLinear`): a rank holds the length of the name in
its second place, so that of two ranks neither is the beginning of the other.
Every definition that matches is offered once, in whatever order the name table
is read (`ByNameFacts`, `OrderOnce`), so the number of candidates is the number of
matches.  `PageFacts` puts the live matches in front without going over the limit
or losing one.

`TextIsIntended` is about the line table.  `Measured` gives a text three
functions of a number of characters, their bytes, units and lines, and the
reference positions are differences of these (`WidthIs`, `BoundaryOfLine`).
`TableHolds` is the invariant of the scan that builds the table: a line is an
interval of boundaries, its start in the table is the bytes before it, an entry
stands for a character of it and every wide character has one (`HasEntries`),
and `Converts`: the column `ByteColumn` makes of one in units has grown by what
the characters before a boundary e have in bytes beyond their units, where e is
the first boundary that is not before the column.  The last is what makes the
loop over the entries right although the column it compares with grows on the
way; e may be the end of a character that the column cuts in two, and then the
byte column is one byte short of it and `snap_to_boundary` goes back to its
start (`UnitsCut`, `SnappedIs`).  So the offset of a position is the bytes before
its boundary (`OffsetIs`), distinct boundaries have distinct offsets, and the
server's edit of bytes is the client's edit of characters (`ApplyChangeIs`),
one after the other where a notification carries two.

`CursorIsRoundTrip` joins the two halves, the line table and the index.
`PositionIs` is the other direction of `OffsetIs`: from the offset of a boundary
the code finds the position LSP gives it.  With `OffsetOfCursor` (any place
inside a character has the offset of its first byte) this makes
`UnderCursor`: the index is asked about a column of the same character, whatever
the client counts in; and `CoversAlike`: an occurrence has the place that the
index is asked about exactly if the range sent to the client has the cursor.
`SymbolAtIs` is the scan over the occurrences, which stops at the first that
starts on a later line, and takes a smallest that covers.  What the handlers
answer about that symbol follows from the tables of `NavInv`: `SitesOfSymbol`
and `UsesOfSymbol` say what is listed, `LocationsAre` that a list sorted by
nearness is complete up to the limit and begins in the open file if it has a row
there, and `HierarchyStartsHere` which declaration `PrepareCallHierarchy` takes.
The proof needed one more part of the invariant, that a declaration has the
encoding of a row that was seen (`EncodingSeen` in `SitesHold`): locations are
sent in it.

What this property says was made precise by the proof.  It is about documents
whose rows are in UTF-16 and begin and end at characters of the text on the
cursor's line, as they do where the shard was made from this text (`Aligned`).
Narrowest means on one line, or over fewer lines (`Narrower`): `symbol_at`
promises the narrowest of several, but `span_len` counts no columns where a
range ends left of its beginning, so of two ranges over the same lines it can
call the two equal though one is inside the other, and then the first wins, which
may be the wider one.  A call hierarchy starts from the declaration under the cursor if that is
the only row of the symbol there; of two that overlap the handler takes the
first.

### Model-checked only

* All liveness (`NoticeIsReconciled`, `EveryLoadAnswered`, `RefreshEnds`,
  `CachedSessionReconciles`, `OperationsEnd`): fairness and `ENABLED` are beyond the prover, and so are
  RECURSIVE operators, of which these modules have none.


## 6. What is not modelled

* Benchmark marks, index reclamation and logging in the handlers:
  they change nothing the properties speak of.
* Errors of a generation worker's own I/O (a scan, a canonicalized path, a read)
  and of decoding a shard: the faults are a panic while decoding, a watcher that
  does not start and lost events.  An explicit worker's error is in Session, as
  far as its reply and its record go.
* A workspace root that is missing or does not resolve: `CacheKey::new` fails
  and nothing is loaded.  A key is therefore the HEAD it captured.
* How a shard is parsed, and in GenerationLifecycle what it contains, beyond
  "decodes to no symbol".
* Of the cache's files: the loss of power, damage to a file and the length and
  checksum that detect it, the temporary file of the pointer and the `-tmp`
  directories of writers that crashed, which `cleanup` filters out
  (index_cache.rs:261), so that `PruningLeavesTwo` is about final directories; and
  a failure inside `cleanup` (reading the directory or `CURRENT`, removing a
  directory), which it ignores.  In GenerationLifecycle `WriterStores` publishes in one step; IndexCache has the
  steps.
* Of the Vfs and base-db: the order of a batch, hash collisions, source roots
  and durability.
* Of the symbol index and the handlers: how a symbol string is shortened to a
  name, the text of a hover, the kinds of symbols but for what is callable, which
  is of a symbol and not of each of its sites, and text in UTF-32, which the
  handlers read as UTF-16.  No range of an indexer ends before it begins
  (`InputAssumption`).  Of two shards, one does not declare what another uses at
  the same place, nor give a site another span (`ShardAssumption`): they come
  from one indexer and one text.
* Path classification and the resolution of the git directory in the watcher.
* Of telemetry: `check_span` and `record_violation`, which nothing but the
  crate's tests calls, the operations that nothing records, and the rounding of
  rates.  Parameters of a request that do not parse are refused before a guard
  is started and leave no trace.
* Of the extension: how the binary is found, the status and reload commands,
  and a server that dies on its own, which is left to `vscode-languageclient`.
* The parse of the overlay: a function of one text.  A declaration that is live
  is one that the text of a file has.
* Source roots and their durability: salsa, which decides what a durability
  means, is not in the repository, and the server does not use base-db yet.
* Build model, paths, LSP surface, tools: process I/O and pure conversions, with
  no state between calls.


## 7. Plan

Done: the lifecycle and its proofs, **IndexCache** with its register, **Vfs**
with base-db and Mirror, **LineIndex**, **SymbolIndex** and **Navigation** with
search, **ClientLifecycle** with its proofs, **Telemetry**, **Requests** and
**Session**, and the proofs of DocumentFreshness, of what is served, of the
queue and the pruning of the cache, of the index, of the text, of what a cursor
finds, and of the telemetry: every safety property that a run checks and that
holds is a theorem.  Left, in this order:

1. **Revision**: `refresh_revision` as the counter it is, implementing the
   `current` flag of LoopHandlers.
2. Source roots and durability in VfsDatabase, once the server uses base-db.
3. Path classification in the watcher.
