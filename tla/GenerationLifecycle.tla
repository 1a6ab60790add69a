--------------------------- MODULE GenerationLifecycle ---------------------------
(***************************************************************************)
(* One server process between `initialize` and its end: the event loop,    *)
(* whose handlers are those of LoopHandlers, the generation worker it      *)
(* spawns, the debounced file watcher, the client's load requests, and the *)
(* world they share - a git checkout whose HEAD moves and shard            *)
(* directories that builds rewrite - changing at any point between two     *)
(* steps of a worker.                                                      *)
(*                                                                         *)
(* The workspace root is present and its paths resolve, so CacheKey::new   *)
(* succeeds and a key is the HEAD it captured.                             *)
(***************************************************************************)
EXTENDS LoopHandlers

CONSTANTS
  AutoIndex,     (* the `index.auto` setting                                *)
  Rebuilt,       (* the shard directories that builds write while it runs   *)
  Unusable,      (* the generations whose shards decode to no symbol        *)
  InitialBin,    (* what the Bazel output tree may hold at startup          *)
  InitialLocal,  (* what `.jabar/index` may hold at startup                 *)
  InitialCached, (* the generations a previous session may have cached      *)
  Faults,        (* the kinds of fault that may happen                      *)
  MaxFaults,     (* bound: faults in a behaviour                            *)
  MaxStamp,      (* bound: the last generation any build can write          *)
  MaxMoves       (* bound: writes to `.git/HEAD` or `.git/index`            *)

FaultKinds == {"watcher-lost-events", "watcher-not-started", "panic", "refresh-panic"}

(* What a directory or the cache holds when the server starts was written  *)
(* before it, and is never what a build writes while it runs: generation 2 *)
(* is the last one before startup, and 3 the first one after it.           *)
ASSUME LifecycleAssumption ==
  /\ AutoIndex \in BOOLEAN
  /\ Rebuilt \subseteq Dirs
  /\ Unusable \subseteq Generation
  /\ InitialBin \subseteq 0..2
  /\ InitialLocal \subseteq 0..2
  /\ InitialCached \subseteq 0..2
  /\ Faults \subseteq FaultKinds
  /\ MaxFaults \in Nat /\ MaxStamp \in Nat /\ MaxMoves \in Nat

VARIABLES
  srv,       (* the server process: see LoopHandlers!Server                 *)
  head,      (* the commit HEAD names                                       *)
  disk,      (* the generation each shard directory holds                   *)
  stamp,     (* the generation the latest build wrote                       *)
  published, (* the snapshot the cache's CURRENT names, or None             *)
  moves,     (* writes to `.git/HEAD` and `.git/index` so far               *)
  moved_at,  (* history: the latest generation when the last of them came   *)
  faults     (* faults so far                                               *)

world == <<head, disk, stamp, moves, moved_at>>
vars == <<srv, head, disk, stamp, published, moves, moved_at, faults>>

TypeOK ==
  /\ srv \in Server
  /\ head \in Heads
  /\ disk \in [Dirs -> Generation]
  /\ stamp \in Generation
  /\ published \in CacheJob \union {None}
  /\ moves \in Nat
  /\ moved_at \in Generation
  /\ faults \in Nat

(* `run_server` up to the event loop: startup is scheduled before it runs. *)
Init ==
  /\ srv = ScheduleStartup(NewServer)
  /\ head \in Heads
  /\ \E bin \in InitialBin, local \in InitialLocal :
       disk = [d \in Dirs |-> IF d = BazelBin THEN bin ELSE local]
  /\ stamp = 2
  /\ \/ published = None
     \/ \E g \in InitialCached : published = [shards |-> g, head |-> head]
  /\ moves = 0
  /\ moved_at = NoShards
  /\ faults = 0

-----------------------------------------------------------------------------
(* The world, and the watchers that see it change. *)

(* A path a watcher watches has changed: its debouncer gathers the event.  *)
Gather(x, kind, d) ==
  IF x # None /\ (kind = "git" \/ x.shards = d)
  THEN [x EXCEPT !.batch = @ \union {kind}] ELSE x

(* Every live watcher, the server's and a worker's, gathers it. *)
Notify(s, kind, d) ==
  [s EXCEPT !.watcher = Gather(@, kind, d),
            !.workers = {[w EXCEPT !.watch = Gather(@, kind, d)] : w \in @}]

(* HEAD moves, or only `.git/index` is rewritten (the new HEAD is the old). *)
GitWrites ==
  /\ moves < MaxMoves
  /\ moves' = moves + 1
  /\ moved_at' = stamp
  /\ head' \in Heads
  /\ srv' = Notify(srv, "git", None)
  /\ UNCHANGED <<disk, stamp, published, faults>>

(* A build replaces the shards of a directory, or removes them all. *)
BuildWrites(d) ==
  /\ stamp < MaxStamp
  /\ stamp' = stamp + 1
  /\ \E g \in {stamp', NoShards} : disk' = [disk EXCEPT ![d] = g]
  /\ srv' = Notify(srv, "shards", d)
  /\ UNCHANGED <<head, published, moves, moved_at, faults>>

(* `dispatch`: at most one message of each kind per batch, Workspace first. *)
Dispatch(x) ==
  LET workspace == IF "git" \in x.batch THEN <<"Workspace">> ELSE <<>>
      index     == IF "shards" \in x.batch THEN <<"Index">> ELSE <<>>
  IN  [x EXCEPT !.batch = {}, !.sent = @ \o workspace \o index]

(* The debouncer of the server's watcher, or of a worker's, times out. *)
DebounceServer ==
  /\ srv.watcher # None
  /\ srv.watcher.batch # {}
  /\ srv' = [srv EXCEPT !.watcher = Dispatch(@)]
  /\ UNCHANGED <<world, published, faults>>

(* The watcher that worker w has started goes on as x. *)
WatchBecomes(w, x) ==
  srv' = [srv EXCEPT !.workers = (@ \ {w}) \union {[w EXCEPT !.watch = x]}]

DebounceWorker(w) ==
  /\ w.watch # None
  /\ w.watch.batch # {}
  /\ WatchBecomes(w, Dispatch(w.watch))
  /\ UNCHANGED <<world, published, faults>>

Fault(kind) ==
  /\ kind \in Faults
  /\ faults < MaxFaults
  /\ faults' = faults + 1

(* The notify backend reports an error: what it had gathered may be lost. *)
LoseEvents(x, kept) == [x EXCEPT !.batch = kept, !.sent = Append(@, "WatcherError")]

ServerLosesEvents ==
  /\ Fault("watcher-lost-events")
  /\ srv.watcher # None
  /\ \E kept \in SUBSET srv.watcher.batch :
       srv' = [srv EXCEPT !.watcher = LoseEvents(@, kept)]
  /\ UNCHANGED <<world, published>>

WorkerLosesEvents(w) ==
  /\ Fault("watcher-lost-events")
  /\ w.watch # None
  /\ \E kept \in SUBSET w.watch.batch : WatchBecomes(w, LoseEvents(w.watch, kept))
  /\ UNCHANGED <<world, published>>

-----------------------------------------------------------------------------
(* The generation workers. *)

(* Worker w goes on as v; a worker touches nothing else of the server. *)
Become(w, v) ==
  /\ srv' = [srv EXCEPT !.workers = (@ \ {w}) \union {v}]
  /\ UNCHANGED <<head, published, moves, moved_at>>

Finish(w, outcome) == [w EXCEPT !.pc = "done", !.outcome = outcome]

(* A startup worker that finds nothing usable where it looked: it tries    *)
(* `.jabar/index` after the Bazel tree, then one build if `index.auto`.    *)
NothingHere(w) ==
  IF w.dir = BazelBin THEN [w EXCEPT !.pc = "begin", !.dir = LocalIndex]
  ELSE IF AutoIndex /\ ~w.built THEN [w EXCEPT !.pc = "build"]
  ELSE Finish(w, "noindex")

(* Mutant: a refresh that finds the shards changed looks again for ever. *)
GiveUpMutant(w) == IF w.kind = "startup" THEN NothingHere(w) ELSE w

GiveUp(w) == IF w.kind = "startup" THEN NothingHere(w) ELSE Finish(w, "failed")

(* The snapshot `index_cache::load` returns for a key, used if it has symbols. *)
CacheHit(w) ==
  /\ w.kind = "startup"
  /\ w.dir = BazelBin
  /\ published # None
  /\ published.head = head
  /\ published.shards \notin Unusable \union {NoShards}

(* Captures the key, unless the server's provenance still stands, and      *)
(* checks it; a startup worker tries the cache first.                      *)
WorkerBegins(w) ==
  LET v == [w EXCEPT !.key = IF w.recapture THEN head ELSE @]
  IN  /\ w.pc = "begin"
      /\ Become(w, IF v.key # head THEN Finish(v, "failed")
                   ELSE IF CacheHit(w)
                   THEN [v EXCEPT !.pc = "watch", !.cached = TRUE,
                                  !.scanned = published.shards, !.decoded = published.shards]
                   ELSE [v EXCEPT !.pc = "scan"])
      /\ UNCHANGED <<disk, stamp, faults>>

(* Mutant: an unforced refresh trusts the manifest it started from. *)
WorkerScansMutant(w) ==
  LET v == [w EXCEPT !.scanned = disk[w.dir]]
  IN  /\ w.pc = "scan"
      /\ Become(w, IF ~w.force THEN [v EXCEPT !.pc = "confirm", !.outcome = "unchanged"]
                   ELSE [v EXCEPT !.pc = "decode"])
      /\ UNCHANGED <<disk, stamp, faults>>

(* `scan_shards`; an unforced refresh stops at the manifest it started from. *)
WorkerScans(w) ==
  LET v == [w EXCEPT !.scanned = disk[w.dir]]
  IN  /\ w.pc = "scan"
      /\ Become(w, IF ~w.force /\ w.previous = v.scanned
                   THEN [v EXCEPT !.pc = "confirm", !.outcome = "unchanged"]
                   ELSE IF w.kind = "refresh" /\ w.key # head THEN GiveUp(v)
                   ELSE [v EXCEPT !.pc = "decode"])
      /\ UNCHANGED <<disk, stamp, faults>>

(* Reads the files the scan listed, as they are by now. *)
WorkerDecodes(w) ==
  /\ w.pc = "decode"
  /\ Become(w, [w EXCEPT !.pc = "rescan",
                         !.decoded = IF w.scanned = NoShards THEN NoShards ELSE disk[w.dir]])
  /\ UNCHANGED <<disk, stamp, faults>>

(* Mutant: there is no second scan. *)
WorkerRescansMutant(w) ==
  /\ w.pc = "rescan"
  /\ Become(w, [w EXCEPT !.pc = "confirm", !.outcome = "loaded"])
  /\ UNCHANGED <<disk, stamp, faults>>

(* The second scan of `load_validated_shards`. *)
WorkerRescans(w) ==
  /\ w.pc = "rescan"
  /\ Become(w, IF disk[w.dir] # w.scanned THEN GiveUp(w)
               ELSE [w EXCEPT !.pc = "confirm", !.outcome = "loaded"])
  /\ UNCHANGED <<disk, stamp, faults>>

(* The last provenance check, and what the worker makes of the load. *)
WorkerConfirms(w) ==
  LET usable == w.decoded \notin Unusable \union {NoShards}
  IN  /\ w.pc = "confirm"
      /\ Become(w, IF w.key # head THEN GiveUp([w EXCEPT !.outcome = "none"])
                   ELSE CASE w.kind = "explicit" -> [w EXCEPT !.pc = "watch"]
                          [] w.kind = "startup"  -> IF usable THEN [w EXCEPT !.pc = "watch"]
                                                    ELSE NothingHere([w EXCEPT !.outcome = "none"])
                          [] w.kind = "refresh"  ->
                               IF w.outcome = "unchanged" THEN Finish(w, "unchanged")
                               ELSE IF w.scanned = NoShards THEN Finish(w, "empty")
                               ELSE IF usable THEN Finish(w, "loaded")
                               ELSE Finish(w, "failed"))
      /\ UNCHANGED <<disk, stamp, faults>>

(* FileWatcher::spawn.  Only the startup worker looks at HEAD again; its   *)
(* watcher leaves the Bazel tree, which is cached, unwatched.              *)
WorkerWatches(w) ==
  LET target == IF w.kind = "startup" /\ w.dir = BazelBin THEN None ELSE w.dir
      after  == IF w.kind = "startup" THEN [w EXCEPT !.pc = "recheck"] ELSE Finish(w, "loaded")
  IN  /\ w.pc = "watch"
      /\ \/ /\ Become(w, [after EXCEPT !.watch = NewWatcher(target)])
            /\ UNCHANGED faults
         \/ /\ Fault("watcher-not-started")
            /\ Become(w, after)
      /\ UNCHANGED <<disk, stamp>>

(* Mutant: HEAD is not looked at again once the watcher runs. *)
WorkerRechecksMutant(w) ==
  /\ w.pc = "recheck"
  /\ Become(w, Finish(w, "loaded"))
  /\ UNCHANGED <<disk, stamp, faults>>

WorkerRechecks(w) ==
  /\ w.pc = "recheck"
  /\ Become(w, IF w.key = head THEN Finish(w, "loaded")
               ELSE Finish([w EXCEPT !.watch = None], "failed"))
  /\ UNCHANGED <<disk, stamp, faults>>

(* `build_index`, then discovery from the start; or the build fails. *)
WorkerBuilds(w) ==
  /\ w.pc = "build"
  /\ \/ /\ stamp < MaxStamp
        /\ stamp' = stamp + 1
        /\ disk' = [disk EXCEPT ![BazelBin] = stamp']
        /\ Become(w, [w EXCEPT !.pc = "begin", !.dir = BazelBin, !.built = TRUE])
     \/ /\ Become(w, Finish(w, "failed"))
        /\ UNCHANGED <<disk, stamp>>
  /\ UNCHANGED faults

(* Mutant: no worker's panic is caught. *)
WorkerPanicsMutant(w) ==
  /\ w.pc = "decode"
  /\ Fault(IF w.kind = "refresh" THEN "refresh-panic" ELSE "panic")
  /\ Become(w, [w EXCEPT !.pc = "dead"])
  /\ UNCHANGED <<disk, stamp>>

(* A panic while decoding: caught and reported by a startup or an explicit *)
(* worker, while a refresh worker dies and will never send a result.       *)
WorkerPanics(w) ==
  /\ w.pc = "decode"
  /\ \/ /\ w.kind # "refresh"
        /\ Fault("panic")
        /\ Become(w, Finish(w, "failed"))
     \/ /\ w.kind = "refresh"
        /\ Fault("refresh-panic")
        /\ Become(w, [w EXCEPT !.pc = "dead"])
  /\ UNCHANGED <<disk, stamp>>

(* The cache writer publishes the job if shards and HEAD still match it.   *)
WriterStores ==
  LET job == srv.cache_job
  IN  /\ job # None
      /\ published' = IF disk[BazelBin] = job.shards /\ head = job.head THEN job ELSE published
      /\ srv' = [srv EXCEPT !.cache_job = None]
      /\ UNCHANGED <<world, faults>>

-----------------------------------------------------------------------------
(* The arms of the event loop's `select!`. *)

FileChange ==
  /\ srv.watcher # None
  /\ srv.watcher.sent # <<>>
  /\ srv' = OnFileChange([srv EXCEPT !.watcher.sent = Tail(@)], Head(srv.watcher.sent))
  /\ UNCHANGED <<world, published, faults>>

StartupResult(w) ==
  /\ w.kind = "startup" /\ w.pc = "done"
  /\ srv' = OnStartupResult(srv, w)
  /\ UNCHANGED <<world, published, faults>>

(* A confirmed empty set also removes CURRENT (`index_cache::invalidate`). *)
RefreshResult(w) ==
  /\ w.kind = "refresh" /\ w.pc = "done"
  /\ srv' = OnRefreshResult(srv, w)
  /\ published' = IF w.current /\ w.outcome = "empty" /\ srv.cache THEN None ELSE published
  /\ UNCHANGED <<world, faults>>

ExplicitLoadResult(w) ==
  /\ w.kind = "explicit" /\ w.pc = "done"
  /\ srv' = OnExplicitLoadResult(srv, w)
  /\ UNCHANGED <<world, published, faults>>

RefreshTick ==
  /\ srv' = OnRefreshTick(srv)
  /\ UNCHANGED <<world, published, faults>>

LoadRequest(r, d) ==
  /\ r \notin srv.asked
  /\ srv' = OnLoadRequest(srv, r, d)
  /\ UNCHANGED <<world, published, faults>>

Shutdown ==
  /\ ~srv.shutdown_requested
  /\ srv' = OnShutdown(srv)
  /\ UNCHANGED <<world, published, faults>>

-----------------------------------------------------------------------------
WorkerStep(w) ==
  \/ WorkerBegins(w) \/ WorkerScans(w) \/ WorkerDecodes(w) \/ WorkerRescans(w)
  \/ WorkerConfirms(w) \/ WorkerWatches(w) \/ WorkerRechecks(w) \/ WorkerBuilds(w)

ResultArrives(w) == StartupResult(w) \/ RefreshResult(w) \/ ExplicitLoadResult(w)

Next ==
  \/ GitWrites
  \/ \E d \in Rebuilt : BuildWrites(d)
  \/ DebounceServer
  \/ \E w \in srv.workers :
       \/ DebounceWorker(w) \/ WorkerLosesEvents(w)
       \/ WorkerStep(w) \/ WorkerPanics(w) \/ ResultArrives(w)
  \/ ServerLosesEvents
  \/ WriterStores
  \/ FileChange
  \/ RefreshTick
  \/ \E r \in Requests, d \in Dirs : LoadRequest(r, d)
  \/ Shutdown

Spec == Init /\ [][Next]_vars

(***************************************************************************)
(* Threads run, the debouncer fires, `select!` picks every ready arm in    *)
(* the end (it chooses at random among them), and the timer ticks.  What   *)
(* the user, git, builds and faults do is up to them.                      *)
(***************************************************************************)
Fairness ==
  /\ WF_vars(\E w \in srv.workers : WorkerStep(w))
  /\ WF_vars(\E w \in srv.workers : ResultArrives(w))
  /\ WF_vars(DebounceServer)
  /\ WF_vars(FileChange)
  /\ WF_vars(RefreshTick)
  /\ WF_vars(WriterStores)

FairSpec == Spec /\ Fairness

-----------------------------------------------------------------------------
(***************************************************************************)
(* Safety.                                                                 *)
(***************************************************************************)

(* "At most one generation worker runs at a time" (load_index): startup,    *)
(* refresh and explicit load never overlap, cancelled loads included, and   *)
(* a worker's place is held by its flag until its result is handled.        *)
OneGenerationWorker ==
  /\ \A v, w \in srv.workers : v = w
  /\ \A w \in srv.workers :
       CASE w.kind = "refresh"  -> srv.refresh_running
         [] w.kind = "explicit" -> srv.explicit_load_running
         [] w.kind = "startup"  -> srv.startup_running \/ srv.shutdown_requested

(* Every `jabar/loadIndex` is answered exactly once, whether it is refused, *)
(* cancelled by a branch switch or a shutdown, superseded or completed; the *)
(* only one still owed a response is the one whose load is pending.         *)
AnsweredOnce ==
  \A r \in Requests :
    srv.answers[r] = IF r \in srv.asked /\ r # srv.explicit_load THEN 1 ELSE 0

(* All progress is reported under one token, "jabar-<pid>": a second Begin  *)
(* before the End of the first, or an End without a Begin, would corrupt    *)
(* the client's display.                                                    *)
OneProgressReport == srv.shown \in 0..1

(* A change queued behind a worker (refresh_again) is never stranded while  *)
(* nothing runs: there is a worker whose result will pick it up, and only   *)
(* a reload that panicked, which holds its place for ever, will not.        *)
QueuedChangeIsCarried == srv.refresh_again => srv.workers # {}

(* After a branch switch nothing is served, and no refresh in flight can    *)
(* install the old tree's index, until a shard event or an explicit load.   *)
NoReloadWhileAwaitingBuild ==
  srv.refresh_intent = "AwaitingBuild" =>
    /\ srv.index = None
    /\ \A w \in srv.workers : w.kind = "refresh" => ~w.current

(* While the server waits for a build, the only thing that can put an index *)
(* in place is the load the client asked for and is still waiting for.      *)
NothingInstalledUnbidden ==
  [][srv.refresh_intent = "AwaitingBuild" /\ srv'.index # None =>
       \E w \in srv.workers :
         w.kind = "explicit" /\ w.pc = "done" /\ w.request = srv.explicit_load]_srv

(* What is served was decoded from exactly the shards its manifest lists;   *)
(* the next refresh relies on this to answer "unchanged" without decoding.  *)
IndexMatchesManifest == srv.index # None => srv.index = srv.index_shards

(* A cached snapshot is only called verified once a scan of this session    *)
(* found its shards: it may describe shards that were gone before startup.  *)
VerifiedWasOnDisk ==
  srv.shards_verified /\ srv.index # None =>
    srv.index \in InitialBin \union InitialLocal \union {NoShards} \union 3..MaxStamp

GitNoticePending ==
  \/ "git" \in srv.watcher.batch
  \/ \E i \in DOMAIN srv.watcher.sent : srv.watcher.sent[i] # "Index"

(* Whenever HEAD is not the commit the served index was validated against,  *)
(* the watcher holds the notice that will drop it, or the index is already  *)
(* known to need validation: no movement goes unnoticed, even while a       *)
(* startup worker's watcher takes over or a backend loses its events.       *)
MovesAreNoticed ==
  srv.index # None /\ srv.watcher # None /\ srv.provenance # head =>
    GitNoticePending \/ srv.refresh_intent # "Idle"

(* This holds until the client asks for a load. *)
NoUnseenMove == srv.asked = {} => MovesAreNoticed

(***************************************************************************)
(* Liveness.                                                               *)
(***************************************************************************)

(* A load request that was accepted is answered in the end. *)
EveryLoadAnswered == \A r \in Requests : srv.explicit_load = r ~> srv.explicit_load # r

ReloadPanicked == \E w \in srv.workers : w.pc = "dead"

(* A reload's place is given back, whatever it finds and however often the  *)
(* shards change under it, unless its thread panicked: nothing catches that *)
(* panic, and then the place is never given back.                           *)
RefreshEnds ==
  srv.refresh_running ~> ~srv.refresh_running \/ srv.shutdown_requested \/ ReloadPanicked

IndexNoticeLast ==
  /\ moves = MaxMoves
  /\ srv.watcher # None
  /\ "git" \notin srv.watcher.batch
  /\ \/ "shards" \in srv.watcher.batch
     \/ srv.watcher.sent # <<>> /\ srv.watcher.sent[Len(srv.watcher.sent)] = "Index"

Reconciled ==
  /\ srv.index_dir # None
  /\ srv.index_shards = disk[srv.index_dir]
  /\ srv.shards_verified
  /\ srv.index = None <=> srv.index_shards = NoShards

(* A shard event the watcher has seen, with no branch switch behind it, is  *)
(* acted on, whatever worker is in flight when it is received.  It is not   *)
(* after a load, whose watcher replaces this one; when a reload panicked;   *)
(* and when events were lost: those of the shards while the server waits    *)
(* for a build, or those of HEAD, after which every reload is refused.      *)
NoticeIsReconciled ==
  IndexNoticeLast ~>
    \/ Reconciled
    \/ srv.asked # {}
    \/ ReloadPanicked
    \/ faults > 0 /\ (srv.refresh_intent = "AwaitingBuild" \/ srv.provenance # head)

(* Periodic reconciliation: a session with a cache, which does not watch    *)
(* its shards, ends up serving them, unless it waits for a build or HEAD    *)
(* moved and the notice was lost, when every reload fails its first check,  *)
(* or a reload panicked.                                                    *)
CachedSessionReconciles ==
  <>[](\/ ~srv.cache
       \/ srv.shutdown_requested
       \/ srv.refresh_intent = "AwaitingBuild"
       \/ srv.provenance # head
       \/ ReloadPanicked
       \/ disk[srv.index_dir] \in Unusable
       \/ Reconciled)

(* The shards a build writes after the last branch switch end up served:    *)
(* "The server watches for shard changes and reloads on its own".           *)
ReloadsOnItsOwn ==
  <>[](\/ srv.shutdown_requested
       \/ srv.index_dir = None
       \/ disk[srv.index_dir] <= moved_at
       \/ srv.index = disk[srv.index_dir])

=============================================================================
