------------------------------ MODULE LoopHandlers ------------------------------
(***************************************************************************)
(* The index-lifecycle handlers of `struct Server` (server.rs), each one a *)
(* function from the server's state to the server's state.  The event loop *)
(* runs one handler at a time, to its end, so a handler that calls another *)
(* (a result handler that schedules the queued refresh, say) is the        *)
(* composition of the two functions.                                       *)
(*                                                                         *)
(* A state is a record whose fields carry the names the struct gives them, *)
(* plus what the handlers create or emit: the worker threads spawned whose *)
(* result has not been handled (workers), how many replies each            *)
(* `jabar/loadIndex` request has had (answers), and how many progress      *)
(* reports the client sees open (shown).                                   *)
(*                                                                         *)
(* Two counters are kept as what they decide.  `refresh_revision` is only  *)
(* ever compared with the revision a worker started under, so a worker     *)
(* carries that comparison (current) and incrementing the counter makes    *)
(* every worker in flight obsolete.  `cache_epoch` likewise: a cache write *)
(* whose ticket is old can never publish, so the write that still can is   *)
(* the whole of the writer's state (cache_job).                            *)
(*                                                                         *)
(* A definition whose name ends in Mutant is the one it precedes with a    *)
(* bug a careless edit could make.  No specification uses it: it is there  *)
(* to show that a property notices the bug.                                *)
(***************************************************************************)
EXTENDS Integers, Sequences

CONSTANTS
  Heads,      (* the commits `git rev-parse HEAD` may print                *)
  Requests,   (* the ids of the `jabar/loadIndex` requests of the client   *)
  BazelBin,   (* the Bazel output tree, whose generations are cached       *)
  LocalIndex, (* `.jabar/index`, the fallback, whose generations are not   *)
  None        (* Rust's None                                               *)

Dirs == {BazelBin, LocalIndex}

(***************************************************************************)
(* A shard generation is the set of `.scip` files a scan finds under one   *)
(* directory, identified by when it was written; NoShards is the empty     *)
(* set.  An index is named by the generation it was decoded from.          *)
(***************************************************************************)
Generation == Nat
NoShards == 0

ASSUME NoneAssumption ==
  /\ None \notin Heads
  /\ None \notin Requests
  /\ None \notin Dirs
  /\ None \notin Generation
  /\ BazelBin # LocalIndex

Kinds == {"startup", "refresh", "explicit"}
Change == {"Workspace", "Index", "WatcherError"}

(***************************************************************************)
(* A FileWatcher: the shard directory it watches, if any (it always        *)
(* watches the git directory), the paths its debouncer has gathered but    *)
(* not dispatched, and the changes waiting in its channel.                 *)
(***************************************************************************)
Watcher ==
  [shards : Dirs \union {None}, batch : SUBSET {"git", "shards"}, sent : Seq(Change)]

NewWatcher(d) == [shards |-> d, batch |-> {}, sent |-> <<>>]

(***************************************************************************)
(* A worker thread and the result it is going to send, has sent            *)
(* (pc = "done") or will never send ("dead").                              *)
(***************************************************************************)
Worker ==
  [kind : Kinds, current : BOOLEAN,
   pc : {"begin", "scan", "decode", "rescan", "confirm", "watch", "recheck", "build", "done", "dead"},
   dir : Dirs, recapture : BOOLEAN, key : Heads \union {None}, force : BOOLEAN,
   previous : Generation \union {None}, scanned : Generation, decoded : Generation,
   cached : BOOLEAN, built : BOOLEAN, request : Requests \union {None},
   watch : Watcher \union {None},
   outcome : {"none", "unchanged", "loaded", "empty", "noindex", "failed"}]

IdleWorker ==
  [kind |-> "startup", current |-> TRUE, pc |-> "begin", dir |-> BazelBin,
   recapture |-> TRUE, key |-> None, force |-> TRUE, previous |-> None,
   scanned |-> NoShards, decoded |-> NoShards, cached |-> FALSE, built |-> FALSE,
   request |-> None, watch |-> None, outcome |-> "none"]

CacheJob == [shards : Generation, head : Heads \union {None}]

Server ==
  [index : Generation \union {None}, index_dir : Dirs \union {None},
   index_shards : Generation \union {None}, provenance : Heads \union {None},
   provenance_stale : BOOLEAN, cache : BOOLEAN, cache_hit : BOOLEAN,
   shards_verified : BOOLEAN, cache_job : CacheJob \union {None},
   refresh_running : BOOLEAN, refresh_again : BOOLEAN,
   refresh_intent : {"Idle", "Retry", "AwaitingBuild"}, refresh_progress : BOOLEAN,
   explicit_load_running : BOOLEAN, explicit_load : Requests \union {None},
   explicit_load_progress : BOOLEAN, startup_running : BOOLEAN,
   startup_state : {"unavailable", "loading", "ready", "no-index", "failed", "superseded",
                    "cancelled"},
   watcher : Watcher \union {None}, shutdown_requested : BOOLEAN,
   workers : SUBSET Worker, asked : SUBSET Requests, answers : [Requests -> Nat],
   shown : Int]

(***************************************************************************)
(* `Server::new`.                                                          *)
(***************************************************************************)
NewServer ==
  [index |-> None, index_dir |-> None, index_shards |-> None, provenance |-> None,
   provenance_stale |-> FALSE, cache |-> FALSE, cache_hit |-> FALSE,
   shards_verified |-> FALSE, cache_job |-> None, refresh_running |-> FALSE,
   refresh_again |-> FALSE, refresh_intent |-> "Idle", refresh_progress |-> FALSE,
   explicit_load_running |-> FALSE, explicit_load |-> None,
   explicit_load_progress |-> FALSE, startup_running |-> FALSE,
   startup_state |-> "unavailable", watcher |-> None, shutdown_requested |-> FALSE,
   workers |-> {}, asked |-> {}, answers |-> [r \in Requests |-> 0], shown |-> 0]

-----------------------------------------------------------------------------
(* refresh_revision + 1: no worker in flight is current any more. *)
Supersede(s) == [s EXCEPT !.workers = {[w EXCEPT !.current = FALSE] : w \in @}]

Spawn(s, w) == [s EXCEPT !.workers = @ \union {w}]
Received(s, w) == [s EXCEPT !.workers = @ \ {w}]

(* `begin_progress` and `end_progress` on the one token "jabar-<pid>". *)
ShowProgress(s) == [s EXCEPT !.shown = @ + 1]
HideProgressMutant(s, open) == s
HideProgress(s, open) == IF open THEN [s EXCEPT !.shown = @ - 1] ELSE s

Respond(s, r) == [s EXCEPT !.answers[r] = @ + 1]

(* `write_cache_async`: the job replaces any job queued or running before. *)
WriteCacheAsync(s) ==
  IF s.cache /\ s.index # None
  THEN [s EXCEPT !.cache_job = [shards |-> s.index_shards, head |-> s.provenance]]
  ELSE s

-----------------------------------------------------------------------------
(* Mutant: a refresh does not wait for a startup or an explicit worker. *)
ScheduleRefreshMutant(s, changed, w) ==
  IF s.refresh_running
  THEN IF changed THEN [Supersede(s) EXCEPT !.refresh_again = TRUE] ELSE s
  ELSE Spawn(ShowProgress([Supersede(s) EXCEPT !.refresh_running = TRUE,
                                               !.refresh_progress = TRUE]), w)

(* Mutant: a change that finds a refresh running is taken as covered by it. *)
ScheduleRefreshForgetsMutant(s, changed, w) ==
  IF s.explicit_load_running \/ s.startup_running
  THEN [s EXCEPT !.refresh_again = @ \/ changed]
  ELSE IF s.refresh_running THEN s
  ELSE Spawn(ShowProgress([Supersede(s) EXCEPT !.refresh_running = TRUE,
                                               !.refresh_progress = TRUE]), w)

(* `schedule_refresh`: at most one generation worker; a change that finds  *)
(* one running is queued behind it.                                        *)
ScheduleRefresh(s, changed, w) ==
  IF s.explicit_load_running \/ s.startup_running
  THEN [s EXCEPT !.refresh_again = @ \/ changed]
  ELSE IF s.refresh_running
  THEN IF changed THEN [Supersede(s) EXCEPT !.refresh_again = TRUE] ELSE s
  ELSE Spawn(ShowProgress([Supersede(s) EXCEPT !.refresh_running = TRUE,
                                               !.refresh_progress = TRUE]), w)

(* Mutant: the captured manifest and directory are swapped. *)
RefreshWorkerMutant(s, force) ==
  [IdleWorker EXCEPT !.kind = "refresh", !.dir = s.index_dir,
                     !.recapture = s.provenance_stale, !.key = s.provenance,
                     !.force = force, !.previous = s.index_dir]

(* What the closure of `schedule_index_refresh` captures. *)
RefreshWorker(s, force) ==
  [IdleWorker EXCEPT !.kind = "refresh", !.dir = s.index_dir,
                     !.recapture = s.provenance_stale, !.key = s.provenance,
                     !.force = force, !.previous = s.index_shards]

ScheduleIndexRefresh(s, changed, force) ==
  IF s.index_dir = None THEN s ELSE ScheduleRefresh(s, changed, RefreshWorker(s, force))

(* Mutant: nothing looks at the queue when a worker is done. *)
ScheduleQueuedRefreshMutant(s) == s

ScheduleQueuedRefresh(s) ==
  IF ~s.refresh_again THEN s
  ELSE LET t == [s EXCEPT !.refresh_again = FALSE]
       IN  IF t.refresh_intent = "AwaitingBuild" THEN t
           ELSE ScheduleIndexRefresh(t, FALSE, t.index = None)

(* Mutant: the timer only retries failures. *)
OnRefreshTickMutant(s) ==
  IF s.refresh_intent = "Retry" THEN ScheduleIndexRefresh(s, FALSE, s.index = None) ELSE s

OnRefreshTick(s) ==
  IF s.refresh_intent # "AwaitingBuild" /\ (s.cache \/ s.refresh_intent = "Retry")
  THEN ScheduleIndexRefresh(s, FALSE, s.index = None)
  ELSE s

-----------------------------------------------------------------------------
(* Mutant: the cancelled load stays pending until its thread is done. *)
CancelExplicitLoadMutant(s) ==
  IF s.explicit_load = None THEN s
  ELSE HideProgress(Respond([Supersede(s) EXCEPT !.explicit_load_progress = FALSE],
                            s.explicit_load),
                    s.explicit_load_progress)

(* `cancel_explicit_load`: the request is answered now; the thread keeps   *)
(* running and keeps its place until its result arrives.                   *)
CancelExplicitLoad(s) ==
  IF s.explicit_load = None THEN s
  ELSE HideProgress(
         Respond([Supersede(s) EXCEPT !.explicit_load = None,
                                      !.explicit_load_progress = FALSE], s.explicit_load),
         s.explicit_load_progress)

CancelStartup(s) ==
  IF s.startup_running
  THEN [Supersede(s) EXCEPT !.startup_running = FALSE, !.startup_state = "cancelled"]
  ELSE s

(* `on_file_change`, one definition per kind of change. *)
OnIndexChange(s) ==
  ScheduleIndexRefresh([s EXCEPT !.refresh_intent = "Retry"], TRUE,
                       s.refresh_intent = "AwaitingBuild" \/ s.index = None)

OnWorkspaceChange(s) ==
  [Supersede(CancelExplicitLoad([s EXCEPT !.index = None]))
     EXCEPT !.cache_hit = FALSE, !.shards_verified = FALSE,
            !.refresh_intent = "AwaitingBuild", !.provenance_stale = TRUE,
            !.refresh_again = FALSE, !.cache_job = None]

OnWatcherError(s) ==
  IF s.refresh_intent = "AwaitingBuild" THEN s
  ELSE ScheduleIndexRefresh([s EXCEPT !.shards_verified = FALSE, !.refresh_intent = "Retry"],
                            TRUE, s.index = None)

OnFileChange(s, change) ==
  CASE change = "Index"        -> OnIndexChange(s)
    [] change = "Workspace"    -> OnWorkspaceChange(s)
    [] change = "WatcherError" -> OnWatcherError(s)

-----------------------------------------------------------------------------
(* `schedule_startup_work`. *)
ScheduleStartup(s) ==
  IF s.startup_running \/ s.refresh_running \/ s.explicit_load_running THEN s
  ELSE Spawn([Supersede(s) EXCEPT !.startup_running = TRUE, !.startup_state = "loading"],
             IdleWorker)

(* `adopt_discovered`; a generation of the Bazel tree is the cached one. *)
AdoptDiscovered(s, w) ==
  LET t == [Supersede(s) EXCEPT
              !.cache = (w.dir = BazelBin), !.cache_hit = w.cached,
              !.shards_verified = ~w.cached, !.index_shards = w.scanned,
              !.provenance = w.key, !.provenance_stale = FALSE,
              !.refresh_intent = IF w.cached THEN "Retry" ELSE "Idle",
              !.index = w.decoded, !.index_dir = w.dir,
              !.watcher = IF w.watch = None THEN @ ELSE w.watch]
  IN  IF t.cache_hit THEN ScheduleIndexRefresh(t, FALSE, FALSE) ELSE WriteCacheAsync(t)

OnStartupResult(s, w) ==
  LET t == Received(s, w)
      settled == [t EXCEPT !.startup_running = FALSE,
                           !.startup_state = CASE w.outcome = "loaded"  -> "ready"
                                               [] w.outcome = "noindex" -> "no-index"
                                               [] OTHER                 -> "failed"]
  IN  IF ~t.startup_running \/ ~w.current
      THEN [t EXCEPT !.startup_running = FALSE,
                     !.startup_state = IF t.startup_running THEN "superseded" ELSE @]
      ELSE ScheduleQueuedRefresh(IF w.outcome = "loaded" THEN AdoptDiscovered(settled, w)
                                                         ELSE settled)

-----------------------------------------------------------------------------
(* `update_provenance` *)
UpdateProvenance(s, key) == [s EXCEPT !.provenance = key, !.provenance_stale = FALSE]

InstallReload(s, w) ==
  LET t == [UpdateProvenance(s, w.key) EXCEPT
              !.index = w.decoded, !.index_shards = w.scanned,
              !.shards_verified = TRUE, !.refresh_intent = "Idle"]
  IN  IF t.cache THEN WriteCacheAsync([t EXCEPT !.cache_hit = FALSE]) ELSE t

ClearIndex(s, w) ==
  [UpdateProvenance(s, w.key) EXCEPT
     !.index = None, !.index_shards = w.scanned, !.cache_hit = FALSE,
     !.shards_verified = TRUE, !.refresh_intent = "Idle", !.cache_job = None]

ConfirmUnchanged(s, w) ==
  [UpdateProvenance(s, w.key) EXCEPT
     !.shards_verified = (s.index # None),
     !.refresh_intent = IF s.index # None THEN "Idle" ELSE "Retry"]

KeepOldIndex(s) ==
  [s EXCEPT !.shards_verified = FALSE,
            !.refresh_intent = IF @ = "AwaitingBuild" THEN @ ELSE "Retry"]

(* Mutant: a result is used whether or not it is current. *)
OnRefreshResultMutant(s, w) ==
  LET t == HideProgress([Received(s, w) EXCEPT !.refresh_running = FALSE,
                                               !.refresh_progress = FALSE],
                        s.refresh_progress)
  IN  ScheduleQueuedRefresh(
        CASE w.outcome = "unchanged" -> ConfirmUnchanged(t, w)
          [] w.outcome = "empty"     -> ClearIndex(t, w)
          [] w.outcome = "loaded"    -> InstallReload(t, w)
          [] OTHER                   -> KeepOldIndex(t))

OnRefreshResult(s, w) ==
  LET t == HideProgress([Received(s, w) EXCEPT !.refresh_running = FALSE,
                                               !.refresh_progress = FALSE],
                        s.refresh_progress)
  IN  ScheduleQueuedRefresh(
        IF ~w.current THEN t
        ELSE CASE w.outcome = "unchanged" -> ConfirmUnchanged(t, w)
               [] w.outcome = "empty"     -> ClearIndex(t, w)
               [] w.outcome = "loaded"    -> InstallReload(t, w)
               [] OTHER                   -> KeepOldIndex(t))

-----------------------------------------------------------------------------
(* `load_index` and `schedule_explicit_load`: refused, and answered at once, *)
(* after `shutdown` or while any generation worker runs.                     *)
OnLoadRequest(s, r, d) ==
  LET t == [s EXCEPT !.asked = @ \union {r}]
  IN  IF t.shutdown_requested \/ t.refresh_running \/ t.explicit_load_running \/ t.startup_running
      THEN Respond(t, r)
      ELSE Spawn(ShowProgress([Supersede(t) EXCEPT !.explicit_load_running = TRUE,
                                                   !.explicit_load = r,
                                                   !.explicit_load_progress = TRUE]),
                 [IdleWorker EXCEPT !.kind = "explicit", !.dir = d, !.request = r])

InstallExplicit(s, w) ==
  [UpdateProvenance(s, w.key) EXCEPT
     !.index = w.decoded, !.index_shards = w.scanned, !.cache = FALSE, !.cache_job = None,
     !.cache_hit = FALSE, !.shards_verified = TRUE, !.refresh_intent = "Idle",
     !.index_dir = w.dir, !.watcher = w.watch]

OnExplicitLoadResult(s, w) ==
  LET t == [Received(s, w) EXCEPT !.explicit_load_running = FALSE]
      answered == HideProgress(
                    Respond([t EXCEPT !.explicit_load = None,
                                      !.explicit_load_progress = FALSE], w.request),
                    t.explicit_load_progress)
  IN  ScheduleQueuedRefresh(
        IF t.explicit_load # w.request THEN t
        ELSE IF w.current /\ w.outcome = "loaded" THEN InstallExplicit(answered, w)
        ELSE answered)

(* The `shutdown` arm of the event loop. *)
OnShutdown(s) ==
  [CancelStartup(CancelExplicitLoad(s)) EXCEPT !.shutdown_requested = TRUE]

=============================================================================
