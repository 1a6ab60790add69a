---------------------------- MODULE GenerationProofs ----------------------------
(***************************************************************************)
(* Theorems about GenerationLifecycle, for every value of its constants:   *)
(* type correctness, and the safety of the event loop's bookkeeping.       *)
(*                                                                         *)
(* The handlers are functions of the server's state, so each has lemmas of *)
(* its own about any state s, and the proof about the specification only   *)
(* names the lemma of the handler a step runs.  First that each maps a     *)
(* server's state to one; an assignment to fields of the record is a lemma *)
(* too, so that a proof meets one record at a time.  Then the invariant,   *)
(* which is inductive whatever git, builds and faults do.                  *)
(***************************************************************************)
EXTENDS GenerationLifecycle, SequenceTheorems, TLAPS

-----------------------------------------------------------------------------
(* An assignment to a field, of a value the field may have. *)
LEMMA IndexField ==
  ASSUME NEW s \in Server, NEW g \in Generation \union {None}
  PROVE  [s EXCEPT !.index = g] \in Server
BY DEF Server

LEMMA IndexDirField ==
  ASSUME NEW s \in Server, NEW d \in Dirs \union {None}
  PROVE  [s EXCEPT !.index_dir = d] \in Server
BY DEF Server

LEMMA ShardsField ==
  ASSUME NEW s \in Server, NEW g \in Generation \union {None}
  PROVE  [s EXCEPT !.index_shards = g] \in Server
BY DEF Server

LEMMA ProvenanceField ==
  ASSUME NEW s \in Server, NEW k \in Heads \union {None}
  PROVE  [s EXCEPT !.provenance = k] \in Server
BY DEF Server

LEMMA StaleField ==
  ASSUME NEW s \in Server, NEW b \in BOOLEAN
  PROVE  [s EXCEPT !.provenance_stale = b] \in Server
BY DEF Server

LEMMA CacheField ==
  ASSUME NEW s \in Server, NEW b \in BOOLEAN PROVE [s EXCEPT !.cache = b] \in Server
BY DEF Server

LEMMA CacheHitField ==
  ASSUME NEW s \in Server, NEW b \in BOOLEAN PROVE [s EXCEPT !.cache_hit = b] \in Server
BY DEF Server

LEMMA VerifiedField ==
  ASSUME NEW s \in Server, NEW b \in BOOLEAN
  PROVE  [s EXCEPT !.shards_verified = b] \in Server
BY DEF Server

LEMMA JobField ==
  ASSUME NEW s \in Server, NEW j \in CacheJob \union {None}
  PROVE  [s EXCEPT !.cache_job = j] \in Server
BY DEF Server

LEMMA RefreshingField ==
  ASSUME NEW s \in Server, NEW b \in BOOLEAN
  PROVE  [s EXCEPT !.refresh_running = b] \in Server
BY DEF Server

LEMMA QueueField ==
  ASSUME NEW s \in Server, NEW b \in BOOLEAN
  PROVE  [s EXCEPT !.refresh_again = b] \in Server
BY DEF Server

LEMMA IntentField ==
  ASSUME NEW s \in Server, NEW i \in {"Idle", "Retry", "AwaitingBuild"}
  PROVE  [s EXCEPT !.refresh_intent = i] \in Server
BY DEF Server

LEMMA RefreshShownField ==
  ASSUME NEW s \in Server, NEW b \in BOOLEAN
  PROVE  [s EXCEPT !.refresh_progress = b] \in Server
BY DEF Server

LEMMA LoadingField ==
  ASSUME NEW s \in Server, NEW b \in BOOLEAN
  PROVE  [s EXCEPT !.explicit_load_running = b] \in Server
BY DEF Server

LEMMA PendingField ==
  ASSUME NEW s \in Server, NEW r \in Requests \union {None}
  PROVE  [s EXCEPT !.explicit_load = r] \in Server
BY DEF Server

LEMMA LoadShownField ==
  ASSUME NEW s \in Server, NEW b \in BOOLEAN
  PROVE  [s EXCEPT !.explicit_load_progress = b] \in Server
BY DEF Server

LEMMA StartingField ==
  ASSUME NEW s \in Server, NEW b \in BOOLEAN
  PROVE  [s EXCEPT !.startup_running = b] \in Server
BY DEF Server

LEMMA StartupStateField ==
  ASSUME NEW s \in Server, NEW w \in {"unavailable", "loading", "ready", "no-index", "failed",
                           "superseded", "cancelled"}
  PROVE  [s EXCEPT !.startup_state = w] \in Server
BY DEF Server

LEMMA WatcherField ==
  ASSUME NEW s \in Server, NEW x \in Watcher \union {None}
  PROVE  [s EXCEPT !.watcher = x] \in Server
BY DEF Server

LEMMA ShuttingDownField ==
  ASSUME NEW s \in Server, NEW b \in BOOLEAN
  PROVE  [s EXCEPT !.shutdown_requested = b] \in Server
BY DEF Server

(* The handlers keep a server state a server state. *)

LEMMA SupersedeType == ASSUME NEW s \in Server PROVE Supersede(s) \in Server
<1>1. \A w \in Worker : [w EXCEPT !.current = FALSE] \in Worker
  BY DEF Worker
<1>2. {[w EXCEPT !.current = FALSE] : w \in s.workers} \in SUBSET Worker
  BY <1>1 DEF Server
<1> QED BY <1>2 DEF Supersede, Server

LEMMA SpawnType ==
  ASSUME NEW s \in Server, NEW w \in Worker PROVE Spawn(s, w) \in Server
BY DEF Spawn, Server

LEMMA ReceivedType ==
  ASSUME NEW s \in Server, NEW w PROVE Received(s, w) \in Server
BY DEF Received, Server

LEMMA ProgressType ==
  ASSUME NEW s \in Server, NEW open \in BOOLEAN
  PROVE  ShowProgress(s) \in Server /\ HideProgress(s, open) \in Server
BY DEF ShowProgress, HideProgress, Server

LEMMA RespondType ==
  ASSUME NEW s \in Server, NEW r \in Requests PROVE Respond(s, r) \in Server
BY DEF Respond, Server

LEMMA WriteCacheAsyncType ==
  ASSUME NEW s \in Server, s.index_shards # None PROVE WriteCacheAsync(s) \in Server
<1>1. [shards |-> s.index_shards, head |-> s.provenance] \in CacheJob
  BY DEF CacheJob, Server
<1> QED BY <1>1 DEF WriteCacheAsync, Server

(* The assignments the handlers make between calls. *)
LEMMA StartRefreshType ==
  ASSUME NEW s \in Server
  PROVE  [s EXCEPT !.refresh_running = TRUE, !.refresh_progress = TRUE] \in Server
BY RefreshingField, RefreshShownField

LEMMA UnverifiedType ==
  ASSUME NEW s \in Server
  PROVE  [s EXCEPT !.shards_verified = FALSE, !.refresh_intent = "Retry"] \in Server
BY VerifiedField, IntentField

LEMMA AwaitBuildType ==
  ASSUME NEW s \in Server
  PROVE  [s EXCEPT !.cache_hit = FALSE, !.shards_verified = FALSE,
                   !.refresh_intent = "AwaitingBuild", !.provenance_stale = TRUE,
                   !.refresh_again = FALSE, !.cache_job = None] \in Server
BY CacheHitField, VerifiedField, IntentField, StaleField, QueueField, JobField

LEMMA NoExplicitLoadType ==
  ASSUME NEW s \in Server
  PROVE  [s EXCEPT !.explicit_load = None, !.explicit_load_progress = FALSE] \in Server
BY PendingField, LoadShownField

LEMMA NoStartupType ==
  ASSUME NEW s \in Server
  PROVE  [s EXCEPT !.startup_running = FALSE, !.startup_state = "cancelled"] \in Server
BY StartingField, StartupStateField

LEMMA FieldTypes ==
  ASSUME NEW s \in Server
  PROVE  /\ s.index_dir \in Dirs \union {None}
         /\ s.index \in Generation \union {None}
         /\ s.index_shards \in Generation \union {None}
         /\ s.provenance \in Heads \union {None}
         /\ s.explicit_load \in Requests \union {None}
         /\ s.watcher \in Watcher \union {None}
         /\ s.cache_job \in CacheJob \union {None}
         /\ s.workers \in SUBSET Worker
         /\ s.provenance_stale \in BOOLEAN /\ s.refresh_again \in BOOLEAN
         /\ s.refresh_progress \in BOOLEAN /\ s.explicit_load_progress \in BOOLEAN
         /\ s.startup_running \in BOOLEAN
BY DEF Server

-----------------------------------------------------------------------------
LEMMA ScheduleRefreshType ==
  ASSUME NEW s \in Server, NEW changed \in BOOLEAN, NEW w \in Worker
  PROVE  ScheduleRefresh(s, changed, w) \in Server
<1>1. (s.refresh_again \/ changed) \in BOOLEAN
  BY FieldTypes
<1>2. Spawn(ShowProgress([Supersede(s) EXCEPT !.refresh_running = TRUE,
                                               !.refresh_progress = TRUE]), w) \in Server
  BY StartRefreshType, SupersedeType, ProgressType, SpawnType
<1>3. [Supersede(s) EXCEPT !.refresh_again = TRUE] \in Server
  BY QueueField, SupersedeType
<1>4. [s EXCEPT !.refresh_again = @ \/ changed] \in Server
  BY <1>1, QueueField
<1> QED BY <1>2, <1>3, <1>4 DEF ScheduleRefresh

LEMMA IdleType == IdleWorker \in Worker
BY DEF IdleWorker, Worker, Kinds, Dirs, Generation, NoShards

LEMMA RecaptureType ==
  ASSUME NEW w \in Worker, NEW b \in BOOLEAN PROVE [w EXCEPT !.recapture = b] \in Worker
BY DEF Worker

LEMMA ForceType ==
  ASSUME NEW w \in Worker, NEW b \in BOOLEAN PROVE [w EXCEPT !.force = b] \in Worker
BY DEF Worker

LEMMA WorkerDirType ==
  ASSUME NEW w \in Worker, NEW d \in Dirs PROVE [w EXCEPT !.dir = d] \in Worker
BY DEF Worker

LEMMA WorkerKeyType ==
  ASSUME NEW w \in Worker, NEW k \in Heads \union {None} PROVE [w EXCEPT !.key = k] \in Worker
BY DEF Worker

LEMMA WorkerKindType ==
  ASSUME NEW w \in Worker, NEW k \in Kinds PROVE [w EXCEPT !.kind = k] \in Worker
BY DEF Worker

LEMMA WorkerPreviousType ==
  ASSUME NEW w \in Worker, NEW g \in Generation \union {None}
  PROVE  [w EXCEPT !.previous = g] \in Worker
BY DEF Worker

LEMMA RefreshWorkerType ==
  ASSUME NEW s \in Server, NEW force \in BOOLEAN, s.index_dir # None
  PROVE  RefreshWorker(s, force) \in Worker
<1> DEFINE b == s.provenance_stale
           v == [IdleWorker EXCEPT !.kind = "refresh", !.dir = s.index_dir, !.recapture = b,
                                   !.key = s.provenance, !.force = force,
                                   !.previous = s.index_shards]
<1>1. /\ s.index_dir \in Dirs /\ s.provenance \in Heads \union {None}
      /\ s.index_shards \in Generation \union {None} /\ "refresh" \in Kinds
  BY FieldTypes DEF Kinds
<1>2. RefreshWorker(s, force) = v
  BY DEF RefreshWorker
<1>3. b \in BOOLEAN
  BY FieldTypes
<1> HIDE DEF b
<1>4. v \in Worker
  BY <1>1, <1>3, IdleType, WorkerKindType, WorkerDirType, RecaptureType, WorkerKeyType,
     ForceType, WorkerPreviousType
<1> HIDE DEF v
<1> QED BY <1>2, <1>4, Zenon

LEMMA ScheduleIndexRefreshType ==
  ASSUME NEW s \in Server, NEW changed \in BOOLEAN, NEW force \in BOOLEAN
  PROVE  ScheduleIndexRefresh(s, changed, force) \in Server
BY ScheduleRefreshType, RefreshWorkerType DEF ScheduleIndexRefresh

LEMMA ScheduleQueuedRefreshType ==
  ASSUME NEW s \in Server PROVE ScheduleQueuedRefresh(s) \in Server
BY QueueField, ScheduleIndexRefreshType DEF ScheduleQueuedRefresh

LEMMA OnRefreshTickType ==
  ASSUME NEW s \in Server PROVE OnRefreshTick(s) \in Server
BY ScheduleIndexRefreshType DEF OnRefreshTick

LEMMA CancelExplicitLoadType ==
  ASSUME NEW s \in Server PROVE CancelExplicitLoad(s) \in Server
BY FieldTypes, NoExplicitLoadType, SupersedeType, RespondType, ProgressType
   DEF CancelExplicitLoad

LEMMA CancelStartupType ==
  ASSUME NEW s \in Server PROVE CancelStartup(s) \in Server
BY NoStartupType, SupersedeType DEF CancelStartup

LEMMA OnFileChangeType ==
  ASSUME NEW s \in Server, NEW change \in Change PROVE OnFileChange(s, change) \in Server
<1>1. OnIndexChange(s) \in Server
  BY IntentField, ScheduleIndexRefreshType DEF OnIndexChange
<1>2. OnWorkspaceChange(s) \in Server
  BY IndexField, AwaitBuildType, CancelExplicitLoadType, SupersedeType
     DEF OnWorkspaceChange
<1>3. OnWatcherError(s) \in Server
  BY UnverifiedType, ScheduleIndexRefreshType DEF OnWatcherError
<1>4. change \in {"Workspace", "Index", "WatcherError"}
  BY DEF Change
<1> QED BY <1>1, <1>2, <1>3, <1>4, Zenon DEF OnFileChange

-----------------------------------------------------------------------------
(* The handlers of results. *)

LEMMA WorkerFields ==
  ASSUME NEW w \in Worker
  PROVE  /\ w.key \in Heads \union {None}
         /\ w.scanned \in Generation /\ w.decoded \in Generation
         /\ w.scanned # None /\ w.decoded # None
         /\ w.dir \in Dirs /\ w.dir # None
         /\ w.watch \in Watcher \union {None}
         /\ w.request \in Requests \union {None}
         /\ w.cached \in BOOLEAN /\ w.current \in BOOLEAN /\ w.built \in BOOLEAN
         /\ w.kind \in Kinds
BY NoneAssumption DEF Worker

LEMMA UpdateProvenanceType ==
  ASSUME NEW s \in Server, NEW key \in Heads \union {None}
  PROVE  UpdateProvenance(s, key) \in Server
BY ProvenanceField, StaleField DEF UpdateProvenance

LEMMA ReloadFields ==
  ASSUME NEW s \in Server, NEW g \in Generation, NEW h \in Generation
  PROVE  [s EXCEPT !.index = g, !.index_shards = h, !.shards_verified = TRUE,
                   !.refresh_intent = "Idle"] \in Server
BY IndexField, ShardsField, VerifiedField, IntentField

LEMMA CacheHitType ==
  ASSUME NEW s \in Server, NEW b \in BOOLEAN
  PROVE  /\ [s EXCEPT !.cache_hit = b] \in Server
         /\ [s EXCEPT !.cache_hit = b].index_shards = s.index_shards
BY DEF Server

LEMMA InstallReloadType ==
  ASSUME NEW s \in Server, NEW w \in Worker PROVE InstallReload(s, w) \in Server
<1> DEFINE u == UpdateProvenance(s, w.key)
           t == [u EXCEPT !.index = w.decoded, !.index_shards = w.scanned,
                          !.shards_verified = TRUE, !.refresh_intent = "Idle"]
<1>1. u \in Server
  BY WorkerFields, UpdateProvenanceType
<1> HIDE DEF u
<1>2. t \in Server
  BY <1>1, WorkerFields, ReloadFields
<1>3. t.index_shards = w.scanned
  BY <1>1 DEF Server
<1> HIDE DEF t
<1>4. WriteCacheAsync([t EXCEPT !.cache_hit = FALSE]) \in Server
  BY <1>2, <1>3, WorkerFields, CacheHitType, WriteCacheAsyncType
<1>5. InstallReload(s, w) = IF t.cache THEN WriteCacheAsync([t EXCEPT !.cache_hit = FALSE]) ELSE t
  BY DEF InstallReload, t, u
<1> QED BY <1>2, <1>4, <1>5

LEMMA ClearFields ==
  ASSUME NEW s \in Server, NEW g \in Generation
  PROVE  [s EXCEPT !.index = None, !.index_shards = g, !.cache_hit = FALSE,
                   !.shards_verified = TRUE, !.refresh_intent = "Idle",
                   !.cache_job = None] \in Server
BY IndexField, ShardsField, CacheHitField, VerifiedField, IntentField, JobField

LEMMA ClearIndexType ==
  ASSUME NEW s \in Server, NEW w \in Worker PROVE ClearIndex(s, w) \in Server
BY WorkerFields, UpdateProvenanceType, ClearFields DEF ClearIndex

LEMMA ConfirmFields ==
  ASSUME NEW s \in Server
  PROVE  [s EXCEPT !.shards_verified = TRUE, !.refresh_intent = "Idle"] \in Server
BY VerifiedField, IntentField

LEMMA ConfirmUnchangedType ==
  ASSUME NEW s \in Server, NEW w \in Worker PROVE ConfirmUnchanged(s, w) \in Server
<1> DEFINE u == UpdateProvenance(s, w.key)
<1>1. u \in Server
  BY WorkerFields, UpdateProvenanceType
<1>2. ConfirmUnchanged(s, w) =
        IF s.index # None THEN [u EXCEPT !.shards_verified = TRUE, !.refresh_intent = "Idle"]
                          ELSE [u EXCEPT !.shards_verified = FALSE, !.refresh_intent = "Retry"]
  BY DEF ConfirmUnchanged
<1> HIDE DEF u
<1> QED BY <1>1, <1>2, ConfirmFields, UnverifiedType

LEMMA KeepOldIndexType ==
  ASSUME NEW s \in Server PROVE KeepOldIndex(s) \in Server
<1>1. CASE s.refresh_intent = "AwaitingBuild"
  <2>1. KeepOldIndex(s) = [s EXCEPT !.shards_verified = FALSE]
    BY <1>1 DEF KeepOldIndex, Server
  <2> QED BY <2>1, VerifiedField
<1>2. CASE s.refresh_intent # "AwaitingBuild"
  <2>1. KeepOldIndex(s) = [s EXCEPT !.shards_verified = FALSE, !.refresh_intent = "Retry"]
    BY <1>2 DEF KeepOldIndex
  <2> QED BY <2>1, UnverifiedType
<1> QED BY <1>1, <1>2

LEMMA EndRefreshType ==
  ASSUME NEW s \in Server
  PROVE  [s EXCEPT !.refresh_running = FALSE, !.refresh_progress = FALSE] \in Server
BY RefreshingField, RefreshShownField

LEMMA OnRefreshResultType ==
  ASSUME NEW s \in Server, NEW w \in Worker PROVE OnRefreshResult(s, w) \in Server
<1> DEFINE t == HideProgress([Received(s, w) EXCEPT !.refresh_running = FALSE,
                                                    !.refresh_progress = FALSE],
                             s.refresh_progress)
<1>1. t \in Server
  BY ReceivedType, EndRefreshType, ProgressType, FieldTypes
<1> HIDE DEF t
<1>2. /\ ConfirmUnchanged(t, w) \in Server /\ ClearIndex(t, w) \in Server
      /\ InstallReload(t, w) \in Server /\ KeepOldIndex(t) \in Server
  BY <1>1, ConfirmUnchangedType, ClearIndexType, InstallReloadType, KeepOldIndexType
<1>3. OnRefreshResult(s, w) =
        ScheduleQueuedRefresh(
          IF ~w.current THEN t
          ELSE CASE w.outcome = "unchanged" -> ConfirmUnchanged(t, w)
                 [] w.outcome = "empty"     -> ClearIndex(t, w)
                 [] w.outcome = "loaded"    -> InstallReload(t, w)
                 [] OTHER                   -> KeepOldIndex(t))
  BY DEF OnRefreshResult, t
<1> QED BY <1>1, <1>2, <1>3, ScheduleQueuedRefreshType

LEMMA DiscoveredIndexType ==
  ASSUME NEW s \in Server, NEW i \in {"Idle", "Retry", "AwaitingBuild"},
         NEW g \in Generation, NEW d \in Dirs, NEW x \in Watcher \union {None}
  PROVE  [s EXCEPT !.refresh_intent = i, !.index = g, !.index_dir = d,
                   !.watcher = x] \in Server
BY IntentField, IndexField, IndexDirField, WatcherField

LEMMA DiscoveredShards ==
  ASSUME NEW s \in Server, NEW b, NEW c, NEW v, NEW h, NEW k, NEW i, NEW g, NEW d, NEW x
  PROVE  [s EXCEPT !.cache = b, !.cache_hit = c, !.shards_verified = v,
                   !.index_shards = h, !.provenance = k, !.provenance_stale = FALSE,
                   !.refresh_intent = i, !.index = g, !.index_dir = d,
                   !.watcher = x].index_shards = h
BY DEF Server

(* The assignments of AdoptDiscovered, before it schedules or stores. *)
Discovered(s, w) ==
  [Supersede(s) EXCEPT
     !.cache = (w.dir = BazelBin), !.cache_hit = w.cached, !.shards_verified = ~w.cached,
     !.index_shards = w.scanned, !.provenance = w.key, !.provenance_stale = FALSE,
     !.refresh_intent = IF w.cached THEN "Retry" ELSE "Idle",
     !.index = w.decoded, !.index_dir = w.dir,
     !.watcher = IF w.watch = None THEN @ ELSE w.watch]

LEMMA AdoptIsDiscovered ==
  ASSUME NEW s, NEW w
  PROVE  AdoptDiscovered(s, w) =
           IF Discovered(s, w).cache_hit
           THEN ScheduleIndexRefresh(Discovered(s, w), FALSE, FALSE)
           ELSE WriteCacheAsync(Discovered(s, w))
BY DEF AdoptDiscovered, Discovered

LEMMA DiscoveredType ==
  ASSUME NEW s \in Server, NEW w \in Worker
  PROVE  Discovered(s, w) \in Server /\ Discovered(s, w).index_shards # None
<1> DEFINE u == Supersede(s)
           x == IF w.watch = None THEN u.watcher ELSE w.watch
           i == IF w.cached THEN "Retry" ELSE "Idle"
           b == (w.dir = BazelBin)
           v == ~w.cached
           t1 == [u EXCEPT !.cache = b, !.cache_hit = w.cached, !.shards_verified = v,
                           !.index_shards = w.scanned, !.provenance = w.key,
                           !.provenance_stale = FALSE]
           t == [t1 EXCEPT !.refresh_intent = i, !.index = w.decoded, !.index_dir = w.dir,
                           !.watcher = x]
<1>1. u \in Server
  BY SupersedeType
<1>2. Discovered(s, w) = t
  BY DEF Discovered
<1> HIDE DEF u
<1>3. x \in Watcher \union {None}
  BY <1>1, FieldTypes, WorkerFields
<1>4. i \in {"Idle", "Retry", "AwaitingBuild"}
  OBVIOUS
<1>5. b \in BOOLEAN /\ v \in BOOLEAN
  OBVIOUS
<1> HIDE DEF x, i, b, v
<1>6. t1 \in Server
  BY <1>1, <1>5, WorkerFields, CacheField, CacheHitField, VerifiedField, ShardsField,
     ProvenanceField, StaleField
<1>7. t.index_shards = w.scanned
  BY <1>1, DiscoveredShards
<1> HIDE DEF t1
<1>8. t \in Server
  BY <1>3, <1>4, <1>6, WorkerFields, DiscoveredIndexType
<1> HIDE DEF t
<1> QED BY <1>2, <1>7, <1>8, WorkerFields

LEMMA AdoptDiscoveredType ==
  ASSUME NEW s \in Server, NEW w \in Worker PROVE AdoptDiscovered(s, w) \in Server
BY AdoptIsDiscovered, DiscoveredType, ScheduleIndexRefreshType, WriteCacheAsyncType

LEMMA StartupStateType ==
  ASSUME NEW s \in Server, NEW b \in BOOLEAN,
         NEW state \in {"ready", "no-index", "failed", "superseded", "loading"}
  PROVE  [s EXCEPT !.startup_running = b, !.startup_state = state] \in Server
BY StartingField, StartupStateField

LEMMA OnStartupResultType ==
  ASSUME NEW s \in Server, NEW w \in Worker PROVE OnStartupResult(s, w) \in Server
<1> DEFINE t == Received(s, w)
           state == CASE w.outcome = "loaded"  -> "ready"
                      [] w.outcome = "noindex" -> "no-index"
                      [] OTHER                 -> "failed"
           settled == [t EXCEPT !.startup_running = FALSE, !.startup_state = state]
<1>1. t \in Server
  BY ReceivedType
<1>2. OnStartupResult(s, w) =
        IF ~t.startup_running \/ ~w.current
        THEN [t EXCEPT !.startup_running = FALSE,
                       !.startup_state = IF t.startup_running THEN "superseded" ELSE @]
        ELSE ScheduleQueuedRefresh(IF w.outcome = "loaded" THEN AdoptDiscovered(settled, w)
                                                           ELSE settled)
  BY DEF OnStartupResult
<1> HIDE DEF t
<1>3. state \in {"ready", "no-index", "failed", "superseded", "loading"}
  OBVIOUS
<1> HIDE DEF state
<1>4. settled \in Server
  BY <1>1, <1>3, StartupStateType
<1>5. [t EXCEPT !.startup_running = FALSE,
                !.startup_state = IF t.startup_running THEN "superseded" ELSE @] \in Server
  <2>1. CASE t.startup_running
    <3>1. [t EXCEPT !.startup_running = FALSE,
                    !.startup_state = IF t.startup_running THEN "superseded" ELSE @]
            = [t EXCEPT !.startup_running = FALSE, !.startup_state = "superseded"]
      BY <2>1
    <3> QED BY <3>1, <1>1, StartupStateType
  <2>2. CASE ~t.startup_running
    <3>1. [t EXCEPT !.startup_running = FALSE,
                    !.startup_state = IF t.startup_running THEN "superseded" ELSE @]
            = [t EXCEPT !.startup_running = FALSE]
      BY <1>1, <2>2 DEF Server
    <3> QED BY <3>1, <1>1, StartingField
  <2> QED BY <2>1, <2>2
<1> HIDE DEF settled
<1> QED BY <1>2, <1>4, <1>5, AdoptDiscoveredType, ScheduleQueuedRefreshType

LEMMA ExplicitFields ==
  ASSUME NEW s \in Server, NEW g \in Generation, NEW h \in Generation, NEW d \in Dirs,
         NEW x \in Watcher \union {None}
  PROVE  [s EXCEPT !.index = g, !.index_shards = h, !.cache = FALSE, !.cache_job = None,
                   !.cache_hit = FALSE, !.shards_verified = TRUE, !.refresh_intent = "Idle",
                   !.index_dir = d, !.watcher = x] \in Server
BY IndexField, ShardsField, CacheField, JobField, CacheHitField, VerifiedField,
   IntentField, IndexDirField, WatcherField

LEMMA InstallExplicitType ==
  ASSUME NEW s \in Server, NEW w \in Worker PROVE InstallExplicit(s, w) \in Server
BY WorkerFields, UpdateProvenanceType, ExplicitFields DEF InstallExplicit

LEMMA OnExplicitLoadResultType ==
  ASSUME NEW s \in Server, NEW w \in Worker, w.request # None
  PROVE  OnExplicitLoadResult(s, w) \in Server
<1> DEFINE t == [Received(s, w) EXCEPT !.explicit_load_running = FALSE]
           answered == HideProgress(
                         Respond([t EXCEPT !.explicit_load = None,
                                           !.explicit_load_progress = FALSE], w.request),
                         t.explicit_load_progress)
<1>1. t \in Server
  BY ReceivedType, LoadingField
<1>2. OnExplicitLoadResult(s, w) =
        ScheduleQueuedRefresh(
          IF t.explicit_load # w.request THEN t
          ELSE IF w.current /\ w.outcome = "loaded" THEN InstallExplicit(answered, w)
          ELSE answered)
  BY DEF OnExplicitLoadResult
<1> HIDE DEF t
<1>3. answered \in Server
  BY <1>1, WorkerFields, FieldTypes, NoExplicitLoadType, RespondType, ProgressType
<1> HIDE DEF answered
<1> QED BY <1>1, <1>2, <1>3, InstallExplicitType, ScheduleQueuedRefreshType

LEMMA AskedType ==
  ASSUME NEW s \in Server, NEW r \in Requests
  PROVE  [s EXCEPT !.asked = @ \union {r}] \in Server
BY DEF Server

LEMMA StartExplicitType ==
  ASSUME NEW s \in Server, NEW r \in Requests
  PROVE  [s EXCEPT !.explicit_load_running = TRUE, !.explicit_load = r,
                   !.explicit_load_progress = TRUE] \in Server
BY LoadingField, PendingField, LoadShownField

LEMMA ExplicitWorkerType ==
  ASSUME NEW w \in Worker, NEW r \in Requests, NEW d \in Dirs
  PROVE  [w EXCEPT !.kind = "explicit", !.dir = d, !.request = r] \in Worker
BY DEF Worker, Kinds

LEMMA OnLoadRequestType ==
  ASSUME NEW s \in Server, NEW r \in Requests, NEW d \in Dirs
  PROVE  OnLoadRequest(s, r, d) \in Server
<1> DEFINE t == [s EXCEPT !.asked = @ \union {r}]
           w == [IdleWorker EXCEPT !.kind = "explicit", !.dir = d, !.request = r]
<1>1. t \in Server
  BY AskedType
<1>2. w \in Worker
  BY IdleType, ExplicitWorkerType
<1>3. OnLoadRequest(s, r, d) =
        IF t.shutdown_requested \/ t.refresh_running \/ t.explicit_load_running
             \/ t.startup_running
        THEN Respond(t, r)
        ELSE Spawn(ShowProgress([Supersede(t) EXCEPT !.explicit_load_running = TRUE,
                                                     !.explicit_load = r,
                                                     !.explicit_load_progress = TRUE]), w)
  BY DEF OnLoadRequest
<1> HIDE DEF t, w
<1>4. Spawn(ShowProgress([Supersede(t) EXCEPT !.explicit_load_running = TRUE,
                                              !.explicit_load = r,
                                              !.explicit_load_progress = TRUE]), w) \in Server
  BY <1>1, <1>2, SupersedeType, StartExplicitType, ProgressType, SpawnType
<1> QED BY <1>1, <1>3, <1>4, RespondType

LEMMA OnShutdownType ==
  ASSUME NEW s \in Server PROVE OnShutdown(s) \in Server
BY CancelExplicitLoadType, CancelStartupType, ShuttingDownField DEF OnShutdown

LEMMA NewServerType == NewServer \in Server
BY DEF NewServer, Server, Dirs, Generation

LEMMA ScheduleStartupType ==
  ASSUME NEW s \in Server PROVE ScheduleStartup(s) \in Server
<1>1. [Supersede(s) EXCEPT !.startup_running = TRUE, !.startup_state = "loading"] \in Server
  BY SupersedeType, StartupStateType
<1> QED BY <1>1, IdleType, SpawnType DEF ScheduleStartup

-----------------------------------------------------------------------------
(* The watchers. *)

LEMMA NewWatcherType == ASSUME NEW d \in Dirs \union {None} PROVE NewWatcher(d) \in Watcher
BY DEF NewWatcher, Watcher

LEMMA GatherType ==
  ASSUME NEW x \in Watcher \union {None}, NEW kind \in {"git", "shards"}, NEW d
  PROVE  Gather(x, kind, d) \in Watcher \union {None}
<1>1. CASE x \in Watcher
  <2>1. [x EXCEPT !.batch = @ \union {kind}] \in Watcher
    BY <1>1 DEF Watcher
  <2> QED BY <2>1 DEF Gather
<1>2. CASE x = None
  BY <1>2 DEF Gather
<1> QED BY <1>1, <1>2

LEMMA WorkerWatchType ==
  ASSUME NEW w \in Worker, NEW x \in Watcher \union {None}
  PROVE  [w EXCEPT !.watch = x] \in Worker
BY DEF Worker

LEMMA WorkersFieldType ==
  ASSUME NEW s \in Server, NEW W \in SUBSET Worker
  PROVE  [s EXCEPT !.workers = W] \in Server
BY DEF Server

LEMMA NotifyType ==
  ASSUME NEW s \in Server, NEW kind \in {"git", "shards"}, NEW d
  PROVE  Notify(s, kind, d) \in Server
<1> DEFINE x == Gather(s.watcher, kind, d)
           W == {[w EXCEPT !.watch = Gather(@, kind, d)] : w \in s.workers}
<1>1. x \in Watcher \union {None}
  BY GatherType, FieldTypes
<1>2. W \in SUBSET Worker
  <2>1. \A w \in s.workers : [w EXCEPT !.watch = Gather(w.watch, kind, d)] \in Worker
    BY FieldTypes, WorkerFields, GatherType, WorkerWatchType
  <2> QED BY <2>1
<1>3. Notify(s, kind, d) = [s EXCEPT !.watcher = x, !.workers = W]
  BY DEF Notify, Server
<1> DEFINE s1 == [s EXCEPT !.watcher = x]
<1> HIDE DEF x, W
<1>4. s1 \in Server
  BY <1>1, WatcherField
<1>5. Notify(s, kind, d) = [s1 EXCEPT !.workers = W]
  BY <1>3
<1> HIDE DEF s1
<1> QED BY <1>2, <1>4, <1>5, WorkersFieldType

LEMMA DispatchType ==
  ASSUME NEW x \in Watcher PROVE Dispatch(x) \in Watcher
<1> DEFINE workspace == IF "git" \in x.batch THEN <<"Workspace">> ELSE <<>>
           index     == IF "shards" \in x.batch THEN <<"Index">> ELSE <<>>
           q         == x.sent \o workspace \o index
<1>1. workspace \in Seq(Change) /\ index \in Seq(Change)
  <2>1. "Workspace" \in Change /\ "Index" \in Change
    BY DEF Change
  <2> QED BY <2>1
<1>2. q \in Seq(Change)
  BY <1>1 DEF Watcher
<1>3. Dispatch(x) = [x EXCEPT !.batch = {}, !.sent = q]
  BY DEF Dispatch, Watcher
<1> HIDE DEF q
<1> QED BY <1>2, <1>3 DEF Watcher

LEMMA LoseEventsType ==
  ASSUME NEW x \in Watcher, NEW kept \in SUBSET x.batch
  PROVE  LoseEvents(x, kept) \in Watcher
<1>1. Append(x.sent, "WatcherError") \in Seq(Change)
  BY DEF Watcher, Change
<1>2. kept \in SUBSET {"git", "shards"}
  BY DEF Watcher
<1> QED BY <1>1, <1>2 DEF Watcher, LoseEvents

LEMMA ReceiveChangeType ==
  ASSUME NEW x \in Watcher, x.sent # <<>>
  PROVE  [x EXCEPT !.sent = Tail(@)] \in Watcher /\ Head(x.sent) \in Change
<1>1. x.sent \in Seq(Change)
  BY DEF Watcher
<1>2. Tail(x.sent) \in Seq(Change) /\ Head(x.sent) \in Change
  BY <1>1, HeadTailProperties
<1> QED BY <1>2 DEF Watcher

-----------------------------------------------------------------------------
(* The steps of the workers. *)

LEMMA BecomeType ==
  ASSUME srv \in Server, NEW w, NEW v \in Worker, Become(w, v)
  PROVE  srv' \in Server
<1>1. (srv.workers \ {w}) \union {v} \in SUBSET Worker
  BY FieldTypes
<1> QED BY <1>1, WorkersFieldType DEF Become

LEMMA PcType ==
  ASSUME NEW w \in Worker,
         NEW pc \in {"begin", "scan", "decode", "rescan", "confirm", "watch", "recheck",
                     "build", "done", "dead"}
  PROVE  [w EXCEPT !.pc = pc] \in Worker
BY DEF Worker

LEMMA OutcomeType ==
  ASSUME NEW w \in Worker,
         NEW outcome \in {"none", "unchanged", "loaded", "empty", "noindex", "failed"}
  PROVE  [w EXCEPT !.outcome = outcome] \in Worker
BY DEF Worker

LEMMA FinishType ==
  ASSUME NEW w \in Worker,
         NEW outcome \in {"none", "unchanged", "loaded", "empty", "noindex", "failed"}
  PROVE  Finish(w, outcome) \in Worker
BY PcType, OutcomeType DEF Finish

LEMMA WorkerScannedType ==
  ASSUME NEW w \in Worker, NEW g \in Generation PROVE [w EXCEPT !.scanned = g] \in Worker
BY DEF Worker

LEMMA WorkerDecodedType ==
  ASSUME NEW w \in Worker, NEW g \in Generation PROVE [w EXCEPT !.decoded = g] \in Worker
BY DEF Worker

LEMMA WorkerCachedType ==
  ASSUME NEW w \in Worker PROVE [w EXCEPT !.cached = TRUE] \in Worker
BY DEF Worker

LEMMA WorkerBuiltType ==
  ASSUME NEW w \in Worker PROVE [w EXCEPT !.built = TRUE] \in Worker
BY DEF Worker

LEMMA NothingHereType ==
  ASSUME NEW w \in Worker PROVE NothingHere(w) \in Worker
<1>1. LocalIndex \in Dirs
  BY DEF Dirs
<1> QED BY <1>1, PcType, WorkerDirType, FinishType DEF NothingHere

LEMMA GiveUpType ==
  ASSUME NEW w \in Worker PROVE GiveUp(w) \in Worker
BY NothingHereType, FinishType DEF GiveUp

LEMMA WorkerBeginsType ==
  ASSUME TypeOK, NEW w \in srv.workers, WorkerBegins(w) PROVE srv' \in Server
<1> DEFINE k == IF w.recapture THEN head ELSE w.key
           v == [w EXCEPT !.key = k]
           u == [v EXCEPT !.pc = "watch", !.cached = TRUE,
                          !.scanned = published.shards, !.decoded = published.shards]
<1>1. w \in Worker
  BY FieldTypes DEF TypeOK
<1>2. k \in Heads \union {None}
  BY <1>1, WorkerFields DEF TypeOK
<1>3. Become(w, IF v.key # head THEN Finish(v, "failed")
                ELSE IF CacheHit(w) THEN u ELSE [v EXCEPT !.pc = "scan"])
  BY <1>1 DEF WorkerBegins
<1> HIDE DEF k
<1>4. v \in Worker
  BY <1>1, <1>2, WorkerKeyType
<1> HIDE DEF v
<1>5. ASSUME CacheHit(w) PROVE u \in Worker
  <2>1. published.shards \in Generation
    BY <1>5 DEF CacheHit, TypeOK, CacheJob
  <2> QED BY <1>4, <2>1, PcType, WorkerCachedType, WorkerScannedType, WorkerDecodedType
<1> HIDE DEF u
<1> QED BY <1>3, <1>4, <1>5, FinishType, PcType, BecomeType DEF TypeOK

LEMMA WorkerScansType ==
  ASSUME TypeOK, NEW w \in srv.workers, WorkerScans(w) PROVE srv' \in Server
<1> DEFINE v == [w EXCEPT !.scanned = disk[w.dir]]
<1>1. w \in Worker
  BY FieldTypes DEF TypeOK
<1>2. v \in Worker
  BY <1>1, WorkerFields, WorkerScannedType DEF TypeOK
<1>3. Become(w, IF ~w.force /\ w.previous = v.scanned
                THEN [v EXCEPT !.pc = "confirm", !.outcome = "unchanged"]
                ELSE IF w.kind = "refresh" /\ w.key # head THEN GiveUp(v)
                ELSE [v EXCEPT !.pc = "decode"])
  BY DEF WorkerScans
<1> HIDE DEF v
<1> QED BY <1>2, <1>3, PcType, OutcomeType, GiveUpType, BecomeType DEF TypeOK

LEMMA WorkerDecodesType ==
  ASSUME TypeOK, NEW w \in srv.workers, WorkerDecodes(w) PROVE srv' \in Server
<1> DEFINE g == IF w.scanned = NoShards THEN NoShards ELSE disk[w.dir]
<1>1. w \in Worker
  BY FieldTypes DEF TypeOK
<1>2. g \in Generation
  BY <1>1, WorkerFields DEF TypeOK, NoShards, Generation
<1>3. Become(w, [w EXCEPT !.pc = "rescan", !.decoded = g])
  BY DEF WorkerDecodes
<1> HIDE DEF g
<1> QED BY <1>1, <1>2, <1>3, PcType, WorkerDecodedType, BecomeType DEF TypeOK

LEMMA WorkerRescansType ==
  ASSUME TypeOK, NEW w \in srv.workers, WorkerRescans(w) PROVE srv' \in Server
<1>1. w \in Worker
  BY FieldTypes DEF TypeOK
<1> QED BY <1>1, PcType, OutcomeType, GiveUpType, BecomeType DEF WorkerRescans, TypeOK

LEMMA WorkerConfirmsType ==
  ASSUME TypeOK, NEW w \in srv.workers, WorkerConfirms(w) PROVE srv' \in Server
<1> DEFINE usable == w.decoded \notin Unusable \union {NoShards}
           v == IF w.key # head THEN GiveUp([w EXCEPT !.outcome = "none"])
                ELSE CASE w.kind = "explicit" -> [w EXCEPT !.pc = "watch"]
                       [] w.kind = "startup"  -> IF usable THEN [w EXCEPT !.pc = "watch"]
                                                 ELSE NothingHere([w EXCEPT !.outcome = "none"])
                       [] w.kind = "refresh"  ->
                            IF w.outcome = "unchanged" THEN Finish(w, "unchanged")
                            ELSE IF w.scanned = NoShards THEN Finish(w, "empty")
                            ELSE IF usable THEN Finish(w, "loaded")
                            ELSE Finish(w, "failed")
<1>1. w \in Worker /\ srv \in Server
  BY FieldTypes DEF TypeOK
<1>2. [w EXCEPT !.outcome = "none"] \in Worker
  BY <1>1, OutcomeType
<1>3. /\ GiveUp([w EXCEPT !.outcome = "none"]) \in Worker
      /\ NothingHere([w EXCEPT !.outcome = "none"]) \in Worker
      /\ [w EXCEPT !.pc = "watch"] \in Worker
      /\ Finish(w, "unchanged") \in Worker /\ Finish(w, "empty") \in Worker
      /\ Finish(w, "loaded") \in Worker /\ Finish(w, "failed") \in Worker
  BY <1>1, <1>2, GiveUpType, NothingHereType, PcType, FinishType
<1>4. w.kind = "explicit" \/ w.kind = "startup" \/ w.kind = "refresh"
  BY <1>1, WorkerFields DEF Kinds
<1>5. v \in Worker
  BY <1>3, <1>4, Zenon
<1>6. Become(w, v)
  BY DEF WorkerConfirms
<1> HIDE DEF v
<1> QED BY <1>1, <1>5, <1>6, BecomeType

LEMMA WorkerWatchesType ==
  ASSUME TypeOK, NEW w \in srv.workers, WorkerWatches(w) PROVE srv' \in Server
<1> DEFINE target == IF w.kind = "startup" /\ w.dir = BazelBin THEN None ELSE w.dir
           after  == IF w.kind = "startup" THEN [w EXCEPT !.pc = "recheck"]
                                           ELSE Finish(w, "loaded")
<1>1. w \in Worker
  BY FieldTypes DEF TypeOK
<1>2. target \in Dirs \union {None}
  BY <1>1, WorkerFields
<1>3. after \in Worker
  BY <1>1, PcType, FinishType
<1>4. Become(w, [after EXCEPT !.watch = NewWatcher(target)]) \/ Become(w, after)
  BY DEF WorkerWatches
<1> HIDE DEF target, after
<1> QED BY <1>2, <1>3, <1>4, NewWatcherType, WorkerWatchType, BecomeType DEF TypeOK

LEMMA WorkerRechecksType ==
  ASSUME TypeOK, NEW w \in srv.workers, WorkerRechecks(w) PROVE srv' \in Server
<1>1. w \in Worker
  BY FieldTypes DEF TypeOK
<1> QED BY <1>1, WorkerWatchType, FinishType, BecomeType DEF WorkerRechecks, TypeOK

LEMMA WorkerBuildsType ==
  ASSUME TypeOK, NEW w \in srv.workers, WorkerBuilds(w)
  PROVE  srv' \in Server /\ stamp' \in Generation /\ disk' \in [Dirs -> Generation]
<1>1. w \in Worker /\ BazelBin \in Dirs
  BY FieldTypes DEF TypeOK, Dirs
<1>2. [w EXCEPT !.pc = "begin", !.dir = BazelBin, !.built = TRUE] \in Worker
  BY <1>1, PcType, WorkerDirType, WorkerBuiltType
<1>3. srv' \in Server
  BY <1>1, <1>2, FinishType, BecomeType DEF WorkerBuilds, TypeOK
<1>4. stamp' \in Generation /\ disk' \in [Dirs -> Generation]
  BY <1>1 DEF WorkerBuilds, TypeOK, Generation
<1> QED BY <1>3, <1>4

LEMMA WorkerPanicsType ==
  ASSUME TypeOK, NEW w \in srv.workers, WorkerPanics(w)
  PROVE  srv' \in Server /\ faults' \in Nat
<1>1. w \in Worker
  BY FieldTypes DEF TypeOK
<1>2. faults' \in Nat
  BY DEF WorkerPanics, Fault, TypeOK
<1> QED BY <1>1, <1>2, FinishType, PcType, BecomeType DEF WorkerPanics, TypeOK

-----------------------------------------------------------------------------
(***************************************************************************)
(* The inductive invariant.                                                *)
(***************************************************************************)

(* Every worker holds the place of its kind, and every place is held by a  *)
(* worker: a running flag is cleared only with the worker's result, except *)
(* by a shutdown that cancels startup, before anything has been adopted.   *)
Seats(s) ==
  /\ \A v, w \in s.workers : v = w
  /\ \A w \in s.workers : w.kind = "refresh" => s.refresh_running
  /\ \A w \in s.workers :
       w.kind = "explicit" => s.explicit_load_running /\ w.request \in s.asked
  /\ \A w \in s.workers :
       w.kind = "startup" =>
         s.index_dir = None /\ (s.startup_running \/ s.shutdown_requested)
  /\ s.refresh_running => \E w \in s.workers : w.kind = "refresh"
  /\ s.explicit_load_running =>
       \E w \in s.workers : w.kind = "explicit" /\ s.explicit_load \in {w.request, None}
  /\ s.startup_running => \E w \in s.workers : w.kind = "startup"

(* A report is open for the refresh that runs and for the load that is     *)
(* owed an answer, and for nothing else.                                   *)
Reports(s) ==
  /\ s.explicit_load # None => s.explicit_load_running /\ s.explicit_load \in s.asked
  /\ s.explicit_load_progress <=> s.explicit_load # None
  /\ s.refresh_progress <=> s.refresh_running
  /\ s.shown = (IF s.refresh_progress THEN 1 ELSE 0)
               + (IF s.explicit_load_progress THEN 1 ELSE 0)

Answered(s) ==
  \A r \in Requests : s.answers[r] = IF r \in s.asked /\ r # s.explicit_load THEN 1 ELSE 0

(* Waiting for a build: nothing served, no refresh that may install.       *)
Waiting(s) ==
  s.refresh_intent = "AwaitingBuild" =>
    /\ s.index = None
    /\ \A w \in s.workers : w.kind = "refresh" => ~w.current

(* Nothing is queued before there is a directory to reload.                *)
Unqueued(s) == s.index_dir = None => ~s.refresh_again

Loop(s) == Seats(s) /\ Reports(s) /\ Answered(s) /\ Waiting(s) /\ Unqueued(s)

(* Loop holds also in the middle of a result handler, this only at its end. *)
Carried(s) == s.refresh_again => s.workers # {}

GenerationInvariant == TypeOK /\ Loop(srv) /\ Carried(srv)

-----------------------------------------------------------------------------
(* What the invariant reads of a state, and steps that leave it alone: at  *)
(* most they empty the queue or, with no worker, name a directory.         *)

LeavesLoop(s, t) ==
  /\ t.workers = s.workers
  /\ t.index_dir = s.index_dir \/ (t.index_dir # None /\ s.workers = {})
  /\ t.refresh_running = s.refresh_running /\ t.refresh_progress = s.refresh_progress
  /\ t.explicit_load_running = s.explicit_load_running
  /\ t.explicit_load = s.explicit_load
  /\ t.explicit_load_progress = s.explicit_load_progress
  /\ t.startup_running = s.startup_running
  /\ t.shutdown_requested = s.shutdown_requested
  /\ t.asked = s.asked /\ t.answers = s.answers /\ t.shown = s.shown
  /\ t.refresh_again => s.refresh_again

LEMMA Frame ==
  ASSUME NEW s, NEW t, LeavesLoop(s, t), Loop(s), Waiting(t)
  PROVE  Loop(t) /\ (Carried(s) => Carried(t))
<1>1. Seats(t)
  BY DEF LeavesLoop, Loop, Seats
<1>2. Reports(t)
  BY DEF LeavesLoop, Loop, Reports
<1>3. Answered(t) /\ Unqueued(t)
  BY DEF LeavesLoop, Loop, Answered, Unqueued
<1>4. Carried(s) => Carried(t)
  BY DEF LeavesLoop, Carried
<1> QED BY <1>1, <1>2, <1>3, <1>4 DEF Loop

(* A worker may go on, or become obsolete, but keeps its kind and request. *)
Kin(x, y) == x.kind = y.kind /\ x.request = y.request /\ (x.current => y.current)

LEMMA WorkersGoOn ==
  ASSUME NEW s \in Server, NEW W, Loop(s),
         \A x, y \in W : x = y,
         \A x \in W : \E y \in s.workers : Kin(x, y),
         \A y \in s.workers : \E x \in W : Kin(x, y)
  PROVE  Loop([s EXCEPT !.workers = W])
<1> DEFINE t == [s EXCEPT !.workers = W]
<1>1. /\ t.workers = W /\ t.index_dir = s.index_dir
      /\ t.refresh_running = s.refresh_running /\ t.refresh_progress = s.refresh_progress
      /\ t.explicit_load_running = s.explicit_load_running
      /\ t.explicit_load = s.explicit_load
      /\ t.explicit_load_progress = s.explicit_load_progress
      /\ t.startup_running = s.startup_running
      /\ t.shutdown_requested = s.shutdown_requested
      /\ t.asked = s.asked /\ t.answers = s.answers /\ t.shown = s.shown
      /\ t.refresh_again = s.refresh_again
      /\ t.refresh_intent = s.refresh_intent /\ t.index = s.index
  BY DEF Server
<1> HIDE DEF t
<1>2. Seats(t)
  BY <1>1 DEF Loop, Seats, Kin
<1>3. Reports(t)
  BY <1>1 DEF Loop, Reports
<1>4. Answered(t) /\ Unqueued(t)
  BY <1>1 DEF Loop, Answered, Unqueued
<1>5. Waiting(t)
  BY <1>1 DEF Loop, Waiting, Kin
<1>6. Loop(t)
  BY <1>2, <1>3, <1>4, <1>5 DEF Loop
<1> QED BY <1>6 DEF t

LEMMA SupersedeFields ==
  ASSUME NEW s \in Server
  PROVE  /\ Supersede(s).workers = {[w EXCEPT !.current = FALSE] : w \in s.workers}
         /\ \A w \in Supersede(s).workers : ~w.current
         /\ s.workers = {} <=> Supersede(s).workers = {}
<1>1. Supersede(s).workers = {[w EXCEPT !.current = FALSE] : w \in s.workers}
  BY DEF Supersede, Server
<1>2. \A w \in s.workers : ~[w EXCEPT !.current = FALSE].current
  BY DEF Server, Worker
<1> QED BY <1>1, <1>2

LEMMA SupersedeLoop ==
  ASSUME NEW s \in Server, Loop(s) PROVE Loop(Supersede(s))
<1> DEFINE W == {[w EXCEPT !.current = FALSE] : w \in s.workers}
<1>1. \A w \in s.workers : Kin([w EXCEPT !.current = FALSE], w)
  BY DEF Kin, Server, Worker
<1>2. \A x, y \in W : x = y
  BY DEF Loop, Seats
<1>3. \A x \in W : \E y \in s.workers : Kin(x, y)
  BY <1>1
<1>4. \A y \in s.workers : \E x \in W : Kin(x, y)
  BY <1>1
<1>5. Supersede(s) = [s EXCEPT !.workers = W]
  BY DEF Supersede
<1> HIDE DEF W
<1> QED BY <1>2, <1>3, <1>4, <1>5, WorkersGoOn

-----------------------------------------------------------------------------
(* Scheduling a refresh. *)

LEMMA QueueLoop ==
  ASSUME NEW s \in Server, NEW b \in BOOLEAN, Loop(s), b => s.index_dir # None
  PROVE  Loop([s EXCEPT !.refresh_again = b])
<1> DEFINE t == [s EXCEPT !.refresh_again = b]
<1>1. /\ t.workers = s.workers /\ t.index_dir = s.index_dir
      /\ t.refresh_running = s.refresh_running /\ t.refresh_progress = s.refresh_progress
      /\ t.explicit_load_running = s.explicit_load_running
      /\ t.explicit_load = s.explicit_load
      /\ t.explicit_load_progress = s.explicit_load_progress
      /\ t.startup_running = s.startup_running
      /\ t.shutdown_requested = s.shutdown_requested
      /\ t.asked = s.asked /\ t.answers = s.answers /\ t.shown = s.shown
      /\ t.refresh_again = b
      /\ t.refresh_intent = s.refresh_intent /\ t.index = s.index
  BY DEF Server
<1> HIDE DEF t
<1>2. Seats(t)
  BY <1>1 DEF Loop, Seats
<1>3. Reports(t)
  BY <1>1 DEF Loop, Reports
<1>4. Answered(t) /\ Unqueued(t) /\ Waiting(t)
  BY <1>1 DEF Loop, Answered, Unqueued, Waiting
<1>5. Loop(t)
  BY <1>2, <1>3, <1>4 DEF Loop
<1> QED BY <1>5 DEF t

(* With a directory to reload and no flag up, there is no worker. *)
LEMMA NoWorker ==
  ASSUME NEW s \in Server, Loop(s), s.index_dir # None,
         ~s.refresh_running, ~s.explicit_load_running, ~s.startup_running
  PROVE  s.workers = {}
<1>1. \A w \in s.workers : w.kind \in Kinds
  BY FieldTypes, WorkerFields
<1> QED BY <1>1 DEF Loop, Seats, Kinds

LEMMA StartRefreshLoop ==
  ASSUME NEW s \in Server, Loop(s), s.index_dir # None, s.refresh_intent # "AwaitingBuild",
         ~s.refresh_running, ~s.explicit_load_running, ~s.startup_running,
         NEW w \in Worker, w.kind = "refresh"
  PROVE  LET t == Spawn(ShowProgress([Supersede(s) EXCEPT !.refresh_running = TRUE,
                                                          !.refresh_progress = TRUE]), w)
         IN  Loop(t) /\ t.workers # {}
<1> DEFINE u == Supersede(s)
           t == Spawn(ShowProgress([u EXCEPT !.refresh_running = TRUE,
                                             !.refresh_progress = TRUE]), w)
<1>1. u \in Server /\ Loop(u)
  BY SupersedeType, SupersedeLoop
<1>2. /\ u.workers = {} /\ u.index_dir # None /\ u.refresh_intent # "AwaitingBuild"
      /\ ~u.refresh_running /\ ~u.explicit_load_running /\ ~u.startup_running
  <2>1. u.workers = {}
    BY NoWorker, SupersedeFields
  <2>2. /\ u.index_dir # None /\ u.refresh_intent # "AwaitingBuild"
        /\ ~u.refresh_running /\ ~u.explicit_load_running /\ ~u.startup_running
    BY DEF Supersede, Server
  <2> QED BY <2>1, <2>2
<1> HIDE DEF u
<1>3. /\ t.workers = u.workers \union {w} /\ t.index_dir = u.index_dir
      /\ t.refresh_running /\ t.refresh_progress
      /\ t.explicit_load_running = u.explicit_load_running
      /\ t.explicit_load = u.explicit_load
      /\ t.explicit_load_progress = u.explicit_load_progress
      /\ t.startup_running = u.startup_running
      /\ t.shutdown_requested = u.shutdown_requested
      /\ t.asked = u.asked /\ t.answers = u.answers /\ t.shown = u.shown + 1
      /\ t.refresh_again = u.refresh_again
      /\ t.refresh_intent = u.refresh_intent /\ t.index = u.index
  BY <1>1 DEF Server, Spawn, ShowProgress
<1> HIDE DEF t
<1>4. t.workers = {w}
  BY <1>2, <1>3
<1>5. Seats(t)
  BY <1>1, <1>2, <1>3, <1>4 DEF Loop, Seats
<1>6. Reports(t)
  BY <1>1, <1>2, <1>3 DEF Loop, Reports
<1>7. Answered(t) /\ Unqueued(t) /\ Waiting(t)
  BY <1>1, <1>2, <1>3 DEF Loop, Answered, Unqueued, Waiting
<1>8. Loop(t) /\ t.workers # {}
  BY <1>4, <1>5, <1>6, <1>7 DEF Loop
<1> QED BY <1>8 DEF t, u

LEMMA FlagsMeanWorkers ==
  ASSUME NEW s, Loop(s),
         s.refresh_running \/ s.explicit_load_running \/ s.startup_running
  PROVE  s.workers # {}
BY DEF Loop, Seats

LEMMA RefreshAgainFields ==
  ASSUME NEW s \in Server, NEW b
  PROVE  /\ [s EXCEPT !.refresh_again = b].workers = s.workers
         /\ [s EXCEPT !.refresh_again = b].refresh_again = b
         /\ [s EXCEPT !.refresh_again = b].index_dir = s.index_dir
         /\ [s EXCEPT !.refresh_again = b].refresh_intent = s.refresh_intent
BY DEF Server

LEMMA ScheduleRefreshLoop ==
  ASSUME NEW s \in Server, Loop(s), s.index_dir # None, s.refresh_intent # "AwaitingBuild",
         NEW changed \in BOOLEAN, NEW w \in Worker, w.kind = "refresh"
  PROVE  /\ Loop(ScheduleRefresh(s, changed, w))
         /\ Carried(s) => Carried(ScheduleRefresh(s, changed, w))
<1>1. CASE s.explicit_load_running \/ s.startup_running
  <2> DEFINE b == s.refresh_again \/ changed
  <2>1. b \in BOOLEAN
    OBVIOUS
  <2>2. ScheduleRefresh(s, changed, w) = [s EXCEPT !.refresh_again = b]
    BY <1>1 DEF ScheduleRefresh
  <2> HIDE DEF b
  <2>3. s.workers # {}
    BY <1>1, FlagsMeanWorkers
  <2>4. Loop([s EXCEPT !.refresh_again = b])
    BY <2>1, QueueLoop
  <2>5. [s EXCEPT !.refresh_again = b].workers # {}
    BY <2>3, RefreshAgainFields
  <2> QED BY <2>2, <2>4, <2>5 DEF Carried
<1>2. CASE ~(s.explicit_load_running \/ s.startup_running) /\ s.refresh_running
  <2>1. s.workers # {}
    BY <1>2, FlagsMeanWorkers
  <2>2. CASE changed
    <3> DEFINE u == Supersede(s)
    <3>1. u \in Server /\ Loop(u) /\ u.workers # {} /\ u.index_dir # None
      BY <2>1, SupersedeType, SupersedeLoop, SupersedeFields DEF Supersede, Server
    <3>2. ScheduleRefresh(s, changed, w) = [u EXCEPT !.refresh_again = TRUE]
      BY <1>2, <2>2 DEF ScheduleRefresh
    <3> HIDE DEF u
    <3>3. Loop([u EXCEPT !.refresh_again = TRUE])
      BY <3>1, QueueLoop
    <3>4. [u EXCEPT !.refresh_again = TRUE].workers # {}
      BY <3>1, RefreshAgainFields
    <3> QED BY <3>2, <3>3, <3>4 DEF Carried
  <2>3. CASE ~changed
    BY <1>2, <2>3 DEF ScheduleRefresh
  <2> QED BY <2>2, <2>3
<1>3. CASE ~(s.explicit_load_running \/ s.startup_running) /\ ~s.refresh_running
  <2>1. ScheduleRefresh(s, changed, w) =
          Spawn(ShowProgress([Supersede(s) EXCEPT !.refresh_running = TRUE,
                                                  !.refresh_progress = TRUE]), w)
    BY <1>3 DEF ScheduleRefresh
  <2> QED BY <1>3, <2>1, StartRefreshLoop DEF Carried
<1> QED BY <1>1, <1>2, <1>3

LEMMA RefreshWorkerKind ==
  ASSUME NEW s, NEW force PROVE RefreshWorker(s, force).kind = "refresh"
BY DEF RefreshWorker, IdleWorker

LEMMA ScheduleIndexRefreshLoop ==
  ASSUME NEW s \in Server, Loop(s), s.refresh_intent # "AwaitingBuild",
         NEW changed \in BOOLEAN, NEW force \in BOOLEAN
  PROVE  /\ Loop(ScheduleIndexRefresh(s, changed, force))
         /\ Carried(s) => Carried(ScheduleIndexRefresh(s, changed, force))
BY RefreshWorkerKind, RefreshWorkerType, ScheduleRefreshLoop DEF ScheduleIndexRefresh

LEMMA ScheduleQueuedRefreshLoop ==
  ASSUME NEW s \in Server, Loop(s)
  PROVE  Loop(ScheduleQueuedRefresh(s)) /\ Carried(ScheduleQueuedRefresh(s))
<1>1. CASE ~s.refresh_again
  BY <1>1 DEF ScheduleQueuedRefresh, Carried
<1>2. CASE s.refresh_again
  <2> DEFINE t == [s EXCEPT !.refresh_again = FALSE]
  <2>1. t \in Server /\ Loop(t) /\ ~t.refresh_again
    BY QueueField, QueueLoop, RefreshAgainFields
  <2>2. ScheduleQueuedRefresh(s) =
          IF t.refresh_intent = "AwaitingBuild" THEN t
          ELSE ScheduleIndexRefresh(t, FALSE, t.index = None)
    BY <1>2 DEF ScheduleQueuedRefresh
  <2> HIDE DEF t
  <2>3. Carried(t)
    BY <2>1 DEF Carried
  <2> QED BY <2>1, <2>2, <2>3, ScheduleIndexRefreshLoop
<1> QED BY <1>1, <1>2

LEMMA OnRefreshTickLoop ==
  ASSUME NEW s \in Server, Loop(s), Carried(s)
  PROVE  Loop(OnRefreshTick(s)) /\ Carried(OnRefreshTick(s))
BY ScheduleIndexRefreshLoop DEF OnRefreshTick

-----------------------------------------------------------------------------
(* Cancelling, and the watcher's changes. *)

LEMMA CancelExplicitLoadLoop ==
  ASSUME NEW s \in Server, Loop(s)
  PROVE  /\ Loop(CancelExplicitLoad(s))
         /\ Carried(s) => Carried(CancelExplicitLoad(s))
         /\ CancelExplicitLoad(s).index = s.index
<1>1. CASE s.explicit_load = None
  BY <1>1 DEF CancelExplicitLoad
<1>2. CASE s.explicit_load # None
  <2> DEFINE u == Supersede(s)
             t == CancelExplicitLoad(s)
  <2>1. u \in Server /\ Loop(u) /\ u.explicit_load = s.explicit_load
        /\ (u.refresh_again <=> s.refresh_again) /\ (u.workers = {} <=> s.workers = {})
        /\ u.index = s.index
    BY SupersedeType, SupersedeLoop, SupersedeFields DEF Supersede, Server
  <2>2. s.explicit_load_progress
    BY <1>2 DEF Loop, Reports
  <2>3. t = [Respond([u EXCEPT !.explicit_load = None, !.explicit_load_progress = FALSE],
                     s.explicit_load) EXCEPT !.shown = @ - 1]
    BY <1>2, <2>2 DEF CancelExplicitLoad, HideProgress
  <2>4. s.explicit_load \in Requests
    BY <1>2, FieldTypes
  <2> HIDE DEF u, t
  <2>5. /\ t.workers = u.workers /\ t.index_dir = u.index_dir
        /\ t.refresh_running = u.refresh_running /\ t.refresh_progress = u.refresh_progress
        /\ t.explicit_load_running = u.explicit_load_running
        /\ t.explicit_load = None /\ ~t.explicit_load_progress
        /\ t.startup_running = u.startup_running
        /\ t.shutdown_requested = u.shutdown_requested
        /\ t.asked = u.asked /\ t.shown = u.shown - 1
        /\ t.answers = [u.answers EXCEPT ![u.explicit_load] = @ + 1]
        /\ (t.refresh_again <=> u.refresh_again)
        /\ t.refresh_intent = u.refresh_intent /\ t.index = u.index
    BY <2>1, <2>3 DEF Server, Respond
  <2>6. Seats(t)
    BY <2>1, <2>5 DEF Loop, Seats
  <2>7. Reports(t)
    <3>1. t.shown = (IF t.refresh_progress THEN 1 ELSE 0)
      BY <1>2, <2>1, <2>5 DEF Loop, Reports, Server
    <3>2. t.refresh_progress <=> t.refresh_running
      BY <2>1, <2>5 DEF Loop, Reports
    <3> QED BY <2>5, <3>1, <3>2 DEF Reports
  <2>8. Answered(t)
    <3>1. u.answers \in [Requests -> Nat] /\ u.explicit_load \in u.asked
      BY <1>2, <2>1 DEF Server, Loop, Reports
    <3>2. Answered(u) /\ None \notin Requests
      BY <2>1, NoneAssumption DEF Loop
    <3> QED BY <2>1, <2>4, <2>5, <3>1, <3>2 DEF Answered
  <2>9. Unqueued(t) /\ Waiting(t)
    BY <2>1, <2>5 DEF Loop, Unqueued, Waiting
  <2>10. Carried(s) => Carried(t)
    BY <2>1, <2>5 DEF Carried
  <2>11. Loop(t) /\ t.index = s.index
    BY <2>1, <2>5, <2>6, <2>7, <2>8, <2>9 DEF Loop
  <2> QED BY <2>10, <2>11 DEF t
<1> QED BY <1>1, <1>2

LEMMA OnIndexChangeLoop ==
  ASSUME NEW s \in Server, Loop(s), Carried(s)
  PROVE  Loop(OnIndexChange(s)) /\ Carried(OnIndexChange(s))
<1> DEFINE t == [s EXCEPT !.refresh_intent = "Retry"]
           force == s.refresh_intent = "AwaitingBuild" \/ s.index = None
<1>1. t \in Server
  BY IntentField
<1>2. LeavesLoop(s, t) /\ t.refresh_intent = "Retry"
  BY DEF LeavesLoop, Server
<1>3. Waiting(t)
  BY <1>2 DEF Waiting
<1>4. OnIndexChange(s) = ScheduleIndexRefresh(t, TRUE, force) /\ force \in BOOLEAN
  BY DEF OnIndexChange
<1> HIDE DEF t, force
<1>5. Loop(t) /\ Carried(t)
  BY <1>2, <1>3, Frame
<1> QED BY <1>1, <1>2, <1>4, <1>5, ScheduleIndexRefreshLoop

LEMMA OnWatcherErrorLoop ==
  ASSUME NEW s \in Server, Loop(s), Carried(s)
  PROVE  Loop(OnWatcherError(s)) /\ Carried(OnWatcherError(s))
<1> DEFINE t == [s EXCEPT !.shards_verified = FALSE, !.refresh_intent = "Retry"]
<1>1. t \in Server
  BY UnverifiedType
<1>2. LeavesLoop(s, t) /\ t.refresh_intent = "Retry"
  BY DEF LeavesLoop, Server
<1>3. Waiting(t)
  BY <1>2 DEF Waiting
<1>4. OnWatcherError(s) = IF s.refresh_intent = "AwaitingBuild" THEN s
                          ELSE ScheduleIndexRefresh(t, TRUE, s.index = None)
  BY DEF OnWatcherError
<1> HIDE DEF t
<1>5. Loop(t) /\ Carried(t)
  BY <1>2, <1>3, Frame
<1> QED BY <1>1, <1>2, <1>4, <1>5, ScheduleIndexRefreshLoop

LEMMA OnWorkspaceChangeLoop ==
  ASSUME NEW s \in Server, Loop(s), Carried(s)
  PROVE  Loop(OnWorkspaceChange(s)) /\ Carried(OnWorkspaceChange(s))
<1> DEFINE s1 == [s EXCEPT !.index = None]
           s2 == CancelExplicitLoad(s1)
           s3 == Supersede(s2)
           t == [s3 EXCEPT !.cache_hit = FALSE, !.shards_verified = FALSE,
                           !.refresh_intent = "AwaitingBuild", !.provenance_stale = TRUE,
                           !.refresh_again = FALSE, !.cache_job = None]
<1>1. OnWorkspaceChange(s) = t
  BY DEF OnWorkspaceChange
<1>2. s1 \in Server
  BY IndexField
<1>3. LeavesLoop(s, s1) /\ s1.index = None
  BY DEF LeavesLoop, Server
<1>4. Waiting(s1)
  <2>1. s1.workers = s.workers /\ s1.refresh_intent = s.refresh_intent /\ s1.index = None
    BY DEF Server
  <2> QED BY <2>1 DEF Loop, Waiting
<1> HIDE DEF s1
<1>5. Loop(s1)
  BY <1>3, <1>4, Frame
<1>6. s2 \in Server /\ Loop(s2) /\ s2.index = None
  BY <1>2, <1>3, <1>5, CancelExplicitLoadType, CancelExplicitLoadLoop
<1> HIDE DEF s2
<1>7. s3 \in Server /\ Loop(s3) /\ s3.index = None /\ \A w \in s3.workers : ~w.current
  <2>1. s3.index = None
    BY <1>6 DEF Supersede, Server
  <2> QED BY <1>6, <2>1, SupersedeType, SupersedeLoop, SupersedeFields
<1> HIDE DEF s3
<1>8. LeavesLoop(s3, t) /\ t.index = s3.index /\ t.workers = s3.workers /\ ~t.refresh_again
  BY <1>7 DEF LeavesLoop, Server
<1> HIDE DEF t
<1>9. Waiting(t) /\ Carried(t)
  BY <1>7, <1>8 DEF Waiting, Carried
<1> QED BY <1>1, <1>7, <1>8, <1>9, Frame

LEMMA OnFileChangeLoop ==
  ASSUME NEW s \in Server, Loop(s), Carried(s), NEW change \in Change
  PROVE  Loop(OnFileChange(s, change)) /\ Carried(OnFileChange(s, change))
<1>1. change \in {"Workspace", "Index", "WatcherError"}
  BY DEF Change
<1>2. /\ Loop(OnIndexChange(s)) /\ Carried(OnIndexChange(s))
      /\ Loop(OnWorkspaceChange(s)) /\ Carried(OnWorkspaceChange(s))
      /\ Loop(OnWatcherError(s)) /\ Carried(OnWatcherError(s))
  BY OnIndexChangeLoop, OnWorkspaceChangeLoop, OnWatcherErrorLoop
<1> QED BY <1>1, <1>2, Zenon DEF OnFileChange

-----------------------------------------------------------------------------
(* Shutdown and load requests. *)

LEMMA OnShutdownLoop ==
  ASSUME NEW s \in Server, Loop(s), Carried(s)
  PROVE  Loop(OnShutdown(s)) /\ Carried(OnShutdown(s))
<1> DEFINE s1 == CancelExplicitLoad(s)
           u == Supersede(s1)
           t == OnShutdown(s)
<1>1. s1 \in Server /\ Loop(s1) /\ Carried(s1)
  BY CancelExplicitLoadType, CancelExplicitLoadLoop
<1>2. t = [(IF s1.startup_running
            THEN [u EXCEPT !.startup_running = FALSE, !.startup_state = "cancelled"]
            ELSE s1) EXCEPT !.shutdown_requested = TRUE]
  BY DEF OnShutdown, CancelStartup
<1> HIDE DEF s1, t
<1>3. u \in Server /\ Loop(u) /\ Carried(u)
  <2>1. u.refresh_again <=> s1.refresh_again
    BY <1>1 DEF Supersede, Server
  <2> QED BY <1>1, <2>1, SupersedeType, SupersedeLoop, SupersedeFields DEF Carried
<1> HIDE DEF u
<1>4. ASSUME NEW v \in Server, Loop(v), Carried(v),
             t.shutdown_requested, ~t.startup_running,
             t.workers = v.workers, t.index_dir = v.index_dir,
             t.refresh_running = v.refresh_running,
             t.refresh_progress = v.refresh_progress,
             t.explicit_load_running = v.explicit_load_running,
             t.explicit_load = v.explicit_load,
             t.explicit_load_progress = v.explicit_load_progress,
             t.asked = v.asked, t.answers = v.answers, t.shown = v.shown,
             t.refresh_again = v.refresh_again, t.refresh_intent = v.refresh_intent,
             t.index = v.index
      PROVE  Loop(t) /\ Carried(t)
  <2>1. Seats(t)
    BY <1>4 DEF Loop, Seats
  <2>2. Reports(t)
    BY <1>4 DEF Loop, Reports
  <2>3. Answered(t) /\ Unqueued(t) /\ Waiting(t) /\ Carried(t)
    BY <1>4 DEF Loop, Answered, Unqueued, Waiting, Carried
  <2> QED BY <2>1, <2>2, <2>3 DEF Loop
<1>5. ASSUME s1.startup_running PROVE Loop(t) /\ Carried(t)
  <2>1. t = [u EXCEPT !.startup_running = FALSE, !.startup_state = "cancelled",
                      !.shutdown_requested = TRUE]
    BY <1>2, <1>5
  <2>2. /\ t.shutdown_requested /\ ~t.startup_running
        /\ t.workers = u.workers /\ t.index_dir = u.index_dir
        /\ t.refresh_running = u.refresh_running
        /\ t.refresh_progress = u.refresh_progress
        /\ t.explicit_load_running = u.explicit_load_running
        /\ t.explicit_load = u.explicit_load
        /\ t.explicit_load_progress = u.explicit_load_progress
        /\ t.asked = u.asked /\ t.answers = u.answers /\ t.shown = u.shown
        /\ t.refresh_again = u.refresh_again /\ t.refresh_intent = u.refresh_intent
        /\ t.index = u.index
    BY <1>3, <2>1 DEF Server
  <2> QED BY <1>3, <1>4, <2>2
<1>6. ASSUME ~s1.startup_running PROVE Loop(t) /\ Carried(t)
  <2>1. t = [s1 EXCEPT !.shutdown_requested = TRUE]
    BY <1>2, <1>6
  <2>2. /\ t.shutdown_requested /\ ~t.startup_running
        /\ t.workers = s1.workers /\ t.index_dir = s1.index_dir
        /\ t.refresh_running = s1.refresh_running
        /\ t.refresh_progress = s1.refresh_progress
        /\ t.explicit_load_running = s1.explicit_load_running
        /\ t.explicit_load = s1.explicit_load
        /\ t.explicit_load_progress = s1.explicit_load_progress
        /\ t.asked = s1.asked /\ t.answers = s1.answers /\ t.shown = s1.shown
        /\ t.refresh_again = s1.refresh_again /\ t.refresh_intent = s1.refresh_intent
        /\ t.index = s1.index
    BY <1>1, <1>6, <2>1 DEF Server
  <2> QED BY <1>1, <1>4, <2>2
<1>7. Loop(t) /\ Carried(t)
  BY <1>5, <1>6
<1> QED BY <1>7 DEF t

LEMMA OnLoadRequestLoop ==
  ASSUME NEW s \in Server, Loop(s), Carried(s), NEW r \in Requests, r \notin s.asked,
         NEW d \in Dirs
  PROVE  Loop(OnLoadRequest(s, r, d)) /\ Carried(OnLoadRequest(s, r, d))
<1> DEFINE a == [s EXCEPT !.asked = @ \union {r}]
           u == Supersede(a)
           w == [IdleWorker EXCEPT !.kind = "explicit", !.dir = d, !.request = r]
           t == OnLoadRequest(s, r, d)
<1>1. a \in Server
  BY AskedType
<1>2. t = IF a.shutdown_requested \/ a.refresh_running \/ a.explicit_load_running
               \/ a.startup_running
          THEN Respond(a, r)
          ELSE Spawn(ShowProgress([u EXCEPT !.explicit_load_running = TRUE,
                                            !.explicit_load = r,
                                            !.explicit_load_progress = TRUE]), w)
  BY DEF OnLoadRequest
<1>3. w.kind = "explicit" /\ w.request = r
  BY DEF IdleWorker
<1>4. /\ a.asked = s.asked \union {r}
      /\ a.workers = s.workers /\ a.index_dir = s.index_dir
      /\ a.refresh_running = s.refresh_running
      /\ a.refresh_progress = s.refresh_progress
      /\ a.explicit_load_running = s.explicit_load_running
      /\ a.explicit_load = s.explicit_load
      /\ a.explicit_load_progress = s.explicit_load_progress
      /\ a.startup_running = s.startup_running
      /\ a.shutdown_requested = s.shutdown_requested
      /\ a.answers = s.answers /\ a.shown = s.shown
      /\ a.refresh_again = s.refresh_again /\ a.refresh_intent = s.refresh_intent
      /\ a.index = s.index
  BY DEF Server
<1>5. s.answers \in [Requests -> Nat] /\ s.answers[r] = 0 /\ r # s.explicit_load
      /\ None \notin Requests
  BY NoneAssumption DEF Loop, Answered, Reports, Server
<1> HIDE DEF t, w, a
<1>6. CASE a.shutdown_requested \/ a.refresh_running \/ a.explicit_load_running
             \/ a.startup_running
  <2>1. t = [a EXCEPT !.answers[r] = @ + 1]
    BY <1>2, <1>6 DEF Respond
  <2>2. /\ t.asked = a.asked
        /\ t.workers = a.workers /\ t.index_dir = a.index_dir
        /\ t.refresh_running = a.refresh_running
        /\ t.refresh_progress = a.refresh_progress
        /\ t.explicit_load_running = a.explicit_load_running
        /\ t.explicit_load = a.explicit_load
        /\ t.explicit_load_progress = a.explicit_load_progress
        /\ t.startup_running = a.startup_running
        /\ t.shutdown_requested = a.shutdown_requested
        /\ t.answers = [a.answers EXCEPT ![r] = @ + 1] /\ t.shown = a.shown
        /\ t.refresh_again = a.refresh_again /\ t.refresh_intent = a.refresh_intent
        /\ t.index = a.index
    BY <1>1, <2>1 DEF Server
  <2>3. Seats(t)
    BY <1>4, <2>2 DEF Loop, Seats
  <2>4. Reports(t)
    BY <1>4, <2>2 DEF Loop, Reports
  <2>5. Answered(t)
    BY <1>4, <1>5, <2>2 DEF Loop, Answered
  <2>6. Unqueued(t) /\ Waiting(t) /\ Carried(t)
    BY <1>4, <2>2 DEF Loop, Unqueued, Waiting, Carried
  <2> QED BY <2>3, <2>4, <2>5, <2>6 DEF Loop, t
<1>7. CASE ~(a.shutdown_requested \/ a.refresh_running \/ a.explicit_load_running
             \/ a.startup_running)
  <2>1. s.workers = {}
    <3>1. \A v \in s.workers : v.kind \in Kinds
      BY FieldTypes, WorkerFields
    <3> QED BY <1>4, <1>7, <3>1 DEF Loop, Seats, Kinds
  <2>2. u \in Server /\ u.workers = {}
    BY <1>1, <1>4, <2>1, SupersedeType, SupersedeFields
  <2>3. /\ u.asked = a.asked /\ u.index_dir = a.index_dir
        /\ u.refresh_running = a.refresh_running
        /\ u.refresh_progress = a.refresh_progress
        /\ u.startup_running = a.startup_running
        /\ u.shutdown_requested = a.shutdown_requested
        /\ u.answers = a.answers /\ u.shown = a.shown
        /\ u.refresh_again = a.refresh_again /\ u.refresh_intent = a.refresh_intent
        /\ u.index = a.index
    BY <1>1 DEF Supersede, Server
  <2>4. t = Spawn(ShowProgress([u EXCEPT !.explicit_load_running = TRUE,
                                         !.explicit_load = r,
                                         !.explicit_load_progress = TRUE]), w)
    BY <1>2, <1>7
  <2> HIDE DEF u
  <2>5. /\ t.asked = u.asked
        /\ t.workers = u.workers \union {w} /\ t.index_dir = u.index_dir
        /\ t.refresh_running = u.refresh_running
        /\ t.refresh_progress = u.refresh_progress
        /\ t.explicit_load_running /\ t.explicit_load = r /\ t.explicit_load_progress
        /\ t.startup_running = u.startup_running
        /\ t.shutdown_requested = u.shutdown_requested
        /\ t.answers = u.answers /\ t.shown = u.shown + 1
        /\ t.refresh_again = u.refresh_again /\ t.refresh_intent = u.refresh_intent
        /\ t.index = u.index
    BY <2>2, <2>4 DEF Server, Spawn, ShowProgress
  <2>6. t.workers = {w}
    BY <2>2, <2>5
  <2>7. Seats(t)
    BY <1>3, <1>4, <1>7, <2>3, <2>5, <2>6 DEF Seats
  <2>8. Reports(t)
    <3>1. ~s.refresh_progress /\ ~s.explicit_load_progress /\ s.shown = 0
      BY <1>4, <1>7 DEF Loop, Reports
    <3>2. t.shown = 1 /\ ~t.refresh_progress /\ ~t.refresh_running /\ r \in t.asked
      BY <1>4, <1>7, <2>3, <2>5, <3>1
    <3> QED BY <1>5, <2>5, <3>2 DEF Reports
  <2>9. Answered(t)
    <3>1. s.explicit_load = None
      BY <1>4, <1>7 DEF Loop, Reports
    <3> QED BY <1>4, <1>5, <2>3, <2>5, <3>1 DEF Loop, Answered
  <2>10. Unqueued(t) /\ Waiting(t) /\ Carried(t)
    BY <1>3, <1>4, <2>3, <2>5, <2>6 DEF Loop, Unqueued, Waiting, Carried
  <2> QED BY <2>7, <2>8, <2>9, <2>10 DEF Loop, t
<1> QED BY <1>6, <1>7

-----------------------------------------------------------------------------
(* Results.  A worker whose result is handled was the only one. *)

LEMMA ReceivedFields ==
  ASSUME NEW s \in Server, Loop(s), NEW w \in s.workers
  PROVE  /\ Received(s, w).workers = {}
         /\ Received(s, w).index_dir = s.index_dir
         /\ Received(s, w).refresh_running = s.refresh_running
         /\ Received(s, w).refresh_progress = s.refresh_progress
         /\ Received(s, w).explicit_load_running = s.explicit_load_running
         /\ Received(s, w).explicit_load = s.explicit_load
         /\ Received(s, w).explicit_load_progress = s.explicit_load_progress
         /\ Received(s, w).startup_running = s.startup_running
         /\ Received(s, w).shutdown_requested = s.shutdown_requested
         /\ Received(s, w).asked = s.asked /\ Received(s, w).answers = s.answers
         /\ Received(s, w).shown = s.shown
         /\ Received(s, w).refresh_again = s.refresh_again
         /\ Received(s, w).refresh_intent = s.refresh_intent
         /\ Received(s, w).index = s.index
<1>1. s.workers \ {w} = {}
  BY DEF Loop, Seats
<1> QED BY <1>1 DEF Received, Server

LEMMA WriteCacheAsyncLoop ==
  ASSUME NEW s \in Server, Loop(s)
  PROVE  /\ Loop(WriteCacheAsync(s))
         /\ Carried(s) => Carried(WriteCacheAsync(s))
<1> DEFINE job == [shards |-> s.index_shards, head |-> s.provenance]
           t == [s EXCEPT !.cache_job = job]
<1>1. LeavesLoop(s, t) /\ t.refresh_intent = s.refresh_intent /\ t.index = s.index
  BY DEF LeavesLoop, Server
<1>2. WriteCacheAsync(s) = t \/ WriteCacheAsync(s) = s
  BY DEF WriteCacheAsync
<1> HIDE DEF t
<1>3. Waiting(t)
  BY <1>1 DEF LeavesLoop, Loop, Waiting
<1> QED BY <1>1, <1>2, <1>3, Frame

LEMMA ConfirmUnchangedLoop ==
  ASSUME NEW s \in Server, NEW w \in Worker, Loop(s) PROVE Loop(ConfirmUnchanged(s, w))
<1> DEFINE t == ConfirmUnchanged(s, w)
<1>1. LeavesLoop(s, t) /\ t.refresh_intent # "AwaitingBuild"
  BY DEF LeavesLoop, ConfirmUnchanged, UpdateProvenance, Server
<1> HIDE DEF t
<1>2. Loop(t)
  BY <1>1, Frame DEF Waiting
<1> QED BY <1>2 DEF t

LEMMA ClearIndexLoop ==
  ASSUME NEW s \in Server, NEW w \in Worker, Loop(s) PROVE Loop(ClearIndex(s, w))
<1> DEFINE t == ClearIndex(s, w)
<1>1. LeavesLoop(s, t) /\ t.refresh_intent # "AwaitingBuild"
  BY DEF LeavesLoop, ClearIndex, UpdateProvenance, Server
<1> HIDE DEF t
<1>2. Loop(t)
  BY <1>1, Frame DEF Waiting
<1> QED BY <1>2 DEF t

LEMMA InstallReloadLoop ==
  ASSUME NEW s \in Server, NEW w \in Worker, Loop(s) PROVE Loop(InstallReload(s, w))
<1> DEFINE u == UpdateProvenance(s, w.key)
           t == [u EXCEPT !.index = w.decoded, !.index_shards = w.scanned,
                          !.shards_verified = TRUE, !.refresh_intent = "Idle"]
           v == [t EXCEPT !.cache_hit = FALSE]
<1>1. InstallReload(s, w) = IF t.cache THEN WriteCacheAsync(v) ELSE t
  BY DEF InstallReload
<1>2. t \in Server
  <2>1. u \in Server
    BY WorkerFields, UpdateProvenanceType
  <2> HIDE DEF u
  <2> QED BY <2>1, WorkerFields, ReloadFields
<1>3. LeavesLoop(s, t) /\ t.refresh_intent = "Idle"
  BY DEF LeavesLoop, UpdateProvenance, Server
<1> HIDE DEF t
<1>4. Loop(t)
  BY <1>3, Frame DEF Waiting
<1>5. LeavesLoop(t, v) /\ v.refresh_intent = "Idle"
  BY <1>2, <1>3 DEF LeavesLoop, Server
<1>6. v \in Server
  BY <1>2, CacheHitType
<1> HIDE DEF v
<1>7. Loop(v)
  BY <1>4, <1>5, Frame DEF Waiting
<1> QED BY <1>1, <1>4, <1>6, <1>7, WriteCacheAsyncLoop

LEMMA KeepOldIndexLoop ==
  ASSUME NEW s \in Server, Loop(s) PROVE Loop(KeepOldIndex(s))
<1> DEFINE t == KeepOldIndex(s)
<1>1. LeavesLoop(s, t)
  BY DEF LeavesLoop, KeepOldIndex, Server
<1>2. t.index = s.index /\ (t.refresh_intent = s.refresh_intent \/ t.refresh_intent = "Retry")
  BY DEF KeepOldIndex, Server
<1> HIDE DEF t
<1>3. Waiting(t)
  BY <1>1, <1>2 DEF LeavesLoop, Loop, Waiting
<1>4. Loop(t)
  BY <1>1, <1>3, Frame
<1> QED BY <1>4 DEF t

LEMMA OnRefreshResultLoop ==
  ASSUME NEW s \in Server, Loop(s), NEW w \in s.workers, w.kind = "refresh"
  PROVE  Loop(OnRefreshResult(s, w)) /\ Carried(OnRefreshResult(s, w))
<1> DEFINE u == Received(s, w)
           t == HideProgress([u EXCEPT !.refresh_running = FALSE,
                                       !.refresh_progress = FALSE], s.refresh_progress)
<1>1. w \in Worker /\ u \in Server
  BY FieldTypes, ReceivedType
<1>2. s.refresh_running /\ s.refresh_progress
  BY DEF Loop, Seats, Reports
<1>3. ~s.explicit_load_running /\ ~s.startup_running
  BY DEF Loop, Seats
<1>4. OnRefreshResult(s, w) =
        ScheduleQueuedRefresh(
          IF ~w.current THEN t
          ELSE CASE w.outcome = "unchanged" -> ConfirmUnchanged(t, w)
                 [] w.outcome = "empty"     -> ClearIndex(t, w)
                 [] w.outcome = "loaded"    -> InstallReload(t, w)
                 [] OTHER                   -> KeepOldIndex(t))
  BY DEF OnRefreshResult
<1>5. t \in Server
  BY <1>1, EndRefreshType, ProgressType, FieldTypes
<1>6. t = [u EXCEPT !.refresh_running = FALSE, !.refresh_progress = FALSE, !.shown = @ - 1]
  BY <1>2 DEF HideProgress
<1> HIDE DEF u, t
<1>7. /\ t.workers = {} /\ t.index_dir = s.index_dir
      /\ ~t.refresh_running /\ ~t.refresh_progress
      /\ t.explicit_load_running = s.explicit_load_running
      /\ t.explicit_load = s.explicit_load
      /\ t.explicit_load_progress = s.explicit_load_progress
      /\ t.startup_running = s.startup_running
      /\ t.asked = s.asked /\ t.answers = s.answers /\ t.shown = s.shown - 1
      /\ t.refresh_again = s.refresh_again
      /\ t.refresh_intent = s.refresh_intent /\ t.index = s.index
  <2>1. /\ t.workers = u.workers /\ t.index_dir = u.index_dir
        /\ ~t.refresh_running /\ ~t.refresh_progress
        /\ t.explicit_load_running = u.explicit_load_running
        /\ t.explicit_load = u.explicit_load
        /\ t.explicit_load_progress = u.explicit_load_progress
        /\ t.startup_running = u.startup_running
        /\ t.asked = u.asked /\ t.answers = u.answers /\ t.shown = u.shown - 1
        /\ t.refresh_again = u.refresh_again
        /\ t.refresh_intent = u.refresh_intent /\ t.index = u.index
    BY <1>1, <1>6 DEF Server
  <2> QED BY <2>1, ReceivedFields DEF u
<1>8. Loop(t)
  <2>1. Seats(t)
    BY <1>3, <1>7 DEF Seats
  <2>2. Reports(t)
    <3>1. s.shown = 1 /\ ~s.explicit_load_progress /\ s.explicit_load = None
      BY <1>2, <1>3 DEF Loop, Reports
    <3> QED BY <1>7, <3>1 DEF Reports
  <2>3. Answered(t) /\ Unqueued(t) /\ Waiting(t)
    BY <1>7 DEF Loop, Answered, Unqueued, Waiting
  <2> QED BY <2>1, <2>2, <2>3 DEF Loop
<1>9. /\ Loop(ConfirmUnchanged(t, w)) /\ Loop(ClearIndex(t, w))
      /\ Loop(InstallReload(t, w)) /\ Loop(KeepOldIndex(t))
      /\ ConfirmUnchanged(t, w) \in Server /\ ClearIndex(t, w) \in Server
      /\ InstallReload(t, w) \in Server /\ KeepOldIndex(t) \in Server
  BY <1>1, <1>5, <1>8, ConfirmUnchangedLoop, ClearIndexLoop, InstallReloadLoop,
     KeepOldIndexLoop, ConfirmUnchangedType, ClearIndexType, InstallReloadType,
     KeepOldIndexType
<1> QED BY <1>4, <1>5, <1>8, <1>9, ScheduleQueuedRefreshLoop

LEMMA InstallExplicitLoop ==
  ASSUME NEW s \in Server, NEW w \in Worker, Loop(s), s.workers = {}
  PROVE  Loop(InstallExplicit(s, w))
<1> DEFINE t == InstallExplicit(s, w)
<1>1. w.dir # None
  BY WorkerFields
<1>2. LeavesLoop(s, t) /\ t.refresh_intent = "Idle"
  BY <1>1 DEF LeavesLoop, InstallExplicit, UpdateProvenance, Server
<1> HIDE DEF t
<1>3. Loop(t)
  BY <1>2, Frame DEF Waiting
<1> QED BY <1>3 DEF t

LEMMA OnExplicitLoadResultLoop ==
  ASSUME NEW s \in Server, Loop(s), NEW w \in s.workers, w.kind = "explicit"
  PROVE  Loop(OnExplicitLoadResult(s, w)) /\ Carried(OnExplicitLoadResult(s, w))
<1> DEFINE u == Received(s, w)
           t == [u EXCEPT !.explicit_load_running = FALSE]
           a == HideProgress(
                  Respond([t EXCEPT !.explicit_load = None,
                                    !.explicit_load_progress = FALSE], w.request),
                  t.explicit_load_progress)
<1>1. w \in Worker /\ u \in Server /\ w.request \in Requests /\ w.request \in s.asked
  BY FieldTypes, ReceivedType DEF Loop, Seats, Server
<1>2. /\ s.explicit_load_running /\ ~s.refresh_running /\ ~s.startup_running
      /\ s.explicit_load \in {w.request, None}
      /\ None \notin Requests
  BY NoneAssumption DEF Loop, Seats
<1>3. OnExplicitLoadResult(s, w) =
        ScheduleQueuedRefresh(
          IF t.explicit_load # w.request THEN t
          ELSE IF w.current /\ w.outcome = "loaded" THEN InstallExplicit(a, w)
          ELSE a)
  BY DEF OnExplicitLoadResult
<1>4. t \in Server
  BY <1>1, LoadingField
<1>5. /\ u.workers = {} /\ u.index_dir = s.index_dir
      /\ u.refresh_running = s.refresh_running
      /\ u.refresh_progress = s.refresh_progress
      /\ u.explicit_load = s.explicit_load
      /\ u.explicit_load_progress = s.explicit_load_progress
      /\ u.startup_running = s.startup_running
      /\ u.asked = s.asked /\ u.answers = s.answers /\ u.shown = s.shown
      /\ u.refresh_again = s.refresh_again
      /\ u.refresh_intent = s.refresh_intent /\ u.index = s.index
  BY ReceivedFields
<1> HIDE DEF u
<1>6. /\ t.workers = {} /\ t.index_dir = s.index_dir
      /\ t.refresh_running = s.refresh_running
      /\ t.refresh_progress = s.refresh_progress
      /\ ~t.explicit_load_running /\ t.explicit_load = s.explicit_load
      /\ t.explicit_load_progress = s.explicit_load_progress
      /\ t.startup_running = s.startup_running
      /\ t.asked = s.asked /\ t.answers = s.answers /\ t.shown = s.shown
      /\ t.refresh_again = s.refresh_again
      /\ t.refresh_intent = s.refresh_intent /\ t.index = s.index
  BY <1>1, <1>5 DEF Server
<1> HIDE DEF t
<1>7. CASE t.explicit_load # w.request
  <2>1. t.explicit_load = None
    BY <1>2, <1>6, <1>7
  <2>2. Seats(t)
    BY <1>2, <1>6 DEF Seats
  <2>3. Reports(t)
    BY <1>2, <1>6, <2>1 DEF Loop, Reports
  <2>4. Answered(t) /\ Unqueued(t) /\ Waiting(t)
    BY <1>6 DEF Loop, Answered, Unqueued, Waiting
  <2>5. Loop(t)
    BY <2>2, <2>3, <2>4 DEF Loop
  <2> QED BY <1>3, <1>4, <1>7, <2>5, ScheduleQueuedRefreshLoop
<1>8. CASE t.explicit_load = w.request
  <2>1. /\ s.explicit_load = w.request /\ s.explicit_load_progress /\ s.shown = 1
        /\ ~s.refresh_progress
    BY <1>1, <1>2, <1>6, <1>8 DEF Loop, Reports
  <2>2. a \in Server
    BY <1>1, <1>4, FieldTypes, NoExplicitLoadType, RespondType, ProgressType
  <2>3. a = [Respond([t EXCEPT !.explicit_load = None,
                               !.explicit_load_progress = FALSE], w.request)
               EXCEPT !.shown = @ - 1]
    BY <1>6, <2>1 DEF HideProgress
  <2> HIDE DEF a
  <2>4. /\ a.workers = {} /\ a.index_dir = t.index_dir
        /\ a.refresh_running = t.refresh_running
        /\ a.refresh_progress = t.refresh_progress
        /\ a.explicit_load_running = t.explicit_load_running
        /\ a.explicit_load = None /\ ~a.explicit_load_progress
        /\ a.startup_running = t.startup_running
        /\ a.asked = t.asked /\ a.shown = t.shown - 1
        /\ a.answers = [t.answers EXCEPT ![w.request] = @ + 1]
        /\ a.refresh_again = t.refresh_again
        /\ a.refresh_intent = t.refresh_intent /\ a.index = t.index
    BY <1>4, <1>6, <2>3 DEF Server, Respond
  <2>5. Seats(a)
    BY <1>2, <1>6, <2>4 DEF Seats
  <2>6. Reports(a)
    <3>1. /\ a.shown = 0 /\ ~a.refresh_progress /\ ~a.refresh_running
          /\ a.explicit_load = None /\ ~a.explicit_load_progress
      BY <1>2, <1>6, <2>1, <2>4
    <3>2. (IF a.refresh_progress THEN 1 ELSE 0) = 0
          /\ (IF a.explicit_load_progress THEN 1 ELSE 0) = 0
      BY <2>4, <3>1
    <3> QED BY <3>1, <3>2 DEF Reports
  <2>7. Answered(a)
    <3>1. t.answers \in [Requests -> Nat]
      BY <1>4 DEF Server
    <3> QED BY <1>1, <1>2, <1>6, <2>1, <2>4, <3>1 DEF Loop, Answered
  <2>8. Unqueued(a) /\ Waiting(a)
    BY <1>6, <2>4 DEF Loop, Unqueued, Waiting
  <2>9. Loop(a) /\ Loop(InstallExplicit(a, w)) /\ InstallExplicit(a, w) \in Server
    BY <1>1, <2>2, <2>4, <2>5, <2>6, <2>7, <2>8, InstallExplicitLoop, InstallExplicitType
       DEF Loop
  <2> QED BY <1>3, <1>8, <2>2, <2>9, ScheduleQueuedRefreshLoop
<1> QED BY <1>7, <1>8

LEMMA AdoptDiscoveredLoop ==
  ASSUME NEW s \in Server, NEW w \in Worker, Loop(s), s.workers = {}, Carried(s)
  PROVE  Loop(AdoptDiscovered(s, w)) /\ Carried(AdoptDiscovered(s, w))
<1> DEFINE u == Supersede(s)
           t == Discovered(s, w)
<1>1. u \in Server /\ Loop(u) /\ u.workers = {} /\ Carried(u)
  <2>1. u.refresh_again <=> s.refresh_again
    BY DEF Supersede, Server
  <2> QED BY <2>1, SupersedeType, SupersedeLoop, SupersedeFields DEF Carried
<1>2. w.dir # None
  BY WorkerFields
<1>3. t \in Server
  BY DiscoveredType
<1> HIDE DEF u
<1>4. LeavesLoop(u, t) /\ t.refresh_intent # "AwaitingBuild"
  BY <1>1, <1>2 DEF LeavesLoop, Discovered, u, Server
<1> HIDE DEF t
<1>5. Loop(t) /\ Carried(t)
  BY <1>1, <1>4, Frame DEF Waiting
<1> QED BY <1>3, <1>4, <1>5, AdoptIsDiscovered, ScheduleIndexRefreshLoop,
           WriteCacheAsyncLoop DEF t

LEMMA OnStartupResultLoop ==
  ASSUME NEW s \in Server, Loop(s), NEW w \in s.workers, w.kind = "startup"
  PROVE  Loop(OnStartupResult(s, w)) /\ Carried(OnStartupResult(s, w))
<1> DEFINE u == Received(s, w)
           state == CASE w.outcome = "loaded"  -> "ready"
                      [] w.outcome = "noindex" -> "no-index"
                      [] OTHER                 -> "failed"
           a == [u EXCEPT !.startup_running = FALSE, !.startup_state = state]
           b == [u EXCEPT !.startup_running = FALSE,
                          !.startup_state = IF u.startup_running THEN "superseded" ELSE @]
<1>1. w \in Worker /\ u \in Server
  BY FieldTypes, ReceivedType
<1>2. OnStartupResult(s, w) =
        IF ~u.startup_running \/ ~w.current THEN b
        ELSE ScheduleQueuedRefresh(IF w.outcome = "loaded" THEN AdoptDiscovered(a, w) ELSE a)
  BY DEF OnStartupResult
<1>3. /\ u.workers = {} /\ u.index_dir = None /\ ~u.refresh_again
      /\ ~u.refresh_running /\ ~u.refresh_progress
      /\ ~u.explicit_load_running /\ u.explicit_load = None /\ ~u.explicit_load_progress
      /\ u.asked = s.asked /\ u.answers = s.answers /\ u.shown = 0
      /\ u.refresh_intent = s.refresh_intent /\ u.index = s.index
  <2>1. /\ s.index_dir = None /\ ~s.refresh_again
        /\ ~s.refresh_running /\ ~s.refresh_progress
        /\ ~s.explicit_load_running /\ s.explicit_load = None /\ ~s.explicit_load_progress
        /\ s.shown = 0
    BY DEF Loop, Seats, Reports, Unqueued
  <2> QED BY <2>1, ReceivedFields
<1> HIDE DEF u
<1>4. ASSUME NEW t, t.workers = {}, t.index_dir = None, ~t.refresh_again,
             ~t.refresh_running, ~t.refresh_progress,
             ~t.explicit_load_running, t.explicit_load = None, ~t.explicit_load_progress,
             ~t.startup_running, t.asked = u.asked, t.answers = u.answers,
             t.shown = u.shown, t.refresh_intent = u.refresh_intent, t.index = u.index
      PROVE  Loop(t) /\ Carried(t)
  <2>1. Seats(t)
    BY <1>4 DEF Seats
  <2>2. Reports(t)
    BY <1>3, <1>4 DEF Reports
  <2>3. Answered(t)
    <3>1. s.explicit_load = None
      BY DEF Loop, Seats, Reports
    <3> QED BY <1>3, <1>4, <3>1 DEF Loop, Answered
  <2>4. Unqueued(t) /\ Waiting(t) /\ Carried(t)
    BY <1>3, <1>4 DEF Loop, Unqueued, Waiting, Carried
  <2> QED BY <2>1, <2>2, <2>3, <2>4 DEF Loop
<1>5. state \in {"ready", "no-index", "failed", "superseded", "loading"}
  OBVIOUS
<1> HIDE DEF state
<1>6. a \in Server
  BY <1>1, <1>5, StartupStateType
<1>7. /\ a.workers = {} /\ a.index_dir = None /\ ~a.refresh_again
      /\ ~a.refresh_running /\ ~a.refresh_progress
      /\ ~a.explicit_load_running /\ a.explicit_load = None /\ ~a.explicit_load_progress
      /\ ~a.startup_running
      /\ a.asked = u.asked /\ a.answers = u.answers /\ a.shown = u.shown
      /\ a.refresh_intent = u.refresh_intent /\ a.index = u.index
  BY <1>1, <1>3 DEF Server
<1>8. /\ b.workers = {} /\ b.index_dir = None /\ ~b.refresh_again
      /\ ~b.refresh_running /\ ~b.refresh_progress
      /\ ~b.explicit_load_running /\ b.explicit_load = None /\ ~b.explicit_load_progress
      /\ ~b.startup_running
      /\ b.asked = u.asked /\ b.answers = u.answers /\ b.shown = u.shown
      /\ b.refresh_intent = u.refresh_intent /\ b.index = u.index
  BY <1>1, <1>3 DEF Server
<1> HIDE DEF a, b
<1>9. Loop(a) /\ Carried(a)
  BY <1>4, <1>7
<1>10. Loop(b) /\ Carried(b)
  BY <1>4, <1>8
<1>11. Loop(AdoptDiscovered(a, w)) /\ AdoptDiscovered(a, w) \in Server
  BY <1>1, <1>6, <1>7, <1>9, AdoptDiscoveredLoop, AdoptDiscoveredType
<1> QED BY <1>2, <1>6, <1>9, <1>10, <1>11, ScheduleQueuedRefreshLoop

-----------------------------------------------------------------------------
(* The world and the workers: nothing the event loop counts on changes. *)

LEMMA NotifyLoop ==
  ASSUME NEW s \in Server, NEW kind, NEW d, Loop(s), Carried(s)
  PROVE  Loop(Notify(s, kind, d)) /\ Carried(Notify(s, kind, d))
<1> DEFINE W == {[w EXCEPT !.watch = Gather(@, kind, d)] : w \in s.workers}
           x == Gather(s.watcher, kind, d)
           s1 == [s EXCEPT !.workers = W]
           t == [s1 EXCEPT !.watcher = x]
<1>1. Notify(s, kind, d) = t
  BY DEF Notify, Server
<1>2. \A w \in s.workers : Kin([w EXCEPT !.watch = Gather(@, kind, d)], w)
  BY DEF Kin, Server, Worker
<1>3. \A u, v \in W : u = v
  BY DEF Loop, Seats
<1>4. \A u \in W : \E y \in s.workers : Kin(u, y)
  BY <1>2
<1>5. \A y \in s.workers : \E u \in W : Kin(u, y)
  BY <1>2
<1> HIDE DEF W, x
<1>6. Loop(s1)
  BY <1>3, <1>4, <1>5, WorkersGoOn
<1>7. Carried(s1)
  <2>1. s1.workers = W /\ s1.refresh_again = s.refresh_again
    BY DEF Server
  <2> QED BY <1>5, <2>1 DEF Carried
<1>8. LeavesLoop(s1, t) /\ t.refresh_intent = s1.refresh_intent /\ t.index = s1.index
  BY DEF LeavesLoop, Server
<1> HIDE DEF t, s1
<1>9. Waiting(t)
  BY <1>6, <1>8 DEF LeavesLoop, Loop, Waiting
<1> QED BY <1>1, <1>6, <1>7, <1>8, <1>9, Frame

LEMMA WatcherFieldLoop ==
  ASSUME NEW s \in Server, NEW x, Loop(s), Carried(s)
  PROVE  Loop([s EXCEPT !.watcher = x]) /\ Carried([s EXCEPT !.watcher = x])
<1> DEFINE t == [s EXCEPT !.watcher = x]
<1>1. LeavesLoop(s, t) /\ t.refresh_intent = s.refresh_intent /\ t.index = s.index
  BY DEF LeavesLoop, Server
<1> HIDE DEF t
<1>2. Waiting(t)
  BY <1>1 DEF LeavesLoop, Loop, Waiting
<1>3. Loop(t) /\ Carried(t)
  BY <1>1, <1>2, Frame
<1> QED BY <1>3 DEF t

LEMMA BecomeLoop ==
  ASSUME srv \in Server, NEW w \in srv.workers, NEW v, Kin(v, w), Loop(srv), Carried(srv),
         srv' = [srv EXCEPT !.workers = (@ \ {w}) \union {v}]
  PROVE  Loop(srv') /\ Carried(srv')
<1> DEFINE W == (srv.workers \ {w}) \union {v}
<1>1. srv.workers = {w} /\ W = {v}
  BY DEF Loop, Seats
<1>2. srv' = [srv EXCEPT !.workers = W]
  OBVIOUS
<1> HIDE DEF W
<1>3. Loop(srv')
  BY <1>1, <1>2, WorkersGoOn
<1>4. srv'.workers # {}
  BY <1>1, <1>2 DEF Server
<1> QED BY <1>3, <1>4 DEF Carried

LEMMA FinishKin ==
  ASSUME NEW w \in Worker, NEW v \in Worker, Kin(v, w), NEW outcome
  PROVE  Kin(Finish(v, outcome), w)
BY DEF Kin, Finish, Worker

LEMMA PcKin ==
  ASSUME NEW w, NEW v \in Worker, Kin(v, w), NEW pc
  PROVE  Kin([v EXCEPT !.pc = pc], w)
BY DEF Kin, Worker

LEMMA NothingHereKin ==
  ASSUME NEW w, NEW v \in Worker, Kin(v, w) PROVE Kin(NothingHere(v), w)
BY DEF Kin, NothingHere, Finish, Worker

LEMMA GiveUpKin ==
  ASSUME NEW w, NEW v \in Worker, Kin(v, w) PROVE Kin(GiveUp(v), w)
BY NothingHereKin DEF GiveUp, Kin, Finish, Worker

LEMMA KinAfter ==
  ASSUME NEW w \in Worker
  PROVE  /\ Kin(w, w)
         /\ \A k : Kin([w EXCEPT !.key = k], w)
         /\ \A g : Kin([w EXCEPT !.scanned = g], w)
         /\ \A x : Kin([w EXCEPT !.watch = x], w)
         /\ \A o : Kin([w EXCEPT !.outcome = o], w)
         /\ \A p : Kin([w EXCEPT !.pc = p], w)
BY DEF Kin, Worker

(* A step of a worker changes the worker and nothing else of the server.   *)
LEMMA WorkerStepLoop ==
  ASSUME TypeOK, Loop(srv), Carried(srv), NEW w \in srv.workers,
         WorkerStep(w) \/ WorkerPanics(w)
  PROVE  Loop(srv') /\ Carried(srv')
<1>1. w \in Worker /\ srv \in Server
  BY FieldTypes DEF TypeOK
<1>2. ASSUME NEW v, Kin(v, w), Become(w, v) PROVE Loop(srv') /\ Carried(srv')
  BY <1>1, <1>2, BecomeLoop DEF Become
<1>3. CASE WorkerBegins(w)
  <2> DEFINE k == IF w.recapture THEN head ELSE w.key
             v == [w EXCEPT !.key = k]
  <2>1. /\ Kin(Finish(v, "failed"), w)
        /\ Kin([v EXCEPT !.pc = "watch", !.cached = TRUE, !.scanned = published.shards,
                         !.decoded = published.shards], w)
        /\ Kin([v EXCEPT !.pc = "scan"], w)
    <3> HIDE DEF k
    <3> QED BY <1>1 DEF Kin, Finish, Worker
  <2> QED BY <1>1, <1>2, <1>3, <2>1 DEF WorkerBegins
<1>4. CASE WorkerScans(w)
  <2> DEFINE v == [w EXCEPT !.scanned = disk[w.dir]]
  <2>1. v \in Worker /\ Kin(v, w)
    BY <1>1, WorkerFields, WorkerScannedType, KinAfter DEF TypeOK
  <2>2. Kin([v EXCEPT !.pc = "confirm", !.outcome = "unchanged"], w)
    BY <1>1 DEF Kin, Worker
  <2> HIDE DEF v
  <2>3. Kin(GiveUp(v), w) /\ Kin([v EXCEPT !.pc = "decode"], w)
    BY <1>1, <2>1, GiveUpKin, PcKin
  <2> QED BY <1>2, <1>4, <2>2, <2>3 DEF WorkerScans, v
<1>5. CASE WorkerDecodes(w)
  <2> DEFINE g == IF w.scanned = NoShards THEN NoShards ELSE disk[w.dir]
  <2>1. Kin([w EXCEPT !.pc = "rescan", !.decoded = g], w)
    <3> HIDE DEF g
    <3> QED BY <1>1 DEF Kin, Worker
  <2> QED BY <1>2, <1>5, <2>1 DEF WorkerDecodes
<1>6. CASE WorkerRescans(w)
  <2>1. Kin(GiveUp(w), w) /\ Kin([w EXCEPT !.pc = "confirm", !.outcome = "loaded"], w)
    <3>1. Kin([w EXCEPT !.pc = "confirm", !.outcome = "loaded"], w)
      BY <1>1 DEF Kin, Worker
    <3> QED BY <1>1, <3>1, KinAfter, GiveUpKin
  <2> QED BY <1>2, <1>6, <2>1 DEF WorkerRescans
<1>7. CASE WorkerConfirms(w)
  <2> DEFINE o == [w EXCEPT !.outcome = "none"]
             usable == w.decoded \notin Unusable \union {NoShards}
             v == IF w.key # head THEN GiveUp(o)
                  ELSE CASE w.kind = "explicit" -> [w EXCEPT !.pc = "watch"]
                         [] w.kind = "startup"  -> IF usable THEN [w EXCEPT !.pc = "watch"]
                                                   ELSE NothingHere(o)
                         [] w.kind = "refresh"  ->
                              IF w.outcome = "unchanged" THEN Finish(w, "unchanged")
                              ELSE IF w.scanned = NoShards THEN Finish(w, "empty")
                              ELSE IF usable THEN Finish(w, "loaded")
                              ELSE Finish(w, "failed")
  <2>1. o \in Worker /\ Kin(o, w) /\ Kin(w, w)
    BY <1>1, OutcomeType, KinAfter
  <2>2. Become(w, v)
    BY <1>7 DEF WorkerConfirms
  <2> HIDE DEF o
  <2>3. /\ Kin(GiveUp(o), w) /\ Kin(NothingHere(o), w) /\ Kin([w EXCEPT !.pc = "watch"], w)
        /\ Kin(Finish(w, "unchanged"), w) /\ Kin(Finish(w, "empty"), w)
        /\ Kin(Finish(w, "loaded"), w) /\ Kin(Finish(w, "failed"), w)
    BY <1>1, <2>1, GiveUpKin, NothingHereKin, KinAfter, FinishKin
  <2>4. w.kind = "explicit" \/ w.kind = "startup" \/ w.kind = "refresh"
    BY <1>1, WorkerFields DEF Kinds
  <2>5. Kin(v, w)
    BY <2>3, <2>4, Zenon
  <2> HIDE DEF v
  <2> QED BY <1>2, <2>2, <2>5
<1>8. CASE WorkerWatches(w)
  <2> DEFINE target == IF w.kind = "startup" /\ w.dir = BazelBin THEN None ELSE w.dir
             after  == IF w.kind = "startup" THEN [w EXCEPT !.pc = "recheck"]
                                             ELSE Finish(w, "loaded")
  <2>1. after \in Worker
    BY <1>1, PcType, FinishType
  <2>2. Kin(after, w)
    BY <1>1, KinAfter, FinishKin
  <2>3. Become(w, [after EXCEPT !.watch = NewWatcher(target)]) \/ Become(w, after)
    BY <1>8 DEF WorkerWatches
  <2> HIDE DEF target, after
  <2>4. Kin([after EXCEPT !.watch = NewWatcher(target)], w)
    BY <2>1, <2>2 DEF Kin, Worker
  <2> QED BY <1>2, <2>2, <2>3, <2>4
<1>9. CASE WorkerRechecks(w)
  <2>1. Kin(Finish(w, "loaded"), w) /\ Kin(Finish([w EXCEPT !.watch = None], "failed"), w)
    BY <1>1, KinAfter, WorkerWatchType, FinishKin
  <2> QED BY <1>2, <1>9, <2>1 DEF WorkerRechecks
<1>10. CASE WorkerBuilds(w)
  <2>1. Kin([w EXCEPT !.pc = "begin", !.dir = BazelBin, !.built = TRUE], w)
        /\ Kin(Finish(w, "failed"), w)
    BY <1>1 DEF Kin, Finish, Worker
  <2> QED BY <1>2, <1>10, <2>1 DEF WorkerBuilds
<1>11. CASE WorkerPanics(w)
  <2>1. Kin([w EXCEPT !.pc = "dead"], w) /\ Kin(Finish(w, "failed"), w)
    BY <1>1, KinAfter, FinishKin
  <2> QED BY <1>2, <1>11, <2>1 DEF WorkerPanics
<1> QED BY <1>3, <1>4, <1>5, <1>6, <1>7, <1>8, <1>9, <1>10, <1>11 DEF WorkerStep

-----------------------------------------------------------------------------
(***************************************************************************)
(* The invariant is inductive.                                             *)
(***************************************************************************)

LEMMA NewServerLoop == Loop(ScheduleStartup(NewServer)) /\ Carried(ScheduleStartup(NewServer))
<1> DEFINE t == ScheduleStartup(NewServer)
<1>1. NewServer \in Server
  BY NewServerType
<1>2. /\ t.workers = {IdleWorker} /\ t.index_dir = None /\ t.index = None
      /\ ~t.refresh_running /\ ~t.refresh_progress /\ ~t.explicit_load_running
      /\ t.explicit_load = None /\ ~t.explicit_load_progress /\ t.startup_running
      /\ t.asked = {} /\ t.answers = [r \in Requests |-> 0] /\ t.shown = 0
      /\ ~t.refresh_again
  BY DEF ScheduleStartup, Spawn, Supersede, NewServer
<1>3. IdleWorker.kind = "startup"
  BY DEF IdleWorker
<1> HIDE DEF t
<1>4. Seats(t)
  BY <1>2, <1>3 DEF Seats
<1>5. Reports(t)
  BY <1>2 DEF Reports
<1>6. Answered(t) /\ Unqueued(t) /\ Carried(t)
  BY <1>2 DEF Answered, Unqueued, Carried
<1>7. Waiting(t)
  BY <1>2, <1>3 DEF Waiting
<1> QED BY <1>4, <1>5, <1>6, <1>7 DEF Loop, t

LEMMA InitInvariant == Init => GenerationInvariant
<1> SUFFICES ASSUME Init PROVE GenerationInvariant
  OBVIOUS
<1>1. srv \in Server
  BY NewServerType, ScheduleStartupType DEF Init
<1>2. disk \in [Dirs -> Generation]
  BY LifecycleAssumption DEF Init, Generation
<1>3. published \in CacheJob \union {None}
  BY LifecycleAssumption DEF Init, CacheJob, Generation
<1>4. TypeOK
  BY <1>1, <1>2, <1>3 DEF Init, TypeOK, NoShards, Generation
<1> QED BY <1>4, NewServerLoop DEF Init, GenerationInvariant

LEMMA NextInvariant == GenerationInvariant /\ [Next]_vars => GenerationInvariant'
<1> SUFFICES ASSUME GenerationInvariant, [Next]_vars PROVE GenerationInvariant'
  OBVIOUS
<1>1. TypeOK /\ Loop(srv) /\ Carried(srv) /\ srv \in Server
  BY DEF GenerationInvariant, TypeOK
<1>2. ASSUME srv' \in Server, Loop(srv'), Carried(srv'),
             head' \in Heads, disk' \in [Dirs -> Generation], stamp' \in Generation,
             published' \in CacheJob \union {None}, moves' \in Nat,
             moved_at' \in Generation, faults' \in Nat
      PROVE  GenerationInvariant'
  BY <1>2 DEF GenerationInvariant, TypeOK
<1>3. \A w \in srv.workers : w \in Worker
  BY <1>1, FieldTypes
<1>4. CASE GitWrites
  <2>1. srv' \in Server /\ Loop(srv') /\ Carried(srv')
    BY <1>1, <1>4, NotifyType, NotifyLoop DEF GitWrites
  <2> QED BY <1>1, <1>2, <1>4, <2>1 DEF GitWrites, TypeOK
<1>5. ASSUME NEW d \in Rebuilt, BuildWrites(d) PROVE GenerationInvariant'
  <2>1. srv' \in Server /\ Loop(srv') /\ Carried(srv')
    BY <1>1, <1>5, NotifyType, NotifyLoop DEF BuildWrites
  <2>2. stamp' \in Generation /\ disk' \in [Dirs -> Generation]
    BY <1>1, <1>5, LifecycleAssumption DEF BuildWrites, TypeOK, Generation, NoShards
  <2> QED BY <1>1, <1>2, <1>5, <2>1, <2>2 DEF BuildWrites, TypeOK
<1>6. CASE DebounceServer
  <2>1. Dispatch(srv.watcher) \in Watcher \union {None}
    BY <1>1, <1>6, FieldTypes, DispatchType DEF DebounceServer
  <2>2. srv' = [srv EXCEPT !.watcher = Dispatch(srv.watcher)]
    BY <1>6 DEF DebounceServer
  <2>3. srv' \in Server /\ Loop(srv') /\ Carried(srv')
    BY <1>1, <2>1, <2>2, WatcherField, WatcherFieldLoop
  <2> QED BY <1>1, <1>2, <1>6, <2>3 DEF DebounceServer, TypeOK, world
<1>7. ASSUME NEW w \in srv.workers, NEW x \in Watcher, WatchBecomes(w, x)
      PROVE  srv' \in Server /\ Loop(srv') /\ Carried(srv')
  <2> DEFINE v == [w EXCEPT !.watch = x]
  <2>1. v \in Worker /\ Kin(v, w)
    BY <1>3, WorkerWatchType, KinAfter
  <2>2. srv' = [srv EXCEPT !.workers = (@ \ {w}) \union {v}]
    BY <1>7 DEF WatchBecomes
  <2> HIDE DEF v
  <2>3. srv' \in Server
    BY <1>1, <2>1, <2>2, FieldTypes, WorkersFieldType
  <2>4. Loop(srv') /\ Carried(srv')
    BY <1>1, <2>1, <2>2, BecomeLoop
  <2> QED BY <2>3, <2>4
<1>17. ASSUME NEW w \in srv.workers, DebounceWorker(w) PROVE GenerationInvariant'
  <2>1. Dispatch(w.watch) \in Watcher
    BY <1>3, <1>17, WorkerFields, DispatchType DEF DebounceWorker
  <2>2. srv' \in Server /\ Loop(srv') /\ Carried(srv')
    BY <1>7, <1>17, <2>1 DEF DebounceWorker
  <2> QED BY <1>1, <1>2, <1>17, <2>2 DEF DebounceWorker, TypeOK, world
<1>18. ASSUME NEW w \in srv.workers, WorkerLosesEvents(w) PROVE GenerationInvariant'
  <2>1. PICK kept \in SUBSET w.watch.batch : WatchBecomes(w, LoseEvents(w.watch, kept))
    BY <1>18 DEF WorkerLosesEvents
  <2>2. LoseEvents(w.watch, kept) \in Watcher
    BY <1>3, <1>18, WorkerFields, LoseEventsType DEF WorkerLosesEvents
  <2>3. srv' \in Server /\ Loop(srv') /\ Carried(srv')
    BY <1>7, <2>1, <2>2
  <2>4. faults' \in Nat
    BY <1>1, <1>18 DEF WorkerLosesEvents, Fault, TypeOK
  <2> QED BY <1>1, <1>2, <1>18, <2>3, <2>4 DEF WorkerLosesEvents, TypeOK, world
<1>8. ASSUME NEW w \in srv.workers, WorkerStep(w) \/ WorkerPanics(w)
      PROVE  GenerationInvariant'
  <2>1. srv' \in Server
    BY <1>1, <1>8, WorkerBeginsType, WorkerScansType, WorkerDecodesType, WorkerRescansType,
       WorkerConfirmsType, WorkerWatchesType, WorkerRechecksType, WorkerBuildsType,
       WorkerPanicsType DEF WorkerStep
  <2>2. Loop(srv') /\ Carried(srv')
    BY <1>1, <1>8, WorkerStepLoop
  <2>3. stamp' \in Generation /\ disk' \in [Dirs -> Generation]
    BY <1>1, <1>8, WorkerBuildsType
       DEF WorkerStep, WorkerBegins, WorkerScans, WorkerDecodes, WorkerRescans,
           WorkerConfirms, WorkerWatches, WorkerRechecks, WorkerPanics, TypeOK
  <2>4. faults' \in Nat
    BY <1>1, <1>8 DEF WorkerStep, WorkerBegins, WorkerScans, WorkerDecodes, WorkerRescans,
           WorkerConfirms, WorkerWatches, WorkerRechecks, WorkerBuilds, WorkerPanics,
           Fault, TypeOK
  <2>5. UNCHANGED <<head, published, moves, moved_at>>
    BY <1>8 DEF WorkerStep, WorkerBegins, WorkerScans, WorkerDecodes, WorkerRescans,
           WorkerConfirms, WorkerWatches, WorkerRechecks, WorkerBuilds, WorkerPanics, Become
  <2> QED BY <1>1, <1>2, <2>1, <2>2, <2>3, <2>4, <2>5 DEF TypeOK
<1>9. ASSUME NEW w \in srv.workers, ResultArrives(w) PROVE GenerationInvariant'
  <2>1. w \in Worker
    BY <1>3
  <2>2. srv' \in Server /\ Loop(srv') /\ Carried(srv')
    <3>1. CASE StartupResult(w)
      BY <1>1, <2>1, <3>1, OnStartupResultType, OnStartupResultLoop DEF StartupResult
    <3>2. CASE RefreshResult(w)
      BY <1>1, <2>1, <3>2, OnRefreshResultType, OnRefreshResultLoop DEF RefreshResult
    <3>3. CASE ExplicitLoadResult(w)
      <4>1. w.kind = "explicit" /\ w.request # None
        BY <1>1, <3>3, NoneAssumption DEF ExplicitLoadResult, Loop, Seats, Server
      <4> QED BY <1>1, <2>1, <3>3, <4>1, OnExplicitLoadResultType,
                 OnExplicitLoadResultLoop DEF ExplicitLoadResult
    <3> QED BY <1>9, <3>1, <3>2, <3>3 DEF ResultArrives
  <2> QED BY <1>1, <1>2, <1>9, <2>2
             DEF ResultArrives, StartupResult, RefreshResult, ExplicitLoadResult, TypeOK, world
<1>10. CASE ServerLosesEvents
  <2>1. PICK kept \in SUBSET srv.watcher.batch :
          srv' = [srv EXCEPT !.watcher = LoseEvents(srv.watcher, kept)]
    BY <1>10 DEF ServerLosesEvents
  <2>2. LoseEvents(srv.watcher, kept) \in Watcher
    BY <1>1, <1>10, FieldTypes, LoseEventsType DEF ServerLosesEvents
  <2>3. srv' \in Server /\ Loop(srv') /\ Carried(srv')
    BY <1>1, <2>1, <2>2, WatcherField, WatcherFieldLoop
  <2>4. faults' \in Nat
    BY <1>1, <1>10 DEF ServerLosesEvents, Fault, TypeOK
  <2> QED BY <1>1, <1>2, <1>10, <2>3, <2>4 DEF ServerLosesEvents, TypeOK, world
<1>11. CASE WriterStores
  <2>1. LeavesLoop(srv, srv') /\ srv'.refresh_intent = srv.refresh_intent
        /\ srv'.index = srv.index
    BY <1>1, <1>11 DEF WriterStores, LeavesLoop, Server
  <2>2. Waiting(srv')
    BY <1>1, <2>1 DEF LeavesLoop, Loop, Waiting
  <2>3. srv' \in Server
    BY <1>1, <1>11 DEF WriterStores, Server
  <2>4. published' \in CacheJob \union {None}
    BY <1>1, <1>11, FieldTypes DEF WriterStores, TypeOK
  <2>5. Loop(srv') /\ Carried(srv')
    BY <1>1, <2>1, <2>2, Frame
  <2> QED BY <1>1, <1>2, <1>11, <2>3, <2>4, <2>5 DEF WriterStores, TypeOK, world
<1>12. CASE FileChange
  <2> DEFINE x == [srv.watcher EXCEPT !.sent = Tail(@)]
             s == [srv EXCEPT !.watcher = x]
  <2>1. x \in Watcher /\ Head(srv.watcher.sent) \in Change
    BY <1>1, <1>12, FieldTypes, ReceiveChangeType DEF FileChange
  <2>2. srv' = OnFileChange(s, Head(srv.watcher.sent))
    BY <1>12 DEF FileChange
  <2> HIDE DEF x
  <2>3. s \in Server /\ Loop(s) /\ Carried(s)
    BY <1>1, <2>1, WatcherField, WatcherFieldLoop
  <2> HIDE DEF s
  <2>4. srv' \in Server /\ Loop(srv') /\ Carried(srv')
    BY <2>1, <2>2, <2>3, OnFileChangeType, OnFileChangeLoop
  <2> QED BY <1>1, <1>2, <1>12, <2>4 DEF FileChange, TypeOK, world
<1>13. CASE RefreshTick
  BY <1>1, <1>2, <1>13, OnRefreshTickType, OnRefreshTickLoop DEF RefreshTick, TypeOK, world
<1>14. ASSUME NEW r \in Requests, NEW d \in Dirs, LoadRequest(r, d)
       PROVE  GenerationInvariant'
  BY <1>1, <1>2, <1>14, OnLoadRequestType, OnLoadRequestLoop DEF LoadRequest, TypeOK, world
<1>15. CASE Shutdown
  BY <1>1, <1>2, <1>15, OnShutdownType, OnShutdownLoop DEF Shutdown, TypeOK, world
<1>16. CASE UNCHANGED vars
  BY <1>16 DEF GenerationInvariant, TypeOK, vars
<1> QED BY <1>4, <1>5, <1>6, <1>8, <1>9, <1>10, <1>11, <1>12, <1>13, <1>14, <1>15,
           <1>16, <1>17, <1>18 DEF Next

(***************************************************************************)
(* The theorems.                                                           *)
(***************************************************************************)

(* The inductive invariant holds in every reachable state.                 *)
THEOREM Inductive == Spec => []GenerationInvariant
BY InitInvariant, NextInvariant, PTL DEF Spec

(* Every variable keeps its type, whatever interleaving of workers, file   *)
(* changes, requests and faults: no handler ever builds an ill-formed      *)
(* server, and no worker is spawned without what its result handler needs. *)
THEOREM TypeCorrect == Spec => []TypeOK
<1>1. GenerationInvariant => TypeOK
  BY DEF GenerationInvariant
<1> QED BY <1>1, Inductive, PTL

(* At most one generation worker, and each holds the place of its kind     *)
(* (`load_index`: "At most one generation worker runs at a time").         *)
THEOREM OneWorker == Spec => []OneGenerationWorker
<1>1. GenerationInvariant => OneGenerationWorker
  <2> SUFFICES ASSUME GenerationInvariant PROVE OneGenerationWorker
    OBVIOUS
  <2>1. Seats(srv) /\ \A w \in srv.workers : w.kind \in Kinds
    BY FieldTypes, WorkerFields DEF GenerationInvariant, TypeOK, Loop
  <2>2. \A v, w \in srv.workers : v = w
    BY <2>1 DEF Seats
  <2>3. ASSUME NEW w \in srv.workers
        PROVE  CASE w.kind = "refresh"  -> srv.refresh_running
                 [] w.kind = "explicit" -> srv.explicit_load_running
                 [] w.kind = "startup"  -> srv.startup_running \/ srv.shutdown_requested
    <3>1. w.kind = "refresh" \/ w.kind = "explicit" \/ w.kind = "startup"
      BY <2>1 DEF Kinds
    <3>2. /\ w.kind = "refresh" => srv.refresh_running
          /\ w.kind = "explicit" => srv.explicit_load_running
          /\ w.kind = "startup" => srv.startup_running \/ srv.shutdown_requested
      BY <2>1 DEF Seats
    <3> QED BY <3>1, <3>2, Zenon
  <2> QED BY <2>2, <2>3 DEF OneGenerationWorker
<1> QED BY <1>1, Inductive, PTL

(* Every `jabar/loadIndex` request is answered once, and the only one not  *)
(* answered yet is the pending one (`cancel_explicit_load` and the result  *)
(* handler never both answer).                                             *)
THEOREM LoadsAnsweredOnce == Spec => []AnsweredOnce
<1>1. GenerationInvariant => AnsweredOnce
  BY DEF GenerationInvariant, Loop, Answered, AnsweredOnce
<1> QED BY <1>1, Inductive, PTL

(* The client never sees two open progress reports under the one token, or *)
(* an end without a begin.                                                 *)
THEOREM ProgressIsPaired == Spec => []OneProgressReport
<1>1. GenerationInvariant => OneProgressReport
  <2> SUFFICES ASSUME GenerationInvariant PROVE OneProgressReport
    OBVIOUS
  <2>1. Seats(srv) /\ Reports(srv)
    BY DEF GenerationInvariant, Loop
  <2>2. ~(srv.refresh_progress /\ srv.explicit_load_progress)
    BY <2>1 DEF Seats, Reports
  <2> QED BY <2>1, <2>2 DEF Reports, OneProgressReport
<1> QED BY <1>1, Inductive, PTL

(* A queued change always has a worker whose result will pick it up.       *)
THEOREM QueueIsCarried == Spec => []QueuedChangeIsCarried
<1>1. GenerationInvariant => QueuedChangeIsCarried
  BY DEF GenerationInvariant, Carried, QueuedChangeIsCarried
<1> QED BY <1>1, Inductive, PTL

(* After a branch switch nothing is served and no reload in flight can     *)
(* install the old branch's index (`on_file_change`, FileChange::Workspace).*)
THEOREM NothingWhileAwaitingBuild == Spec => []NoReloadWhileAwaitingBuild
<1>1. GenerationInvariant => NoReloadWhileAwaitingBuild
  BY DEF GenerationInvariant, Loop, Waiting, NoReloadWhileAwaitingBuild
<1> QED BY <1>1, Inductive, PTL

=============================================================================
