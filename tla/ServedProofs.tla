------------------------------ MODULE ServedProofs ------------------------------
(***************************************************************************)
(* Theorems about what GenerationLifecycle serves, for every value of its  *)
(* constants: the index is the one its manifest describes and was decoded  *)
(* from shards that were on disk, nothing is installed while a build is    *)
(* awaited except the load the client asked for, and no movement of HEAD   *)
(* escapes a watcher, as long as no load was asked for explicitly.         *)
(*                                                                         *)
(* GenerationProofs says which workers there are; the invariant here says  *)
(* what they know: how the shards a worker scanned relate to the files it  *)
(* read since and to the disk as it is by now, which a build may have      *)
(* rewritten between any two steps of the worker.                          *)
(***************************************************************************)
EXTENDS GenerationProofs

-----------------------------------------------------------------------------
(***************************************************************************)
(* The inductive invariant, of a server state s, the disk dk, the latest   *)
(* generation st and the commit h.                                         *)
(***************************************************************************)

OnDisk == InitialBin \union InitialLocal \union {NoShards} \union 3..MaxStamp

(* A build's generation is newer than any before it: a directory that was  *)
(* rewritten never holds again what it held, unless that was nothing.      *)
Rising(dk, st) == 2 <= st /\ \A d \in Dirs : dk[d] \in OnDisk /\ dk[d] <= st

(* A notice that will make the server look at HEAD again.                  *)
Pending(x) == "git" \in x.batch \/ \E i \in DOMAIN x.sent : x.sent[i] # "Index"

(* The server has a watcher, and can wait for a build, only with an index  *)
(* directory: a startup worker never finishes in such a server.            *)
Located(s) ==
  /\ s.refresh_intent = "AwaitingBuild" => s.index_dir # None
  /\ s.index_dir = None => s.watcher = None

Matching(s) ==
  s.index # None => s.index = s.index_shards /\ (s.shards_verified => s.index_shards \in OnDisk)

Noticed(s, h) ==
  s.index # None /\ s.watcher # None /\ s.provenance # h =>
    Pending(s.watcher) \/ s.refresh_intent # "Idle"

(* What a worker decoded differs from what it scanned only if the disk has *)
(* changed since the scan, and for good: its second scan will notice.      *)
Reading(w, dk, st) ==
  /\ w.pc \in {"decode", "rescan"} => w.scanned <= st
  /\ w.pc = "rescan" /\ w.decoded # w.scanned =>
       w.scanned # NoShards /\ dk[w.dir] # w.scanned

(* What a worker that is past its second scan, or did without, reports.    *)
Faithful(w) ==
  /\ w.pc = "confirm" =>
       \/ w.outcome = "loaded" /\ w.decoded = w.scanned
       \/ w.outcome = "unchanged" /\ w.kind = "refresh" /\ w.scanned = w.previous
  /\ w.pc = "watch" => w.decoded = w.scanned /\ w.kind # "refresh"
  /\ w.pc = "recheck" => w.decoded = w.scanned
  /\ w.pc = "done" /\ w.outcome = "loaded" => w.decoded = w.scanned
  /\ w.pc = "done" /\ w.outcome = "unchanged" => w.scanned = w.previous

(* What a worker starts from: only a startup worker may use what the cache *)
(* holds, without a scan, and only a reload may find its shards unchanged, *)
(* by comparing them, if its result still counts, with what is served.     *)
Based(s, w) ==
  /\ w.cached \/ w.scanned \in OnDisk
  /\ w.kind # "startup" => ~w.cached
  /\ w.kind # "refresh" => w.force
  /\ w.kind = "refresh" => s.index_dir # None
  /\ w.kind = "refresh" /\ w.current => w.previous = s.index_shards

(* If HEAD has left the commit a finished worker checked, a watcher knows. *)
Warned(s, w, h) ==
  /\ w.kind = "refresh" /\ w.current /\ w.pc = "done" /\ w.outcome \in {"loaded", "unchanged"}
       /\ s.watcher # None /\ w.key # h => Pending(s.watcher)
  /\ w.kind = "startup" /\ w.pc = "done" /\ w.outcome = "loaded"
       /\ w.watch # None /\ w.key # h => Pending(w.watch)

(* The two parts about HEAD hold until a load is asked for explicitly: its *)
(* worker starts its watcher after its last look at HEAD.                  *)
Sound(s, w, dk, st) == Reading(w, dk, st) /\ Faithful(w) /\ Based(s, w)

Known(s, w, dk, st, h) == Sound(s, w, dk, st) /\ (s.asked = {} => Warned(s, w, h))

Settled(s, h) == Located(s) /\ Matching(s) /\ (s.asked = {} => Noticed(s, h))

Facts(s, dk, st, h) == Settled(s, h) /\ \A w \in s.workers : Known(s, w, dk, st, h)

ServedInvariant == GenerationInvariant /\ Rising(disk, stamp) /\ Facts(srv, disk, stamp, head)

-----------------------------------------------------------------------------
(***************************************************************************)
(* What scheduling, cancelling and answering do to the facts: nothing.     *)
(* They leave alone all that is served, make workers in flight obsolete,   *)
(* and spawn workers that know nothing yet.                                *)
(***************************************************************************)

Obsolete(w) == [w EXCEPT !.current = FALSE]

Fresh(s, v) ==
  /\ v.pc = "begin" /\ ~v.cached /\ v.scanned = NoShards
  /\ v.kind = "refresh" => v.previous = s.index_shards /\ s.index_dir # None
  /\ v.kind # "refresh" => v.force

Tame(s, t) ==
  /\ t.index = s.index /\ t.index_shards = s.index_shards /\ t.index_dir = s.index_dir
  /\ t.provenance = s.provenance /\ t.shards_verified = s.shards_verified
  /\ t.refresh_intent = s.refresh_intent /\ t.watcher = s.watcher
  /\ t.asked = {} => s.asked = {}
  /\ \A v \in t.workers : Fresh(s, v) \/ \E w \in s.workers : v = w \/ v = Obsolete(w)

LEMMA ObsoleteFields ==
  ASSUME NEW w \in Worker
  PROVE  LET v == Obsolete(w)
         IN  /\ ~v.current /\ Obsolete(v) = v
             /\ v.pc = w.pc /\ v.kind = w.kind /\ v.key = w.key /\ v.force = w.force
             /\ v.previous = w.previous /\ v.scanned = w.scanned /\ v.decoded = w.decoded
             /\ v.cached = w.cached /\ v.watch = w.watch /\ v.outcome = w.outcome
             /\ v.dir = w.dir
BY DEF Obsolete, Worker

LEMMA TameSound ==
  ASSUME NEW s, NEW t, s.workers \subseteq Worker, NEW dk, NEW st, Tame(s, t),
         \A w \in s.workers : Sound(s, w, dk, st)
  PROVE  \A v \in t.workers : Sound(t, v, dk, st)
<1> SUFFICES ASSUME NEW v \in t.workers PROVE Sound(t, v, dk, st)
  OBVIOUS
<1>1. CASE Fresh(s, v)
  <2>1. Reading(v, dk, st)
    BY <1>1 DEF Fresh, Reading
  <2>2. Faithful(v)
    BY <1>1 DEF Fresh, Faithful
  <2>3. Based(t, v)
    <3>1. v.scanned \in OnDisk /\ ~v.cached
      BY <1>1 DEF Fresh, OnDisk
    <3>2. t.index_shards = s.index_shards /\ t.index_dir = s.index_dir
      BY DEF Tame
    <3> QED BY <1>1, <3>1, <3>2 DEF Fresh, Based
  <2> QED BY <2>1, <2>2, <2>3 DEF Sound
<1>2. ASSUME NEW w \in s.workers, v = w PROVE Sound(t, v, dk, st)
  BY <1>2 DEF Tame, Sound, Based
<1>3. ASSUME NEW w \in s.workers, v = Obsolete(w) PROVE Sound(t, v, dk, st)
  <2>1. Sound(s, w, dk, st)
    OBVIOUS
  <2>2. /\ ~v.current
        /\ v.pc = w.pc /\ v.kind = w.kind /\ v.force = w.force /\ v.dir = w.dir
        /\ v.previous = w.previous /\ v.scanned = w.scanned /\ v.decoded = w.decoded
        /\ v.cached = w.cached /\ v.outcome = w.outcome
    BY <1>3, ObsoleteFields
  <2>3. Reading(v, dk, st) /\ Faithful(v)
    BY <2>1, <2>2 DEF Sound, Reading, Faithful
  <2>4. Based(t, v)
    <3>1. t.index_dir = s.index_dir
      BY DEF Tame
    <3> QED BY <2>1, <2>2, <3>1 DEF Sound, Based
  <2> QED BY <2>3, <2>4 DEF Sound
<1> QED BY <1>1, <1>2, <1>3 DEF Tame

LEMMA TameFacts ==
  ASSUME NEW s, NEW t, s.workers \subseteq Worker, NEW dk, NEW st, NEW h,
         Tame(s, t), Facts(s, dk, st, h)
  PROVE  Facts(t, dk, st, h)
<1>1. Settled(t, h)
  BY DEF Tame, Facts, Settled, Located, Matching, Noticed
<1>2. \A v \in t.workers : Sound(t, v, dk, st)
  BY TameSound DEF Facts, Known
<1>3. ASSUME NEW v \in t.workers, t.asked = {} PROVE Warned(t, v, h)
  <2>1. s.asked = {} /\ t.watcher = s.watcher
    BY <1>3 DEF Tame
  <2>2. CASE Fresh(s, v)
    BY <2>2 DEF Fresh, Warned
  <2>3. ASSUME NEW w \in s.workers, v = w PROVE Warned(t, v, h)
    BY <2>1, <2>3 DEF Facts, Known, Warned
  <2>4. ASSUME NEW w \in s.workers, v = Obsolete(w) PROVE Warned(t, v, h)
    <3>1. Warned(s, w, h)
      BY <2>1 DEF Facts, Known
    <3>2. /\ ~v.current /\ v.pc = w.pc /\ v.kind = w.kind /\ v.key = w.key
          /\ v.watch = w.watch /\ v.outcome = w.outcome
      BY <2>4, ObsoleteFields
    <3> QED BY <3>1, <3>2 DEF Warned
  <2> QED BY <2>2, <2>3, <2>4 DEF Tame
<1> QED BY <1>1, <1>2, <1>3 DEF Facts, Known

LEMMA TameReflexive == ASSUME NEW s PROVE Tame(s, s)
BY DEF Tame

LEMMA TameTransitive ==
  ASSUME NEW s, NEW t, NEW u, s.workers \subseteq Worker, t.workers \subseteq Worker,
         Tame(s, t), Tame(t, u)
  PROVE  Tame(s, u)
<1>1. ASSUME NEW x \in u.workers
      PROVE  Fresh(s, x) \/ \E w \in s.workers : x = w \/ x = Obsolete(w)
  <2>1. CASE Fresh(t, x)
    BY <2>1 DEF Fresh, Tame
  <2>2. ASSUME NEW v \in t.workers, x = v \/ x = Obsolete(v)
        PROVE  Fresh(s, x) \/ \E w \in s.workers : x = w \/ x = Obsolete(w)
    <3>1. CASE Fresh(s, v)
      <4>1. x.pc = v.pc /\ x.cached = v.cached /\ x.scanned = v.scanned /\ x.kind = v.kind
            /\ x.previous = v.previous /\ x.force = v.force
        BY <2>2, ObsoleteFields
      <4> QED BY <3>1, <4>1 DEF Fresh
    <3>2. ASSUME NEW w \in s.workers, v = w \/ v = Obsolete(w)
          PROVE  x = w \/ x = Obsolete(w)
      BY <2>2, <3>2, ObsoleteFields
    <3> QED BY <3>1, <3>2 DEF Tame
  <2> QED BY <2>1, <2>2 DEF Tame
<1> QED BY <1>1 DEF Tame

LEMMA TameChain ==
  ASSUME NEW s \in Server, NEW t \in Server, NEW u, Tame(s, t), Tame(t, u)
  PROVE  Tame(s, u)
BY FieldTypes, TameTransitive

LEMMA SupersedeTame ==
  ASSUME NEW s \in Server PROVE Tame(s, Supersede(s))
<1> DEFINE t == Supersede(s)
<1>1. t.workers = {Obsolete(w) : w \in s.workers}
  BY SupersedeFields DEF Obsolete
<1>2. /\ t.index = s.index /\ t.index_shards = s.index_shards /\ t.index_dir = s.index_dir
      /\ t.provenance = s.provenance /\ t.shards_verified = s.shards_verified
      /\ t.refresh_intent = s.refresh_intent /\ t.watcher = s.watcher /\ t.asked = s.asked
  BY DEF Supersede, Server
<1> HIDE DEF t
<1>3. Tame(s, t)
  BY <1>1, <1>2 DEF Tame
<1> QED BY <1>3 DEF t

LEMMA SpawnTame ==
  ASSUME NEW s \in Server, NEW w, Fresh(s, w) PROVE Tame(s, Spawn(s, w))
<1> DEFINE t == Spawn(s, w)
<1>1. /\ t.workers = s.workers \union {w}
      /\ t.index = s.index /\ t.index_shards = s.index_shards /\ t.index_dir = s.index_dir
      /\ t.provenance = s.provenance /\ t.shards_verified = s.shards_verified
      /\ t.refresh_intent = s.refresh_intent /\ t.watcher = s.watcher /\ t.asked = s.asked
  BY DEF Spawn, Server
<1> HIDE DEF t
<1>2. Tame(s, t)
  BY <1>1 DEF Tame
<1> QED BY <1>2 DEF t

(* Flags, counters and replies are no facts. *)
LEMMA FlagsTame ==
  ASSUME NEW s \in Server, NEW b, NEW c, NEW n, NEW a, NEW r
  PROVE  /\ Tame(s, [s EXCEPT !.refresh_again = b])
         /\ Tame(s, [s EXCEPT !.refresh_running = b, !.refresh_progress = c])
         /\ Tame(s, [s EXCEPT !.explicit_load = r, !.explicit_load_progress = b])
         /\ Tame(s, [s EXCEPT !.explicit_load_running = b, !.explicit_load = r,
                              !.explicit_load_progress = c])
         /\ Tame(s, [s EXCEPT !.startup_running = b, !.startup_state = c])
         /\ Tame(s, [s EXCEPT !.shutdown_requested = b])
         /\ Tame(s, [s EXCEPT !.answers = a])
         /\ Tame(s, [s EXCEPT !.shown = n])
         /\ Tame(s, [s EXCEPT !.cache_job = r])
         /\ Tame(s, [s EXCEPT !.asked = @ \union {r}])
BY DEF Tame, Server

LEMMA ShowTame ==
  ASSUME NEW s \in Server, NEW open, NEW r
  PROVE  /\ Tame(s, ShowProgress(s)) /\ Tame(s, HideProgress(s, open))
         /\ Tame(s, Respond(s, r))
<1>1. Tame(s, [s EXCEPT !.shown = s.shown + 1]) /\ Tame(s, [s EXCEPT !.shown = s.shown - 1])
  BY FlagsTame
<1>2. Tame(s, [s EXCEPT !.answers = [s.answers EXCEPT ![r] = @ + 1]])
  BY FlagsTame
<1>3. Respond(s, r) = [s EXCEPT !.answers = [s.answers EXCEPT ![r] = @ + 1]]
  BY DEF Respond, Server
<1> QED BY <1>1, <1>2, <1>3, TameReflexive DEF ShowProgress, HideProgress

(* Of a worker only these fields matter to Fresh. *)
LEMMA FreshAfter ==
  ASSUME NEW s, NEW t, NEW w, Fresh(s, w), Tame(s, t) PROVE Fresh(t, w)
BY DEF Fresh, Tame

LEMMA ScheduleRefreshTame ==
  ASSUME NEW s \in Server, NEW changed \in BOOLEAN, NEW w \in Worker, Fresh(s, w)
  PROVE  Tame(s, ScheduleRefresh(s, changed, w))
<1> DEFINE u == Supersede(s)
           v == [u EXCEPT !.refresh_running = TRUE, !.refresh_progress = TRUE]
           p == ShowProgress(v)
<1>1. u \in Server /\ Tame(s, u)
  BY SupersedeType, SupersedeTame
<1>2. Tame(s, [s EXCEPT !.refresh_again = s.refresh_again \/ changed])
  BY FlagsTame
<1>3. Tame(s, [u EXCEPT !.refresh_again = TRUE])
  <2> HIDE DEF u
  <2>1. Tame(u, [u EXCEPT !.refresh_again = TRUE])
    BY <1>1, FlagsTame
  <2> QED BY <1>1, <2>1, TameChain
<1>4. v \in Server /\ Tame(s, v)
  <2> HIDE DEF u
  <2>1. v \in Server /\ Tame(u, v)
    BY <1>1, FlagsTame, StartRefreshType
  <2> QED BY <1>1, <2>1, TameChain
<1> HIDE DEF u, v
<1>5. p \in Server /\ Tame(s, p)
  <2>1. p \in Server /\ Tame(v, p)
    BY <1>4, ProgressType, ShowTame
  <2> QED BY <1>4, <2>1, TameChain
<1> HIDE DEF p
<1>6. Tame(s, Spawn(p, w))
  <2>1. Tame(p, Spawn(p, w))
    BY <1>5, FreshAfter, SpawnTame
  <2> QED BY <1>5, <2>1, TameChain
<1>7. ScheduleRefresh(s, changed, w) =
        IF s.explicit_load_running \/ s.startup_running
        THEN [s EXCEPT !.refresh_again = s.refresh_again \/ changed]
        ELSE IF s.refresh_running
        THEN IF changed THEN [u EXCEPT !.refresh_again = TRUE] ELSE s
        ELSE Spawn(p, w)
  BY DEF ScheduleRefresh, p, v, u
<1> QED BY <1>2, <1>3, <1>6, <1>7, TameReflexive

LEMMA RefreshWorkerFresh ==
  ASSUME NEW s, s.index_dir # None, NEW force PROVE Fresh(s, RefreshWorker(s, force))
BY DEF Fresh, RefreshWorker, IdleWorker

LEMMA ScheduleIndexRefreshTame ==
  ASSUME NEW s \in Server, NEW changed \in BOOLEAN, NEW force \in BOOLEAN
  PROVE  Tame(s, ScheduleIndexRefresh(s, changed, force))
BY TameReflexive, RefreshWorkerFresh, RefreshWorkerType, ScheduleRefreshTame
   DEF ScheduleIndexRefresh

LEMMA ScheduleQueuedRefreshTame ==
  ASSUME NEW s \in Server PROVE Tame(s, ScheduleQueuedRefresh(s))
<1> DEFINE t == [s EXCEPT !.refresh_again = FALSE]
           u == ScheduleIndexRefresh(t, FALSE, t.index = None)
<1>1. t \in Server /\ Tame(s, t)
  BY QueueField, FlagsTame
<1>2. ScheduleQueuedRefresh(s) = s \/ ScheduleQueuedRefresh(s) = t
        \/ ScheduleQueuedRefresh(s) = u
  BY DEF ScheduleQueuedRefresh
<1> HIDE DEF t
<1>3. Tame(t, u)
  BY <1>1, ScheduleIndexRefreshTame
<1> HIDE DEF u
<1> QED BY <1>1, <1>2, <1>3, TameReflexive, TameChain

LEMMA OnRefreshTickTame ==
  ASSUME NEW s \in Server PROVE Tame(s, OnRefreshTick(s))
BY TameReflexive, ScheduleIndexRefreshTame DEF OnRefreshTick

LEMMA WriteCacheAsyncTame ==
  ASSUME NEW s \in Server PROVE Tame(s, WriteCacheAsync(s))
<1> DEFINE job == [shards |-> s.index_shards, head |-> s.provenance]
<1>1. Tame(s, [s EXCEPT !.cache_job = job])
  BY FlagsTame
<1> QED BY <1>1, TameReflexive DEF WriteCacheAsync

LEMMA CancelExplicitLoadTame ==
  ASSUME NEW s \in Server PROVE Tame(s, CancelExplicitLoad(s))
<1> DEFINE u == Supersede(s)
           v == [u EXCEPT !.explicit_load = None, !.explicit_load_progress = FALSE]
           a == Respond(v, s.explicit_load)
           t == HideProgress(a, s.explicit_load_progress)
<1>1. CASE s.explicit_load = None
  BY <1>1, TameReflexive DEF CancelExplicitLoad
<1>2. CASE s.explicit_load # None
  <2>1. u \in Server /\ Tame(s, u)
    BY SupersedeType, SupersedeTame
  <2>2. CancelExplicitLoad(s) = t /\ s.explicit_load \in Requests
    BY <1>2, FieldTypes DEF CancelExplicitLoad
  <2> HIDE DEF u
  <2>3. v \in Server /\ Tame(u, v)
    BY <2>1, NoExplicitLoadType, FlagsTame
  <2> HIDE DEF v
  <2>4. a \in Server /\ Tame(v, a)
    BY <2>2, <2>3, RespondType, ShowTame
  <2> HIDE DEF a
  <2>5. Tame(a, t)
    BY <2>4, ShowTame
  <2>6. Tame(s, v)
    BY <2>1, <2>3, TameChain
  <2>7. Tame(s, a)
    BY <2>3, <2>4, <2>6, TameChain
  <2>8. Tame(s, t)
    BY <2>4, <2>5, <2>7, TameChain
  <2> QED BY <2>2, <2>8
<1> QED BY <1>1, <1>2

LEMMA OnShutdownTame ==
  ASSUME NEW s \in Server PROVE Tame(s, OnShutdown(s))
<1> DEFINE a == CancelExplicitLoad(s)
           u == Supersede(a)
           c == [u EXCEPT !.startup_running = FALSE, !.startup_state = "cancelled"]
           v == CancelStartup(a)
<1>1. a \in Server /\ Tame(s, a)
  BY CancelExplicitLoadType, CancelExplicitLoadTame
<1>2. OnShutdown(s) = [v EXCEPT !.shutdown_requested = TRUE]
  BY DEF OnShutdown
<1> HIDE DEF a
<1>3. u \in Server /\ Tame(a, u)
  BY <1>1, SupersedeType, SupersedeTame
<1>4. v = c \/ v = a
  BY DEF CancelStartup
<1> HIDE DEF u
<1>5. c \in Server /\ Tame(u, c)
  BY <1>3, NoStartupType, FlagsTame
<1> HIDE DEF c
<1>6. Tame(a, c)
  BY <1>1, <1>3, <1>5, TameChain
<1>7. v \in Server /\ Tame(s, v)
  BY <1>1, <1>4, <1>5, <1>6, TameChain
<1> HIDE DEF v
<1>8. Tame(v, [v EXCEPT !.shutdown_requested = TRUE])
  BY <1>7, FlagsTame
<1> QED BY <1>1, <1>2, <1>7, <1>8, TameChain

LEMMA OnLoadRequestTame ==
  ASSUME NEW s \in Server, NEW r \in Requests, NEW d \in Dirs
  PROVE  Tame(s, OnLoadRequest(s, r, d))
<1> DEFINE a == [s EXCEPT !.asked = @ \union {r}]
           u == Supersede(a)
           v == [u EXCEPT !.explicit_load_running = TRUE, !.explicit_load = r,
                          !.explicit_load_progress = TRUE]
           p == ShowProgress(v)
           w == [IdleWorker EXCEPT !.kind = "explicit", !.dir = d, !.request = r]
<1>1. a \in Server /\ Tame(s, a)
  BY AskedType, FlagsTame
<1>2. OnLoadRequest(s, r, d) = Respond(a, r) \/ OnLoadRequest(s, r, d) = Spawn(p, w)
  BY DEF OnLoadRequest
<1> HIDE DEF a
<1>3. Tame(a, Respond(a, r))
  BY <1>1, ShowTame
<1>4. u \in Server /\ Tame(a, u)
  BY <1>1, SupersedeType, SupersedeTame
<1> HIDE DEF u
<1>5. v \in Server /\ Tame(u, v)
  BY <1>4, StartExplicitType, FlagsTame
<1> HIDE DEF v
<1>6. p \in Server /\ Tame(v, p)
  BY <1>5, ProgressType, ShowTame
<1> HIDE DEF p
<1>7. Fresh(p, w)
  BY DEF Fresh, IdleWorker
<1> HIDE DEF w
<1>8. Tame(p, Spawn(p, w))
  BY <1>6, <1>7, SpawnTame
<1>9. Tame(a, v)
  BY <1>1, <1>4, <1>5, TameChain
<1>10. Tame(a, p)
  BY <1>1, <1>5, <1>6, <1>9, TameChain
<1>11. Tame(a, Spawn(p, w))
  BY <1>1, <1>6, <1>8, <1>10, TameChain
<1> QED BY <1>1, <1>2, <1>3, <1>11, TameChain

-----------------------------------------------------------------------------
(***************************************************************************)
(* The watcher's changes.  A change is received before it is acted on, and *)
(* with it goes the notice that HEAD may have moved; what the handler does *)
(* must make up for it: drop the index or leave it to be validated, and    *)
(* make every reload in flight obsolete.                                   *)
(***************************************************************************)

LEMMA AfterChange ==
  ASSUME NEW t, NEW dk, NEW st, NEW h, Loop(t), Located(t), Matching(t),
         t.index_dir # None, t.index = None \/ t.refresh_intent # "Idle",
         \A v \in t.workers : Sound(t, v, dk, st),
         \A v \in t.workers : v.kind = "refresh" /\ v.current => v.pc = "begin"
  PROVE  Facts(t, dk, st, h)
<1>1. Noticed(t, h)
  BY DEF Noticed
<1>2. \A v \in t.workers : Warned(t, v, h)
  BY DEF Warned, Loop, Seats
<1> QED BY <1>1, <1>2 DEF Facts, Settled, Known

(* Scheduling on a change leaves no reload that is past its beginning      *)
(* current.                                                                *)
LEMMA ChangeObsoletes ==
  ASSUME NEW s \in Server, Loop(s), s.index_dir # None, NEW force \in BOOLEAN
  PROVE  LET t == ScheduleIndexRefresh(s, TRUE, force)
         IN  \A v \in t.workers : v.kind = "refresh" /\ v.current => v.pc = "begin"
<1> DEFINE u == Supersede(s)
           r == RefreshWorker(s, force)
           t == ScheduleRefresh(s, TRUE, r)
<1>1. ScheduleIndexRefresh(s, TRUE, force) = t
  BY DEF ScheduleIndexRefresh
<1>2. u \in Server /\ \A v \in u.workers : ~v.current
  BY SupersedeType, SupersedeFields
<1>3. r.pc = "begin"
  BY DEF RefreshWorker, IdleWorker
<1>4. CASE s.explicit_load_running \/ s.startup_running
  <2>1. t.workers = s.workers
    BY <1>4 DEF ScheduleRefresh, Server
  <2>2. \A v \in s.workers : v.kind # "refresh"
    BY <1>4 DEF Loop, Seats
  <2> QED BY <1>1, <2>1, <2>2
<1>5. CASE ~(s.explicit_load_running \/ s.startup_running) /\ s.refresh_running
  <2>1. t = [u EXCEPT !.refresh_again = TRUE]
    BY <1>5 DEF ScheduleRefresh
  <2> HIDE DEF u, t
  <2>2. t.workers = u.workers
    BY <1>2, <2>1, RefreshAgainFields
  <2> QED BY <1>1, <1>2, <2>2
<1>6. CASE ~(s.explicit_load_running \/ s.startup_running) /\ ~s.refresh_running
  <2>1. t = Spawn(ShowProgress([u EXCEPT !.refresh_running = TRUE,
                                         !.refresh_progress = TRUE]), r)
    BY <1>6 DEF ScheduleRefresh
  <2> HIDE DEF u, r, t
  <2>2. t.workers = u.workers \union {r}
    BY <1>2, <2>1 DEF Spawn, ShowProgress, Server
  <2> QED BY <1>1, <1>2, <1>3, <2>2
<1> QED BY <1>4, <1>5, <1>6

LEMMA OnIndexChangeFacts ==
  ASSUME NEW s \in Server, Loop(s), Carried(s), s.index_dir # None,
         NEW dk, NEW st, NEW h, Matching(s), \A w \in s.workers : Sound(s, w, dk, st)
  PROVE  Facts(OnIndexChange(s), dk, st, h)
<1> DEFINE a == [s EXCEPT !.refresh_intent = "Retry"]
           force == s.refresh_intent = "AwaitingBuild" \/ s.index = None
           t == OnIndexChange(s)
<1>1. t = ScheduleIndexRefresh(a, TRUE, force) /\ force \in BOOLEAN
  BY DEF OnIndexChange
<1>2. Loop(t)
  BY OnIndexChangeLoop
<1>3. a \in Server
  BY IntentField
<1>4. LeavesLoop(s, a) /\ a.refresh_intent = "Retry" /\ a.index_shards = s.index_shards
      /\ a.index = s.index /\ a.shards_verified = s.shards_verified /\ a.index_dir # None
  BY DEF LeavesLoop, Server
<1> HIDE DEF a, force, t
<1>5. Waiting(a)
  BY <1>4 DEF Waiting
<1>6. Loop(a)
  BY <1>4, <1>5, Frame
<1>7. \A w \in a.workers : Sound(a, w, dk, st)
  BY <1>4 DEF LeavesLoop, Sound, Based
<1>8. Tame(a, t)
  BY <1>1, <1>3, ScheduleIndexRefreshTame
<1>9. \A v \in t.workers : Sound(t, v, dk, st)
  BY <1>3, <1>7, <1>8, TameSound, FieldTypes
<1>10. \A v \in t.workers : v.kind = "refresh" /\ v.current => v.pc = "begin"
  BY <1>1, <1>3, <1>4, <1>6, ChangeObsoletes
<1>11. Located(t) /\ Matching(t) /\ t.index_dir # None /\ t.refresh_intent # "Idle"
  BY <1>4, <1>8 DEF Tame, Located, Matching
<1>12. Facts(t, dk, st, h)
  BY <1>2, <1>9, <1>10, <1>11, AfterChange
<1> QED BY <1>12 DEF t

LEMMA OnWatcherErrorFacts ==
  ASSUME NEW s \in Server, Loop(s), Carried(s), s.index_dir # None,
         NEW dk, NEW st, NEW h, Matching(s), \A w \in s.workers : Sound(s, w, dk, st)
  PROVE  Facts(OnWatcherError(s), dk, st, h)
<1>1. CASE s.refresh_intent = "AwaitingBuild"
  <2>1. OnWatcherError(s) = s
    BY <1>1 DEF OnWatcherError
  <2>2. s.index = None /\ \A w \in s.workers : w.kind = "refresh" => ~w.current
    BY <1>1 DEF Loop, Waiting
  <2> QED BY <2>1, <2>2, AfterChange DEF Located
<1>2. CASE s.refresh_intent # "AwaitingBuild"
  <2> DEFINE a == [s EXCEPT !.shards_verified = FALSE, !.refresh_intent = "Retry"]
             force == s.index = None
             t == OnWatcherError(s)
  <2>1. t = ScheduleIndexRefresh(a, TRUE, force) /\ force \in BOOLEAN
    BY <1>2 DEF OnWatcherError
  <2>2. Loop(t)
    BY OnWatcherErrorLoop
  <2>3. a \in Server
    BY UnverifiedType
  <2>4. LeavesLoop(s, a) /\ a.refresh_intent = "Retry" /\ a.index_shards = s.index_shards
        /\ a.index = s.index /\ ~a.shards_verified /\ a.index_dir # None
    BY DEF LeavesLoop, Server
  <2> HIDE DEF a, force, t
  <2>5. Waiting(a)
    BY <2>4 DEF Waiting
  <2>6. Loop(a)
    BY <2>4, <2>5, Frame
  <2>7. \A w \in a.workers : Sound(a, w, dk, st)
    BY <2>4 DEF LeavesLoop, Sound, Based
  <2>8. Tame(a, t)
    BY <2>1, <2>3, ScheduleIndexRefreshTame
  <2>9. \A v \in t.workers : Sound(t, v, dk, st)
    BY <2>3, <2>7, <2>8, TameSound, FieldTypes
  <2>10. \A v \in t.workers : v.kind = "refresh" /\ v.current => v.pc = "begin"
    BY <2>1, <2>3, <2>4, <2>6, ChangeObsoletes
  <2>11. Located(t) /\ Matching(t) /\ t.index_dir # None /\ t.refresh_intent # "Idle"
    BY <2>4, <2>8 DEF Tame, Located, Matching
  <2>12. Facts(t, dk, st, h)
    BY <2>2, <2>9, <2>10, <2>11, AfterChange
  <2> QED BY <2>12 DEF t
<1> QED BY <1>1, <1>2

LEMMA OnWorkspaceChangeFacts ==
  ASSUME NEW s \in Server, Loop(s), Carried(s), s.index_dir # None,
         NEW dk, NEW st, NEW h, \A w \in s.workers : Sound(s, w, dk, st)
  PROVE  /\ Facts(OnWorkspaceChange(s), dk, st, h)
         /\ OnWorkspaceChange(s).index = None
<1> DEFINE a == [s EXCEPT !.index = None]
           b == CancelExplicitLoad(a)
           c == Supersede(b)
           t == [c EXCEPT !.cache_hit = FALSE, !.shards_verified = FALSE,
                          !.refresh_intent = "AwaitingBuild", !.provenance_stale = TRUE,
                          !.refresh_again = FALSE, !.cache_job = None]
<1>1. OnWorkspaceChange(s) = t
  BY DEF OnWorkspaceChange
<1>2. Loop(OnWorkspaceChange(s))
  BY OnWorkspaceChangeLoop
<1>3. a \in Server
  BY IndexField
<1>4. a.workers = s.workers /\ a.index = None /\ a.index_shards = s.index_shards
      /\ a.index_dir = s.index_dir
  BY DEF Server
<1> HIDE DEF a
<1>5. b \in Server /\ Tame(a, b)
  BY <1>3, CancelExplicitLoadType, CancelExplicitLoadTame
<1> HIDE DEF b
<1>6. c \in Server /\ Tame(b, c) /\ \A w \in c.workers : ~w.current
  BY <1>5, SupersedeType, SupersedeTame, SupersedeFields
<1> HIDE DEF c
<1>7. Tame(a, c)
  BY <1>3, <1>5, <1>6, TameChain
<1>8. t.workers = c.workers /\ t.index = c.index /\ t.index_dir = c.index_dir
      /\ t.index_shards = c.index_shards
  BY <1>6 DEF Server
<1> HIDE DEF t
<1>9. \A w \in a.workers : Sound(a, w, dk, st)
  BY <1>4 DEF Sound, Based
<1>10. \A w \in c.workers : Sound(c, w, dk, st)
  BY <1>3, <1>7, <1>9, TameSound, FieldTypes
<1>11. \A w \in t.workers : Sound(t, w, dk, st)
  BY <1>8, <1>10 DEF Sound, Based
<1>12. t.index = None /\ t.index_dir # None
  BY <1>4, <1>7, <1>8 DEF Tame
<1>13. Located(t) /\ Matching(t)
  BY <1>12 DEF Located, Matching
<1>14. \A w \in t.workers : ~w.current
  BY <1>6, <1>8
<1> QED BY <1>1, <1>2, <1>11, <1>12, <1>13, <1>14, AfterChange

-----------------------------------------------------------------------------
(***************************************************************************)
(* Results.  Between receiving a result and scheduling what was queued     *)
(* there is no worker, so only what is served has to be looked at.         *)
(***************************************************************************)

LEMMA NoWorkerFacts ==
  ASSUME NEW s, NEW dk, NEW st, NEW h, s.workers = {}, Settled(s, h)
  PROVE  Facts(s, dk, st, h)
BY DEF Facts

(* What Settled reads of a state. *)
SameService(s, t) ==
  /\ t.index = s.index /\ t.index_shards = s.index_shards /\ t.index_dir = s.index_dir
  /\ t.provenance = s.provenance /\ t.shards_verified = s.shards_verified
  /\ t.refresh_intent = s.refresh_intent /\ t.watcher = s.watcher
  /\ t.asked = s.asked

LEMMA SameServiceSettled ==
  ASSUME NEW s, NEW t, NEW h, SameService(s, t), Settled(s, h) PROVE Settled(t, h)
BY DEF SameService, Settled, Located, Matching, Noticed

LEMMA FieldsService ==
  ASSUME NEW s \in Server, NEW b, NEW c, NEW r
  PROVE  /\ SameService(s, [s EXCEPT !.refresh_running = b, !.refresh_progress = c])
         /\ SameService(s, [s EXCEPT !.explicit_load_running = b])
         /\ SameService(s, [s EXCEPT !.explicit_load = r, !.explicit_load_progress = b])
         /\ SameService(s, [s EXCEPT !.startup_running = b, !.startup_state = c])
         /\ SameService(s, [s EXCEPT !.cache_hit = b])
BY DEF SameService, Server

LEMMA FieldsWorkers ==
  ASSUME NEW s \in Server, NEW b, NEW c, NEW r
  PROVE  /\ [s EXCEPT !.refresh_running = b, !.refresh_progress = c].workers = s.workers
         /\ [s EXCEPT !.explicit_load_running = b].workers = s.workers
         /\ [s EXCEPT !.explicit_load = r, !.explicit_load_progress = b].workers = s.workers
         /\ [s EXCEPT !.startup_running = b, !.startup_state = c].workers = s.workers
         /\ [s EXCEPT !.cache_hit = b].workers = s.workers
BY DEF Server

LEMMA ReplyService ==
  ASSUME NEW s \in Server, NEW r, NEW open
  PROVE  /\ Respond(s, r).workers = s.workers /\ SameService(s, Respond(s, r))
         /\ HideProgress(s, open).workers = s.workers
         /\ SameService(s, HideProgress(s, open))
BY DEF SameService, Respond, HideProgress, Server

LEMMA ReceivedService ==
  ASSUME NEW s \in Server, NEW w PROVE SameService(s, Received(s, w))
BY DEF SameService, Received, Server

LEMMA QueuedFacts ==
  ASSUME NEW s \in Server, NEW dk, NEW st, NEW h, s.workers = {}, Settled(s, h)
  PROVE  Facts(ScheduleQueuedRefresh(s), dk, st, h)
BY NoWorkerFacts, ScheduleQueuedRefreshTame, TameFacts, FieldTypes

(* What a reload's result makes of the server. *)

LEMMA ConfirmUnchangedSettled ==
  ASSUME NEW s \in Server, NEW w \in Worker, NEW h, Settled(s, h), s.index_dir # None,
         w.scanned = s.index_shards, w.scanned \in OnDisk,
         s.asked = {} /\ s.watcher # None /\ w.key # h => Pending(s.watcher)
  PROVE  Settled(ConfirmUnchanged(s, w), h)
<1> DEFINE t == ConfirmUnchanged(s, w)
<1>1. /\ t.index = s.index /\ t.index_shards = s.index_shards /\ t.index_dir = s.index_dir
      /\ t.provenance = w.key /\ t.watcher = s.watcher /\ t.asked = s.asked
      /\ t.refresh_intent # "AwaitingBuild"
  BY DEF ConfirmUnchanged, UpdateProvenance, Server
<1> HIDE DEF t
<1>2. Settled(t, h)
  BY <1>1 DEF Settled, Located, Matching, Noticed
<1> QED BY <1>2 DEF t

LEMMA ClearIndexSettled ==
  ASSUME NEW s \in Server, NEW w \in Worker, NEW h, s.index_dir # None
  PROVE  Settled(ClearIndex(s, w), h)
<1> DEFINE t == ClearIndex(s, w)
<1>1. t.index = None /\ t.index_dir = s.index_dir
  BY DEF ClearIndex, UpdateProvenance, Server
<1> HIDE DEF t
<1>2. Settled(t, h)
  BY <1>1 DEF Settled, Located, Matching, Noticed
<1> QED BY <1>2 DEF t

LEMMA InstallReloadSettled ==
  ASSUME NEW s \in Server, NEW w \in Worker, NEW h, s.index_dir # None,
         w.decoded = w.scanned, w.scanned \in OnDisk,
         s.asked = {} /\ s.watcher # None /\ w.key # h => Pending(s.watcher)
  PROVE  Settled(InstallReload(s, w), h)
<1> DEFINE u == UpdateProvenance(s, w.key)
           a == [u EXCEPT !.index = w.decoded, !.index_shards = w.scanned,
                          !.shards_verified = TRUE, !.refresh_intent = "Idle"]
           b == [a EXCEPT !.cache_hit = FALSE]
           t == WriteCacheAsync(b)
<1>1. InstallReload(s, w) = IF a.cache THEN t ELSE a
  BY DEF InstallReload
<1>2. a \in Server
  <2>1. u \in Server
    BY WorkerFields, UpdateProvenanceType
  <2> HIDE DEF u
  <2> QED BY <2>1, WorkerFields, ReloadFields
<1>3. /\ a.index = w.decoded /\ a.index_shards = w.scanned /\ a.index_dir = s.index_dir
      /\ a.provenance = w.key /\ a.watcher = s.watcher /\ a.asked = s.asked
      /\ a.refresh_intent = "Idle"
  BY DEF UpdateProvenance, Server
<1> HIDE DEF a
<1>4. Settled(a, h)
  BY <1>3 DEF Settled, Located, Matching, Noticed
<1>5. SameService(a, b) /\ b \in Server
  BY <1>2, CacheHitType, FieldsService, FieldsWorkers
<1> HIDE DEF b
<1>6. SameService(b, t)
  BY <1>5 DEF SameService, WriteCacheAsync, Server
<1> HIDE DEF t
<1>7. Settled(t, h)
  BY <1>4, <1>5, <1>6, SameServiceSettled
<1> QED BY <1>1, <1>4, <1>7

LEMMA KeepOldIndexSettled ==
  ASSUME NEW s \in Server, NEW h, s.index_dir # None, Matching(s)
  PROVE  Settled(KeepOldIndex(s), h)
<1> DEFINE t == KeepOldIndex(s)
<1>1. /\ t.index = s.index /\ t.index_shards = s.index_shards /\ t.index_dir = s.index_dir
      /\ t.refresh_intent # "Idle" /\ ~t.shards_verified
  BY DEF KeepOldIndex, Server
<1> HIDE DEF t
<1>2. Settled(t, h)
  BY <1>1 DEF Settled, Located, Matching, Noticed
<1> QED BY <1>2 DEF t

LEMMA InstallExplicitSettled ==
  ASSUME NEW s \in Server, NEW w \in Worker, NEW h, s.asked # {},
         w.decoded = w.scanned, w.scanned \in OnDisk
  PROVE  Settled(InstallExplicit(s, w), h)
<1> DEFINE t == InstallExplicit(s, w)
<1>1. /\ t.index = w.decoded /\ t.index_shards = w.scanned /\ t.index_dir = w.dir
      /\ t.refresh_intent = "Idle" /\ t.asked = s.asked
  BY DEF InstallExplicit, UpdateProvenance, Server
<1> HIDE DEF t
<1>2. Settled(t, h)
  BY <1>1, WorkerFields DEF Settled, Located, Matching
<1> QED BY <1>2 DEF t

LEMMA DiscoveredSettled ==
  ASSUME NEW s \in Server, NEW w \in Worker, NEW h, s.watcher = None,
         w.decoded = w.scanned, w.cached \/ w.scanned \in OnDisk,
         s.asked = {} /\ w.watch # None /\ w.key # h => Pending(w.watch)
  PROVE  Settled(Discovered(s, w), h)
<1> DEFINE u == Supersede(s)
           t == Discovered(s, w)
<1>1. u \in Server /\ u.watcher = None /\ u.asked = s.asked
  <2>1. u.watcher = None /\ u.asked = s.asked
    BY DEF Supersede, Server
  <2> QED BY <2>1, SupersedeType
<1> HIDE DEF u
<1>2. /\ t.index = w.decoded /\ t.index_shards = w.scanned /\ t.index_dir = w.dir
      /\ t.provenance = w.key /\ t.shards_verified = ~w.cached /\ t.asked = s.asked
      /\ t.watcher = w.watch /\ t.refresh_intent # "AwaitingBuild"
  BY <1>1 DEF Discovered, u, Server
<1> HIDE DEF t
<1>3. Located(t)
  BY <1>2, WorkerFields DEF Located
<1>4. Matching(t)
  BY <1>2 DEF Matching
<1>5. s.asked = {} => Noticed(t, h)
  BY <1>2 DEF Noticed
<1>6. Settled(t, h)
  BY <1>2, <1>3, <1>4, <1>5 DEF Settled
<1> QED BY <1>6 DEF t

-----------------------------------------------------------------------------
(* The handlers of results. *)

LEMMA OnRefreshResultFacts ==
  ASSUME NEW s \in Server, Loop(s), NEW dk, NEW st, NEW h, Facts(s, dk, st, h),
         NEW w \in s.workers, w.kind = "refresh", w.pc = "done"
  PROVE  Facts(OnRefreshResult(s, w), dk, st, h)
<1> DEFINE u == Received(s, w)
           e == [u EXCEPT !.refresh_running = FALSE, !.refresh_progress = FALSE]
           t == HideProgress(e, s.refresh_progress)
           v == IF ~w.current THEN t
                ELSE CASE w.outcome = "unchanged" -> ConfirmUnchanged(t, w)
                       [] w.outcome = "empty"     -> ClearIndex(t, w)
                       [] w.outcome = "loaded"    -> InstallReload(t, w)
                       [] OTHER                   -> KeepOldIndex(t)
<1>1. w \in Worker /\ u \in Server /\ u.workers = {} /\ SameService(s, u)
  BY FieldTypes, ReceivedType, ReceivedFields, ReceivedService
<1>2. OnRefreshResult(s, w) = ScheduleQueuedRefresh(v)
  BY DEF OnRefreshResult
<1> HIDE DEF u
<1>3. e \in Server /\ e.workers = {} /\ SameService(u, e)
  <2>1. e \in Server
    BY <1>1, EndRefreshType
  <2>2. e.workers = {}
    BY <1>1, FieldsWorkers
  <2>3. SameService(u, e)
    BY <1>1, FieldsService
  <2> QED BY <2>1, <2>2, <2>3
<1> HIDE DEF e
<1>4. t \in Server /\ t.workers = {} /\ SameService(e, t)
  BY <1>3, ProgressType, FieldTypes, ReplyService
<1> HIDE DEF t
<1>5. SameService(s, t)
  BY <1>1, <1>3, <1>4 DEF SameService
<1>6. Settled(t, h) /\ t.index_dir # None /\ Matching(t)
  <2>1. s.index_dir # None
    BY DEF Facts, Known, Sound, Based
  <2> QED BY <1>5, <2>1, SameServiceSettled DEF Facts, SameService, Settled
<1>7. /\ w.outcome = "loaded" => w.decoded = w.scanned
      /\ w.outcome = "unchanged" => w.scanned = w.previous
      /\ w.scanned \in OnDisk
      /\ w.current => w.previous = t.index_shards
  BY <1>5 DEF Facts, Known, Sound, Faithful, Based, SameService
<1>8. w.current /\ w.outcome \in {"loaded", "unchanged"} /\ t.asked = {}
        /\ t.watcher # None /\ w.key # h => Pending(t.watcher)
  BY <1>5 DEF Facts, Known, Warned, SameService
<1>9. ConfirmUnchanged(t, w) \in Server /\ ClearIndex(t, w) \in Server
      /\ InstallReload(t, w) \in Server /\ KeepOldIndex(t) \in Server
  BY <1>1, <1>4, ConfirmUnchangedType, ClearIndexType, InstallReloadType, KeepOldIndexType
<1>10. /\ ConfirmUnchanged(t, w).workers = {} /\ ClearIndex(t, w).workers = {}
       /\ InstallReload(t, w).workers = {} /\ KeepOldIndex(t).workers = {}
  BY <1>4 DEF ConfirmUnchanged, ClearIndex, InstallReload, KeepOldIndex, UpdateProvenance,
              WriteCacheAsync, Server
<1>11. CASE ~w.current
  BY <1>2, <1>4, <1>6, <1>11, QueuedFacts
<1>12. CASE w.current /\ w.outcome = "unchanged"
  <2>1. v = ConfirmUnchanged(t, w)
    BY <1>12
  <2>2. Settled(ConfirmUnchanged(t, w), h)
    BY <1>1, <1>4, <1>6, <1>7, <1>8, <1>12, ConfirmUnchangedSettled
  <2> QED BY <1>2, <1>9, <1>10, <2>1, <2>2, QueuedFacts
<1>13. CASE w.current /\ w.outcome = "empty"
  <2>1. v = ClearIndex(t, w)
    BY <1>13
  <2>2. Settled(ClearIndex(t, w), h)
    BY <1>1, <1>4, <1>6, ClearIndexSettled
  <2> QED BY <1>2, <1>9, <1>10, <2>1, <2>2, QueuedFacts
<1>14. CASE w.current /\ w.outcome = "loaded"
  <2>1. v = InstallReload(t, w)
    BY <1>14
  <2>2. Settled(InstallReload(t, w), h)
    BY <1>1, <1>4, <1>6, <1>7, <1>8, <1>14, InstallReloadSettled
  <2> QED BY <1>2, <1>9, <1>10, <2>1, <2>2, QueuedFacts
<1>15. CASE w.current /\ w.outcome \notin {"unchanged", "empty", "loaded"}
  <2>1. v = KeepOldIndex(t)
    BY <1>15
  <2>2. Settled(KeepOldIndex(t), h)
    BY <1>4, <1>6, KeepOldIndexSettled
  <2> QED BY <1>2, <1>9, <1>10, <2>1, <2>2, QueuedFacts
<1> QED BY <1>11, <1>12, <1>13, <1>14, <1>15

LEMMA OnExplicitLoadResultFacts ==
  ASSUME NEW s \in Server, Loop(s), NEW dk, NEW st, NEW h, Facts(s, dk, st, h),
         NEW w \in s.workers, w.kind = "explicit", w.pc = "done"
  PROVE  Facts(OnExplicitLoadResult(s, w), dk, st, h)
<1> DEFINE u == Received(s, w)
           t == [u EXCEPT !.explicit_load_running = FALSE]
           c == [t EXCEPT !.explicit_load = None, !.explicit_load_progress = FALSE]
           r == Respond(c, w.request)
           a == HideProgress(r, t.explicit_load_progress)
<1>1. w \in Worker /\ u \in Server /\ u.workers = {} /\ SameService(s, u)
  BY FieldTypes, ReceivedType, ReceivedFields, ReceivedService
<1>2. w.request \in s.asked /\ w.request \in Requests
  BY DEF Loop, Seats, Server
<1>3. OnExplicitLoadResult(s, w) =
        ScheduleQueuedRefresh(
          IF t.explicit_load # w.request THEN t
          ELSE IF w.current /\ w.outcome = "loaded" THEN InstallExplicit(a, w)
          ELSE a)
  BY DEF OnExplicitLoadResult
<1> HIDE DEF u
<1>4. t \in Server /\ t.workers = {} /\ SameService(u, t)
  <2>1. t \in Server
    BY <1>1, LoadingField
  <2>2. t.workers = {}
    BY <1>1, FieldsWorkers
  <2>3. SameService(u, t)
    BY <1>1, FieldsService
  <2> QED BY <2>1, <2>2, <2>3
<1> HIDE DEF t
<1>5. c \in Server /\ c.workers = {} /\ SameService(t, c)
  <2>1. c \in Server
    BY <1>4, NoExplicitLoadType
  <2>2. c.workers = {}
    BY <1>4, FieldsWorkers
  <2>3. SameService(t, c)
    BY <1>4, FieldsService
  <2> QED BY <2>1, <2>2, <2>3
<1> HIDE DEF c
<1>6. r \in Server /\ r.workers = {} /\ SameService(c, r)
  BY <1>2, <1>5, RespondType, ReplyService
<1> HIDE DEF r
<1>7. a \in Server /\ a.workers = {} /\ SameService(r, a)
  BY <1>4, <1>6, ProgressType, FieldTypes, ReplyService
<1> HIDE DEF a
<1>8. SameService(s, t) /\ SameService(s, a)
  BY <1>1, <1>4, <1>5, <1>6, <1>7 DEF SameService
<1>9. Settled(t, h) /\ Settled(a, h)
  BY <1>8, SameServiceSettled DEF Facts
<1>10. ASSUME w.outcome = "loaded"
       PROVE  /\ InstallExplicit(a, w) \in Server /\ InstallExplicit(a, w).workers = {}
              /\ Settled(InstallExplicit(a, w), h)
  <2>1. w.decoded = w.scanned /\ w.scanned \in OnDisk
    BY <1>10 DEF Facts, Known, Sound, Faithful, Based
  <2>2. a.asked # {}
    BY <1>2, <1>8 DEF SameService
  <2>3. InstallExplicit(a, w).workers = {}
    BY <1>7 DEF InstallExplicit, UpdateProvenance, Server
  <2> QED BY <1>1, <1>7, <2>1, <2>2, <2>3, InstallExplicitType, InstallExplicitSettled
<1> QED BY <1>3, <1>4, <1>7, <1>9, <1>10, QueuedFacts

LEMMA OnStartupResultFacts ==
  ASSUME NEW s \in Server, Loop(s), NEW dk, NEW st, NEW h, Facts(s, dk, st, h),
         NEW w \in s.workers, w.kind = "startup", w.pc = "done"
  PROVE  Facts(OnStartupResult(s, w), dk, st, h)
<1> DEFINE u == Received(s, w)
           state == CASE w.outcome = "loaded"  -> "ready"
                      [] w.outcome = "noindex" -> "no-index"
                      [] OTHER                 -> "failed"
           a == [u EXCEPT !.startup_running = FALSE, !.startup_state = state]
           b == [u EXCEPT !.startup_running = FALSE,
                          !.startup_state = IF u.startup_running THEN "superseded" ELSE @]
           d == Discovered(a, w)
<1>1. w \in Worker /\ u \in Server /\ u.workers = {} /\ SameService(s, u)
  BY FieldTypes, ReceivedType, ReceivedFields, ReceivedService
<1>2. OnStartupResult(s, w) =
        IF ~u.startup_running \/ ~w.current THEN b
        ELSE ScheduleQueuedRefresh(IF w.outcome = "loaded" THEN AdoptDiscovered(a, w) ELSE a)
  BY DEF OnStartupResult
<1>3. s.watcher = None
  BY DEF Loop, Seats, Facts, Settled, Located
<1> HIDE DEF u
<1>4. state \in {"ready", "no-index", "failed", "superseded", "loading"}
  OBVIOUS
<1> HIDE DEF state
<1>5. a \in Server /\ a.workers = {} /\ SameService(u, a)
  <2>1. a \in Server
    BY <1>1, <1>4, StartupStateType
  <2>2. a.workers = {}
    BY <1>1, FieldsWorkers
  <2>3. SameService(u, a)
    BY <1>1, FieldsService
  <2> QED BY <2>1, <2>2, <2>3
<1>6. b.workers = {} /\ SameService(u, b)
  <2> DEFINE x == IF u.startup_running THEN "superseded" ELSE u.startup_state
  <2>1. b = [u EXCEPT !.startup_running = FALSE, !.startup_state = x]
    BY <1>1 DEF Server
  <2> HIDE DEF x, b
  <2>2. b.workers = {}
    BY <1>1, <2>1, FieldsWorkers
  <2>3. SameService(u, b)
    BY <1>1, <2>1, FieldsService
  <2> QED BY <2>2, <2>3
<1> HIDE DEF a, b
<1>7. SameService(s, a) /\ SameService(s, b)
  BY <1>1, <1>5, <1>6 DEF SameService
<1>8. Settled(a, h) /\ Settled(b, h) /\ a.watcher = None /\ a.asked = s.asked
  BY <1>3, <1>7, SameServiceSettled DEF Facts, SameService
<1>9. ASSUME w.outcome = "loaded"
      PROVE  Facts(AdoptDiscovered(a, w), dk, st, h)
  <2>1. /\ w.decoded = w.scanned /\ (w.cached \/ w.scanned \in OnDisk)
        /\ a.asked = {} /\ w.watch # None /\ w.key # h => Pending(w.watch)
    BY <1>8, <1>9 DEF Facts, Known, Sound, Faithful, Based, Warned
  <2>2. Settled(d, h) /\ d \in Server
    BY <1>1, <1>5, <1>8, <2>1, DiscoveredSettled, DiscoveredType
  <2>3. d.workers = {}
    <3>1. Supersede(a) \in Server /\ Supersede(a).workers = {}
      BY <1>5, SupersedeType, SupersedeFields
    <3> QED BY <3>1 DEF Discovered, Server
  <2>4. AdoptDiscovered(a, w) = ScheduleIndexRefresh(d, FALSE, FALSE)
          \/ AdoptDiscovered(a, w) = WriteCacheAsync(d)
    BY AdoptIsDiscovered
  <2> HIDE DEF d
  <2>5. Tame(d, AdoptDiscovered(a, w))
    BY <2>2, <2>4, ScheduleIndexRefreshTame, WriteCacheAsyncTame
  <2> QED BY <2>2, <2>3, <2>5, NoWorkerFacts, TameFacts, FieldTypes
<1>10. ASSUME NEW t \in Server, Facts(t, dk, st, h)
       PROVE  Facts(ScheduleQueuedRefresh(t), dk, st, h)
  BY <1>10, ScheduleQueuedRefreshTame, TameFacts, FieldTypes
<1>11. AdoptDiscovered(a, w) \in Server
  BY <1>1, <1>5, AdoptDiscoveredType
<1>12. Facts(a, dk, st, h) /\ Facts(b, dk, st, h)
  BY <1>5, <1>6, <1>8, NoWorkerFacts
<1> QED BY <1>2, <1>5, <1>9, <1>10, <1>11, <1>12

-----------------------------------------------------------------------------
(***************************************************************************)
(* The watchers: a notice is gathered, dispatched and lost only for a      *)
(* notice that has the same effect.                                        *)
(***************************************************************************)

LEMMA GatherPending ==
  ASSUME NEW x \in Watcher \union {None}, NEW kind, NEW d
  PROVE  LET y == Gather(x, kind, d)
         IN  /\ x = None => y = None
             /\ x # None /\ Pending(x) => Pending(y)
             /\ x # None /\ kind = "git" => Pending(y)
<1> DEFINE y == [x EXCEPT !.batch = @ \union {kind}]
<1>1. Gather(x, kind, d) = IF x # None /\ (kind = "git" \/ x.shards = d) THEN y ELSE x
  BY DEF Gather
<1>2. ASSUME x # None
      PROVE  /\ Pending(x) => Pending(y)
             /\ kind = "git" => Pending(y)
  <2>1. y.batch = x.batch \union {kind} /\ y.sent = x.sent
    BY <1>2 DEF Watcher
  <2> HIDE DEF y
  <2> QED BY <2>1 DEF Pending
<1> HIDE DEF y
<1> QED BY <1>1, <1>2

LEMMA DispatchPending ==
  ASSUME NEW x \in Watcher, Pending(x) PROVE Pending(Dispatch(x))
<1> DEFINE workspace == IF "git" \in x.batch THEN <<"Workspace">> ELSE <<>>
           index     == IF "shards" \in x.batch THEN <<"Index">> ELSE <<>>
           q         == x.sent \o workspace
           y         == Dispatch(x)
<1>1. /\ x.sent \in Seq(Change) /\ workspace \in Seq(Change) /\ index \in Seq(Change)
      /\ q \in Seq(Change)
  <2>1. "Workspace" \in Change /\ "Index" \in Change
    BY DEF Change
  <2> QED BY <2>1 DEF Watcher
<1>2. y.sent = q \o index
  BY DEF Dispatch, Watcher
<1>3. \E i \in DOMAIN q : q[i] # "Index"
  <2>1. CASE "git" \in x.batch
    <3>1. workspace = <<"Workspace">>
      BY <2>1
    <3> HIDE DEF workspace
    <3>2. Len(q) = Len(x.sent) + 1 /\ q[Len(x.sent) + 1] = "Workspace"
          /\ Len(x.sent) + 1 \in DOMAIN q
      BY <1>1, <3>1
    <3> QED BY <3>2
  <2>2. CASE "git" \notin x.batch
    <3>1. PICK i \in DOMAIN x.sent : x.sent[i] # "Index"
      BY <2>2 DEF Pending
    <3>2. q = x.sent
      BY <1>1, <2>2
    <3> QED BY <3>1, <3>2
  <2> QED BY <2>1, <2>2
<1> HIDE DEF q, index, y
<1>4. PICK i \in DOMAIN q : q[i] # "Index"
  BY <1>3
<1>5. i \in DOMAIN (q \o index) /\ (q \o index)[i] = q[i]
  BY <1>1, <1>4
<1>6. Pending(y)
  BY <1>2, <1>4, <1>5 DEF Pending
<1> QED BY <1>6 DEF y

LEMMA LosePending ==
  ASSUME NEW x \in Watcher, NEW kept
  PROVE  Pending(LoseEvents(x, kept))
<1> DEFINE q == Append(x.sent, "WatcherError")
           y == [x EXCEPT !.batch = kept, !.sent = q]
<1>1. x.sent \in Seq(Change)
  BY DEF Watcher
<1>2. Len(x.sent) + 1 \in DOMAIN q /\ q[Len(x.sent) + 1] = "WatcherError"
  BY <1>1
<1> HIDE DEF q
<1>3. y.sent = q
  BY DEF Watcher
<1> HIDE DEF y
<1>4. Pending(y)
  BY <1>2, <1>3 DEF Pending
<1> QED BY <1>4 DEF y, q, LoseEvents

(* The server's watcher changes, and keeps what it knew. *)
LEMMA WatcherFacts ==
  ASSUME NEW s \in Server, NEW x, NEW dk, NEW st, NEW h, Facts(s, dk, st, h),
         s.watcher # None, Pending(s.watcher) => Pending(x)
  PROVE  Facts([s EXCEPT !.watcher = x], dk, st, h)
<1> DEFINE t == [s EXCEPT !.watcher = x]
<1>1. /\ t.index = s.index /\ t.index_shards = s.index_shards /\ t.index_dir = s.index_dir
      /\ t.provenance = s.provenance /\ t.shards_verified = s.shards_verified
      /\ t.refresh_intent = s.refresh_intent /\ t.watcher = x
      /\ t.asked = s.asked /\ t.workers = s.workers
  BY DEF Server
<1> HIDE DEF t
<1>2. Settled(t, h)
  BY <1>1 DEF Facts, Settled, Located, Matching, Noticed
<1>3. \A w \in t.workers : Sound(t, w, dk, st)
  BY <1>1 DEF Facts, Known, Sound, Based
<1>4. ASSUME NEW w \in t.workers, t.asked = {} PROVE Warned(t, w, h)
  BY <1>1, <1>4 DEF Facts, Known, Warned
<1>5. Facts(t, dk, st, h)
  BY <1>2, <1>3, <1>4 DEF Facts, Known
<1> QED BY <1>5 DEF t

(* HEAD moves, or a directory is written, and every watcher is told.       *)
LEMMA NotifyFacts ==
  ASSUME NEW s \in Server, NEW kind, NEW d, NEW dk, NEW st, NEW h,
         NEW dk2, NEW st2, NEW h2, Facts(s, dk, st, h),
         kind = "git" \/ h2 = h, \A w \in s.workers : Reading(w, dk2, st2)
  PROVE  Facts(Notify(s, kind, d), dk2, st2, h2)
<1> DEFINE x == Gather(s.watcher, kind, d)
           told(w) == [w EXCEPT !.watch = Gather(w.watch, kind, d)]
           W == {told(w) : w \in s.workers}
           t == Notify(s, kind, d)
<1>1. t = [s EXCEPT !.watcher = x, !.workers = W]
  BY DEF Notify, Server
<1>2. /\ s.watcher = None => x = None
      /\ s.watcher # None /\ Pending(s.watcher) => Pending(x)
      /\ s.watcher # None /\ kind = "git" => Pending(x)
  BY FieldTypes, GatherPending
<1> HIDE DEF t, x
<1>3. /\ t.index = s.index /\ t.index_shards = s.index_shards /\ t.index_dir = s.index_dir
      /\ t.provenance = s.provenance /\ t.shards_verified = s.shards_verified
      /\ t.refresh_intent = s.refresh_intent /\ t.watcher = x
      /\ t.asked = s.asked
  <2> HIDE DEF W
  <2> QED BY <1>1 DEF Server
<1>4. t.workers = W
  <2> HIDE DEF W
  <2> QED BY <1>1 DEF Server
<1>5. Settled(t, h2)
  BY <1>2, <1>3 DEF Facts, Settled, Located, Matching, Noticed
<1>6. ASSUME NEW w \in s.workers PROVE Known(t, told(w), dk2, st2, h2)
  <2> DEFINE v == told(w)
  <2>1. w \in Worker
    BY FieldTypes
  <2>2. /\ v.pc = w.pc /\ v.kind = w.kind /\ v.key = w.key /\ v.force = w.force
        /\ v.previous = w.previous /\ v.scanned = w.scanned /\ v.decoded = w.decoded
        /\ v.cached = w.cached /\ v.outcome = w.outcome /\ v.current = w.current
        /\ v.dir = w.dir /\ v.watch = Gather(w.watch, kind, d)
    BY <2>1 DEF Worker
  <2>3. /\ w.watch = None => v.watch = None
        /\ w.watch # None /\ Pending(w.watch) => Pending(v.watch)
        /\ w.watch # None /\ kind = "git" => Pending(v.watch)
    BY <2>1, <2>2, WorkerFields, GatherPending
  <2> HIDE DEF v, told
  <2>4. Known(s, w, dk, st, h) /\ Reading(w, dk2, st2)
    BY DEF Facts
  <2>5. Reading(v, dk2, st2)
    BY <2>2, <2>4 DEF Reading
  <2>6. Faithful(v) /\ Based(t, v)
    BY <1>3, <2>2, <2>4 DEF Known, Sound, Faithful, Based
  <2>7. t.asked = {} => Warned(t, v, h2)
    BY <1>2, <1>3, <2>2, <2>3, <2>4 DEF Known, Warned
  <2>8. Known(t, v, dk2, st2, h2)
    BY <2>5, <2>6, <2>7 DEF Known, Sound
  <2> QED BY <2>8 DEF v
<1> HIDE DEF told
<1>7. Facts(t, dk2, st2, h2)
  BY <1>4, <1>5, <1>6 DEF Facts
<1> QED BY <1>7 DEF t

-----------------------------------------------------------------------------
(***************************************************************************)
(* The workers.  There is one, so a step of it need only say what it knows *)
(* afterwards.                                                             *)
(***************************************************************************)

LEMMA BecomeFacts ==
  ASSUME srv \in Server, Loop(srv), NEW w \in srv.workers, NEW v, Become(w, v),
         NEW dk, NEW st, NEW h, NEW dk2, NEW st2, Facts(srv, dk, st, h),
         Known(srv, v, dk2, st2, h)
  PROVE  Facts(srv', dk2, st2, h)
<1> DEFINE W == (srv.workers \ {w}) \union {v}
<1>1. srv.workers = {w} /\ W = {v}
  BY DEF Loop, Seats
<1>2. srv' = [srv EXCEPT !.workers = W]
  BY DEF Become
<1> HIDE DEF W
<1>3. srv'.workers = W /\ SameService(srv, srv')
  BY <1>2 DEF Server, SameService
<1>4. Settled(srv', h)
  BY <1>3, SameServiceSettled DEF Facts
<1>5. Known(srv', v, dk2, st2, h)
  BY <1>3 DEF Known, Sound, Based, Warned, SameService
<1> QED BY <1>1, <1>3, <1>4, <1>5 DEF Facts

SameLoad(w, v) ==
  /\ v.kind = w.kind /\ v.current = w.current /\ v.force = w.force
  /\ v.previous = w.previous /\ v.cached = w.cached /\ v.scanned = w.scanned
  /\ v.decoded = w.decoded /\ v.key = w.key /\ v.dir = w.dir

(* A worker that starts over, builds, dies or gives up claims nothing.     *)
Unfinished(v) ==
  \/ v.pc \in {"begin", "scan", "build", "dead"}
  \/ v.pc = "done" /\ v.outcome \notin {"loaded", "unchanged"}

LEMMA UnfinishedKnown ==
  ASSUME NEW s, NEW v, NEW dk, NEW st, NEW h, Based(s, v), Unfinished(v)
  PROVE  Known(s, v, dk, st, h)
<1>1. Reading(v, dk, st)
  BY DEF Unfinished, Reading
<1>2. Faithful(v)
  BY DEF Unfinished, Faithful
<1>3. Warned(s, v, h)
  BY DEF Unfinished, Warned
<1> QED BY <1>1, <1>2, <1>3 DEF Known, Sound

LEMMA SameBased ==
  ASSUME NEW s, NEW w, NEW v, Based(s, w), v.kind = w.kind, v.current = w.current,
         v.force = w.force, v.previous = w.previous, v.cached = w.cached,
         v.scanned = w.scanned
  PROVE  Based(s, v)
BY DEF Based

LEMMA FinishFields ==
  ASSUME NEW w \in Worker, NEW outcome
  PROVE  /\ SameLoad(w, Finish(w, outcome)) /\ Finish(w, outcome).pc = "done"
         /\ Finish(w, outcome).outcome = outcome /\ Finish(w, outcome).watch = w.watch
BY DEF SameLoad, Finish, Worker

LEMMA PcFields ==
  ASSUME NEW w \in Worker, NEW pc
  PROVE  SameLoad(w, [w EXCEPT !.pc = pc]) /\ [w EXCEPT !.pc = pc].pc = pc
BY DEF SameLoad, Worker

LEMMA ConfirmingFields ==
  ASSUME NEW w \in Worker, NEW outcome
  PROVE  LET v == [w EXCEPT !.pc = "confirm", !.outcome = outcome]
         IN  SameLoad(w, v) /\ v.pc = "confirm" /\ v.outcome = outcome
BY DEF SameLoad, Worker

LEMMA NothingHereKnown ==
  ASSUME NEW s, NEW w \in Worker, NEW dk, NEW st, NEW h, Based(s, w)
  PROVE  Known(s, NothingHere(w), dk, st, h)
<1> DEFINE v == NothingHere(w)
<1>1. /\ v.kind = w.kind /\ v.current = w.current /\ v.force = w.force
      /\ v.previous = w.previous /\ v.cached = w.cached /\ v.scanned = w.scanned
  BY DEF NothingHere, Finish, Worker
<1>2. v.pc \in {"begin", "build"} \/ (v.pc = "done" /\ v.outcome = "noindex")
  BY DEF NothingHere, Finish, Worker
<1> HIDE DEF v
<1>3. Based(s, v) /\ Unfinished(v)
  BY <1>1, <1>2, SameBased DEF Unfinished
<1>4. Known(s, v, dk, st, h)
  BY <1>3, UnfinishedKnown
<1> QED BY <1>4 DEF v

LEMMA FailedKnown ==
  ASSUME NEW s, NEW w \in Worker, NEW dk, NEW st, NEW h, Based(s, w),
         NEW outcome, outcome \notin {"loaded", "unchanged"}
  PROVE  Known(s, Finish(w, outcome), dk, st, h)
<1> DEFINE v == Finish(w, outcome)
<1>1. SameLoad(w, v) /\ v.pc = "done" /\ v.outcome = outcome
  BY FinishFields
<1> HIDE DEF v
<1>2. Based(s, v) /\ Unfinished(v)
  BY <1>1, SameBased DEF Unfinished, SameLoad
<1>3. Known(s, v, dk, st, h)
  BY <1>2, UnfinishedKnown
<1> QED BY <1>3 DEF v

LEMMA GiveUpKnown ==
  ASSUME NEW s, NEW w \in Worker, NEW dk, NEW st, NEW h, Based(s, w)
  PROVE  Known(s, GiveUp(w), dk, st, h)
BY NothingHereKnown, FailedKnown DEF GiveUp

(* The steps of a worker, one lemma each. *)

LEMMA WorkerBeginsFacts ==
  ASSUME ServedInvariant, NEW w \in srv.workers, WorkerBegins(w)
  PROVE  Facts(srv', disk, stamp, head)
<1> DEFINE k == IF w.recapture THEN head ELSE w.key
           v == [w EXCEPT !.key = k]
           g == published.shards
           c == [v EXCEPT !.pc = "watch", !.cached = TRUE, !.scanned = g, !.decoded = g]
           b == [v EXCEPT !.pc = "scan"]
<1>1. srv \in Server /\ Loop(srv) /\ w \in Worker /\ head \in Heads
  BY FieldTypes DEF ServedInvariant, GenerationInvariant, TypeOK
<1>2. Facts(srv, disk, stamp, head) /\ Based(srv, w)
  BY DEF ServedInvariant, Facts, Known, Sound
<1>3. Become(w, IF v.key # head THEN Finish(v, "failed") ELSE IF CacheHit(w) THEN c ELSE b)
  BY DEF WorkerBegins
<1>4. k \in Heads \union {None}
  BY <1>1, WorkerFields
<1> HIDE DEF k, g
<1>5. v \in Worker /\ Based(srv, v)
  <2>1. v \in Worker
    BY <1>1, <1>4, WorkerKeyType
  <2>2. /\ v.kind = w.kind /\ v.current = w.current /\ v.force = w.force
        /\ v.previous = w.previous /\ v.cached = w.cached /\ v.scanned = w.scanned
    BY <1>1 DEF Worker
  <2> HIDE DEF v
  <2> QED BY <1>2, <2>1, <2>2, SameBased
<1>6. v.kind = w.kind
  BY <1>1 DEF Worker
<1> HIDE DEF v
<1>7. Known(srv, Finish(v, "failed"), disk, stamp, head)
  BY <1>5, FailedKnown
<1>8. Known(srv, b, disk, stamp, head)
  <2>1. SameLoad(v, b) /\ b.pc = "scan"
    BY <1>5, PcFields
  <2> HIDE DEF b
  <2>2. Based(srv, b) /\ Unfinished(b)
    BY <1>5, <2>1, SameBased DEF SameLoad, Unfinished
  <2> QED BY <2>2, UnfinishedKnown
<1>9. ASSUME CacheHit(w) PROVE Known(srv, c, disk, stamp, head)
  <2>1. /\ c.pc = "watch" /\ c.cached /\ c.scanned = g /\ c.decoded = g
        /\ c.kind = v.kind /\ c.force = v.force
    BY <1>5 DEF Worker
  <2>2. v.kind = "startup"
    BY <1>6, <1>9 DEF CacheHit
  <2> HIDE DEF c
  <2>3. Reading(c, disk, stamp) /\ Faithful(c) /\ Warned(srv, c, head)
    BY <2>1, <2>2 DEF Reading, Faithful, Warned
  <2>4. Based(srv, c)
    BY <1>5, <2>1, <2>2 DEF Based
  <2> QED BY <2>3, <2>4 DEF Known, Sound
<1> HIDE DEF b, c
<1> QED BY <1>1, <1>2, <1>3, <1>7, <1>8, <1>9, BecomeFacts

LEMMA WorkerScansFacts ==
  ASSUME ServedInvariant, NEW w \in srv.workers, WorkerScans(w)
  PROVE  Facts(srv', disk, stamp, head)
<1> DEFINE v == [w EXCEPT !.scanned = disk[w.dir]]
           c == [v EXCEPT !.pc = "confirm", !.outcome = "unchanged"]
           d == [v EXCEPT !.pc = "decode"]
<1>1. srv \in Server /\ Loop(srv) /\ w \in Worker /\ disk[w.dir] \in Generation /\ w.dir \in Dirs
  BY FieldTypes, WorkerFields DEF ServedInvariant, GenerationInvariant, TypeOK
<1>2. Facts(srv, disk, stamp, head) /\ Based(srv, w)
  BY DEF ServedInvariant, Facts, Known, Sound
<1>3. disk[w.dir] \in OnDisk /\ disk[w.dir] <= stamp
  BY <1>1 DEF ServedInvariant, Rising
<1>4. v \in Worker
  BY <1>1, WorkerScannedType
<1>5. /\ v.kind = w.kind /\ v.current = w.current /\ v.force = w.force
      /\ v.previous = w.previous /\ v.cached = w.cached /\ v.scanned = disk[w.dir]
  BY <1>1 DEF Worker
<1>6. Become(w, IF ~w.force /\ w.previous = v.scanned THEN c
                ELSE IF w.kind = "refresh" /\ w.key # head THEN GiveUp(v) ELSE d)
  BY DEF WorkerScans
<1> HIDE DEF v
<1>7. Based(srv, v)
  BY <1>2, <1>3, <1>5 DEF Based
<1>8. Known(srv, GiveUp(v), disk, stamp, head)
  BY <1>4, <1>7, GiveUpKnown
<1>9. Known(srv, d, disk, stamp, head)
  <2>1. SameLoad(v, d) /\ d.pc = "decode"
    BY <1>4, PcFields
  <2> HIDE DEF d
  <2>2. Based(srv, d)
    BY <1>7, <2>1, SameBased DEF SameLoad
  <2>3. Reading(d, disk, stamp) /\ Faithful(d) /\ Warned(srv, d, head)
    BY <1>3, <1>5, <2>1 DEF Reading, Faithful, Warned, SameLoad
  <2> QED BY <2>2, <2>3 DEF Known, Sound
<1>10. ASSUME ~w.force, w.previous = v.scanned PROVE Known(srv, c, disk, stamp, head)
  <2>1. SameLoad(v, c) /\ c.pc = "confirm" /\ c.outcome = "unchanged"
    BY <1>4, ConfirmingFields
  <2> HIDE DEF c
  <2>2. Based(srv, c)
    BY <1>7, <2>1, SameBased DEF SameLoad
  <2>3. c.kind = "refresh" /\ c.scanned = c.previous
    BY <1>2, <1>5, <1>10, <2>1 DEF Based, SameLoad
  <2>4. Reading(c, disk, stamp) /\ Faithful(c) /\ Warned(srv, c, head)
    BY <2>1, <2>3 DEF Reading, Faithful, Warned
  <2> QED BY <2>2, <2>4 DEF Known, Sound
<1> HIDE DEF c, d
<1> QED BY <1>1, <1>2, <1>6, <1>8, <1>9, <1>10, BecomeFacts

LEMMA WorkerDecodesFacts ==
  ASSUME ServedInvariant, NEW w \in srv.workers, WorkerDecodes(w)
  PROVE  Facts(srv', disk, stamp, head)
<1> DEFINE g == IF w.scanned = NoShards THEN NoShards ELSE disk[w.dir]
           v == [w EXCEPT !.pc = "rescan", !.decoded = g]
<1>1. srv \in Server /\ Loop(srv) /\ w \in Worker
  BY FieldTypes DEF ServedInvariant, GenerationInvariant, TypeOK
<1>2. Facts(srv, disk, stamp, head) /\ Based(srv, w)
  BY DEF ServedInvariant, Facts, Known, Sound
<1>3. Become(w, v) /\ w.pc = "decode"
  BY DEF WorkerDecodes
<1>4. w.scanned <= stamp
  BY <1>3 DEF ServedInvariant, Facts, Known, Sound, Reading
<1>5. g # w.scanned => w.scanned # NoShards /\ g = disk[w.dir]
  OBVIOUS
<1> HIDE DEF g
<1>6. /\ v.kind = w.kind /\ v.current = w.current /\ v.force = w.force
      /\ v.previous = w.previous /\ v.cached = w.cached /\ v.scanned = w.scanned
      /\ v.decoded = g /\ v.pc = "rescan" /\ v.dir = w.dir
  BY <1>1 DEF Worker
<1> HIDE DEF v
<1>7. Based(srv, v)
  BY <1>2, <1>6, SameBased
<1>8. Reading(v, disk, stamp) /\ Faithful(v) /\ Warned(srv, v, head)
  BY <1>4, <1>5, <1>6 DEF Reading, Faithful, Warned
<1>9. Known(srv, v, disk, stamp, head)
  BY <1>7, <1>8 DEF Known, Sound
<1> QED BY <1>1, <1>2, <1>3, <1>9, BecomeFacts

LEMMA WorkerRescansFacts ==
  ASSUME ServedInvariant, NEW w \in srv.workers, WorkerRescans(w)
  PROVE  Facts(srv', disk, stamp, head)
<1> DEFINE c == [w EXCEPT !.pc = "confirm", !.outcome = "loaded"]
<1>1. srv \in Server /\ Loop(srv) /\ w \in Worker
  BY FieldTypes DEF ServedInvariant, GenerationInvariant, TypeOK
<1>2. Facts(srv, disk, stamp, head) /\ Based(srv, w)
  BY DEF ServedInvariant, Facts, Known, Sound
<1>3. Become(w, IF disk[w.dir] # w.scanned THEN GiveUp(w) ELSE c) /\ w.pc = "rescan"
  BY DEF WorkerRescans
<1>4. disk[w.dir] = w.scanned => w.decoded = w.scanned
  BY <1>3 DEF ServedInvariant, Facts, Known, Sound, Reading
<1>5. Known(srv, GiveUp(w), disk, stamp, head)
  BY <1>1, <1>2, GiveUpKnown
<1>6. ASSUME disk[w.dir] = w.scanned PROVE Known(srv, c, disk, stamp, head)
  <2>1. SameLoad(w, c) /\ c.pc = "confirm" /\ c.outcome = "loaded"
    BY <1>1, ConfirmingFields
  <2> HIDE DEF c
  <2>2. Based(srv, c)
    BY <1>2, <2>1, SameBased DEF SameLoad
  <2>3. Reading(c, disk, stamp) /\ Faithful(c) /\ Warned(srv, c, head)
    BY <1>4, <1>6, <2>1 DEF Reading, Faithful, Warned, SameLoad
  <2> QED BY <2>2, <2>3 DEF Known, Sound
<1> HIDE DEF c
<1> QED BY <1>1, <1>2, <1>3, <1>5, <1>6, BecomeFacts

LEMMA WorkerConfirmsFacts ==
  ASSUME ServedInvariant, NEW w \in srv.workers, WorkerConfirms(w)
  PROVE  Facts(srv', disk, stamp, head)
<1> DEFINE o == [w EXCEPT !.outcome = "none"]
           x == [w EXCEPT !.pc = "watch"]
           usable == w.decoded \notin Unusable \union {NoShards}
           v == IF w.key # head THEN GiveUp(o)
                ELSE CASE w.kind = "explicit" -> x
                       [] w.kind = "startup"  -> IF usable THEN x ELSE NothingHere(o)
                       [] w.kind = "refresh"  ->
                            IF w.outcome = "unchanged" THEN Finish(w, "unchanged")
                            ELSE IF w.scanned = NoShards THEN Finish(w, "empty")
                            ELSE IF usable THEN Finish(w, "loaded")
                            ELSE Finish(w, "failed")
<1>1. srv \in Server /\ Loop(srv) /\ w \in Worker
  BY FieldTypes DEF ServedInvariant, GenerationInvariant, TypeOK
<1>2. Facts(srv, disk, stamp, head) /\ Based(srv, w) /\ Faithful(w)
  BY DEF ServedInvariant, Facts, Known, Sound
<1>3. Become(w, v) /\ w.pc = "confirm"
  BY DEF WorkerConfirms
<1>4. \/ w.outcome = "loaded" /\ w.decoded = w.scanned
      \/ w.outcome = "unchanged" /\ w.kind = "refresh" /\ w.scanned = w.previous
  BY <1>2, <1>3 DEF Faithful
<1>5. o \in Worker /\ Based(srv, o)
  <2>1. /\ o.kind = w.kind /\ o.current = w.current /\ o.force = w.force
        /\ o.previous = w.previous /\ o.cached = w.cached /\ o.scanned = w.scanned
    BY <1>1 DEF Worker
  <2>2. o \in Worker
    BY <1>1, OutcomeType
  <2> HIDE DEF o
  <2> QED BY <1>2, <2>1, <2>2, SameBased
<1> HIDE DEF o
<1>6. Known(srv, GiveUp(o), disk, stamp, head) /\ Known(srv, NothingHere(o), disk, stamp, head)
  BY <1>5, GiveUpKnown, NothingHereKnown
<1>7. ASSUME w.kind # "refresh" PROVE Known(srv, x, disk, stamp, head)
  <2>1. SameLoad(w, x) /\ x.pc = "watch"
    BY <1>1, PcFields
  <2> HIDE DEF x
  <2>2. Based(srv, x)
    BY <1>2, <2>1, SameBased DEF SameLoad
  <2>3. Reading(x, disk, stamp) /\ Faithful(x) /\ Warned(srv, x, head)
    BY <1>4, <1>7, <2>1 DEF Reading, Faithful, Warned, SameLoad
  <2> QED BY <2>2, <2>3 DEF Known, Sound
<1>8. /\ Known(srv, Finish(w, "empty"), disk, stamp, head)
      /\ Known(srv, Finish(w, "failed"), disk, stamp, head)
  BY <1>1, <1>2, FailedKnown
<1>9. ASSUME NEW outcome, w.key = head, w.kind = "refresh",
             \/ outcome = "loaded" /\ w.decoded = w.scanned
             \/ outcome = "unchanged" /\ w.scanned = w.previous
      PROVE  Known(srv, Finish(w, outcome), disk, stamp, head)
  <2> DEFINE y == Finish(w, outcome)
  <2>1. SameLoad(w, y) /\ y.pc = "done" /\ y.outcome = outcome
    BY <1>1, FinishFields
  <2> HIDE DEF y
  <2>2. Based(srv, y)
    BY <1>2, <2>1, SameBased DEF SameLoad
  <2>3. Reading(y, disk, stamp) /\ Faithful(y) /\ Warned(srv, y, head)
    BY <1>9, <2>1 DEF Reading, Faithful, Warned, SameLoad
  <2>4. Known(srv, y, disk, stamp, head)
    BY <2>2, <2>3 DEF Known, Sound
  <2> QED BY <2>4 DEF y
<1>10. w.kind = "explicit" \/ w.kind = "startup" \/ w.kind = "refresh"
  BY <1>1, WorkerFields DEF Kinds
<1> HIDE DEF x, usable
<1>11. CASE w.key # head
  <2>1. v = GiveUp(o)
    BY <1>11
  <2> QED BY <1>1, <1>2, <1>3, <1>6, <2>1, BecomeFacts
<1>12. CASE w.key = head /\ w.kind # "refresh"
  <2>1. v = x \/ v = NothingHere(o)
    BY <1>10, <1>12, Zenon
  <2> HIDE DEF v
  <2> QED BY <1>1, <1>2, <1>3, <1>6, <1>7, <1>12, <2>1, BecomeFacts
<1>13. CASE w.key = head /\ w.kind = "refresh"
  <2>1. v = IF w.outcome = "unchanged" THEN Finish(w, "unchanged")
            ELSE IF w.scanned = NoShards THEN Finish(w, "empty")
            ELSE IF usable THEN Finish(w, "loaded")
            ELSE Finish(w, "failed")
    BY <1>13
  <2> HIDE DEF v
  <2>2. w.outcome = "unchanged" => Known(srv, Finish(w, "unchanged"), disk, stamp, head)
    BY <1>4, <1>9, <1>13
  <2>3. w.outcome # "unchanged" => Known(srv, Finish(w, "loaded"), disk, stamp, head)
    BY <1>4, <1>9, <1>13
  <2>4. Known(srv, v, disk, stamp, head)
    BY <1>8, <2>1, <2>2, <2>3, Zenon
  <2> QED BY <1>1, <1>2, <1>3, <2>4, BecomeFacts
<1> QED BY <1>11, <1>12, <1>13

LEMMA WorkerWatchesFacts ==
  ASSUME ServedInvariant, NEW w \in srv.workers, WorkerWatches(w)
  PROVE  Facts(srv', disk, stamp, head)
<1> DEFINE target == IF w.kind = "startup" /\ w.dir = BazelBin THEN None ELSE w.dir
           after  == IF w.kind = "startup" THEN [w EXCEPT !.pc = "recheck"]
                                           ELSE Finish(w, "loaded")
           v == [after EXCEPT !.watch = NewWatcher(target)]
<1>1. srv \in Server /\ Loop(srv) /\ w \in Worker
  BY FieldTypes DEF ServedInvariant, GenerationInvariant, TypeOK
<1>2. Facts(srv, disk, stamp, head) /\ Based(srv, w) /\ Faithful(w)
  BY DEF ServedInvariant, Facts, Known, Sound
<1>3. (Become(w, v) \/ Become(w, after)) /\ w.pc = "watch"
  BY DEF WorkerWatches
<1>4. w.decoded = w.scanned /\ w.kind # "refresh"
  BY <1>2, <1>3 DEF Faithful
<1>5. after \in Worker
  BY <1>1, PcType, FinishType
<1>6. /\ SameLoad(w, after)
      /\ w.kind = "startup" => after.pc = "recheck"
      /\ w.kind # "startup" => after.pc = "done" /\ after.outcome = "loaded"
  <2>1. CASE w.kind = "startup"
    BY <1>1, <2>1, PcFields
  <2>2. CASE w.kind # "startup"
    BY <1>1, <2>2, FinishFields
  <2> QED BY <2>1, <2>2
<1> HIDE DEF after, target
<1>7. /\ SameLoad(w, v) /\ v.pc = after.pc /\ v.outcome = after.outcome
  BY <1>5, <1>6 DEF SameLoad, Worker
<1> HIDE DEF v
<1>8. ASSUME NEW x, SameLoad(w, x), x.pc = after.pc, x.outcome = after.outcome
      PROVE  Known(srv, x, disk, stamp, head)
  <2>1. Based(srv, x)
    BY <1>2, <1>8, SameBased DEF SameLoad
  <2>2. Reading(x, disk, stamp) /\ Faithful(x) /\ Warned(srv, x, head)
    BY <1>4, <1>6, <1>8 DEF Reading, Faithful, Warned, SameLoad
  <2> QED BY <2>1, <2>2 DEF Known, Sound
<1>9. Known(srv, v, disk, stamp, head) /\ Known(srv, after, disk, stamp, head)
  BY <1>6, <1>7, <1>8
<1> QED BY <1>1, <1>2, <1>3, <1>9, BecomeFacts

LEMMA WorkerRechecksFacts ==
  ASSUME ServedInvariant, NEW w \in srv.workers, WorkerRechecks(w)
  PROVE  Facts(srv', disk, stamp, head)
<1> DEFINE o == [w EXCEPT !.watch = None]
           v == Finish(w, "loaded")
<1>1. srv \in Server /\ Loop(srv) /\ w \in Worker
  BY FieldTypes DEF ServedInvariant, GenerationInvariant, TypeOK
<1>2. Facts(srv, disk, stamp, head) /\ Based(srv, w) /\ Faithful(w)
  BY DEF ServedInvariant, Facts, Known, Sound
<1>3. Become(w, IF w.key = head THEN v ELSE Finish(o, "failed")) /\ w.pc = "recheck"
  BY DEF WorkerRechecks
<1>4. o \in Worker /\ Based(srv, o)
  <2>1. /\ o.kind = w.kind /\ o.current = w.current /\ o.force = w.force
        /\ o.previous = w.previous /\ o.cached = w.cached /\ o.scanned = w.scanned
    BY <1>1 DEF Worker
  <2>2. o \in Worker
    BY <1>1, WorkerWatchType
  <2> HIDE DEF o
  <2> QED BY <1>2, <2>1, <2>2, SameBased
<1> HIDE DEF o
<1>5. Known(srv, Finish(o, "failed"), disk, stamp, head)
  BY <1>4, FailedKnown
<1>6. ASSUME w.key = head PROVE Known(srv, v, disk, stamp, head)
  <2>1. SameLoad(w, v) /\ v.pc = "done" /\ v.outcome = "loaded"
    BY <1>1, FinishFields
  <2> HIDE DEF v
  <2>2. Based(srv, v)
    BY <1>2, <2>1, SameBased DEF SameLoad
  <2>3. Reading(v, disk, stamp) /\ Faithful(v) /\ Warned(srv, v, head)
    BY <1>2, <1>3, <1>6, <2>1 DEF Reading, Faithful, Warned, SameLoad
  <2> QED BY <2>2, <2>3 DEF Known, Sound
<1> HIDE DEF v
<1> QED BY <1>1, <1>2, <1>3, <1>5, <1>6, BecomeFacts

LEMMA WorkerBuildsFacts ==
  ASSUME ServedInvariant, NEW w \in srv.workers, WorkerBuilds(w)
  PROVE  Facts(srv', disk', stamp', head)
<1> DEFINE b == [w EXCEPT !.pc = "begin", !.dir = BazelBin, !.built = TRUE]
<1>1. srv \in Server /\ Loop(srv) /\ w \in Worker
  BY FieldTypes DEF ServedInvariant, GenerationInvariant, TypeOK
<1>2. Facts(srv, disk, stamp, head) /\ Based(srv, w)
  BY DEF ServedInvariant, Facts, Known, Sound
<1>3. Become(w, b) \/ Become(w, Finish(w, "failed"))
  BY DEF WorkerBuilds
<1>4. /\ b.kind = w.kind /\ b.current = w.current /\ b.force = w.force
      /\ b.previous = w.previous /\ b.cached = w.cached /\ b.scanned = w.scanned
      /\ b.pc = "begin"
  BY <1>1 DEF Worker
<1> HIDE DEF b
<1>5. Based(srv, b) /\ Unfinished(b)
  BY <1>2, <1>4, SameBased DEF Unfinished
<1>6. Known(srv, b, disk', stamp', head) /\ Known(srv, Finish(w, "failed"), disk', stamp', head)
  BY <1>1, <1>2, <1>5, UnfinishedKnown, FailedKnown
<1> QED BY <1>1, <1>2, <1>3, <1>6, BecomeFacts

LEMMA WorkerPanicsFacts ==
  ASSUME ServedInvariant, NEW w \in srv.workers, WorkerPanics(w)
  PROVE  Facts(srv', disk, stamp, head)
<1> DEFINE d == [w EXCEPT !.pc = "dead"]
<1>1. srv \in Server /\ Loop(srv) /\ w \in Worker
  BY FieldTypes DEF ServedInvariant, GenerationInvariant, TypeOK
<1>2. Facts(srv, disk, stamp, head) /\ Based(srv, w)
  BY DEF ServedInvariant, Facts, Known, Sound
<1>3. Become(w, Finish(w, "failed")) \/ Become(w, d)
  BY DEF WorkerPanics
<1>4. SameLoad(w, d) /\ d.pc = "dead"
  BY <1>1, PcFields
<1> HIDE DEF d
<1>5. Based(srv, d) /\ Unfinished(d)
  BY <1>2, <1>4, SameBased DEF Unfinished, SameLoad
<1>6. Known(srv, d, disk, stamp, head) /\ Known(srv, Finish(w, "failed"), disk, stamp, head)
  BY <1>1, <1>2, <1>5, UnfinishedKnown, FailedKnown
<1> QED BY <1>1, <1>2, <1>3, <1>6, BecomeFacts

-----------------------------------------------------------------------------
(***************************************************************************)
(* The invariant is inductive.                                             *)
(***************************************************************************)

LEMMA ServedInit == Init => ServedInvariant
<1> SUFFICES ASSUME Init PROVE ServedInvariant
  OBVIOUS
<1> DEFINE t == ScheduleStartup(NewServer)
<1>1. /\ t.workers = {IdleWorker} /\ t.index = None /\ t.index_dir = None
      /\ t.watcher = None /\ t.refresh_intent = "Idle"
  BY DEF ScheduleStartup, Spawn, Supersede, NewServer
<1>2. Fresh(t, IdleWorker) /\ IdleWorker.kind = "startup"
  BY DEF Fresh, IdleWorker
<1> HIDE DEF t
<1>3. Settled(t, head)
  BY <1>1 DEF Settled, Located, Matching, Noticed
<1>4. Known(t, IdleWorker, disk, stamp, head)
  <2>1. Reading(IdleWorker, disk, stamp) /\ Faithful(IdleWorker) /\ Warned(t, IdleWorker, head)
    BY <1>2 DEF Fresh, Reading, Faithful, Warned
  <2>2. Based(t, IdleWorker)
    BY <1>2 DEF Fresh, Based, OnDisk
  <2> QED BY <2>1, <2>2 DEF Known, Sound
<1>5. Facts(srv, disk, stamp, head)
  BY <1>1, <1>3, <1>4 DEF Facts, Init, t
<1>6. Rising(disk, stamp)
  <2>1. PICK bin \in InitialBin, local \in InitialLocal :
          disk = [d \in Dirs |-> IF d = BazelBin THEN bin ELSE local]
    BY DEF Init
  <2>2. bin \in 0..2 /\ local \in 0..2 /\ stamp = 2
    BY LifecycleAssumption DEF Init
  <2>3. \A d \in Dirs : disk[d] \in {bin, local}
    BY <2>1
  <2>4. bin \in OnDisk /\ local \in OnDisk
    BY <2>1 DEF OnDisk
  <2> QED BY <2>2, <2>3, <2>4 DEF Rising
<1> QED BY <1>5, <1>6, InitInvariant DEF ServedInvariant

(* A build leaves the stamps rising, and what workers have read of use:    *)
(* what it replaces is not what a second scan would take for the first's.  *)
LEMMA BuildRising ==
  ASSUME NEW dk \in [Dirs -> Generation], NEW st \in Generation, st < MaxStamp,
         NEW d \in Dirs, NEW g \in {st + 1, NoShards}, Rising(dk, st)
  PROVE  Rising([dk EXCEPT ![d] = g], st + 1)
<1> DEFINE dk2 == [dk EXCEPT ![d] = g]
<1>1. MaxStamp \in Nat /\ st \in Nat /\ 2 <= st
  BY LifecycleAssumption DEF Rising, Generation
<1>2. g \in OnDisk /\ g <= st + 1
  BY <1>1 DEF OnDisk, NoShards
<1>3. ASSUME NEW e \in Dirs PROVE dk2[e] \in OnDisk /\ dk2[e] <= st + 1
  <2>1. dk[e] \in OnDisk /\ dk[e] <= st /\ dk[e] \in Nat
    BY DEF Rising, Generation
  <2>2. dk2[e] = IF e = d THEN g ELSE dk[e]
    OBVIOUS
  <2> HIDE DEF dk2
  <2> QED BY <1>1, <1>2, <2>1, <2>2
<1> HIDE DEF dk2
<1>4. Rising(dk2, st + 1)
  BY <1>1, <1>3 DEF Rising
<1> QED BY <1>4 DEF dk2

LEMMA BuildReading ==
  ASSUME NEW dk \in [Dirs -> Generation], NEW st \in Generation,
         NEW d \in Dirs, NEW g \in {st + 1, NoShards}, NEW w \in Worker, Reading(w, dk, st)
  PROVE  Reading(w, [dk EXCEPT ![d] = g], st + 1)
<1> DEFINE dk2 == [dk EXCEPT ![d] = g]
<1>1. w.scanned \in Nat /\ st \in Nat /\ w.dir \in Dirs
  BY WorkerFields DEF Generation
<1>2. dk2[w.dir] = IF w.dir = d THEN g ELSE dk[w.dir]
  BY <1>1
<1> HIDE DEF dk2
<1>3. Reading(w, dk2, st + 1)
  BY <1>1, <1>2 DEF Reading, NoShards
<1> QED BY <1>3 DEF dk2

LEMMA WorkerStepServed ==
  ASSUME ServedInvariant, NEW w \in srv.workers,
         WorkerStep(w) \/ WorkerPanics(w)
  PROVE  Rising(disk', stamp') /\ Facts(srv', disk', stamp', head')
<1>1. TypeOK /\ srv \in Server /\ Loop(srv) /\ w \in Worker
  BY FieldTypes DEF ServedInvariant, GenerationInvariant, TypeOK
<1>2. Rising(disk, stamp) /\ Facts(srv, disk, stamp, head) /\ Known(srv, w, disk, stamp, head)
  BY DEF ServedInvariant, Facts
<1>3. head' = head
  BY DEF WorkerStep, WorkerBegins, WorkerScans, WorkerDecodes,
         WorkerRescans, WorkerConfirms, WorkerWatches, WorkerRechecks, WorkerBuilds,
         WorkerPanics, Become
<1>4. CASE WorkerBuilds(w)
  <2>1. Rising(disk', stamp')
    <3>1. CASE UNCHANGED <<disk, stamp>>
      BY <1>2, <3>1
    <3>2. CASE stamp < MaxStamp /\ stamp' = stamp + 1
               /\ disk' = [disk EXCEPT ![BazelBin] = stamp']
      <4>1. BazelBin \in Dirs /\ disk' = [disk EXCEPT ![BazelBin] = stamp + 1]
        BY <3>2 DEF Dirs
      <4>2. disk \in [Dirs -> Generation] /\ stamp \in Generation
        BY <1>1 DEF TypeOK
      <4> QED BY <1>2, <3>2, <4>1, <4>2, BuildRising
    <3> QED BY <1>4, <3>1, <3>2 DEF WorkerBuilds
  <2> QED BY <1>3, <1>4, <2>1, WorkerBuildsFacts
<1>5. CASE ~WorkerBuilds(w)
  <2>1. disk' = disk /\ stamp' = stamp
    BY <1>5 DEF WorkerStep, WorkerBegins, WorkerScans, WorkerDecodes,
           WorkerRescans, WorkerConfirms, WorkerWatches, WorkerRechecks, WorkerPanics
  <2>2. Facts(srv', disk, stamp, head)
    BY <1>5, WorkerBeginsFacts, WorkerScansFacts, WorkerDecodesFacts, WorkerRescansFacts,
       WorkerConfirmsFacts, WorkerWatchesFacts, WorkerRechecksFacts, WorkerPanicsFacts
       DEF WorkerStep
  <2> QED BY <1>2, <1>3, <2>1, <2>2
<1> QED BY <1>4, <1>5

(* A worker's watcher changes, and keeps what it knew. *)
LEMMA WatchServed ==
  ASSUME ServedInvariant, NEW w \in srv.workers, w.watch # None, NEW x,
         Pending(w.watch) => Pending(x), WatchBecomes(w, x), UNCHANGED world, UNCHANGED published
  PROVE  Facts(srv', disk, stamp, head)
<1> DEFINE v == [w EXCEPT !.watch = x]
<1>1. srv \in Server /\ Loop(srv) /\ w \in Worker
  BY FieldTypes DEF ServedInvariant, GenerationInvariant, TypeOK
<1>2. Facts(srv, disk, stamp, head) /\ Known(srv, w, disk, stamp, head)
  BY DEF ServedInvariant, Facts
<1>3. Become(w, v)
  BY DEF WatchBecomes, Become, world
<1>4. SameLoad(w, v) /\ v.pc = w.pc /\ v.outcome = w.outcome /\ v.watch = x
  BY <1>1 DEF SameLoad, Worker
<1> HIDE DEF v
<1>5. Based(srv, v)
  BY <1>2, <1>4, SameBased DEF SameLoad, Known, Sound
<1>6. Reading(v, disk, stamp) /\ Faithful(v)
  BY <1>2, <1>4 DEF SameLoad, Known, Sound, Reading, Faithful
<1>7. srv.asked = {} => Warned(srv, v, head)
  BY <1>2, <1>4 DEF SameLoad, Known, Warned
<1>8. Known(srv, v, disk, stamp, head)
  BY <1>5, <1>6, <1>7 DEF Known, Sound
<1> QED BY <1>1, <1>2, <1>3, <1>8, BecomeFacts

LEMMA FileChangeServed ==
  ASSUME ServedInvariant, FileChange PROVE Facts(srv', disk, stamp, head)
<1> DEFINE x == [srv.watcher EXCEPT !.sent = Tail(@)]
           s == [srv EXCEPT !.watcher = x]
           change == Head(srv.watcher.sent)
<1>1. srv \in Server /\ Loop(srv) /\ Carried(srv) /\ Facts(srv, disk, stamp, head)
  BY DEF ServedInvariant, GenerationInvariant, TypeOK
<1>2. x \in Watcher /\ change \in Change
  BY <1>1, FieldTypes, ReceiveChangeType DEF FileChange
<1>3. srv' = OnFileChange(s, change) /\ srv.watcher # None
  BY DEF FileChange
<1> HIDE DEF x, change
<1>4. s \in Server /\ Loop(s) /\ Carried(s)
  BY <1>1, <1>2, WatcherField, WatcherFieldLoop
<1>5. /\ s.index = srv.index /\ s.index_shards = srv.index_shards
      /\ s.index_dir = srv.index_dir /\ s.shards_verified = srv.shards_verified
      /\ s.workers = srv.workers
  BY <1>1 DEF Server
<1> HIDE DEF s
<1>6. s.index_dir # None
  BY <1>1, <1>3, <1>5 DEF Facts, Settled, Located
<1>7. Matching(s)
  BY <1>1, <1>5 DEF Facts, Settled, Matching
<1>8. \A w \in s.workers : Sound(s, w, disk, stamp)
  BY <1>1, <1>5 DEF Facts, Known, Sound, Based
<1>9. /\ Facts(OnIndexChange(s), disk, stamp, head)
      /\ Facts(OnWorkspaceChange(s), disk, stamp, head)
      /\ Facts(OnWatcherError(s), disk, stamp, head)
  BY <1>4, <1>6, <1>7, <1>8, OnIndexChangeFacts, OnWorkspaceChangeFacts, OnWatcherErrorFacts
<1>10. \/ OnFileChange(s, change) = OnIndexChange(s)
       \/ OnFileChange(s, change) = OnWorkspaceChange(s)
       \/ OnFileChange(s, change) = OnWatcherError(s)
  BY <1>2, Zenon DEF OnFileChange, Change
<1> QED BY <1>3, <1>9, <1>10

LEMMA ServedNext == ServedInvariant /\ [Next]_vars => ServedInvariant'
<1> SUFFICES ASSUME ServedInvariant, [Next]_vars PROVE ServedInvariant'
  OBVIOUS
<1>1. GenerationInvariant'
  BY NextInvariant DEF ServedInvariant
<1>2. /\ TypeOK /\ srv \in Server /\ Loop(srv) /\ srv.workers \subseteq Worker
      /\ Rising(disk, stamp) /\ Facts(srv, disk, stamp, head)
  BY FieldTypes DEF ServedInvariant, GenerationInvariant, TypeOK
<1>3. ASSUME Rising(disk', stamp'), Facts(srv', disk', stamp', head') PROVE ServedInvariant'
  BY <1>1, <1>3 DEF ServedInvariant
<1>4. ASSUME Tame(srv, srv'), UNCHANGED world PROVE ServedInvariant'
  <2>1. Facts(srv', disk, stamp, head)
    BY <1>2, <1>4, TameFacts
  <2> QED BY <1>2, <1>3, <1>4, <2>1 DEF world
<1>5. ASSUME Facts(srv', disk, stamp, head), UNCHANGED world PROVE ServedInvariant'
  BY <1>2, <1>3, <1>5 DEF world
<1>6. CASE GitWrites
  <2>1. \A w \in srv.workers : Reading(w, disk, stamp)
    BY <1>2 DEF Facts, Known, Sound
  <2>2. Facts(srv', disk, stamp, head')
    BY <1>2, <1>6, <2>1, NotifyFacts DEF GitWrites
  <2> QED BY <1>2, <1>3, <1>6, <2>2 DEF GitWrites
<1>7. ASSUME NEW d \in Rebuilt, BuildWrites(d) PROVE ServedInvariant'
  <2>1. PICK g \in {stamp + 1, NoShards} : disk' = [disk EXCEPT ![d] = g]
    BY <1>7 DEF BuildWrites
  <2>2. stamp' = stamp + 1 /\ stamp < MaxStamp /\ head' = head /\ d \in Dirs
        /\ disk \in [Dirs -> Generation] /\ stamp \in Generation
    BY <1>2, <1>7, LifecycleAssumption DEF BuildWrites, TypeOK
  <2>3. Rising(disk', stamp')
    BY <1>2, <2>1, <2>2, BuildRising
  <2>4. \A w \in srv.workers : Reading(w, disk, stamp)
    BY <1>2 DEF Facts, Known, Sound
  <2>5. \A w \in srv.workers : Reading(w, disk', stamp')
    BY <1>2, <2>1, <2>2, <2>4, BuildReading
  <2>6. Facts(srv', disk', stamp', head)
    BY <1>2, <1>7, <2>5, NotifyFacts DEF BuildWrites
  <2> QED BY <1>3, <2>2, <2>3, <2>6
<1>8. CASE DebounceServer
  <2>1. srv.watcher \in Watcher /\ srv.watcher # None
    BY <1>2, <1>8, FieldTypes DEF DebounceServer
  <2>2. srv' = [srv EXCEPT !.watcher = Dispatch(srv.watcher)]
    BY <1>8 DEF DebounceServer
  <2>3. Facts(srv', disk, stamp, head)
    BY <1>2, <2>1, <2>2, DispatchPending, WatcherFacts
  <2> QED BY <1>5, <1>8, <2>3 DEF DebounceServer
<1>9. ASSUME NEW w \in srv.workers, WorkerStep(w) \/ WorkerPanics(w)
      PROVE  ServedInvariant'
  BY <1>3, <1>9, WorkerStepServed
<1>18. ASSUME NEW w \in srv.workers, DebounceWorker(w) PROVE ServedInvariant'
  <2>1. w.watch \in Watcher
    BY <1>2, <1>18, WorkerFields DEF DebounceWorker
  <2>2. Pending(w.watch) => Pending(Dispatch(w.watch))
    BY <2>1, DispatchPending
  <2>3. Facts(srv', disk, stamp, head)
    BY <1>18, <2>2, WatchServed DEF DebounceWorker
  <2> QED BY <1>5, <1>18, <2>3 DEF DebounceWorker
<1>19. ASSUME NEW w \in srv.workers, WorkerLosesEvents(w) PROVE ServedInvariant'
  <2>1. w.watch \in Watcher
    BY <1>2, <1>19, WorkerFields DEF WorkerLosesEvents
  <2>2. PICK kept \in SUBSET w.watch.batch : WatchBecomes(w, LoseEvents(w.watch, kept))
    BY <1>19 DEF WorkerLosesEvents
  <2>3. Pending(LoseEvents(w.watch, kept))
    BY <2>1, LosePending
  <2>4. Facts(srv', disk, stamp, head)
    BY <1>19, <2>2, <2>3, WatchServed DEF WorkerLosesEvents
  <2> QED BY <1>5, <1>19, <2>4 DEF WorkerLosesEvents
<1>10. ASSUME NEW w \in srv.workers, ResultArrives(w) PROVE ServedInvariant'
  <2>1. Facts(srv', disk, stamp, head)
    BY <1>2, <1>10, OnStartupResultFacts, OnRefreshResultFacts, OnExplicitLoadResultFacts
       DEF ResultArrives, StartupResult, RefreshResult, ExplicitLoadResult
  <2>2. UNCHANGED world
    BY <1>10 DEF ResultArrives, StartupResult, RefreshResult, ExplicitLoadResult
  <2> QED BY <1>5, <2>1, <2>2
<1>11. CASE ServerLosesEvents
  <2>1. srv.watcher \in Watcher /\ srv.watcher # None
    BY <1>2, <1>11, FieldTypes DEF ServerLosesEvents
  <2>2. PICK kept \in SUBSET srv.watcher.batch :
          srv' = [srv EXCEPT !.watcher = LoseEvents(srv.watcher, kept)]
    BY <1>11 DEF ServerLosesEvents
  <2>3. Pending(LoseEvents(srv.watcher, kept))
    BY <2>1, LosePending
  <2>4. Facts(srv', disk, stamp, head)
    BY <1>2, <2>1, <2>2, <2>3, WatcherFacts
  <2> QED BY <1>5, <1>11, <2>4 DEF ServerLosesEvents
<1>12. CASE WriterStores
  <2>1. srv' = [srv EXCEPT !.cache_job = None] /\ UNCHANGED world
    BY <1>12 DEF WriterStores
  <2> QED BY <1>2, <1>4, <2>1, FlagsTame
<1>13. CASE FileChange
  <2>1. UNCHANGED world
    BY <1>13 DEF FileChange
  <2> QED BY <1>5, <1>13, <2>1, FileChangeServed
<1>14. CASE RefreshTick
  BY <1>2, <1>4, <1>14, OnRefreshTickTame DEF RefreshTick
<1>15. ASSUME NEW r \in Requests, NEW d \in Dirs, LoadRequest(r, d) PROVE ServedInvariant'
  BY <1>2, <1>4, <1>15, OnLoadRequestTame DEF LoadRequest
<1>16. CASE Shutdown
  BY <1>2, <1>4, <1>16, OnShutdownTame DEF Shutdown
<1>17. CASE UNCHANGED vars
  <2>1. UNCHANGED <<srv, head, disk, stamp>>
    BY <1>17 DEF vars
  <2> QED BY <1>2, <1>3, <2>1
<1> QED BY <1>6, <1>7, <1>8, <1>9, <1>10, <1>11, <1>12, <1>13, <1>14, <1>15, <1>16, <1>17,
          <1>18, <1>19 DEF Next

-----------------------------------------------------------------------------
(***************************************************************************)
(* What a step may install while a build is awaited.                       *)
(***************************************************************************)

LEMMA StaleReloadKeepsIndex ==
  ASSUME NEW s \in Server, NEW w \in s.workers, ~w.current
  PROVE  OnRefreshResult(s, w).index = s.index
<1> DEFINE u == Received(s, w)
           e == [u EXCEPT !.refresh_running = FALSE, !.refresh_progress = FALSE]
           t == HideProgress(e, s.refresh_progress)
<1>1. u \in Server /\ SameService(s, u)
  BY FieldTypes, ReceivedType, ReceivedService
<1>2. OnRefreshResult(s, w) = ScheduleQueuedRefresh(t)
  BY DEF OnRefreshResult
<1> HIDE DEF u
<1>3. e \in Server /\ SameService(u, e)
  <2>1. e \in Server
    BY <1>1, EndRefreshType
  <2>2. SameService(u, e)
    BY <1>1, FieldsService
  <2> QED BY <2>1, <2>2
<1> HIDE DEF e
<1>4. t \in Server /\ SameService(e, t)
  BY <1>3, ProgressType, FieldTypes, ReplyService
<1> HIDE DEF t
<1>5. Tame(t, ScheduleQueuedRefresh(t))
  BY <1>4, ScheduleQueuedRefreshTame
<1> QED BY <1>1, <1>2, <1>3, <1>4, <1>5 DEF SameService, Tame

LEMMA CancelledLoadKeepsIndex ==
  ASSUME NEW s \in Server, NEW w \in s.workers, s.explicit_load # w.request
  PROVE  OnExplicitLoadResult(s, w).index = s.index
<1> DEFINE u == Received(s, w)
           t == [u EXCEPT !.explicit_load_running = FALSE]
<1>1. u \in Server /\ SameService(s, u) /\ u.explicit_load = s.explicit_load
  BY FieldTypes, ReceivedType, ReceivedService DEF Received, Server
<1> HIDE DEF u
<1>2. t \in Server /\ SameService(u, t) /\ t.explicit_load = u.explicit_load
  <2>1. t \in Server
    BY <1>1, LoadingField
  <2>2. SameService(u, t)
    BY <1>1, FieldsService
  <2>3. t.explicit_load = u.explicit_load
    BY <1>1 DEF Server
  <2> QED BY <2>1, <2>2, <2>3
<1>3. OnExplicitLoadResult(s, w) = ScheduleQueuedRefresh(t)
  BY <1>1, <1>2 DEF OnExplicitLoadResult, u
<1> HIDE DEF t
<1>4. Tame(t, ScheduleQueuedRefresh(t))
  BY <1>2, ScheduleQueuedRefreshTame
<1> QED BY <1>1, <1>2, <1>3, <1>4 DEF SameService, Tame

LEMMA ChangeKeepsIndexOut ==
  ASSUME NEW s \in Server, Loop(s), Carried(s), s.index = None,
         s.refresh_intent = "AwaitingBuild", NEW change \in Change
  PROVE  OnFileChange(s, change).index = None
<1>1. OnIndexChange(s).index = None
  <2> DEFINE a == [s EXCEPT !.refresh_intent = "Retry"]
             t == ScheduleIndexRefresh(a, TRUE, TRUE)
  <2>1. OnIndexChange(s) = t
    BY DEF OnIndexChange
  <2>2. a \in Server /\ a.index = None
    <3>1. a \in Server
      BY IntentField
    <3>2. a.index = None
      BY DEF Server
    <3> QED BY <3>1, <3>2
  <2> HIDE DEF a
  <2>3. Tame(a, t)
    BY <2>2, ScheduleIndexRefreshTame
  <2> HIDE DEF t
  <2> QED BY <2>1, <2>2, <2>3 DEF Tame
<1>2. OnWatcherError(s).index = None
  BY DEF OnWatcherError
<1>3. OnWorkspaceChange(s).index = None
  <2> DEFINE a == [s EXCEPT !.index = None]
             b == CancelExplicitLoad(a)
             c == Supersede(b)
  <2>1. a \in Server /\ a.index = None
    BY IndexField DEF Server
  <2> HIDE DEF a
  <2>2. b \in Server /\ Tame(a, b)
    BY <2>1, CancelExplicitLoadType, CancelExplicitLoadTame
  <2> HIDE DEF b
  <2>3. c \in Server /\ Tame(b, c)
    BY <2>2, SupersedeType, SupersedeTame
  <2> HIDE DEF c
  <2>4. OnWorkspaceChange(s).index = c.index
    BY <2>3 DEF OnWorkspaceChange, a, b, c, Server
  <2> QED BY <2>1, <2>2, <2>3, <2>4 DEF Tame
<1> QED BY <1>1, <1>2, <1>3, Zenon DEF OnFileChange, Change

Bidden ==
  \E w \in srv.workers :
    w.kind = "explicit" /\ w.pc = "done" /\ w.request = srv.explicit_load

LEMMA UnbiddenStep ==
  ASSUME ServedInvariant, Next, srv.refresh_intent = "AwaitingBuild", srv'.index # None
  PROVE  Bidden
<1>1. /\ srv \in Server /\ Loop(srv) /\ Carried(srv) /\ Facts(srv, disk, stamp, head)
      /\ srv.workers \subseteq Worker
  BY FieldTypes DEF ServedInvariant, GenerationInvariant, TypeOK
<1>2. srv.index = None /\ srv.index_dir # None
      /\ \A w \in srv.workers : w.kind = "refresh" => ~w.current
  BY <1>1 DEF Loop, Waiting, Facts, Settled, Located
<1>3. \A w \in srv.workers : w.kind # "startup"
  BY <1>1, <1>2 DEF Loop, Seats
<1>4. ~Tame(srv, srv')
  BY <1>2 DEF Tame
<1>5. srv'.index # srv.index
  BY <1>2
<1>6. CASE GitWrites
  BY <1>1, <1>5, <1>6 DEF GitWrites, Notify, Server
<1>7. ASSUME NEW d \in Rebuilt, BuildWrites(d) PROVE Bidden
  BY <1>1, <1>5, <1>7 DEF BuildWrites, Notify, Server
<1>8. CASE DebounceServer
  BY <1>1, <1>5, <1>8 DEF DebounceServer, Server
<1>9. ASSUME NEW w \in srv.workers,
             DebounceWorker(w) \/ WorkerLosesEvents(w) \/ WorkerStep(w) \/ WorkerPanics(w)
      PROVE  Bidden
  <2>1. CASE DebounceWorker(w) \/ WorkerLosesEvents(w)
    BY <1>1, <1>5, <2>1 DEF DebounceWorker, WorkerLosesEvents, WatchBecomes, Server
  <2>2. CASE WorkerStep(w) \/ WorkerPanics(w)
    <3>1. \E v : Become(w, v)
      BY <2>2 DEF WorkerStep, WorkerBegins, WorkerScans, WorkerDecodes, WorkerRescans,
             WorkerConfirms, WorkerWatches, WorkerRechecks, WorkerBuilds, WorkerPanics
    <3> QED BY <1>1, <1>5, <3>1 DEF Become, Server
  <2> QED BY <1>9, <2>1, <2>2
<1>10. ASSUME NEW w \in srv.workers, ResultArrives(w) PROVE Bidden
  <2>1. ~StartupResult(w)
    BY <1>3 DEF StartupResult
  <2>2. ~RefreshResult(w)
    BY <1>1, <1>2, <1>5, StaleReloadKeepsIndex DEF RefreshResult
  <2>3. CASE ExplicitLoadResult(w)
    <3>1. w.request = srv.explicit_load
      BY <1>1, <1>5, <2>3, CancelledLoadKeepsIndex DEF ExplicitLoadResult
    <3> QED BY <2>3, <3>1 DEF ExplicitLoadResult, Bidden
  <2> QED BY <1>10, <2>1, <2>2, <2>3 DEF ResultArrives
<1>11. CASE ServerLosesEvents
  BY <1>1, <1>5, <1>11 DEF ServerLosesEvents, Server
<1>12. CASE WriterStores
  BY <1>1, <1>5, <1>12 DEF WriterStores, Server
<1>13. CASE FileChange
  <2> DEFINE x == [srv.watcher EXCEPT !.sent = Tail(@)]
             s == [srv EXCEPT !.watcher = x]
             change == Head(srv.watcher.sent)
  <2>1. x \in Watcher /\ change \in Change
    BY <1>1, <1>13, FieldTypes, ReceiveChangeType DEF FileChange
  <2>2. srv' = OnFileChange(s, change)
    BY <1>13 DEF FileChange
  <2> HIDE DEF x, change
  <2>3. s \in Server /\ Loop(s) /\ Carried(s)
    BY <1>1, <2>1, WatcherField, WatcherFieldLoop
  <2>4. s.index = None /\ s.refresh_intent = "AwaitingBuild"
    BY <1>1, <1>2 DEF Server
  <2> HIDE DEF s
  <2> QED BY <1>2, <1>5, <2>1, <2>2, <2>3, <2>4, ChangeKeepsIndexOut
<1>14. CASE RefreshTick
  BY <1>1, <1>4, <1>14, OnRefreshTickTame DEF RefreshTick
<1>15. ASSUME NEW r \in Requests, NEW d \in Dirs, LoadRequest(r, d) PROVE Bidden
  BY <1>1, <1>4, <1>15, OnLoadRequestTame DEF LoadRequest
<1>16. CASE Shutdown
  BY <1>1, <1>4, <1>16, OnShutdownTame DEF Shutdown
<1> QED BY <1>6, <1>7, <1>8, <1>9, <1>10, <1>11, <1>12, <1>13, <1>14, <1>15, <1>16 DEF Next

-----------------------------------------------------------------------------
(***************************************************************************)
(* The theorems.                                                           *)
(***************************************************************************)

(* The inductive invariant holds in every reachable state: what each       *)
(* worker has read stays explained by the disk, however often builds       *)
(* rewrite it between two of its steps.                                    *)
THEOREM ServedInductive == Spec => []ServedInvariant
BY ServedInit, ServedNext, PTL DEF Spec

(* What is served was decoded from exactly the shards its manifest lists,  *)
(* so that a reload may answer "unchanged" by comparing manifests          *)
(* (`reload_index_at_revision`): the second scan of `load_validated_shards` *)
(* sees every write between the first scan and the decoding.               *)
THEOREM IndexMatches == Spec => []IndexMatchesManifest
<1>1. ServedInvariant => IndexMatchesManifest
  BY DEF ServedInvariant, Facts, Settled, Matching, IndexMatchesManifest
<1> QED BY <1>1, ServedInductive, PTL

(* A snapshot is called verified (`shards_verified`) only once a scan of   *)
(* this session found its shards: a cached one, whose shards may have been *)
(* gone before startup, never is on the strength of the cache alone.       *)
THEOREM VerifiedOnDisk == Spec => []VerifiedWasOnDisk
<1>1. ServedInvariant => VerifiedWasOnDisk
  BY DEF ServedInvariant, Facts, Settled, Matching, VerifiedWasOnDisk, OnDisk
<1> QED BY <1>1, ServedInductive, PTL

(* While a build is awaited after a branch switch, the only step that puts *)
(* an index in place is the result of the explicit load the client is      *)
(* still waiting for: no timer, queued refresh, obsolete reload, cancelled *)
(* load or late startup result does.                                       *)
THEOREM InstalledOnlyIfAsked == Spec => NothingInstalledUnbidden
<1>1. ServedInvariant /\ [Next]_vars =>
        [srv.refresh_intent = "AwaitingBuild" /\ srv'.index # None => Bidden]_srv
  BY UnbiddenStep DEF vars
<1>2. ServedInvariant /\ [Next]_vars =>
        [srv.refresh_intent = "AwaitingBuild" /\ srv'.index # None =>
           \E w \in srv.workers :
             w.kind = "explicit" /\ w.pc = "done" /\ w.request = srv.explicit_load]_srv
  BY <1>1 DEF Bidden
<1> QED BY <1>2, ServedInductive, PTL DEF Spec, NothingInstalledUnbidden

(* As long as no load was asked for, no movement of HEAD goes unnoticed,   *)
(* though backends lose events and a worker's watcher takes over: whenever *)
(* HEAD is not the commit the served index was validated against, the      *)
(* notice that will drop the index is with the watcher, or the index is    *)
(* known to need validation.  An explicit load starts its watcher after    *)
(* its last look at HEAD, and with one this fails.                         *)
THEOREM NoMoveUnseen == Spec => []NoUnseenMove
<1>1. ServedInvariant => NoUnseenMove
  BY DEF ServedInvariant, Facts, Settled, Noticed, Pending, NoUnseenMove, MovesAreNoticed,
         GitNoticePending
<1> QED BY <1>1, ServedInductive, PTL

=============================================================================
