-------------------------------- MODULE IndexCache --------------------------------
(***************************************************************************)
(* The built-index cache (index_cache.rs) with the threads that use it:    *)
(* the event loops of one or more servers of one workspace, which queue    *)
(* snapshots and withdraw them, the cache writer thread of each, and the   *)
(* startup workers of other servers, which read.  They meet in the file    *)
(* system: a directory per generation, the CURRENT pointer, PUBLISH.lock,  *)
(* and the shards and HEAD that a snapshot is checked against.  A process  *)
(* may die, and a file operation may fail, between any two steps.          *)
(*                                                                         *)
(* A rename is atomic and what was synced stays: the loss of power is not  *)
(* modelled, nor damage to files, which `load` meets with a checksum.      *)
(***************************************************************************)
EXTENDS FiniteSets, Naturals

CONSTANTS
  Servers,     (* the processes that write                                 *)
  Readers,     (* the processes that read                                  *)
  Heads,       (* the commits `git rev-parse HEAD` may print               *)
  MaxName,     (* bound: the generation directories that may be created    *)
  MaxChanges,  (* bound: builds and movements of HEAD                      *)
  MaxEpoch,    (* bound: increments of each server's cache_epoch           *)
  MaxFaults,   (* bound: crashes and failed file operations                *)
  None

(***************************************************************************)
(* manifest.json, and what a hit returns: the manifest and the index, each *)
(* identified by the shards it is about.                                   *)
(***************************************************************************)
Manifest == [head : Heads, shards : Nat]
Snapshot == [head : Heads, shards : Nat, index : Nat]

ASSUME CacheAssumption ==
  /\ None \notin Heads
  /\ None \notin Servers
  /\ None \notin Nat
  /\ None \notin Manifest
  /\ None \notin Snapshot
  /\ None \notin [key : Heads, seen : Snapshot]
  /\ None \notin [head : Heads, shards : Nat, ticket : Nat]
  /\ MaxName \in Nat /\ MaxChanges \in Nat /\ MaxFaults \in Nat
  /\ MaxEpoch \in [Servers -> Nat]

(***************************************************************************)
(* The names `g-<nanoseconds>-<pid>-<sequence>` are compared as text, so a *)
(* new name comes after all others while the clock is not set back.        *)
(***************************************************************************)
Names == 1..MaxName

NoShards == 0

VARIABLES
  dir,     (* the generation directories                                   *)
  current, (* the generation CURRENT names, or None                        *)
  lock,    (* the server whose writer holds PUBLISH.lock, or None          *)
  shards,  (* the shards in the output tree, by when they were written     *)
  stamp,   (* when the latest build wrote                                  *)
  head,    (* the commit HEAD names                                        *)
  changes, (* builds and movements of HEAD so far                          *)
  faults,  (* crashes and failures so far                                  *)
  loop,    (* each server's event loop                                     *)
  queue,   (* the job in each server's channel of capacity one, or None    *)
  writer,  (* each server's cache writer thread                            *)
  reader   (* each reading process                                         *)

world == <<shards, stamp, head, changes>>
vars == <<dir, current, lock, world, faults, loop, queue, writer, reader>>

(* A directory: not created yet, `<name>-tmp`, `<name>`, or removed; the   *)
(* shards its index.bin was decoded from; its manifest.json.               *)
Directory ==
  [state : {"new", "staging", "final", "removed"},
   index : Nat \union {None}, manifest : Manifest \union {None}]

(* CacheWriteJob, without the epoch it shares with the loop. *)
Job == [head : Heads, shards : Nat, ticket : Nat]

(* Where the loop is, its cache_epoch, and the job it is about to send.    *)
Loop ==
  [at : {"ready", "send", "evict", "empty", "bump"}, epoch : Nat, sending : Job \union {None}]

Writer ==
  [at : {"idle", "serialize", "scan", "confirm", "lock", "publish", "point",
         "repoint", "clean", "remove"},
   job : Job \union {None}, name : Names \union {None}, remove : SUBSET Names]

Reader ==
  [at : {"idle", "manifest", "index"}, key : Heads \union {None}, name : Names \union {None},
   manifest : Manifest \union {None}, seen : Snapshot \union {None},
   got : Snapshot \union {None}]

TypeOK ==
  /\ dir \in [Names -> Directory]
  /\ current \in Names \union {None}
  /\ lock \in Servers \union {None}
  /\ shards \in Nat /\ stamp \in Nat
  /\ head \in Heads
  /\ changes \in Nat /\ faults \in Nat
  /\ loop \in [Servers -> Loop]
  /\ queue \in [Servers -> Job \union {None}]
  /\ writer \in [Servers -> Writer]
  /\ reader \in [Readers -> Reader]

NewLoop == [at |-> "ready", epoch |-> 0, sending |-> None]
IdleWriter == [at |-> "idle", job |-> None, name |-> None, remove |-> {}]
IdleReader ==
  [at |-> "idle", key |-> None, name |-> None, manifest |-> None, seen |-> None, got |-> None]

Init ==
  /\ dir = [n \in Names |-> [state |-> "new", index |-> None, manifest |-> None]]
  /\ current = None
  /\ lock = None
  /\ shards = 1 /\ stamp = 1
  /\ head \in Heads
  /\ changes = 0 /\ faults = 0
  /\ loop = [s \in Servers |-> NewLoop]
  /\ queue = [s \in Servers |-> None]
  /\ writer = [s \in Servers |-> IdleWriter]
  /\ reader = [r \in Readers |-> IdleReader]

-----------------------------------------------------------------------------
(* The world: a build replaces the shards or removes them; HEAD moves. *)
BuildWrites ==
  /\ changes < MaxChanges
  /\ changes' = changes + 1
  /\ stamp' = stamp + 1
  /\ shards' \in {stamp', NoShards}
  /\ UNCHANGED <<dir, current, lock, head, faults, loop, queue, writer, reader>>

HeadMoves ==
  /\ changes < MaxChanges
  /\ changes' = changes + 1
  /\ head' \in Heads \ {head}
  /\ UNCHANGED <<dir, current, lock, shards, stamp, faults, loop, queue, writer, reader>>

-----------------------------------------------------------------------------
(* The event loop of a server, as far as the cache is concerned. *)

(* A worker's generation is installed; `write_cache_async` takes a new     *)
(* ticket, and then `send_latest`.  How long the worker's result waits     *)
(* makes no difference: the job waits before it is looked at.              *)
AskForWrite(s) ==
  LET ticket == loop[s].epoch + 1
  IN  /\ loop[s].at = "ready"
      /\ loop[s].epoch < MaxEpoch[s]
      /\ shards # NoShards
      /\ loop' = [loop EXCEPT ![s] = [at |-> "send", epoch |-> ticket,
                                      sending |-> [head |-> head, shards |-> shards,
                                                   ticket |-> ticket]]]
      /\ UNCHANGED <<dir, current, lock, world, faults, queue, writer, reader>>

(* Mutant: the value that does not fit is dropped. *)
TrySendMutant(s) ==
  /\ loop[s].at = "send"
  /\ queue' = IF queue[s] = None THEN [queue EXCEPT ![s] = loop[s].sending] ELSE queue
  /\ loop' = [loop EXCEPT ![s].at = "ready", ![s].sending = None]
  /\ UNCHANGED <<dir, current, lock, world, faults, writer, reader>>

(* `try_send`: Full if the writer has not taken the last job. *)
TrySend(s) ==
  /\ loop[s].at = "send"
  /\ IF queue[s] = None
     THEN /\ queue' = [queue EXCEPT ![s] = loop[s].sending]
          /\ loop' = [loop EXCEPT ![s].at = "ready", ![s].sending = None]
     ELSE /\ loop' = [loop EXCEPT ![s].at = "evict"]
          /\ UNCHANGED queue
  /\ UNCHANGED <<dir, current, lock, world, faults, writer, reader>>

(* `try_recv`: Empty if the writer has taken it meanwhile.  Then again. *)
Evict(s) ==
  /\ loop[s].at = "evict"
  /\ queue' = [queue EXCEPT ![s] = None]
  /\ loop' = [loop EXCEPT ![s].at = "send"]
  /\ UNCHANGED <<dir, current, lock, world, faults, writer, reader>>

(* A branch switch, or another index installed: no write in flight counts. *)
SupersedeWrites(s) ==
  /\ loop[s].at = "ready"
  /\ loop[s].epoch < MaxEpoch[s]
  /\ loop' = [loop EXCEPT ![s].epoch = @ + 1]
  /\ UNCHANGED <<dir, current, lock, world, faults, queue, writer, reader>>

(* A worker finds no shard.  Its result waits for the loop, ... *)
ConfirmEmpty(s) ==
  /\ loop[s].at = "ready"
  /\ loop[s].epoch < MaxEpoch[s]
  /\ shards = NoShards
  /\ loop' = [loop EXCEPT ![s].at = "empty"]
  /\ UNCHANGED <<dir, current, lock, world, faults, queue, writer, reader>>

(* ... whose handler calls `invalidate`, without the lock, and then makes  *)
(* the writes in flight obsolete.                                          *)
Invalidate(s) ==
  /\ loop[s].at = "empty"
  /\ current' = None
  /\ loop' = [loop EXCEPT ![s].at = "bump"]
  /\ UNCHANGED <<dir, lock, world, faults, queue, writer, reader>>

BumpEpoch(s) ==
  /\ loop[s].at = "bump"
  /\ loop' = [loop EXCEPT ![s].at = "ready", ![s].epoch = @ + 1]
  /\ UNCHANGED <<dir, current, lock, world, faults, queue, writer, reader>>

-----------------------------------------------------------------------------
(* The cache writer thread: `CacheWriteJob::run` and `store`. *)

IsCurrent(s) == loop[s].epoch = writer[s].job.ticket
KeyStillCurrent(s) == head = writer[s].job.head

WriterGoesTo(s, at) == writer' = [writer EXCEPT ![s].at = at]

(* The error path: the lock goes with its file, then the directories go.   *)
WriterFails(s) ==
  /\ writer' = [writer EXCEPT ![s].at = "remove", ![s].remove = {writer[s].name}]
  /\ lock' = IF lock = s THEN None ELSE lock
  /\ UNCHANGED <<dir, current>>

(* A job is received; the first check, the fresh name, the directory.      *)
WriterTakes(s) ==
  /\ writer[s].at = "idle"
  /\ queue[s] # None
  /\ queue' = [queue EXCEPT ![s] = None]
  /\ IF loop[s].epoch = queue[s].ticket
     THEN \E n \in Names :
            /\ dir[n].state = "new"
            /\ \A m \in Names : m < n => dir[m].state # "new"
            /\ dir' = [dir EXCEPT ![n].state = "staging"]
            /\ writer' = [writer EXCEPT ![s] = [IdleWriter EXCEPT !.at = "serialize",
                                                                  !.job = queue[s], !.name = n]]
     ELSE UNCHANGED <<dir, writer>>
  /\ UNCHANGED <<current, lock, world, faults, loop, reader>>

(* Writing index.bin stops when a newer write supersedes it. *)
WriterSerializes(s) ==
  /\ writer[s].at = "serialize"
  /\ IF IsCurrent(s)
     THEN /\ dir' = [dir EXCEPT ![writer[s].name].index = writer[s].job.shards]
          /\ WriterGoesTo(s, "scan")
          /\ UNCHANGED <<current, lock>>
     ELSE WriterFails(s)
  /\ UNCHANGED <<world, faults, loop, queue, reader>>

WriterScans(s) ==
  /\ writer[s].at = "scan"
  /\ IF shards = writer[s].job.shards
     THEN WriterGoesTo(s, "confirm") /\ UNCHANGED <<dir, current, lock>>
     ELSE WriterFails(s)
  /\ UNCHANGED <<world, faults, loop, queue, reader>>

(* The key and the epoch, then the manifest. *)
WriterConfirms(s) ==
  /\ writer[s].at = "confirm"
  /\ IF KeyStillCurrent(s) /\ IsCurrent(s)
     THEN /\ dir' = [dir EXCEPT ![writer[s].name].manifest =
                       [head |-> writer[s].job.head, shards |-> writer[s].job.shards]]
          /\ WriterGoesTo(s, "lock")
          /\ UNCHANGED <<current, lock>>
     ELSE WriterFails(s)
  /\ UNCHANGED <<world, faults, loop, queue, reader>>

WriterLocks(s) ==
  /\ writer[s].at = "lock"
  /\ lock = None
  /\ lock' = s
  /\ WriterGoesTo(s, "publish")
  /\ UNCHANGED <<dir, current, world, faults, loop, queue, reader>>

(* The staging directory gets its name. *)
WriterPublishes(s) ==
  /\ writer[s].at = "publish"
  /\ IF IsCurrent(s) /\ KeyStillCurrent(s)
     THEN /\ dir' = [dir EXCEPT ![writer[s].name].state = "final"]
          /\ WriterGoesTo(s, "point")
          /\ UNCHANGED <<current, lock>>
     ELSE WriterFails(s)
  /\ UNCHANGED <<world, faults, loop, queue, reader>>

(* The new pointer is written beside CURRENT, and the last check made. *)
WriterPoints(s) ==
  /\ writer[s].at = "point"
  /\ IF IsCurrent(s) /\ KeyStillCurrent(s)
     THEN WriterGoesTo(s, "repoint") /\ UNCHANGED <<dir, current, lock>>
     ELSE WriterFails(s)
  /\ UNCHANGED <<world, faults, loop, queue, reader>>

(* The pointer is renamed to CURRENT. *)
WriterRepoints(s) ==
  /\ writer[s].at = "repoint"
  /\ current' = writer[s].name
  /\ WriterGoesTo(s, "clean")
  /\ UNCHANGED <<dir, lock, world, faults, loop, queue, reader>>

Finals == {n \in Names : dir[n].state = "final"}

(* Mutant: the fallback is not looked for. *)
PrunedMutant == {}

(* Mutant: the two newest names are kept, whatever CURRENT says. *)
PrunedByNameMutant ==
  {n \in Finals : \E m, k \in Finals : n < m /\ m < k}

(* What `cleanup` removes: all but CURRENT and the newest of the others.   *)
Pruned ==
  {n \in Finals \ {current} : \E m \in Finals \ {current} : n < m}

(* `cleanup` reads CURRENT and lists the cache directory. *)
WriterCleans(s) ==
  /\ writer[s].at = "clean"
  /\ writer' = [writer EXCEPT ![s].at = "remove", ![s].remove = Pruned]
  /\ UNCHANGED <<dir, current, lock, world, faults, loop, queue, reader>>

(* `remove_dir_all`: the files in some order, then the directory. *)
WriterRemoves(s) ==
  /\ writer[s].at = "remove"
  /\ \E n \in writer[s].remove :
       \/ /\ dir[n].index # None
          /\ dir' = [dir EXCEPT ![n].index = None]
          /\ UNCHANGED writer
       \/ /\ dir[n].manifest # None
          /\ dir' = [dir EXCEPT ![n].manifest = None]
          /\ UNCHANGED writer
       \/ /\ dir[n].index = None /\ dir[n].manifest = None
          /\ dir' = [dir EXCEPT ![n].state = "removed"]
          /\ writer' = [writer EXCEPT ![s].remove = @ \ {n}]
  /\ UNCHANGED <<current, lock, world, faults, loop, queue, reader>>

(* Mutant: the lock outlives `store`. *)
WriterEndsMutant(s) ==
  /\ writer[s].at = "remove"
  /\ writer[s].remove = {}
  /\ writer' = [writer EXCEPT ![s] = IdleWriter]
  /\ UNCHANGED <<dir, current, lock, world, faults, loop, queue, reader>>

(* The end of `store`, and of the lock if it is still held. *)
WriterEnds(s) ==
  /\ writer[s].at = "remove"
  /\ writer[s].remove = {}
  /\ writer' = [writer EXCEPT ![s] = IdleWriter]
  /\ lock' = IF lock = s THEN None ELSE lock
  /\ UNCHANGED <<dir, current, world, faults, loop, queue, reader>>

-----------------------------------------------------------------------------
(* Faults. *)
Fault ==
  /\ faults < MaxFaults
  /\ faults' = faults + 1

(* A scan, a write, a sync or a rename returns an error. *)
FileOperationFails(s) ==
  /\ Fault
  /\ writer[s].at \in {"serialize", "scan", "confirm", "lock", "publish", "point", "repoint"}
  /\ WriterFails(s)
  /\ UNCHANGED <<world, loop, queue, reader>>

(* The process dies and another is started: only files are left. *)
Crash(s) ==
  /\ Fault
  /\ lock' = IF lock = s THEN None ELSE lock
  /\ loop' = [loop EXCEPT ![s] = NewLoop]
  /\ queue' = [queue EXCEPT ![s] = None]
  /\ writer' = [writer EXCEPT ![s] = IdleWriter]
  /\ UNCHANGED <<dir, current, world, reader>>

-----------------------------------------------------------------------------
(* `load`, in the startup worker of another process. *)

SnapshotIn(n) ==
  [head |-> dir[n].manifest.head, shards |-> dir[n].manifest.shards, index |-> dir[n].index]

ReaderMisses(r) == reader' = [reader EXCEPT ![r] = IdleReader]

(* CURRENT is read; the key was captured a while ago.  `seen` is history:  *)
(* the snapshot that was published at this moment.                         *)
ReadPointer(r) ==
  /\ reader[r].at = "idle"
  /\ IF current = None THEN ReaderMisses(r)
     ELSE \E key \in Heads :
            reader' = [reader EXCEPT ![r] = [IdleReader EXCEPT !.at = "manifest", !.key = key,
                                                               !.name = current,
                                                               !.seen = SnapshotIn(current)]]
  /\ UNCHANGED <<dir, current, lock, world, faults, loop, queue, writer>>

ReadManifest(r) ==
  LET manifest == dir[reader[r].name].manifest
  IN  /\ reader[r].at = "manifest"
      /\ IF manifest = None \/ manifest.head # reader[r].key
         THEN ReaderMisses(r)
         ELSE reader' = [reader EXCEPT ![r].at = "index", ![r].manifest = manifest]
      /\ UNCHANGED <<dir, current, lock, world, faults, loop, queue, writer>>

(* Mutant: an index.bin that is not there is not noticed. *)
ReadIndexMissingMutant(r) ==
  /\ reader[r].at = "index"
  /\ reader' = [reader EXCEPT
                  ![r] = [IdleReader EXCEPT
                            !.got = [head |-> reader[r].manifest.head,
                                     shards |-> reader[r].manifest.shards,
                                     index |-> dir[reader[r].name].index]]]
  /\ UNCHANGED <<dir, current, lock, world, faults, loop, queue, writer>>

(* Mutant: index.bin is looked for through CURRENT again. *)
ReadIndexMutant(r) ==
  LET index == IF current = None THEN None ELSE dir[current].index
  IN  /\ reader[r].at = "index"
      /\ IF index = None THEN ReaderMisses(r)
         ELSE reader' = [reader EXCEPT
                           ![r] = [IdleReader EXCEPT
                                     !.got = [head |-> reader[r].manifest.head,
                                              shards |-> reader[r].manifest.shards,
                                              index |-> index]]]
      /\ UNCHANGED <<dir, current, lock, world, faults, loop, queue, writer>>

(* index.bin is opened, and then read whole even if it is removed. *)
ReadIndex(r) ==
  LET index == dir[reader[r].name].index
  IN  /\ reader[r].at = "index"
      /\ IF index = None THEN ReaderMisses(r)
         ELSE reader' = [reader EXCEPT
                           ![r] = [IdleReader EXCEPT
                                     !.got = [head |-> reader[r].manifest.head,
                                              shards |-> reader[r].manifest.shards,
                                              index |-> index]]]
      /\ UNCHANGED <<dir, current, lock, world, faults, loop, queue, writer>>

-----------------------------------------------------------------------------
LoopStep(s) ==
  \/ AskForWrite(s) \/ TrySend(s) \/ Evict(s) \/ SupersedeWrites(s)
  \/ ConfirmEmpty(s) \/ Invalidate(s) \/ BumpEpoch(s)

WriterStep(s) ==
  \/ WriterTakes(s) \/ WriterSerializes(s) \/ WriterScans(s)
  \/ WriterConfirms(s) \/ WriterLocks(s) \/ WriterPublishes(s) \/ WriterPoints(s)
  \/ WriterRepoints(s) \/ WriterCleans(s) \/ WriterRemoves(s) \/ WriterEnds(s)

ReaderStep(r) == ReadPointer(r) \/ ReadManifest(r) \/ ReadIndex(r)

Next ==
  \/ BuildWrites
  \/ HeadMoves
  \/ \E s \in Servers : LoopStep(s) \/ WriterStep(s) \/ FileOperationFails(s) \/ Crash(s)
  \/ \E r \in Readers : ReaderStep(r)

Spec == Init /\ [][Next]_vars

-----------------------------------------------------------------------------
(***************************************************************************)
(* CURRENT names a directory that has its final name and both files, and   *)
(* whose index is the one its manifest describes: through crashes, failed  *)
(* writes, pruning and two publishers, "the previous complete generation   *)
(* stays usable".                                                          *)
(***************************************************************************)
CurrentIsWhole ==
  current # None =>
    /\ dir[current].state = "final"
    /\ dir[current].manifest # None
    /\ dir[current].index = dir[current].manifest.shards

(***************************************************************************)
(* Disk space: when a writer that published lets go of the lock, there are *)
(* at most two generations, whatever crashes had left behind.              *)
(***************************************************************************)
PruningLeavesTwo ==
  [][\A s \in Servers : lock = s /\ WriterEnds(s) => Cardinality(Finals) <= 2]_vars

(***************************************************************************)
(* `send_latest` throws a job away only for a newer one that it holds, and *)
(* never that one, however the writer takes jobs from under it: the last   *)
(* index asked for reaches the writer.                                     *)
(***************************************************************************)
DroppedForNewer ==
  [][\A s \in Servers :
       loop'[s] # NewLoop =>
         /\ loop[s].sending # None /\ loop'[s].sending = None => queue'[s] = loop[s].sending
         /\ queue[s] # None /\ queue'[s] = None =>
              \/ loop[s].sending # None
              \/ writer'[s].job = queue[s]
              \/ loop[s].epoch # queue[s].ticket]_vars

(***************************************************************************)
(* No crash and no failed operation leaves the lock behind: whoever holds  *)
(* it is a writer on its way from publishing to the end of its pruning, so *)
(* that a waiting writer gets its turn.                                    *)
(***************************************************************************)
LockIsHeldByPublisher ==
  \A s \in Servers :
    /\ writer[s].at \in {"publish", "point", "repoint", "clean"} => lock = s
    /\ lock = s => writer[s].at \in {"publish", "point", "repoint", "clean", "remove"}

(***************************************************************************)
(* The cache is a register (see CacheRegister): a hit is the very snapshot *)
(* that was published when the read began, and was made for the reader's   *)
(* key, though its files may be removed and others published meanwhile.    *)
(***************************************************************************)
Published == IF current = None THEN None ELSE SnapshotIn(current)
Reading ==
  [r \in Readers |->
     IF reader[r].at = "idle" THEN None ELSE [key |-> reader[r].key, seen |-> reader[r].seen]]
Got == [r \in Readers |-> reader[r].got]

Register == INSTANCE CacheRegister WITH value <- Published, reading <- Reading, got <- Got

ImplementsRegister == Register!Spec

(***************************************************************************)
(* docs/index-cache.md: "The generation ID prevents a late worker from     *)
(* replacing an index loaded after a newer build or branch switch."  Not   *)
(* so between processes: the shards are looked at before the lock is held. *)
(***************************************************************************)
LateWriterReplacesNothingNewer ==
  [][current # None /\ current' # None =>
       dir[current'].manifest.shards >= dir[current].manifest.shards]_vars

=============================================================================
