------------------------------- MODULE CacheProofs -------------------------------
(***************************************************************************)
(* The index cache, for any number of servers, readers, commits, builds    *)
(* and faults: what CURRENT names is whole, the lock is held by a writer   *)
(* that is publishing, and the cache implements a register.                *)
(***************************************************************************)
EXTENDS IndexCache, FiniteSetTheorems, TLAPS

Working == {"serialize", "scan", "confirm", "lock", "publish", "point", "repoint"}

HasBoth(n) == dir[n].manifest # None /\ dir[n].index = dir[n].manifest.shards

(* A writer at work owns a directory that CURRENT does not name, and has   *)
(* done to it what its place in `store` says.                              *)
Owns(s) ==
  LET w == writer[s]
  IN  w.at \in Working =>
        /\ w.job \in Job /\ w.name \in Names
        /\ w.name # current
        /\ dir[w.name].state = IF w.at \in {"point", "repoint"} THEN "final" ELSE "staging"
        /\ w.at \in {"scan", "confirm"} => dir[w.name].index = w.job.shards
        /\ w.at \in {"lock", "publish", "point", "repoint"} => HasBoth(w.name)

Owned == \A s \in Servers : Owns(s)

(* Nobody else works on that directory or removes it. *)
Apart ==
  \A s, t \in Servers :
    writer[s].at \in Working =>
      /\ writer[t].at \in Working /\ s # t => writer[t].name # writer[s].name
      /\ writer[s].name \notin writer[t].remove

(* What a writer has condemned exists and is not what CURRENT names. *)
Condemned ==
  \A s \in Servers :
    \A n \in writer[s].remove : n # current /\ dir[n].state # "new"

(* A reader's directory is not written to any more, so what is left of it  *)
(* is what the reader saw published.                                       *)
ReaderKnows(r) ==
  LET d == dir[reader[r].name]
      seen == reader[r].seen
  IN  reader[r].at # "idle" =>
        /\ reader[r].name \in Names /\ reader[r].key \in Heads /\ seen \in Snapshot
        /\ d.state \in {"final", "removed"}
        /\ d.manifest # None => d.manifest = [head |-> seen.head, shards |-> seen.shards]
        /\ d.index # None => d.index = seen.index
        /\ reader[r].at = "index" =>
             /\ reader[r].manifest = [head |-> seen.head, shards |-> seen.shards]
             /\ seen.head = reader[r].key

ReadersKnow == \A r \in Readers : ReaderKnows(r)

Kept ==
  CurrentIsWhole /\ LockIsHeldByPublisher /\ Owned /\ Apart /\ Condemned /\ ReadersKnow

CacheInvariant == TypeOK /\ Kept

-----------------------------------------------------------------------------
(* Type correctness, one lemma per kind of step. *)

LEMMA LoopTypes ==
  ASSUME TypeOK, NEW s \in Servers, LoopStep(s)
  PROVE  TypeOK'
<1>1. CASE AskForWrite(s) BY <1>1, CacheAssumption DEF AskForWrite, TypeOK, Loop, Job, world
<1>2. CASE TrySend(s) BY <1>2 DEF TrySend, TypeOK, Loop, world
<1>3. CASE Evict(s) BY <1>3 DEF Evict, TypeOK, Loop, world
<1>4. CASE SupersedeWrites(s) BY <1>4 DEF SupersedeWrites, TypeOK, Loop, world
<1>5. CASE ConfirmEmpty(s) BY <1>5 DEF ConfirmEmpty, TypeOK, Loop, world
<1>6. CASE Invalidate(s) BY <1>6 DEF Invalidate, TypeOK, Loop, world
<1>7. CASE BumpEpoch(s) BY <1>7 DEF BumpEpoch, TypeOK, Loop, world
<1>8. QED BY <1>1, <1>2, <1>3, <1>4, <1>5, <1>6, <1>7 DEF LoopStep

(* Assignments to a field of a writer or of a directory. *)
LEMMA WriterGoes ==
  ASSUME writer \in [Servers -> Writer], NEW s \in Servers,
         NEW at \in {"idle", "serialize", "scan", "confirm", "lock", "publish", "point",
                     "repoint", "clean", "remove"},
         WriterGoesTo(s, at)
  PROVE  writer' \in [Servers -> Writer]
BY DEF WriterGoesTo, Writer

LEMMA StateField ==
  ASSUME dir \in [Names -> Directory], NEW n \in Names,
         NEW x \in {"new", "staging", "final", "removed"}, dir' = [dir EXCEPT ![n].state = x]
  PROVE  dir' \in [Names -> Directory]
BY DEF Directory

LEMMA IndexField ==
  ASSUME dir \in [Names -> Directory], NEW n \in Names, NEW x \in Nat \union {None},
         dir' = [dir EXCEPT ![n].index = x]
  PROVE  dir' \in [Names -> Directory]
BY DEF Directory

LEMMA ManifestField ==
  ASSUME dir \in [Names -> Directory], NEW n \in Names, NEW x \in Manifest \union {None},
         dir' = [dir EXCEPT ![n].manifest = x]
  PROVE  dir' \in [Names -> Directory]
BY DEF Directory

LEMMA RemoveField ==
  ASSUME writer \in [Servers -> Writer], NEW s \in Servers, NEW x \in SUBSET Names,
         \/ writer' = [writer EXCEPT ![s].at = "remove", ![s].remove = x]
         \/ writer' = [writer EXCEPT ![s].remove = x]
  PROVE  writer' \in [Servers -> Writer]
BY DEF Writer

LEMMA FailTypes ==
  ASSUME TypeOK, NEW s \in Servers, writer[s].name \in Names, WriterFails(s)
  PROVE  /\ writer' \in [Servers -> Writer] /\ lock' \in Servers \union {None}
         /\ dir' = dir /\ current' = current
<1>1. {writer[s].name} \in SUBSET Names OBVIOUS
<1>2. QED BY <1>1, RemoveField DEF WriterFails, TypeOK

LEMMA WriterTypes ==
  ASSUME TypeOK, Owned, NEW s \in Servers, WriterStep(s)
  PROVE  TypeOK'
<1> USE DEF TypeOK, world
<1>0. writer[s].at \in Working => writer[s].job \in Job /\ writer[s].name \in Names
  BY DEF Owned, Owns
<1>1. CASE WriterTakes(s)
  <2>1. CASE loop[s].epoch = queue[s].ticket
    <3>1. PICK n \in Names :
            /\ dir' = [dir EXCEPT ![n].state = "staging"]
            /\ writer' = [writer EXCEPT ![s] = [IdleWriter EXCEPT !.at = "serialize",
                                                                  !.job = queue[s], !.name = n]]
      BY <1>1, <2>1 DEF WriterTakes
    <3>2. dir' \in [Names -> Directory] BY <3>1, StateField
    <3>3. [IdleWriter EXCEPT !.at = "serialize", !.job = queue[s], !.name = n] \in Writer
      BY DEF IdleWriter, Writer
    <3>4. QED BY <1>1, <3>1, <3>2, <3>3 DEF WriterTakes
  <2>2. CASE loop[s].epoch # queue[s].ticket
    BY <1>1, <2>2 DEF WriterTakes
  <2>3. QED BY <2>1, <2>2
<1>2. CASE WriterSerializes(s)
  <2>1. CASE IsCurrent(s)
    <3>1. writer' \in [Servers -> Writer] BY <1>2, <2>1, WriterGoes DEF WriterSerializes
    <3>2. dir' \in [Names -> Directory]
      BY <1>0, <1>2, <2>1, IndexField DEF WriterSerializes, Working, Job
    <3>3. QED BY <1>2, <2>1, <3>1, <3>2 DEF WriterSerializes
  <2>2. CASE ~IsCurrent(s)
    BY <1>0, <1>2, <2>2, FailTypes DEF WriterSerializes, Working
  <2>3. QED BY <2>1, <2>2
<1>3. CASE WriterScans(s)
  <2>1. CASE shards = writer[s].job.shards
    BY <1>3, <2>1, WriterGoes DEF WriterScans
  <2>2. CASE shards # writer[s].job.shards
    BY <1>0, <1>3, <2>2, FailTypes DEF WriterScans, Working
  <2>3. QED BY <2>1, <2>2
<1>4. CASE WriterConfirms(s)
  <2>1. CASE KeyStillCurrent(s) /\ IsCurrent(s)
    <3>1. writer' \in [Servers -> Writer] BY <1>4, <2>1, WriterGoes DEF WriterConfirms
    <3>2. [head |-> writer[s].job.head, shards |-> writer[s].job.shards] \in Manifest
      BY <1>0, <1>4 DEF WriterConfirms, Working, Job, Manifest
    <3>3. dir' \in [Names -> Directory]
      BY <1>0, <1>4, <2>1, <3>2, ManifestField DEF WriterConfirms, Working
    <3>4. QED BY <1>4, <2>1, <3>1, <3>3 DEF WriterConfirms
  <2>2. CASE ~(KeyStillCurrent(s) /\ IsCurrent(s))
    BY <1>0, <1>4, <2>2, FailTypes DEF WriterConfirms, Working
  <2>3. QED BY <2>1, <2>2
<1>5. CASE WriterLocks(s) BY <1>5, WriterGoes DEF WriterLocks
<1>6. CASE WriterPublishes(s)
  <2>1. CASE IsCurrent(s) /\ KeyStillCurrent(s)
    <3>1. writer' \in [Servers -> Writer] BY <1>6, <2>1, WriterGoes DEF WriterPublishes
    <3>2. dir' \in [Names -> Directory]
      BY <1>0, <1>6, <2>1, StateField DEF WriterPublishes, Working
    <3>3. QED BY <1>6, <2>1, <3>1, <3>2 DEF WriterPublishes
  <2>2. CASE ~(IsCurrent(s) /\ KeyStillCurrent(s))
    BY <1>0, <1>6, <2>2, FailTypes DEF WriterPublishes, Working
  <2>3. QED BY <2>1, <2>2
<1>7. CASE WriterPoints(s)
  <2>1. CASE IsCurrent(s) /\ KeyStillCurrent(s)
    BY <1>7, <2>1, WriterGoes DEF WriterPoints
  <2>2. CASE ~(IsCurrent(s) /\ KeyStillCurrent(s))
    BY <1>0, <1>7, <2>2, FailTypes DEF WriterPoints, Working
  <2>3. QED BY <2>1, <2>2
<1>8. CASE WriterRepoints(s)
  <2>1. writer' \in [Servers -> Writer] BY <1>8, WriterGoes DEF WriterRepoints
  <2>2. QED BY <1>0, <1>8, <2>1 DEF WriterRepoints, Working
<1>9. CASE WriterCleans(s)
  <2>1. Pruned \in SUBSET Names BY DEF Pruned, Finals
  <2>2. QED BY <1>9, <2>1, RemoveField DEF WriterCleans
<1>10. CASE WriterRemoves(s)
  <2>1. PICK n \in writer[s].remove :
          \/ dir' = [dir EXCEPT ![n].index = None] /\ UNCHANGED writer
          \/ dir' = [dir EXCEPT ![n].manifest = None] /\ UNCHANGED writer
          \/ /\ dir' = [dir EXCEPT ![n].state = "removed"]
             /\ writer' = [writer EXCEPT ![s].remove = @ \ {n}]
    BY <1>10 DEF WriterRemoves
  <2>2. n \in Names /\ writer[s].remove \ {n} \in SUBSET Names BY DEF Writer
  <2>3. dir' \in [Names -> Directory] BY <2>1, <2>2, StateField, IndexField, ManifestField
  <2>4. writer' \in [Servers -> Writer] BY <2>1, <2>2, RemoveField
  <2>5. QED BY <1>10, <2>3, <2>4 DEF WriterRemoves
<1>11. CASE WriterEnds(s) BY <1>11 DEF WriterEnds, IdleWriter, Writer
<1>12. QED
  BY <1>1, <1>2, <1>3, <1>4, <1>5, <1>6, <1>7, <1>8, <1>9, <1>10, <1>11 DEF WriterStep

LEMMA FaultTypes ==
  ASSUME TypeOK, Owned, NEW s \in Servers, FileOperationFails(s) \/ Crash(s)
  PROVE  TypeOK'
<1>1. CASE FileOperationFails(s)
  <2>1. writer[s].name \in Names
    BY <1>1 DEF FileOperationFails, Owned, Owns, Working
  <2>2. QED BY <1>1, <2>1, FailTypes DEF FileOperationFails, Fault, TypeOK, world
<1>2. CASE Crash(s)
  BY <1>2 DEF Crash, Fault, TypeOK, NewLoop, Loop, IdleWriter, Writer, world
<1>3. QED BY <1>1, <1>2

LEMMA ReaderTypes ==
  ASSUME TypeOK, ReadersKnow, CurrentIsWhole, NEW r \in Readers, ReaderStep(r)
  PROVE  TypeOK'
<1> USE DEF TypeOK, Reader, IdleReader, ReaderMisses, world
<1>1. CASE ReadPointer(r)
  <2>1. CASE current = None BY <1>1, <2>1 DEF ReadPointer
  <2>2. CASE current # None
    <3>1. SnapshotIn(current) \in Snapshot
      BY <2>2, CacheAssumption DEF CurrentIsWhole, SnapshotIn, Directory, Manifest, Snapshot
    <3>2. PICK key \in Heads :
            reader' = [reader EXCEPT ![r] = [IdleReader EXCEPT !.at = "manifest", !.key = key,
                                                               !.name = current,
                                                               !.seen = SnapshotIn(current)]]
      BY <1>1, <2>2 DEF ReadPointer
    <3>3. [IdleReader EXCEPT !.at = "manifest", !.key = key, !.name = current,
                             !.seen = SnapshotIn(current)] \in Reader
      BY <2>2, <3>1
    <3>4. reader' \in [Readers -> Reader] BY <3>2, <3>3
    <3>5. QED BY <1>1, <3>4 DEF ReadPointer
  <2>3. QED BY <2>1, <2>2
<1>2. CASE ReadManifest(r)
  <2>1. reader[r].name \in Names
    BY <1>2 DEF ReadManifest, ReadersKnow, ReaderKnows
  <2>2. QED BY <1>2, <2>1 DEF ReadManifest, Directory
<1>3. CASE ReadIndex(r)
  <2>1. reader[r].name \in Names /\ reader[r].seen \in Snapshot
        /\ reader[r].manifest = [head |-> reader[r].seen.head, shards |-> reader[r].seen.shards]
    BY <1>3 DEF ReadIndex, ReadersKnow, ReaderKnows
  <2>2. QED BY <1>3, <2>1 DEF ReadIndex, Directory, Snapshot
<1>4. QED BY <1>1, <1>2, <1>3 DEF ReaderStep

-----------------------------------------------------------------------------
(* Steps of the loop and of the world leave all files alone but CURRENT,   *)
(* which they can only remove.                                             *)

LEMMA QuietKeeps ==
  ASSUME CacheInvariant, UNCHANGED <<dir, lock, writer, reader>>, current' \in {current, None}
  PROVE  Kept'
<1> USE DEF CacheInvariant, Kept
<1>0. None \notin Names BY CacheAssumption DEF Names
<1>1. CurrentIsWhole' BY DEF CurrentIsWhole
<1>2. LockIsHeldByPublisher' BY DEF LockIsHeldByPublisher
<1>3. Owned' BY <1>0 DEF Owned, Owns, HasBoth
<1>4. Apart' BY DEF Apart
<1>5. Condemned' BY <1>0 DEF Condemned, TypeOK, Writer
<1>6. ReadersKnow' BY DEF ReadersKnow, ReaderKnows
<1>7. QED BY <1>1, <1>2, <1>3, <1>4, <1>5, <1>6

LEMMA LoopKeeps ==
  ASSUME CacheInvariant, NEW s \in Servers, LoopStep(s)
  PROVE  Kept'
<1>1. UNCHANGED <<dir, lock, writer, reader>> /\ current' \in {current, None}
  BY DEF LoopStep, AskForWrite, TrySend, Evict, SupersedeWrites, ConfirmEmpty, Invalidate,
         BumpEpoch
<1>2. QED BY <1>1, QuietKeeps

(* A reader learns what CURRENT names, which is whole, and then looks only *)
(* into that directory.                                                    *)
LEMMA ReaderKeeps ==
  ASSUME CacheInvariant, NEW r \in Readers, ReaderStep(r)
  PROVE  Kept'
<1> USE DEF CacheInvariant, Kept
<1>1. UNCHANGED <<dir, current, lock, writer>>
  BY DEF ReaderStep, ReadPointer, ReadManifest, ReadIndex
<1>2. CurrentIsWhole' /\ LockIsHeldByPublisher' /\ Owned' /\ Apart' /\ Condemned'
  BY <1>1 DEF CurrentIsWhole, LockIsHeldByPublisher, Owned, Owns, HasBoth, Apart, Condemned
<1>3. \A q \in Readers \ {r} : reader'[q] = reader[q]
  BY DEF ReaderStep, ReadPointer, ReadManifest, ReadIndex, ReaderMisses, TypeOK
<1>4. ReaderKnows(r)'
  <2>1. CASE reader' = [reader EXCEPT ![r] = IdleReader]
    BY <2>1 DEF ReaderKnows, IdleReader, TypeOK
  <2>2. CASE ReadPointer(r) /\ current # None
    <3>1. PICK key \in Heads :
            reader' = [reader EXCEPT ![r] = [IdleReader EXCEPT !.at = "manifest", !.key = key,
                                                               !.name = current,
                                                               !.seen = SnapshotIn(current)]]
      BY <2>2 DEF ReadPointer
    <3>2. reader'[r] = [at |-> "manifest", key |-> key, name |-> current, manifest |-> None,
                        seen |-> SnapshotIn(current), got |-> None]
      BY <3>1 DEF TypeOK, IdleReader
    <3>3. current \in Names /\ dir[current] \in Directory /\ dir[current].state = "final"
          /\ dir[current].manifest \in Manifest
          /\ dir[current].index = dir[current].manifest.shards
      BY <2>2 DEF TypeOK, CurrentIsWhole, Directory
    <3>4. SnapshotIn(current) \in Snapshot
      BY <3>3 DEF SnapshotIn, Manifest, Snapshot
    <3>5. dir[current].manifest = [head |-> SnapshotIn(current).head,
                                   shards |-> SnapshotIn(current).shards]
          /\ dir[current].index = SnapshotIn(current).index
      BY <3>3 DEF SnapshotIn, Manifest
    <3>6. QED BY <1>1, <3>2, <3>3, <3>4, <3>5 DEF ReaderKnows
  <2>3. CASE reader[r].at = "manifest"
             /\ dir[reader[r].name].manifest # None
             /\ dir[reader[r].name].manifest.head = reader[r].key
             /\ reader' = [reader EXCEPT ![r].at = "index",
                                         ![r].manifest = dir[reader[r].name].manifest]
    <3>1. ReaderKnows(r) BY DEF ReadersKnow
    <3>2. reader'[r] = [reader[r] EXCEPT !.at = "index",
                                         !.manifest = dir[reader[r].name].manifest]
      BY <2>3 DEF TypeOK
    <3>3. QED BY <1>1, <2>3, <3>1, <3>2 DEF ReaderKnows, TypeOK, Reader
  <2>4. CASE \E x : reader' = [reader EXCEPT ![r] = [IdleReader EXCEPT !.got = x]]
    BY <2>4 DEF ReaderKnows, IdleReader, TypeOK
  <2>5. QED
    BY <2>1, <2>2, <2>3, <2>4 DEF ReaderStep, ReadPointer, ReadManifest, ReadIndex, ReaderMisses
<1>5. ReadersKnow' BY <1>1, <1>3, <1>4 DEF ReadersKnow, ReaderKnows
<1>6. QED BY <1>2, <1>5

-----------------------------------------------------------------------------
(* The writer.  Another writer still owns its directory, and a reader still *)
(* knows its own, when neither has been touched.                           *)

LEMMA OthersOwn ==
  ASSUME Owned, NEW s \in Servers,
         \A t \in Servers \ {s} :
           /\ writer'[t] = writer[t]
           /\ writer[t].at \in Working =>
                /\ writer[t].name # current'
                /\ dir'[writer[t].name] = dir[writer[t].name],
         Owns(s)'
  PROVE  Owned'
BY DEF Owned, Owns, HasBoth

LEMMA ReadersStillKnow ==
  ASSUME ReadersKnow, UNCHANGED reader,
         \A n \in Names : dir[n].state \in {"final", "removed"} => dir'[n] = dir[n]
  PROVE  ReadersKnow'
BY DEF ReadersKnow, ReaderKnows

LEMMA FailKeeps ==
  ASSUME CacheInvariant, NEW s \in Servers, writer[s].at \in Working, WriterFails(s),
         UNCHANGED reader
  PROVE  Kept'
<1> USE DEF CacheInvariant, Kept
<1>1. UNCHANGED <<dir, current>> BY DEF WriterFails
<1>2. \A t \in Servers \ {s} : writer'[t] = writer[t] BY DEF WriterFails, TypeOK
<1>3. writer'[s] = [writer[s] EXCEPT !.at = "remove", !.remove = {writer[s].name}]
  BY DEF WriterFails, TypeOK
<1>4. writer'[s].at = "remove" /\ writer'[s].remove = {writer[s].name}
  BY <1>3 DEF TypeOK, Writer
<1>5. CurrentIsWhole' BY <1>1 DEF CurrentIsWhole
<1>6. LockIsHeldByPublisher'
  BY <1>2, <1>4, CacheAssumption DEF LockIsHeldByPublisher, WriterFails
<1>7. Owned'
  <2>1. Owns(s)' BY <1>4 DEF Owns, Working
  <2>2. \A t \in Servers \ {s} : writer[t].at \in Working => writer[t].name # current'
    BY <1>1 DEF Owned, Owns
  <2>3. QED BY <1>1, <1>2, <2>1, <2>2, OthersOwn
<1>8. Apart' BY <1>2, <1>4 DEF Apart, Working
<1>9. Condemned'
  <2>1. writer[s].name # current /\ dir[writer[s].name].state # "new" BY DEF Owned, Owns
  <2>2. QED BY <1>1, <1>2, <1>4, <2>1 DEF Condemned
<1>10. ReadersKnow' BY <1>1 DEF ReadersKnow, ReaderKnows
<1>11. QED BY <1>5, <1>6, <1>7, <1>8, <1>9, <1>10

LEMMA TakeKeeps ==
  ASSUME CacheInvariant, NEW s \in Servers, WriterTakes(s)
  PROVE  Kept'
<1> USE DEF CacheInvariant, Kept
<1>1. CASE loop[s].epoch # queue[s].ticket
  BY <1>1, QuietKeeps DEF WriterTakes
<1>2. CASE loop[s].epoch = queue[s].ticket
  <2>1. PICK n \in Names :
          /\ dir[n].state = "new"
          /\ dir' = [dir EXCEPT ![n].state = "staging"]
          /\ writer' = [writer EXCEPT ![s] = [IdleWriter EXCEPT !.at = "serialize",
                                                                !.job = queue[s], !.name = n]]
    BY <1>2 DEF WriterTakes
  <2>2. UNCHANGED <<current, lock, reader>> /\ writer[s].at = "idle" /\ queue[s] # None
    BY DEF WriterTakes
  <2>3. /\ \A m \in Names \ {n} : dir'[m] = dir[m]
        /\ dir'[n].state = "staging"
    BY <2>1 DEF TypeOK, Directory
  <2>4. \A t \in Servers \ {s} : writer'[t] = writer[t] BY <2>1 DEF TypeOK
  <2>5. /\ writer'[s].at = "serialize" /\ writer'[s].job = queue[s]
        /\ writer'[s].name = n /\ writer'[s].remove = {}
    BY <2>1 DEF TypeOK, IdleWriter
  <2>6. n # current
    <3>1. current \in Names => dir[current].state = "final" BY CacheAssumption DEF CurrentIsWhole, Names
    <3>2. QED BY <2>1, <3>1
  <2>7. \A t \in Servers : writer[t].at \in Working => writer[t].name \in Names \ {n}
    BY <2>1 DEF Owned, Owns
  <2>8. \A t \in Servers : n \notin writer[t].remove BY <2>1 DEF Condemned
  <2>9. CurrentIsWhole' BY <2>2, <2>3, <2>6 DEF CurrentIsWhole, TypeOK
  <2>10. LockIsHeldByPublisher' BY <2>2, <2>4, <2>5 DEF LockIsHeldByPublisher
  <2>11. Owned'
    <3>1. queue[s] \in Job BY <2>2 DEF TypeOK
    <3>2. Owns(s)' BY <2>2, <2>3, <2>5, <2>6, <3>1 DEF Owns
    <3>3. \A t \in Servers \ {s} : writer[t].at \in Working => writer[t].name # current'
      BY <2>2 DEF Owned, Owns
    <3>4. QED BY <2>3, <2>4, <2>7, <3>2, <3>3, OthersOwn
  <2>12. Apart' BY <2>4, <2>5, <2>7, <2>8 DEF Apart
  <2>13. Condemned' BY <2>2, <2>3, <2>4, <2>5, <2>8 DEF Condemned, TypeOK, Writer
  <2>14. ReadersKnow' BY <2>1, <2>2, <2>3, ReadersStillKnow
  <2>15. QED BY <2>9, <2>10, <2>11, <2>12, <2>13, <2>14
<1>3. QED BY <1>1, <1>2

(* A step of `store` that works on the staging directory, or on none.      *)
LEMMA StageKeeps ==
  ASSUME CacheInvariant, NEW s \in Servers, writer[s].at \in Working,
         dir[writer[s].name].state = "staging" \/ UNCHANGED dir,
         NEW at \in Working, WriterGoesTo(s, at),
         UNCHANGED <<current, lock, reader>>,
         \A m \in Names \ {writer[s].name} : dir'[m] = dir[m],
         dir'[writer[s].name].state # "new",
         Owns(s)',
         at \in {"publish", "point", "repoint"} => lock = s,
         lock = s => at \in {"publish", "point", "repoint"}
  PROVE  Kept'
<1> USE DEF CacheInvariant, Kept
<1>1. \A t \in Servers \ {s} : writer'[t] = writer[t] BY DEF WriterGoesTo, TypeOK
<1>2. writer'[s] = [writer[s] EXCEPT !.at = at] BY DEF WriterGoesTo, TypeOK
<1>3. writer'[s].at = at /\ writer'[s].name = writer[s].name
      /\ writer'[s].remove = writer[s].remove
  BY <1>2 DEF TypeOK, Writer
<1>4. writer[s].name \in Names /\ writer[s].name # current BY DEF Owned, Owns
<1>5. CurrentIsWhole' BY <1>4 DEF CurrentIsWhole, TypeOK
<1>6. LockIsHeldByPublisher' BY <1>1, <1>3 DEF LockIsHeldByPublisher, Working
<1>7. Owned'
  <2>1. \A t \in Servers \ {s} : writer[t].at \in Working =>
          writer[t].name # current' /\ writer[t].name \in Names \ {writer[s].name}
    BY DEF Owned, Owns, Apart
  <2>2. QED BY <1>1, <2>1, OthersOwn
<1>8. Apart' BY <1>1, <1>3 DEF Apart
<1>9. Condemned'
  <2>1. \A t \in Servers : writer'[t].remove = writer[t].remove BY <1>1, <1>3
  <2>2. \A m \in Names : dir[m].state # "new" => dir'[m].state # "new" BY DEF TypeOK
  <2>3. QED BY <2>1, <2>2 DEF Condemned, TypeOK, Writer
<1>10. ReadersKnow' BY ReadersStillKnow
<1>11. QED BY <1>5, <1>6, <1>7, <1>8, <1>9, <1>10

(* What is known of a writer at work, and of the directory it has written. *)
LEMMA AtWork ==
  ASSUME CacheInvariant, NEW s \in Servers, writer[s].at \in Working
  PROVE  /\ Owns(s)
         /\ writer[s].name \in Names /\ writer[s].job \in Job
         /\ dir[writer[s].name] \in Directory
         /\ writer[s].job.shards \in Nat /\ writer[s].job.head \in Heads
BY DEF CacheInvariant, Kept, Owned, Owns, TypeOK, Job

LEMMA Moved ==
  ASSUME TypeOK, NEW s \in Servers, NEW at, WriterGoesTo(s, at)
  PROVE  /\ writer'[s].at = at /\ writer'[s].job = writer[s].job
         /\ writer'[s].name = writer[s].name /\ writer'[s].remove = writer[s].remove
BY DEF WriterGoesTo, TypeOK, Writer

LEMMA StoreKeeps ==
  ASSUME CacheInvariant, NEW s \in Servers,
         \/ WriterSerializes(s) \/ WriterScans(s) \/ WriterConfirms(s) \/ WriterLocks(s)
         \/ WriterPublishes(s) \/ WriterPoints(s)
  PROVE  Kept'
<1> DEFINE n == writer[s].name
<1>1. writer[s].at \in Working /\ UNCHANGED reader
  BY DEF WriterSerializes, WriterScans, WriterConfirms, WriterLocks, WriterPublishes,
         WriterPoints, Working
<1>2. CASE WriterFails(s) BY <1>1, <1>2, FailKeeps
<1>3. /\ Owns(s) /\ TypeOK /\ LockIsHeldByPublisher
      /\ n \in Names /\ writer[s].job \in Job /\ dir[n] \in Directory
      /\ writer[s].job.shards \in Nat /\ writer[s].job.head \in Heads
      /\ lock # None => lock \in Servers
  BY <1>1, AtWork DEF CacheInvariant, Kept, TypeOK
<1>4. lock = s <=> writer[s].at \in {"publish", "point", "repoint"}
  BY <1>1, <1>3 DEF LockIsHeldByPublisher, Working
<1>5. CASE WriterSerializes(s) /\ ~WriterFails(s)
  <2>1. /\ dir' = [dir EXCEPT ![n].index = writer[s].job.shards]
        /\ WriterGoesTo(s, "scan") /\ UNCHANGED <<current, lock>>
    BY <1>5 DEF WriterSerializes
  <2>2. \A m \in Names \ {n} : dir'[m] = dir[m] BY <2>1 DEF CacheInvariant, TypeOK
  <2>3. dir'[n].index = writer[s].job.shards /\ dir'[n].state = dir[n].state
    BY <1>3, <2>1 DEF TypeOK, Directory
  <2>4. dir[n].state = "staging" BY <1>3, <1>5 DEF Owns, WriterSerializes, Working
  <2>5. Owns(s)' BY <1>3, <1>1, <2>1, <2>3, <2>4, Moved DEF Owns
  <2>6. "scan" \in Working /\ dir'[n].state # "new" /\ lock # s
    BY <1>4, <1>5, <2>3, <2>4 DEF Working, WriterSerializes
  <2>7. QED BY <1>1, <2>1, <2>2, <2>4, <2>5, <2>6, StageKeeps
<1>6. CASE WriterScans(s) /\ ~WriterFails(s)
  <2>1. UNCHANGED <<dir, current, lock>> /\ WriterGoesTo(s, "confirm")
    BY <1>6 DEF WriterScans
  <2>2. dir[n].state = "staging" /\ Owns(s)'
    BY <1>1, <1>3, <1>6, <2>1, Moved DEF Owns, WriterScans, Working
  <2>3. "confirm" \in Working /\ lock # s BY <1>4, <1>6 DEF Working, WriterScans
  <2>4. QED BY <1>1, <2>1, <2>2, <2>3, StageKeeps
<1>7. CASE WriterConfirms(s) /\ ~WriterFails(s)
  <2> DEFINE m == [head |-> writer[s].job.head, shards |-> writer[s].job.shards]
  <2>1. /\ dir' = [dir EXCEPT ![n].manifest = m]
        /\ WriterGoesTo(s, "lock") /\ UNCHANGED <<current, lock>>
    BY <1>7 DEF WriterConfirms
  <2>2. \A k \in Names \ {n} : dir'[k] = dir[k] BY <2>1 DEF CacheInvariant, TypeOK
  <2>3. dir'[n].manifest = m /\ dir'[n].index = dir[n].index /\ dir'[n].state = dir[n].state
    BY <1>3, <2>1 DEF TypeOK, Directory
  <2>4. dir[n].state = "staging" /\ dir[n].index = writer[s].job.shards
    BY <1>3, <1>7 DEF Owns, WriterConfirms, Working
  <2>5. m # None BY <1>3, CacheAssumption DEF Manifest
  <2>6. Owns(s)' BY <1>1, <1>3, <2>1, <2>3, <2>4, <2>5, Moved DEF Owns, HasBoth
  <2>7. "lock" \in Working /\ dir'[n].state # "new" /\ lock # s
    BY <1>4, <1>7, <2>3, <2>4 DEF Working, WriterConfirms
  <2>8. QED BY <1>1, <2>1, <2>2, <2>4, <2>6, <2>7, StageKeeps
<1>8. CASE WriterLocks(s)
  <2>1. UNCHANGED <<dir, current>> /\ WriterGoesTo(s, "publish") /\ lock = None /\ lock' = s
    BY <1>8 DEF WriterLocks
  <2>2. UNCHANGED reader BY <1>1
  <2>3. \A t \in Servers \ {s} : writer'[t] = writer[t]
    BY <2>1 DEF WriterGoesTo, CacheInvariant, TypeOK
  <2>4. /\ writer'[s].at = "publish" /\ writer'[s].job = writer[s].job
        /\ writer'[s].name = n /\ writer'[s].remove = writer[s].remove
    BY <1>3, <2>1, Moved
  <2> USE DEF CacheInvariant, Kept
  <2>5. CurrentIsWhole' BY <2>1 DEF CurrentIsWhole
  <2>6. LockIsHeldByPublisher'
    BY <2>1, <2>3, <2>4, CacheAssumption DEF LockIsHeldByPublisher
  <2>7. Owned'
    <3>1. Owns(s)' BY <1>3, <1>8, <2>1, <2>4 DEF Owns, HasBoth, WriterLocks, Working
    <3>2. \A t \in Servers \ {s} : writer[t].at \in Working => writer[t].name # current'
      BY <2>1 DEF Owned, Owns
    <3>3. QED BY <2>1, <2>3, <3>1, <3>2, OthersOwn
  <2>8. Apart' BY <1>1, <2>3, <2>4 DEF Apart
  <2>9. Condemned' BY <2>1, <2>3, <2>4 DEF Condemned
  <2>10. ReadersKnow' BY <2>1, <2>2 DEF ReadersKnow, ReaderKnows
  <2>11. QED BY <2>5, <2>6, <2>7, <2>8, <2>9, <2>10
<1>9. CASE WriterPublishes(s) /\ ~WriterFails(s)
  <2>1. /\ dir' = [dir EXCEPT ![n].state = "final"]
        /\ WriterGoesTo(s, "point") /\ UNCHANGED <<current, lock>>
    BY <1>9 DEF WriterPublishes
  <2>2. \A k \in Names \ {n} : dir'[k] = dir[k] BY <2>1 DEF CacheInvariant, TypeOK
  <2>3. dir'[n].manifest = dir[n].manifest /\ dir'[n].index = dir[n].index
        /\ dir'[n].state = "final"
    BY <1>3, <2>1 DEF TypeOK, Directory
  <2>4. dir[n].state = "staging" /\ HasBoth(n)
    BY <1>3, <1>9 DEF Owns, WriterPublishes, Working
  <2>5. Owns(s)' BY <1>1, <1>3, <2>1, <2>3, <2>4, Moved DEF Owns, HasBoth
  <2>6. "point" \in Working /\ lock = s BY <1>4, <1>9 DEF Working, WriterPublishes
  <2>7. QED BY <1>1, <2>1, <2>2, <2>3, <2>4, <2>5, <2>6, StageKeeps
<1>10. CASE WriterPoints(s) /\ ~WriterFails(s)
  <2>1. UNCHANGED <<dir, current, lock>> /\ WriterGoesTo(s, "repoint")
    BY <1>10 DEF WriterPoints
  <2>2. dir[n].state # "new" /\ Owns(s)'
    BY <1>1, <1>3, <1>10, <2>1, Moved DEF Owns, HasBoth, WriterPoints, Working
  <2>3. "repoint" \in Working /\ lock = s BY <1>4, <1>10 DEF Working, WriterPoints
  <2>4. QED BY <1>1, <2>1, <2>2, <2>3, StageKeeps
<1>11. QED BY <1>2, <1>5, <1>6, <1>7, <1>8, <1>9, <1>10

(* The directory that becomes CURRENT is whole and nobody has condemned it. *)
LEMMA RepointKeeps ==
  ASSUME CacheInvariant, NEW s \in Servers, WriterRepoints(s)
  PROVE  Kept'
<1> USE DEF CacheInvariant, Kept
<1>1. /\ UNCHANGED <<dir, lock, reader>> /\ current' = writer[s].name
      /\ WriterGoesTo(s, "clean") /\ writer[s].at = "repoint"
  BY DEF WriterRepoints
<1>2. \A t \in Servers \ {s} : writer'[t] = writer[t] BY <1>1 DEF WriterGoesTo, TypeOK
<1>3. writer'[s].at = "clean" /\ writer'[s].remove = writer[s].remove BY <1>1, Moved
<1>4. dir[writer[s].name].state = "final" /\ HasBoth(writer[s].name)
  BY <1>1 DEF Owned, Owns, Working
<1>5. CurrentIsWhole' BY <1>1, <1>4 DEF CurrentIsWhole, HasBoth
<1>6. LockIsHeldByPublisher' BY <1>1, <1>2, <1>3 DEF LockIsHeldByPublisher
<1>7. Owned'
  <2>1. Owns(s)' BY <1>3 DEF Owns, Working
  <2>2. \A t \in Servers \ {s} : writer[t].at \in Working => writer[t].name # current'
    BY <1>1 DEF Apart, Working
  <2>3. QED BY <1>1, <1>2, <2>1, <2>2, OthersOwn
<1>8. Apart' BY <1>2, <1>3 DEF Apart, Working
<1>9. Condemned' BY <1>1, <1>2, <1>3 DEF Condemned, Apart, Working
<1>10. ReadersKnow' BY <1>1 DEF ReadersKnow, ReaderKnows
<1>11. QED BY <1>5, <1>6, <1>7, <1>8, <1>9, <1>10

(* `cleanup` lists directories under the lock, so that no directory on its *)
(* way to CURRENT is among the final ones.                                 *)
LEMMA CleanKeeps ==
  ASSUME CacheInvariant, NEW s \in Servers, WriterCleans(s)
  PROVE  Kept'
<1> USE DEF CacheInvariant, Kept
<1>1. UNCHANGED <<dir, current, lock, reader>> /\ writer[s].at = "clean"
  BY DEF WriterCleans
<1>2. \A t \in Servers \ {s} : writer'[t] = writer[t] BY DEF WriterCleans, TypeOK
<1>3. writer'[s].at = "remove" /\ writer'[s].remove = Pruned
  BY DEF WriterCleans, TypeOK, Writer
<1>4. lock = s BY <1>1 DEF LockIsHeldByPublisher
<1>5. CurrentIsWhole' BY <1>1 DEF CurrentIsWhole
<1>6. LockIsHeldByPublisher' BY <1>1, <1>2, <1>3, <1>4 DEF LockIsHeldByPublisher
<1>7. Owned'
  <2>1. Owns(s)' BY <1>3 DEF Owns, Working
  <2>2. \A t \in Servers \ {s} : writer[t].at \in Working => writer[t].name # current'
    BY <1>1 DEF Owned, Owns
  <2>3. QED BY <1>1, <1>2, <2>1, <2>2, OthersOwn
<1>8. Apart'
  <2>1. \A t \in Servers : writer[t].at \in Working => writer[t].name \notin Pruned
    <3>1. SUFFICES ASSUME NEW t \in Servers, writer[t].at \in Working
                   PROVE  writer[t].name \notin Pruned
      OBVIOUS
    <3>2. writer[t].at \notin {"point", "repoint"}
      BY <1>1, <1>4 DEF LockIsHeldByPublisher
    <3>3. dir[writer[t].name].state = "staging" BY <3>1, <3>2 DEF Owned, Owns
    <3>4. QED BY <3>3 DEF Pruned, Finals
  <2>2. QED BY <1>2, <1>3, <2>1 DEF Apart, Working
<1>9. Condemned' BY <1>1, <1>2, <1>3 DEF Condemned, Pruned, Finals
<1>10. ReadersKnow' BY <1>1 DEF ReadersKnow, ReaderKnows
<1>11. QED BY <1>5, <1>6, <1>7, <1>8, <1>9, <1>10

LEMMA RemoveKeeps ==
  ASSUME CacheInvariant, NEW s \in Servers, WriterRemoves(s)
  PROVE  Kept'
<1> USE DEF CacheInvariant, Kept
<1>1. UNCHANGED <<current, lock, reader>> /\ writer[s].at = "remove"
  BY DEF WriterRemoves
<1>2. PICK n \in writer[s].remove :
        \/ dir' = [dir EXCEPT ![n].index = None] /\ UNCHANGED writer
        \/ dir' = [dir EXCEPT ![n].manifest = None] /\ UNCHANGED writer
        \/ /\ dir[n].index = None /\ dir[n].manifest = None
           /\ dir' = [dir EXCEPT ![n].state = "removed"]
           /\ writer' = [writer EXCEPT ![s].remove = @ \ {n}]
  BY DEF WriterRemoves
<1>3. n \in Names /\ n # current /\ dir[n].state # "new" BY DEF Condemned, TypeOK, Writer
<1>4. \A m \in Names \ {n} : dir'[m] = dir[m] BY <1>2 DEF TypeOK
<1>5. /\ dir'[n].state \in {dir[n].state, "removed"}
      /\ dir'[n].index \in {dir[n].index, None}
      /\ dir'[n].manifest \in {dir[n].manifest, None}
  <2>1. dir[n] \in Directory BY <1>3 DEF TypeOK
  <2>2. QED BY <1>2, <1>3, <2>1 DEF TypeOK, Directory
<1>6. /\ \A t \in Servers \ {s} : writer'[t] = writer[t]
      /\ writer'[s].at = "remove" /\ writer'[s].remove \subseteq writer[s].remove
  <2>1. writer[s] \in Writer BY DEF TypeOK
  <2>2. QED BY <1>1, <1>2, <2>1 DEF TypeOK, Writer
<1>7. CurrentIsWhole' BY <1>1, <1>3, <1>4 DEF CurrentIsWhole, TypeOK
<1>8. LockIsHeldByPublisher' BY <1>1, <1>6 DEF LockIsHeldByPublisher
<1>9. Owned'
  <2>1. Owns(s)' BY <1>6 DEF Owns, Working
  <2>2. \A t \in Servers \ {s} : writer[t].at \in Working =>
          writer[t].name # current' /\ writer[t].name \in Names \ {n}
    BY <1>1 DEF Owned, Owns, Apart
  <2>3. QED BY <1>4, <1>6, <2>1, <2>2, OthersOwn
<1>10. Apart' BY <1>6 DEF Apart, Working
<1>11. Condemned'
  <2>1. \A m \in Names : dir[m].state # "new" => dir'[m].state # "new" BY <1>4, <1>5
  <2>2. QED BY <1>1, <1>6, <2>1 DEF Condemned, TypeOK, Writer
<1>12. ReadersKnow'
  <2>1. SUFFICES ASSUME NEW r \in Readers PROVE ReaderKnows(r)'
    BY DEF ReadersKnow
  <2>2. ReaderKnows(r) BY DEF ReadersKnow
  <2>3. CASE reader[r].name = n BY <1>1, <1>5, <2>2, <2>3 DEF ReaderKnows
  <2>4. CASE reader[r].name # n BY <1>1, <1>4, <2>2, <2>4 DEF ReaderKnows
  <2>5. QED BY <2>3, <2>4
<1>13. QED BY <1>7, <1>8, <1>9, <1>10, <1>11, <1>12

(* A writer that ends, or whose process dies, leaves only files. *)
LEMMA ResetKeeps ==
  ASSUME CacheInvariant, NEW s \in Servers, UNCHANGED <<dir, current, reader>>,
         writer' = [writer EXCEPT ![s] = IdleWriter],
         lock' = IF lock = s THEN None ELSE lock
  PROVE  Kept'
<1> USE DEF CacheInvariant, Kept
<1>1. /\ \A t \in Servers \ {s} : writer'[t] = writer[t]
      /\ writer'[s].at = "idle" /\ writer'[s].remove = {}
  BY DEF TypeOK, IdleWriter
<1>2. CurrentIsWhole' BY DEF CurrentIsWhole
<1>3. LockIsHeldByPublisher' BY <1>1, CacheAssumption DEF LockIsHeldByPublisher
<1>4. Owned'
  <2>1. Owns(s)' BY <1>1 DEF Owns, Working
  <2>2. \A t \in Servers \ {s} : writer[t].at \in Working => writer[t].name # current'
    BY DEF Owned, Owns
  <2>3. QED BY <1>1, <2>1, <2>2, OthersOwn
<1>5. Apart' BY <1>1 DEF Apart, Working
<1>6. Condemned' BY <1>1 DEF Condemned
<1>7. ReadersKnow' BY DEF ReadersKnow, ReaderKnows
<1>8. QED BY <1>2, <1>3, <1>4, <1>5, <1>6, <1>7

-----------------------------------------------------------------------------
LEMMA InitKeeps == Init => CacheInvariant
<1> SUFFICES ASSUME Init PROVE CacheInvariant OBVIOUS
<1>1. TypeOK
  BY CacheAssumption
     DEF Init, TypeOK, Directory, NewLoop, Loop, IdleWriter, Writer, IdleReader, Reader
<1>2. /\ \A s \in Servers : writer[s].at = "idle" /\ writer[s].remove = {}
      /\ \A r \in Readers : reader[r].at = "idle"
      /\ current = None /\ lock = None
  BY DEF Init, IdleWriter, IdleReader
<1>3. Kept
  BY <1>2, CacheAssumption
     DEF Kept, CurrentIsWhole, LockIsHeldByPublisher, Owned, Owns, Working, Apart, Condemned,
         ReadersKnow, ReaderKnows
<1>4. QED BY <1>1, <1>3 DEF CacheInvariant

LEMMA StepKeeps == CacheInvariant /\ [Next]_vars => CacheInvariant'
<1> SUFFICES ASSUME CacheInvariant, [Next]_vars PROVE CacheInvariant' OBVIOUS
<1>0. TypeOK /\ Owned /\ ReadersKnow /\ CurrentIsWhole BY DEF CacheInvariant, Kept
<1>1. CASE BuildWrites
  <2>1. TypeOK' BY <1>0, <1>1 DEF BuildWrites, TypeOK, NoShards
  <2>2. Kept' BY <1>1, QuietKeeps DEF BuildWrites
  <2>3. QED BY <2>1, <2>2 DEF CacheInvariant
<1>2. CASE HeadMoves
  <2>1. TypeOK' BY <1>0, <1>2 DEF HeadMoves, TypeOK
  <2>2. Kept' BY <1>2, QuietKeeps DEF HeadMoves
  <2>3. QED BY <2>1, <2>2 DEF CacheInvariant
<1>3. ASSUME NEW s \in Servers, LoopStep(s) PROVE CacheInvariant'
  BY <1>0, <1>3, LoopTypes, LoopKeeps DEF CacheInvariant
<1>4. ASSUME NEW s \in Servers, WriterStep(s) PROVE CacheInvariant'
  <2>1. TypeOK' BY <1>0, <1>4, WriterTypes
  <2>2. Kept'
    <3>1. CASE WriterEnds(s) BY <3>1, ResetKeeps DEF WriterEnds
    <3>2. QED
      BY <1>4, <3>1, TakeKeeps, StoreKeeps, RepointKeeps, CleanKeeps, RemoveKeeps
         DEF WriterStep
  <2>3. QED BY <2>1, <2>2 DEF CacheInvariant
<1>5. ASSUME NEW s \in Servers, FileOperationFails(s) PROVE CacheInvariant'
  <2>1. TypeOK' BY <1>0, <1>5, FaultTypes
  <2>2. Kept' BY <1>5, FailKeeps DEF FileOperationFails, Working
  <2>3. QED BY <2>1, <2>2 DEF CacheInvariant
<1>6. ASSUME NEW s \in Servers, Crash(s) PROVE CacheInvariant'
  <2>1. TypeOK' BY <1>0, <1>6, FaultTypes
  <2>2. Kept' BY <1>6, ResetKeeps DEF Crash
  <2>3. QED BY <2>1, <2>2 DEF CacheInvariant
<1>7. ASSUME NEW r \in Readers, ReaderStep(r) PROVE CacheInvariant'
  BY <1>0, <1>7, ReaderTypes, ReaderKeeps DEF CacheInvariant
<1>8. CASE UNCHANGED vars
  <2>1. TypeOK' BY <1>0, <1>8 DEF vars, world, TypeOK
  <2>2. Kept' BY <1>8, QuietKeeps DEF vars
  <2>3. QED BY <2>1, <2>2 DEF CacheInvariant
<1>9. QED BY <1>1, <1>2, <1>3, <1>4, <1>5, <1>6, <1>7, <1>8 DEF Next

(***************************************************************************)
(* The invariant of the cache.                                             *)
(***************************************************************************)
THEOREM CacheInductive == Spec => []CacheInvariant
<1>1. QED BY InitKeeps, StepKeeps, PTL DEF Spec

(***************************************************************************)
(* Every variable keeps its type.                                          *)
(***************************************************************************)
THEOREM CacheTypeCorrect == Spec => []TypeOK
<1>1. CacheInvariant => TypeOK BY DEF CacheInvariant
<1>2. QED BY <1>1, CacheInductive, PTL

(***************************************************************************)
(* What CURRENT names is a complete generation, whatever publishers, their *)
(* crashes and failures, pruning and invalidation do (index_cache.rs,      *)
(* `store`, `cleanup`, `invalidate`).                                      *)
(***************************************************************************)
THEOREM CurrentStaysWhole == Spec => []CurrentIsWhole
<1>1. CacheInvariant => CurrentIsWhole BY DEF CacheInvariant, Kept
<1>2. QED BY <1>1, CacheInductive, PTL

(***************************************************************************)
(* PUBLISH.lock is held exactly between publishing and the end of pruning, *)
(* and never left behind (index_cache.rs, `store`).                        *)
(***************************************************************************)
THEOREM LockIsReleased == Spec => []LockIsHeldByPublisher
<1>1. CacheInvariant => LockIsHeldByPublisher BY DEF CacheInvariant, Kept
<1>2. QED BY <1>1, CacheInductive, PTL

-----------------------------------------------------------------------------
(* The refinement.  Steps that no reader takes, and that leave what CURRENT *)
(* names alone, are not seen.                                              *)

LEMMA Unseen ==
  ASSUME UNCHANGED <<current, reader>>, current # None => dir'[current] = dir[current]
  PROVE  UNCHANGED Register!vars
BY DEF Register!vars, Published, Reading, Got, SnapshotIn

LEMMA WriterImplements ==
  ASSUME CacheInvariant, NEW s \in Servers,
         WriterStep(s) \/ FileOperationFails(s) \/ Crash(s)
  PROVE  [Register!Next]_Register!vars
<1> USE DEF CacheInvariant, Kept
<1>1. UNCHANGED reader
  BY DEF WriterStep, WriterTakes, WriterSerializes, WriterScans, WriterConfirms, WriterLocks,
         WriterPublishes, WriterPoints, WriterRepoints, WriterCleans, WriterRemoves, WriterEnds,
         FileOperationFails, Crash
<1>2. writer[s].at \in Working => writer[s].name # current BY DEF Owned, Owns
<1>3. CASE WriterRepoints(s)
  <2>1. current' = writer[s].name /\ dir' = dir /\ writer[s].at = "repoint"
    BY <1>3 DEF WriterRepoints
  <2>2. writer[s].name \in Names /\ HasBoth(writer[s].name)
    BY <2>1 DEF Owned, Owns, Working
  <2>3. Published' = SnapshotIn(writer[s].name)
    BY <2>1, <2>2, CacheAssumption DEF Published, SnapshotIn, Names
  <2>4. dir[writer[s].name] \in Directory BY <2>2 DEF TypeOK
  <2>5. Register!Whole(SnapshotIn(writer[s].name))
    BY <2>2, <2>4 DEF Register!Whole, Register!Snapshot, SnapshotIn, HasBoth, Directory, Manifest
  <2>6. Reading' = Reading /\ Got' = Got BY <1>1 DEF Reading, Got
  <2>7. Register!Write BY <2>3, <2>5, <2>6 DEF Register!Write
  <2>8. QED BY <2>7 DEF Register!Next
<1>4. CASE WriterTakes(s)
  <2>1. current' = current BY <1>4 DEF WriterTakes
  <2>2. current # None => dir'[current] = dir[current]
    BY <1>4 DEF WriterTakes, CurrentIsWhole, TypeOK
  <2>3. QED BY <1>1, <2>1, <2>2, Unseen
<1>5. CASE WriterRemoves(s)
  <2>1. current' = current BY <1>5 DEF WriterRemoves
  <2>2. PICK n \in writer[s].remove :
          \/ dir' = [dir EXCEPT ![n].index = None]
          \/ dir' = [dir EXCEPT ![n].manifest = None]
          \/ dir' = [dir EXCEPT ![n].state = "removed"]
    BY <1>5 DEF WriterRemoves
  <2>3. n # current BY DEF Condemned
  <2>4. current # None => dir'[current] = dir[current] BY <2>2, <2>3 DEF TypeOK
  <2>5. QED BY <1>1, <2>1, <2>4, Unseen
<1>6. CASE WriterSerializes(s) \/ WriterConfirms(s) \/ WriterPublishes(s)
  <2>1. current' = current
    BY <1>6 DEF WriterSerializes, WriterConfirms, WriterPublishes, WriterFails
  <2>2. writer[s].name # current
    BY <1>2, <1>6 DEF WriterSerializes, WriterConfirms, WriterPublishes, Working
  <2>3. \/ dir' = dir
        \/ \E x : dir' = [dir EXCEPT ![writer[s].name].index = x]
        \/ \E x : dir' = [dir EXCEPT ![writer[s].name].manifest = x]
        \/ \E x : dir' = [dir EXCEPT ![writer[s].name].state = x]
    BY <1>6 DEF WriterSerializes, WriterConfirms, WriterPublishes, WriterFails
  <2>4. current # None => dir'[current] = dir[current] BY <2>2, <2>3 DEF TypeOK
  <2>5. QED BY <1>1, <2>1, <2>4, Unseen
<1>7. CASE \/ WriterScans(s) \/ WriterLocks(s) \/ WriterPoints(s) \/ WriterCleans(s)
           \/ WriterEnds(s) \/ FileOperationFails(s) \/ Crash(s)
  <2>1. UNCHANGED <<dir, current>>
    BY <1>7 DEF WriterScans, WriterLocks, WriterPoints, WriterCleans, WriterEnds,
                FileOperationFails, Crash, WriterFails
  <2>2. QED BY <1>1, <2>1, Unseen
<1>8. QED BY <1>3, <1>4, <1>5, <1>6, <1>7 DEF WriterStep

LEMMA LoopImplements ==
  ASSUME NEW s \in Servers, LoopStep(s)
  PROVE  [Register!Next]_Register!vars
<1>1. UNCHANGED <<dir, reader>>
  BY DEF LoopStep, AskForWrite, TrySend, Evict, SupersedeWrites, ConfirmEmpty, Invalidate,
         BumpEpoch
<1>2. CASE current' = current BY <1>1, <1>2, Unseen
<1>3. CASE current' = None
  <2>1. Published' = None /\ Reading' = Reading /\ Got' = Got
    BY <1>1, <1>3 DEF Published, Reading, Got
  <2>2. QED BY <2>1 DEF Register!Erase, Register!Next
<1>4. QED
  BY <1>2, <1>3 DEF LoopStep, AskForWrite, TrySend, Evict, SupersedeWrites, ConfirmEmpty,
                    Invalidate, BumpEpoch

LEMMA ReaderImplements ==
  ASSUME CacheInvariant, NEW r \in Readers, ReaderStep(r)
  PROVE  [Register!Next]_Register!vars
<1> USE DEF CacheInvariant, Kept
<1>1. UNCHANGED <<dir, current>> BY DEF ReaderStep, ReadPointer, ReadManifest, ReadIndex
<1>2. Published' = Published BY <1>1 DEF Published, SnapshotIn
<1>3. reader[r] \in Reader BY DEF TypeOK
<1>4. CASE ReaderMisses(r)
  <2>1. reader' = [reader EXCEPT ![r] = IdleReader] BY <1>4 DEF ReaderMisses
  <2>2. Reading' = [Reading EXCEPT ![r] = None] BY <2>1 DEF Reading, IdleReader, TypeOK
  <2>3. Got' = [Got EXCEPT ![r] = None] BY <2>1 DEF Got, IdleReader, TypeOK
  <2>4. QED BY <1>2, <2>2, <2>3 DEF Register!ReadMisses, Register!Next
<1>5. CASE ReadPointer(r) /\ current # None
  <2>1. PICK key \in Heads :
          reader' = [reader EXCEPT ![r] = [IdleReader EXCEPT !.at = "manifest", !.key = key,
                                                             !.name = current,
                                                             !.seen = SnapshotIn(current)]]
    BY <1>5 DEF ReadPointer
  <2>2. Reading' = [Reading EXCEPT ![r] = [key |-> key, seen |-> Published]]
    BY <1>5, <2>1 DEF Reading, IdleReader, TypeOK, Published
  <2>3. Got' = [Got EXCEPT ![r] = None] BY <2>1 DEF Got, IdleReader, TypeOK
  <2>4. Published # None
    <3>1. SnapshotIn(current) \in Snapshot
      BY <1>5 DEF TypeOK, CurrentIsWhole, Directory, SnapshotIn, Manifest, Snapshot
    <3>2. QED BY <1>5, <3>1, CacheAssumption DEF Published
  <2>5. QED BY <1>2, <2>2, <2>3, <2>4 DEF Register!ReadBegins, Register!Next
<1>6. CASE reader[r].at = "manifest"
           /\ reader' = [reader EXCEPT ![r].at = "index",
                                       ![r].manifest = dir[reader[r].name].manifest]
  <2>1. Reading' = Reading /\ Got' = Got BY <1>3, <1>6 DEF Reading, Got, TypeOK, Reader
  <2>2. QED BY <1>2, <2>1 DEF Register!vars
<1>7. CASE ReadIndex(r) /\ ~ReaderMisses(r)
  <2> DEFINE seen == reader[r].seen
  <2>1. /\ reader[r].at = "index" /\ reader[r].key \in Heads /\ seen \in Snapshot
        /\ reader[r].manifest = [head |-> seen.head, shards |-> seen.shards]
        /\ seen.head = reader[r].key
        /\ dir[reader[r].name].index = seen.index
    BY <1>7 DEF ReadIndex, ReadersKnow, ReaderKnows
  <2>2. reader' = [reader EXCEPT ![r] = [IdleReader EXCEPT !.got = seen]]
    <3>1. seen = [head |-> seen.head, shards |-> seen.shards, index |-> seen.index]
      BY <2>1 DEF Snapshot
    <3>2. QED BY <1>7, <2>1, <3>1 DEF ReadIndex
  <2>3. Reading[r] = [key |-> reader[r].key, seen |-> seen] BY <2>1 DEF Reading
  <2>4. Reading[r] # None
    BY <2>1, <2>3, CacheAssumption
  <2>5. Reading' = [Reading EXCEPT ![r] = None] BY <2>2 DEF Reading, IdleReader, TypeOK
  <2>6. Got' = [Got EXCEPT ![r] = seen] BY <2>2 DEF Got, IdleReader, TypeOK
  <2>7. Register!ReadHits(r) BY <1>2, <2>1, <2>3, <2>4, <2>5, <2>6 DEF Register!ReadHits
  <2>8. QED BY <2>7 DEF Register!Next
<1>8. QED
  BY <1>4, <1>5, <1>6, <1>7 DEF ReaderStep, ReadPointer, ReadManifest, ReadIndex

(***************************************************************************)
(* The cache implements a register: a load returns nothing, or exactly the *)
(* snapshot that was published when it began, made for its key             *)
(* (index_cache.rs, `load` against `store`, `cleanup` and `invalidate`).   *)
(***************************************************************************)
THEOREM CacheIsARegister == Spec => ImplementsRegister
<1>1. Init => Register!Init
  BY DEF Init, Register!Init, Published, Reading, Got, IdleReader
<1>2. CacheInvariant /\ [Next]_vars => [Register!Next]_Register!vars
  <2> SUFFICES ASSUME CacheInvariant, [Next]_vars PROVE [Register!Next]_Register!vars
    OBVIOUS
  <2>1. CASE BuildWrites \/ HeadMoves \/ UNCHANGED vars
    BY <2>1, Unseen DEF BuildWrites, HeadMoves, vars
  <2>2. QED
    BY <2>1, LoopImplements, WriterImplements, ReaderImplements DEF Next
<1>3. QED BY <1>1, <1>2, CacheInductive, PTL DEF Spec, ImplementsRegister, Register!Spec

-----------------------------------------------------------------------------
(* Pruning.  While a writer that published holds the lock no generation    *)
(* gets its final name, so what it found when it listed the directories is *)
(* all there is, and it keeps two of them.                                 *)

Keeps(s, a, b) == Finals \subseteq writer[s].remove \union {a, b}

PrunesRest ==
  \A s \in Servers : lock = s /\ writer[s].at = "remove" => \E a, b : Keeps(s, a, b)

LEMMA PrunedLeavesTwo ==
  ASSUME TypeOK PROVE \E b : Finals \subseteq Pruned \union {current, b}
<1>1. \A x, y \in (Finals \ {current}) \ Pruned : x = y
  <2>1. SUFFICES ASSUME NEW x \in (Finals \ {current}) \ Pruned,
                        NEW y \in (Finals \ {current}) \ Pruned
                 PROVE  x = y
    OBVIOUS
  <2>2. ~(x < y) /\ ~(y < x) BY DEF Pruned
  <2>3. x \in Int /\ y \in Int BY CacheAssumption DEF Finals, Names
  <2>4. QED BY <2>2, <2>3
<1>2. CASE (Finals \ {current}) \ Pruned = {}
  <2>1. Finals \subseteq Pruned \union {current, current} BY <1>2
  <2>2. QED BY <2>1
<1>3. CASE (Finals \ {current}) \ Pruned # {}
  <2>1. PICK b : b \in (Finals \ {current}) \ Pruned BY <1>3
  <2>2. Finals \subseteq Pruned \union {current, b} BY <1>1, <2>1
  <2>3. QED BY <2>2
<1>4. QED BY <1>2, <1>3

(* Only a writer that publishes adds a generation. *)
LEMMA FinalsShrink ==
  ASSUME TypeOK, [Next]_vars, \A s \in Servers : ~WriterPublishes(s)
  PROVE  Finals' \subseteq Finals
<1>1. SUFFICES ASSUME NEW n \in Names, dir'[n].state = "final" PROVE dir[n].state = "final"
  BY DEF Finals
<1>2. CASE dir' = dir BY <1>1, <1>2
<1>3. CASE \E m \in Names, x \in {"staging", "removed"} : dir' = [dir EXCEPT ![m].state = x]
  BY <1>1, <1>3 DEF TypeOK, Directory
<1>4. CASE \E m \in Names : \E x : \/ dir' = [dir EXCEPT ![m].index = x]
                                  \/ dir' = [dir EXCEPT ![m].manifest = x]
  BY <1>1, <1>4 DEF TypeOK, Directory
<1>5. CASE \E m, x : m \notin Names /\ \/ dir' = [dir EXCEPT ![m].index = x]
                                       \/ dir' = [dir EXCEPT ![m].manifest = x]
  BY <1>1, <1>5 DEF TypeOK
<1>6. ASSUME NEW s \in Servers, WriterTakes(s) PROVE dir[n].state = "final"
  BY <1>2, <1>3, <1>6 DEF WriterTakes
<1>7. ASSUME NEW s \in Servers, WriterSerializes(s) \/ WriterConfirms(s)
      PROVE  dir[n].state = "final"
  BY <1>2, <1>4, <1>5, <1>7 DEF WriterSerializes, WriterConfirms, WriterFails
<1>8. ASSUME NEW s \in Servers, WriterRemoves(s) PROVE dir[n].state = "final"
  <2>1. \A m \in writer[s].remove : m \in Names BY DEF TypeOK, Writer
  <2>2. QED BY <1>2, <1>3, <1>4, <1>8, <2>1 DEF WriterRemoves
<1>9. QED
  BY <1>2, <1>6, <1>7, <1>8
     DEF Next, vars, BuildWrites, HeadMoves, LoopStep, AskForWrite, TrySend, Evict,
         SupersedeWrites, ConfirmEmpty, Invalidate, BumpEpoch, WriterStep, WriterScans,
         WriterLocks, WriterPublishes, WriterPoints, WriterRepoints, WriterCleans, WriterEnds,
         WriterFails, FileOperationFails, Crash, ReaderStep, ReadPointer, ReadManifest,
         ReadIndex

LEMMA PruningKeeps ==
  CacheInvariant /\ PrunesRest /\ [Next]_vars => PrunesRest'
<1> SUFFICES ASSUME CacheInvariant, PrunesRest, [Next]_vars,
                    NEW s \in Servers, lock' = s, writer'[s].at = "remove"
             PROVE  \E a, b : Keeps(s, a, b)'
  BY DEF PrunesRest
<1>0. TypeOK /\ LockIsHeldByPublisher /\ s # None
  BY CacheAssumption DEF CacheInvariant, Kept
<1>1. CASE WriterCleans(s)
  <2>1. writer'[s].remove = Pruned /\ dir' = dir /\ current' = current
    BY <1>0, <1>1 DEF WriterCleans, TypeOK, Writer
  <2>2. PICK b : Finals \subseteq Pruned \union {current, b} BY <1>0, PrunedLeavesTwo
  <2>3. Finals' = Finals BY <2>1 DEF Finals
  <2>4. Keeps(s, current, b)' BY <2>1, <2>2, <2>3 DEF Keeps
  <2>5. QED BY <2>4
<1>2. CASE WriterRemoves(s)
  <2>1. lock = s /\ writer[s].at = "remove" BY <1>2 DEF WriterRemoves
  <2>2. PICK a, b : Keeps(s, a, b) BY <2>1 DEF PrunesRest
  <2>3. Finals' \subseteq Finals
    <3>1. \A t \in Servers : ~WriterPublishes(t)
      BY <1>0, <2>1, CacheAssumption DEF LockIsHeldByPublisher, WriterPublishes
    <3>2. QED BY <1>0, <3>1, FinalsShrink
  <2>4. \A n \in Finals' : n \in writer[s].remove => n \in writer'[s].remove
    <3>1. PICK n \in writer[s].remove :
            \/ UNCHANGED writer
            \/ /\ dir' = [dir EXCEPT ![n].state = "removed"]
               /\ writer' = [writer EXCEPT ![s].remove = @ \ {n}]
      BY <1>2 DEF WriterRemoves
    <3>2. CASE UNCHANGED writer BY <3>2
    <3>3. CASE /\ dir' = [dir EXCEPT ![n].state = "removed"]
               /\ writer' = [writer EXCEPT ![s].remove = @ \ {n}]
      <4>1. n \in Names BY <1>0 DEF TypeOK, Writer
      <4>2. dir'[n].state = "removed" BY <1>0, <3>3, <4>1 DEF TypeOK, Directory
      <4>3. writer'[s].remove = writer[s].remove \ {n} BY <1>0, <3>3 DEF TypeOK, Writer
      <4>4. n \notin Finals' BY <4>2 DEF Finals
      <4>5. QED BY <4>3, <4>4
    <3>4. QED BY <3>1, <3>2, <3>3
  <2>5. Keeps(s, a, b)' BY <2>2, <2>3, <2>4 DEF Keeps
  <2>6. QED BY <2>5
<1>3. CASE ~WriterCleans(s) /\ ~WriterRemoves(s)
  <2>1. writer'[s] = writer[s] /\ lock = s
    <3>1. ~WriterFails(s) BY <1>0 DEF WriterFails
    <3>2. \A at : WriterGoesTo(s, at) => at = "remove"
      BY <1>0 DEF WriterGoesTo, TypeOK, Writer
    <3>3. ~WriterTakes(s) BY <1>0 DEF WriterTakes, TypeOK, IdleWriter
    <3>4. ~WriterEnds(s) /\ ~Crash(s) BY <1>0 DEF WriterEnds, Crash, TypeOK, IdleWriter
    <3>5. ~WriterStep(s) /\ ~FileOperationFails(s)
      BY <1>3, <3>1, <3>2, <3>3, <3>4
         DEF WriterStep, WriterSerializes, WriterScans, WriterConfirms, WriterLocks,
             WriterPublishes, WriterPoints, WriterRepoints, FileOperationFails
    <3>6. CASE UNCHANGED <<writer, lock>> BY <3>6
    <3>7. ASSUME NEW t \in Servers \ {s}, WriterStep(t) \/ FileOperationFails(t) \/ Crash(t)
          PROVE  writer'[s] = writer[s] /\ lock = s
      <4>1. writer'[s] = writer[s]
        BY <1>0, <3>7
           DEF WriterStep, WriterTakes, WriterSerializes, WriterScans, WriterConfirms,
               WriterLocks, WriterPublishes, WriterPoints, WriterRepoints, WriterCleans,
               WriterRemoves, WriterEnds, WriterGoesTo, WriterFails, FileOperationFails,
               Crash, TypeOK
      <4>2. lock' \in {lock, None, t}
        BY <3>7
           DEF WriterStep, WriterTakes, WriterSerializes, WriterScans, WriterConfirms,
               WriterLocks, WriterPublishes, WriterPoints, WriterRepoints, WriterCleans,
               WriterRemoves, WriterEnds, WriterFails, FileOperationFails, Crash
      <4>3. QED BY <1>0, <4>1, <4>2
    <3>8. \/ UNCHANGED <<writer, lock>>
          \/ \E t \in Servers : WriterStep(t) \/ FileOperationFails(t) \/ Crash(t)
      BY DEF Next, vars, BuildWrites, HeadMoves, LoopStep, AskForWrite, TrySend, Evict,
             SupersedeWrites, ConfirmEmpty, Invalidate, BumpEpoch, ReaderStep, ReadPointer,
             ReadManifest, ReadIndex
    <3>9. QED BY <3>4, <3>5, <3>6, <3>7, <3>8
  <2>2. PICK a, b : Keeps(s, a, b) BY <2>1 DEF PrunesRest
  <2>3. \A t \in Servers : ~WriterPublishes(t)
    BY <1>0, <2>1 DEF LockIsHeldByPublisher, WriterPublishes
  <2>4. Finals' \subseteq Finals BY <1>0, <2>3, FinalsShrink
  <2>5. Keeps(s, a, b)' BY <2>1, <2>2, <2>4 DEF Keeps
  <2>6. QED BY <2>5
<1>4. QED BY <1>1, <1>2, <1>3

(***************************************************************************)
(* When a writer that published lets go of the lock there are at most two  *)
(* generations, whatever the crashes and failed writes of any process had  *)
(* left behind (index_cache.rs, `cleanup`).                                *)
(***************************************************************************)
THEOREM TwoGenerationsAreLeft == Spec => PruningLeavesTwo
<1>1. Init => PrunesRest BY DEF Init, PrunesRest, IdleWriter
<1>2. PrunesRest => \A s \in Servers : lock = s /\ WriterEnds(s) => Cardinality(Finals) <= 2
  <2>1. SUFFICES ASSUME PrunesRest, NEW s \in Servers, lock = s, WriterEnds(s)
                 PROVE  Cardinality(Finals) <= 2
    OBVIOUS
  <2>2. PICK a, b : Finals \subseteq {a, b} BY <2>1 DEF PrunesRest, Keeps, WriterEnds
  <2>3. IsFiniteSet({a}) /\ Cardinality({a}) = 1 BY FS_Singleton
  <2>4. {a} \union {b} = {a, b} OBVIOUS
  <2>5. IsFiniteSet({a, b}) /\ Cardinality({a, b}) <= 2 BY <2>3, <2>4, FS_AddElement
  <2>6. IsFiniteSet(Finals) /\ Cardinality(Finals) <= Cardinality({a, b})
    BY <2>2, <2>5, FS_Subset
  <2>7. Cardinality(Finals) \in Nat /\ Cardinality({a, b}) \in Nat
    BY <2>5, <2>6, FS_CardinalityType
  <2>8. QED BY <2>5, <2>6, <2>7
<1>3. QED BY <1>1, <1>2, PruningKeeps, CacheInductive, PTL DEF Spec, PruningLeavesTwo

-----------------------------------------------------------------------------
(* The channel.  The loop holds a job exactly while it is in `send_latest`. *)

Sends ==
  \A s \in Servers : loop[s].at \in {"send", "evict"} <=> loop[s].sending # None

LEMMA SendsKeeps == TypeOK /\ Sends /\ [Next]_vars => Sends'
<1> SUFFICES ASSUME TypeOK, Sends, [Next]_vars PROVE Sends' OBVIOUS
<1>1. CASE UNCHANGED loop BY <1>1 DEF Sends
<1>2. ASSUME NEW s \in Servers, NEW x, loop' = [loop EXCEPT ![s] = x],
             x.at \in {"send", "evict"} <=> x.sending # None
      PROVE  Sends'
  BY <1>2 DEF Sends, TypeOK
<1>3. ASSUME NEW s \in Servers, Crash(s) PROVE Sends'
  BY <1>2, <1>3 DEF Crash, NewLoop
<1>4. ASSUME NEW s \in Servers, LoopStep(s) PROVE Sends'
  <2>1. loop[s] \in Loop BY DEF TypeOK
  <2>2. CASE AskForWrite(s)
    <3> DEFINE job == [head |-> head, shards |-> shards, ticket |-> loop[s].epoch + 1]
    <3>1. job # None BY <2>1, CacheAssumption DEF TypeOK, Loop
    <3>2. QED BY <1>2, <2>2, <3>1 DEF AskForWrite
  <2>3. CASE TrySend(s) BY <2>1, <2>3 DEF TrySend, Sends, TypeOK, Loop
  <2>4. CASE Evict(s) BY <2>1, <2>4 DEF Evict, Sends, TypeOK, Loop
  <2>5. CASE SupersedeWrites(s) BY <2>1, <2>5 DEF SupersedeWrites, Sends, TypeOK, Loop
  <2>6. CASE ConfirmEmpty(s) BY <2>1, <2>6 DEF ConfirmEmpty, Sends, TypeOK, Loop
  <2>7. CASE Invalidate(s) BY <2>1, <2>7 DEF Invalidate, Sends, TypeOK, Loop
  <2>8. CASE BumpEpoch(s) BY <2>1, <2>8 DEF BumpEpoch, Sends, TypeOK, Loop
  <2>9. QED BY <1>4, <2>2, <2>3, <2>4, <2>5, <2>6, <2>7, <2>8 DEF LoopStep
<1>5. QED
  BY <1>1, <1>3, <1>4
     DEF Next, vars, BuildWrites, HeadMoves, WriterStep, WriterTakes, WriterSerializes,
         WriterScans, WriterConfirms, WriterLocks, WriterPublishes, WriterPoints,
         WriterRepoints, WriterCleans, WriterRemoves, WriterEnds, FileOperationFails,
         ReaderStep, ReadPointer, ReadManifest, ReadIndex

NewerOnly(s) ==
  loop'[s] # NewLoop =>
    /\ loop[s].sending # None /\ loop'[s].sending = None => queue'[s] = loop[s].sending
    /\ queue[s] # None /\ queue'[s] = None =>
         \/ loop[s].sending # None
         \/ writer'[s].job = queue[s]
         \/ loop[s].epoch # queue[s].ticket

LEMMA DropsForNewer ==
  ASSUME TypeOK, Sends, Next, NEW s \in Servers PROVE NewerOnly(s)
<1>1. CASE UNCHANGED <<loop, queue>> BY <1>1 DEF NewerOnly
<1>2. ASSUME NEW t \in Servers, LoopStep(t) PROVE NewerOnly(s)
  <2>1. loop[t] \in Loop BY DEF TypeOK
  <2>2. CASE s # t
    <3>1. loop'[s] = loop[s] /\ queue'[s] = queue[s]
      BY <1>2, <2>2 DEF LoopStep, AskForWrite, TrySend, Evict, SupersedeWrites, ConfirmEmpty,
                        Invalidate, BumpEpoch, TypeOK
    <3>2. QED BY <3>1 DEF NewerOnly
  <2>3. CASE s = t
    <3>1. CASE TrySend(s) BY <3>1 DEF TrySend, NewerOnly, TypeOK, Loop
    <3>2. CASE Evict(s) BY <3>2 DEF Evict, NewerOnly, Sends, TypeOK, Loop
    <3>3. CASE AskForWrite(s) BY <3>3 DEF AskForWrite, NewerOnly, Sends
    <3>4. CASE SupersedeWrites(s) \/ ConfirmEmpty(s) \/ Invalidate(s) \/ BumpEpoch(s)
      BY <3>4 DEF SupersedeWrites, ConfirmEmpty, Invalidate, BumpEpoch, NewerOnly, TypeOK, Loop
    <3>5. QED BY <1>2, <2>3, <3>1, <3>2, <3>3, <3>4 DEF LoopStep
  <2>4. QED BY <2>2, <2>3
<1>3. ASSUME NEW t \in Servers, WriterTakes(t) PROVE NewerOnly(s)
  <2>1. CASE s # t BY <1>3, <2>1 DEF WriterTakes, NewerOnly, TypeOK
  <2>2. CASE s = t /\ loop[s].epoch # queue[s].ticket
    BY <1>3, <2>2 DEF WriterTakes, NewerOnly
  <2>3. CASE s = t /\ loop[s].epoch = queue[s].ticket
    <3>1. writer'[s].job = queue[s] /\ loop' = loop
      BY <1>3, <2>3 DEF WriterTakes, TypeOK, IdleWriter
    <3>2. QED BY <3>1 DEF NewerOnly
  <2>4. QED BY <2>1, <2>2, <2>3
<1>4. ASSUME NEW t \in Servers, Crash(t) PROVE NewerOnly(s)
  BY <1>4 DEF Crash, NewerOnly, TypeOK
<1>5. QED
  BY <1>1, <1>2, <1>3, <1>4
     DEF Next, BuildWrites, HeadMoves, WriterStep, WriterSerializes, WriterScans,
         WriterConfirms, WriterLocks, WriterPublishes, WriterPoints, WriterRepoints,
         WriterCleans, WriterRemoves, WriterEnds, FileOperationFails, ReaderStep,
         ReadPointer, ReadManifest, ReadIndex

(***************************************************************************)
(* `send_latest` throws a job away only for a newer one, which it does not *)
(* lose, whenever the writer takes jobs from the channel: the last index   *)
(* asked for reaches the writer, unless the process dies                   *)
(* (cache_writer.rs, `send_latest`).                                       *)
(***************************************************************************)
THEOREM JobsAreDroppedForNewer == Spec => DroppedForNewer
<1>1. Init => Sends BY DEF Init, Sends, NewLoop
<1>2. TypeOK /\ Sends /\ [Next]_vars =>
        [\A s \in Servers :
           loop'[s] # NewLoop =>
             /\ loop[s].sending # None /\ loop'[s].sending = None =>
                  queue'[s] = loop[s].sending
             /\ queue[s] # None /\ queue'[s] = None =>
                  \/ loop[s].sending # None
                  \/ writer'[s].job = queue[s]
                  \/ loop[s].epoch # queue[s].ticket]_vars
  BY DropsForNewer DEF NewerOnly
<1>3. QED BY <1>1, <1>2, SendsKeeps, CacheTypeCorrect, PTL DEF Spec, DroppedForNewer

=============================================================================
