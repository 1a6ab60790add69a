-------------------------------- MODULE VfsProofs --------------------------------
(***************************************************************************)
(* The Vfs and its database, for any paths, contents and number of writes: *)
(* the log is the net change, the database is told of what it knows and    *)
(* has everything once nothing is pending, and the whole implements plain  *)
(* copying.                                                                *)
(***************************************************************************)
EXTENDS VfsDatabase, TLAPS

NoPathTwice == \A f, g \in DOMAIN paths : paths[f] = paths[g] => f = g

(* What the database was told of was there at the last drain. *)
Told ==
  /\ DOMAIN batch \subseteq DOMAIN drained
  /\ DOMAIN text \subseteq DOMAIN drained
  /\ ~taken => DOMAIN batch = {}

(* The database and the batch on its way to it make the files of the last  *)
(* drain.                                                                  *)
InStep ==
  \A f \in DOMAIN state :
    IF f \in DOMAIN batch THEN batch[f].contents = Before(f)
    ELSE IF f \in DOMAIN text THEN text[f] = TextOf(Before(f)) ELSE Before(f) = None

Kept ==
  NoPathTwice /\ Told /\ InStep /\ LogIsNetChange /\ DeletesAreOfKnownFiles

VfsInvariant == TypeOK /\ Kept

-----------------------------------------------------------------------------
(* What a write does, by id. *)

LEMMA Replaced ==
  ASSUME NEW S, NEW s \in Seq(S), NEW i \in DOMAIN s, NEW e \in S
  PROVE  LET t == [s EXCEPT ![i] = e]
         IN  /\ t \in Seq(S) /\ Len(t) = Len(s) /\ DOMAIN t = DOMAIN s
             /\ t[i] = e /\ \A j \in DOMAIN s : j # i => t[j] = s[j]
OBVIOUS

(* The interner and the states once id f of path p has `contents`. *)
Placed(ids, new, p, f, contents) ==
  /\ f \in Nat \ {0}
  /\ ids \in Seq(Paths) /\ new \in Seq(Contents \union {None})
  /\ Len(new) = Len(ids)
  /\ DOMAIN ids = DOMAIN paths \union {f}
  /\ DOMAIN new = DOMAIN state \union {f}
  /\ \A g \in DOMAIN paths : ids[g] = paths[g]
  /\ ids[f] = p
  /\ \A g \in DOMAIN paths : paths[g] = p => g = f
  /\ \A g \in DOMAIN state : g # f => new[g] = state[g]
  /\ new[f] = contents

Old(f) == IF f \in DOMAIN state THEN state[f] ELSE None

(* A path has one id, old or new, and the states are as many as the ids. *)
LEMMA Interning ==
  ASSUME VfsTypeOK, NoPathTwice, NEW p \in Paths,
         NEW f \in DOMAIN Interned(p), Interned(p)[f] = p,
         NEW contents \in Contents \union {None}
  PROVE  /\ Placed(Interned(p), [Resized(f) EXCEPT ![f] = contents], p, f, contents)
         /\ Resized(f)[f] = Old(f)
<1>1. CASE \E g \in DOMAIN paths : paths[g] = p
  <2>1. Interned(p) = paths /\ f \in DOMAIN paths
    BY <1>1 DEF Interned
  <2>2. Resized(f) = state
    BY <2>1 DEF Resized, VfsTypeOK
  <2>3. DOMAIN paths = DOMAIN state /\ f \in DOMAIN state /\ f \in Nat \ {0}
    BY <2>1 DEF VfsTypeOK
  <2>4. \A g \in DOMAIN paths : paths[g] = p => g = f
    BY <2>1 DEF NoPathTwice
  <2> DEFINE new == [state EXCEPT ![f] = contents]
  <2>5. /\ new \in Seq(Contents \union {None}) /\ Len(new) = Len(state)
        /\ DOMAIN new = DOMAIN state
        /\ new[f] = contents /\ \A g \in DOMAIN state : g # f => new[g] = state[g]
    BY <2>3, Replaced DEF VfsTypeOK
  <2> HIDE DEF new
  <2>6. Placed(paths, new, p, f, contents)
    BY <2>1, <2>3, <2>4, <2>5 DEF VfsTypeOK, Placed
  <2> QED  BY <2>1, <2>2, <2>3, <2>6 DEF new, Old
<1>2. CASE ~\E g \in DOMAIN paths : paths[g] = p
  <2> DEFINE ids == Append(paths, p)
             longer == Append(state, None)
             new == [longer EXCEPT ![f] = contents]
  <2>1. Interned(p) = ids
    BY <1>2 DEF Interned
  <2>2. f = Len(paths) + 1
    BY <2>1, <1>2 DEF VfsTypeOK
  <2>3. Resized(f) = longer
    BY <2>2 DEF Resized, VfsTypeOK
  <2>4. /\ ids \in Seq(Paths) /\ Len(ids) = f
        /\ DOMAIN ids = DOMAIN paths \union {f} /\ f \in Nat \ {0}
        /\ \A g \in DOMAIN paths : ids[g] = paths[g]
        /\ ids[f] = p
    BY <2>2 DEF VfsTypeOK
  <2>5. /\ longer \in Seq(Contents \union {None}) /\ Len(longer) = f
        /\ DOMAIN longer = DOMAIN state \union {f} /\ f \notin DOMAIN state
        /\ longer[f] = None
        /\ \A g \in DOMAIN state : longer[g] = state[g]
    BY <2>2 DEF VfsTypeOK
  <2>6. /\ new \in Seq(Contents \union {None}) /\ Len(new) = f
        /\ DOMAIN new = DOMAIN longer
        /\ new[f] = contents /\ \A g \in DOMAIN longer : g # f => new[g] = longer[g]
    <3> HIDE DEF longer
    <3>1. f \in DOMAIN longer
      BY <2>5
    <3> QED  BY <2>5, <3>1, Replaced
  <2>7. \A g \in DOMAIN paths : paths[g] # p
    BY <1>2
  <2> HIDE DEF ids, longer, new
  <2>8. Placed(ids, new, p, f, contents)
    BY <2>4, <2>5, <2>6, <2>7 DEF Placed
  <2> QED  BY <2>1, <2>3, <2>5, <2>8 DEF new, Old
<1> QED  BY <1>1, <1>2

(* One write, told without the interner: id f gets `contents`. *)
Writes(p, f, contents) ==
  /\ Placed(paths', state', p, f, contents)
  /\ IF contents = Old(f)
     THEN changes' = changes /\ revision' = revision
     ELSE changes' = Record(f, ChangeTo(Old(f), contents)) /\ revision' = revision + 1

LEMMA WriteById ==
  ASSUME VfsTypeOK, NoPathTwice, NEW p \in Paths, NEW contents \in Contents \union {None},
         SetFileContents(p, contents)
  PROVE  \E f : Writes(p, f, contents)
<1>1. PICK f \in DOMAIN Interned(p) :
        /\ Interned(p)[f] = p
        /\ paths' = Interned(p)
        /\ state' = [Resized(f) EXCEPT ![f] = contents]
        /\ IF contents = Resized(f)[f]
           THEN UNCHANGED <<changes, revision>>
           ELSE /\ changes' = Record(f, ChangeTo(Resized(f)[f], contents))
                /\ revision' = revision + 1
  BY DEF SetFileContents
<1>2. /\ Placed(Interned(p), [Resized(f) EXCEPT ![f] = contents], p, f, contents)
      /\ Resized(f)[f] = Old(f)
  BY <1>1, Interning
<1>3. Placed(paths', state', p, f, contents)
  BY <1>1, <1>2
<1> QED  BY <1>1, <1>2, <1>3 DEF Writes

(* What a change holds. *)
LEMMA ChangeFacts ==
  ASSUME NEW old \in Contents \union {None}, NEW contents \in Contents \union {None},
         contents # old, VfsAssumption
  PROVE  /\ ChangeTo(old, contents) \in Change
         /\ ChangeTo(old, contents).contents = contents
         /\ ChangeTo(old, contents).kind = "Create" <=> old = None
         /\ ChangeTo(old, contents).kind = "Delete" <=> contents = None
BY DEF ChangeTo, Change, Present, Gone, VfsAssumption

LEMMA ChangeKinds ==
  ASSUME VfsAssumption, NEW c \in Change
  PROVE  /\ c.kind = "Delete" <=> c = Gone
         /\ c.kind = "Delete" <=> c.contents = None
         /\ c.contents \in Contents \union {None}
BY DEF Change, Present, Gone, VfsAssumption

LEMMA MergedFacts ==
  ASSUME NEW pending \in Change, NEW change \in Change, VfsAssumption,
         ~(pending.kind = "Create" /\ change.kind = "Delete")
  PROVE  /\ Merged(pending, change) \in Change
         /\ Merged(pending, change).contents = change.contents
         /\ Merged(pending, change).kind = "Create" <=> pending.kind = "Create"
BY DEF Merged, Change, Present, Gone, VfsAssumption

(* The log after a write of `contents` to id f that changes something. *)
Logged(log, f, contents) ==
  /\ DOMAIN log \subseteq DOMAIN changes \union {f}
  /\ log = [g \in DOMAIN log |-> log[g]]
  /\ \A g \in DOMAIN log : log[g] \in Change
  /\ \A g \in DOMAIN changes : g # f => g \in DOMAIN log /\ log[g] = changes[g]
  /\ f \in DOMAIN log =>
       /\ log[f].contents = contents
       /\ log[f].kind = "Create" <=> Before(f) = None
  /\ f \notin DOMAIN log => contents = Before(f)

LEMMA Recorded ==
  ASSUME VfsTypeOK, LogIsNetChange, VfsAssumption, NEW f,
         f \notin DOMAIN state => ~Pending(f) /\ Before(f) = None,
         NEW contents \in Contents \union {None}, contents # Old(f)
  PROVE  Logged(Record(f, ChangeTo(Old(f), contents)), f, contents)
<1> DEFINE change == ChangeTo(Old(f), contents)
           log == Record(f, change)
<1>1. Old(f) \in Contents \union {None}
  BY DEF VfsTypeOK, Old
<1>2. /\ change \in Change /\ change.contents = contents
      /\ change.kind = "Create" <=> Old(f) = None
      /\ change.kind = "Delete" <=> contents = None
  BY <1>1, ChangeFacts
<1>3. \A g \in DOMAIN changes : changes[g] \in Change
  BY DEF VfsTypeOK, IsBatch
<1> SUFFICES Logged(log, f, contents)
  OBVIOUS
<1> HIDE DEF change
<1>4. CASE ~Pending(f)
  <2>1. Old(f) = Before(f)
    BY <1>4 DEF LogIsNetChange, Old
  <2>2. log = [g \in DOMAIN changes \union {f} |-> IF g # f THEN changes[g] ELSE change]
    BY <1>4 DEF Record
  <2>3. f \notin DOMAIN changes
    BY <1>4 DEF Pending
  <2> HIDE DEF log
  <2>4. /\ DOMAIN log = DOMAIN changes \union {f}
        /\ \A g \in DOMAIN changes : log[g] = changes[g]
        /\ log[f] = change
        /\ log = [g \in DOMAIN log |-> log[g]]
    BY <2>2, <2>3
  <2> QED  BY <1>2, <1>3, <2>1, <2>4 DEF Logged
<1>5. CASE Pending(f)
  <2>1. /\ f \in DOMAIN changes /\ f \in DOMAIN state
        /\ changes[f].contents = state[f]
        /\ changes[f].kind = "Create" <=> Before(f) = None
    BY <1>5 DEF LogIsNetChange, Pending
  <2>2. CASE changes[f].kind = "Create" /\ change.kind = "Delete"
    <3>1. log = [g \in DOMAIN changes \ {f} |-> changes[g]]
      BY <1>5, <2>2 DEF Record
    <3> HIDE DEF log
    <3>2. /\ DOMAIN log = DOMAIN changes \ {f}
          /\ \A g \in DOMAIN log : log[g] = changes[g]
          /\ log = [g \in DOMAIN log |-> log[g]]
      BY <3>1
    <3>3. contents = Before(f)
      BY <1>2, <2>1, <2>2
    <3> QED  BY <1>3, <3>2, <3>3 DEF Logged
  <2>3. CASE ~(changes[f].kind = "Create" /\ change.kind = "Delete")
    <3> DEFINE merged == Merged(changes[f], change)
    <3>1. log = [g \in DOMAIN changes \union {f} |-> IF g # f THEN changes[g] ELSE merged]
      BY <1>5, <2>3 DEF Record
    <3>2. /\ merged \in Change
          /\ merged.contents = contents
          /\ merged.kind = "Create" <=> Before(f) = None
      BY <1>2, <1>3, <2>1, <2>3, MergedFacts
    <3> HIDE DEF log, merged
    <3>3. /\ DOMAIN log = DOMAIN changes \union {f}
          /\ \A g \in DOMAIN changes : g # f => log[g] = changes[g]
          /\ log[f] = merged
          /\ log = [g \in DOMAIN log |-> log[g]]
      BY <3>1
    <3> QED  BY <1>3, <3>2, <3>3 DEF Logged
  <2> QED  BY <2>2, <2>3
<1> QED  BY <1>4, <1>5

(* The log after any write. *)
LEMMA LoggedEitherWay ==
  ASSUME VfsTypeOK, LogIsNetChange, VfsAssumption, NEW p, NEW f,
         f \notin DOMAIN state => ~Pending(f) /\ Before(f) = None,
         NEW contents \in Contents \union {None}, Writes(p, f, contents)
  PROVE  Logged(changes', f, contents)
<1>1. CASE contents # Old(f)
  BY <1>1, Recorded DEF Writes
<1>2. CASE contents = Old(f)
  <2>1. /\ changes' = changes
        /\ DOMAIN changes \subseteq DOMAIN changes \union {f}
        /\ changes = [g \in DOMAIN changes |-> changes[g]]
        /\ \A g \in DOMAIN changes : changes[g] \in Change
    BY <1>2 DEF Writes, VfsTypeOK, IsBatch
  <2>2. IF Pending(f)
        THEN /\ changes[f].contents = contents
             /\ changes[f].kind = "Create" <=> Before(f) = None
        ELSE contents = Before(f)
    BY <1>2 DEF LogIsNetChange, Old
  <2> QED  BY <2>1, <2>2 DEF Logged, Pending
<1> QED  BY <1>1, <1>2

-----------------------------------------------------------------------------
(* The invariant is inductive: one lemma per action. *)

LEMMA WriteKeeps ==
  ASSUME VfsInvariant, VfsAssumption, NEW p \in Paths, NEW contents \in Contents \union {None},
         Write(p, contents)
  PROVE  VfsInvariant'
<1>1. /\ VfsTypeOK /\ NoPathTwice /\ Told /\ InStep /\ LogIsNetChange
      /\ DeletesAreOfKnownFiles
      /\ IsBatch(batch) /\ taken \in BOOLEAN
      /\ drained \in Seq(Contents \union {None}) /\ Len(drained) <= Len(paths)
  BY DEF VfsInvariant, Kept, TypeOK
<1>2. UNCHANGED <<batch, taken, text, drained>>
  BY DEF Write
<1>3. PICK f : Writes(p, f, contents)
  BY <1>1, WriteById DEF Write
<1>4. Placed(paths', state', p, f, contents)
  BY <1>3 DEF Writes
<1>5. DOMAIN paths = DOMAIN state /\ DOMAIN drained \subseteq DOMAIN state
  BY <1>1 DEF VfsTypeOK
<1>6. f \notin DOMAIN state =>
        ~Pending(f) /\ Before(f) = None /\ f \notin DOMAIN batch /\ f \notin DOMAIN text
  BY <1>1, <1>5 DEF Pending, Before, Told, VfsTypeOK, IsBatch
<1>7. Logged(changes', f, contents)
  BY <1>1, <1>3, <1>6, LoggedEitherWay
<1>8. revision' \in Nat
  BY <1>1, <1>3 DEF Writes, VfsTypeOK
<1>9. \A g : Before(g)' = Before(g)
  BY <1>2 DEF Before
<1>10. \A g \in DOMAIN state' : g # f => g \in DOMAIN state /\ state'[g] = state[g]
  BY <1>4 DEF Placed
<1>11. f \in DOMAIN state' /\ state'[f] = contents
  BY <1>4 DEF Placed
<1>12. \A g \in DOMAIN state : g # f => (Pending(g)' <=> Pending(g))
                                       /\ (Pending(g) => changes'[g] = changes[g])
  BY <1>7 DEF Logged, Pending
<1>13. TypeOK'
  <2>1. DOMAIN paths \subseteq DOMAIN paths' /\ f \in DOMAIN paths'
    BY <1>4 DEF Placed
  <2>2. IsBatch(changes)'
    BY <1>1, <1>7, <2>1 DEF Logged, IsBatch, VfsTypeOK
  <2>3. IsBatch(batch)'
    BY <1>1, <1>2, <2>1 DEF IsBatch
  <2>4. Len(paths) <= Len(paths')
    BY <1>1, <1>4, <2>1 DEF Placed, VfsTypeOK
  <2>5. Len(drained)' <= Len(paths)'
    BY <1>1, <1>2, <1>4, <2>4 DEF Placed, VfsTypeOK
  <2>6. VfsTypeOK'
    BY <1>4, <1>8, <2>2 DEF VfsTypeOK, Placed
  <2>7. /\ (DOMAIN text \subseteq DOMAIN paths)'
        /\ (text = [g \in DOMAIN text |-> text[g]])'
        /\ (\A g \in DOMAIN text : text[g] \in Utf8)'
    BY <1>2, <2>1 DEF VfsInvariant, TypeOK
  <2> QED  BY <1>1, <1>2, <2>3, <2>5, <2>6, <2>7 DEF TypeOK
<1>14. NoPathTwice'
  BY <1>1, <1>4 DEF NoPathTwice, Placed
<1>15. Told'
  BY <1>1, <1>2 DEF Told
<1>16. InStep'
  <2> SUFFICES ASSUME NEW g \in DOMAIN state'
               PROVE  IF g \in DOMAIN batch THEN batch[g].contents = Before(g)
                      ELSE IF g \in DOMAIN text THEN text[g] = TextOf(Before(g))
                      ELSE Before(g) = None
    BY <1>2, <1>9 DEF InStep
  <2>1. CASE g \in DOMAIN state
    BY <1>1, <2>1 DEF InStep
  <2>2. CASE g \notin DOMAIN state
    BY <1>6, <1>10, <2>2
  <2> QED  BY <2>1, <2>2
<1>17. LogIsNetChange'
  <2> SUFFICES ASSUME NEW g \in DOMAIN state'
               PROVE  IF ~Pending(g)' THEN state'[g] = Before(g)
                      ELSE /\ changes'[g].contents = state'[g]
                           /\ changes'[g].kind = "Create" <=> Before(g) = None
    BY <1>9 DEF LogIsNetChange
  <2>1. CASE g = f
    BY <1>7, <1>11, <2>1 DEF Logged, Pending
  <2>2. CASE g # f
    BY <1>1, <1>10, <1>12, <2>2 DEF LogIsNetChange
  <2> QED  BY <2>1, <2>2
<1>18. DeletesAreOfKnownFiles'
  <2>1. ASSUME NEW g \in DOMAIN changes', changes'[g] = Gone
        PROVE  g \in DOMAIN text \union DOMAIN batch
    <3>1. CASE g = f
      <4>1. Before(f) # None
        BY <1>7, <2>1, <3>1 DEF Logged, Gone
      <4> QED  BY <1>1, <1>6, <3>1, <4>1 DEF InStep
    <3>2. CASE g # f
      BY <1>1, <1>7, <2>1, <3>2 DEF Logged, DeletesAreOfKnownFiles
    <3> QED  BY <3>1, <3>2
  <2> QED  BY <1>1, <1>2, <2>1 DEF DeletesAreOfKnownFiles
<1> QED  BY <1>13, <1>14, <1>15, <1>16, <1>17, <1>18 DEF VfsInvariant, Kept

LEMMA NoChangesIsEmpty ==
  /\ DOMAIN NoChanges = {}
  /\ IsBatch(NoChanges)
BY DEF NoChanges, IsBatch

LEMMA DrainKeeps ==
  ASSUME VfsInvariant, Drain
  PROVE  VfsInvariant'
<1>1. /\ VfsTypeOK /\ NoPathTwice /\ Told /\ InStep /\ LogIsNetChange
      /\ DeletesAreOfKnownFiles
  BY DEF VfsInvariant, Kept, TypeOK
<1>2. /\ UNCHANGED <<paths, state, revision, text>>
      /\ ~taken /\ taken' = TRUE
      /\ batch' = changes /\ changes' = NoChanges /\ drained' = state
  BY DEF Drain, TakeChanges
<1>3. DOMAIN paths = DOMAIN state /\ Len(state) = Len(paths)
  BY <1>1 DEF VfsTypeOK
<1>4. TypeOK'
  <2>1. IsBatch(batch)' /\ IsBatch(changes)'
    BY <1>1, <1>2, NoChangesIsEmpty DEF VfsTypeOK, IsBatch
  <2>2. VfsTypeOK'
    BY <1>1, <1>2, <2>1 DEF VfsTypeOK
  <2>3. Len(drained)' <= Len(paths)'
    BY <1>1, <1>2, <1>3 DEF VfsTypeOK
  <2> QED  BY <1>1, <1>2, <2>1, <2>2, <2>3 DEF VfsInvariant, TypeOK, VfsTypeOK
<1>5. NoPathTwice'
  BY <1>1, <1>2 DEF NoPathTwice
<1>6. \A f \in DOMAIN state : Before(f)' = state[f]
  BY <1>2 DEF Before
<1>7. Told'
  BY <1>2, <1>3 DEF VfsInvariant, TypeOK, VfsTypeOK, IsBatch, Told
<1>8. InStep'
  <2> SUFFICES ASSUME NEW f \in DOMAIN state
               PROVE  IF f \in DOMAIN changes THEN changes[f].contents = state[f]
                      ELSE IF f \in DOMAIN text THEN text[f] = TextOf(state[f])
                      ELSE state[f] = None
    BY <1>2, <1>6 DEF InStep
  <2>1. CASE Pending(f)
    BY <1>1, <2>1 DEF LogIsNetChange, Pending
  <2>2. CASE ~Pending(f)
    <3>1. state[f] = Before(f) /\ f \notin DOMAIN batch
      BY <1>1, <1>2, <2>2 DEF LogIsNetChange, Told
    <3> QED  BY <1>1, <2>2, <3>1 DEF InStep, Pending
  <2> QED  BY <2>1, <2>2
<1>9. LogIsNetChange'
  BY <1>2, <1>6, NoChangesIsEmpty DEF LogIsNetChange, Pending
<1>10. DeletesAreOfKnownFiles'
  BY <1>1, <1>2, NoChangesIsEmpty DEF DeletesAreOfKnownFiles, Told
<1> QED  BY <1>4, <1>5, <1>7, <1>8, <1>9, <1>10 DEF VfsInvariant, Kept

(* The texts once a batch is applied. *)
LEMMA AppliedFacts ==
  ASSUME VfsAssumption, NEW changed, \A f \in DOMAIN text : text[f] \in Utf8
  PROVE  /\ DOMAIN Applied(changed) = DOMAIN text \union DOMAIN changed
         /\ Applied(changed) = [f \in DOMAIN Applied(changed) |-> Applied(changed)[f]]
         /\ \A f \in DOMAIN Applied(changed) : Applied(changed)[f] \in Utf8
         /\ \A f \in DOMAIN changed : Applied(changed)[f] = TextOf(changed[f].contents)
         /\ \A f \in DOMAIN text : f \notin DOMAIN changed => Applied(changed)[f] = text[f]
BY DEF Applied, TextOf, VfsAssumption

LEMMA ApplyKeeps ==
  ASSUME VfsInvariant, VfsAssumption, Apply
  PROVE  VfsInvariant'
<1>1. /\ VfsTypeOK /\ NoPathTwice /\ Told /\ InStep /\ LogIsNetChange
      /\ DeletesAreOfKnownFiles
      /\ IsBatch(batch)
      /\ DOMAIN text \subseteq DOMAIN paths /\ \A f \in DOMAIN text : text[f] \in Utf8
  BY DEF VfsInvariant, Kept, TypeOK
<1>2. /\ UNCHANGED <<paths, state, changes, revision, drained>>
      /\ text' = Applied(batch) /\ batch' = NoChanges /\ taken' = FALSE
  BY DEF Apply, vfs
<1>3. /\ DOMAIN text' = DOMAIN text \union DOMAIN batch
      /\ text' = [f \in DOMAIN text' |-> text'[f]]
      /\ \A f \in DOMAIN text' : text'[f] \in Utf8
      /\ \A f \in DOMAIN batch : text'[f] = TextOf(batch[f].contents)
      /\ \A f \in DOMAIN text : f \notin DOMAIN batch => text'[f] = text[f]
  BY <1>1, <1>2, AppliedFacts
<1>4. \A f : Before(f)' = Before(f)
  BY <1>2 DEF Before
<1>5. TypeOK'
  <2>1. IsBatch(batch)' /\ IsBatch(changes)'
    BY <1>1, <1>2, NoChangesIsEmpty DEF VfsTypeOK, IsBatch
  <2>2. VfsTypeOK'
    BY <1>1, <1>2, <2>1 DEF VfsTypeOK
  <2>3. (DOMAIN text \subseteq DOMAIN paths)'
    BY <1>1, <1>2, <1>3 DEF IsBatch
  <2> QED  BY <1>2, <1>3, <2>1, <2>2, <2>3 DEF VfsInvariant, TypeOK
<1>6. NoPathTwice'
  BY <1>1, <1>2 DEF NoPathTwice
<1>7. Told'
  BY <1>1, <1>2, <1>3, NoChangesIsEmpty DEF Told
<1>8. InStep'
  <2> SUFFICES ASSUME NEW f \in DOMAIN state
               PROVE  IF f \in DOMAIN text' THEN text'[f] = TextOf(Before(f))
                      ELSE Before(f) = None
    BY <1>2, <1>4, NoChangesIsEmpty DEF InStep, TextOf
  <2>1. CASE f \in DOMAIN batch
    BY <1>1, <1>3, <2>1 DEF InStep
  <2>2. CASE f \notin DOMAIN batch
    BY <1>1, <1>3, <2>2 DEF InStep
  <2> QED  BY <2>1, <2>2
<1>9. LogIsNetChange'
  BY <1>1, <1>2, <1>4 DEF LogIsNetChange, Pending
<1>10. DeletesAreOfKnownFiles'
  BY <1>1, <1>2, <1>3, NoChangesIsEmpty DEF DeletesAreOfKnownFiles
<1> QED  BY <1>5, <1>6, <1>7, <1>8, <1>9, <1>10 DEF VfsInvariant, Kept

LEMMA ReadAfterWriteFollows ==
  ASSUME VfsInvariant
  PROVE  ReadAfterWrite
<1> SUFFICES ASSUME ~HasPendingChanges, ~taken, NEW f \in DOMAIN state
             PROVE  IF f \in DOMAIN text THEN text[f] = TextOf(state[f]) ELSE state[f] = None
  BY DEF ReadAfterWrite
<1>1. ~Pending(f)
  BY NoChangesIsEmpty DEF HasPendingChanges, Pending
<1>2. state[f] = Before(f)
  BY <1>1 DEF VfsInvariant, Kept, LogIsNetChange
<1>3. f \notin DOMAIN batch
  BY DEF VfsInvariant, Kept, Told
<1> QED  BY <1>2, <1>3 DEF VfsInvariant, Kept, InStep

LEMMA InitKeeps ==
  ASSUME VfsAssumption, Init
  PROVE  VfsInvariant
<1>1. /\ DOMAIN paths = {} /\ DOMAIN state = {} /\ DOMAIN drained = {} /\ DOMAIN text = {}
      /\ DOMAIN batch = {} /\ DOMAIN changes = {}
      /\ Len(paths) = 0 /\ Len(state) = 0 /\ Len(drained) = 0
      /\ revision = 0 /\ taken = FALSE
  BY NoChangesIsEmpty DEF Init, VfsInit
<1>2. TypeOK
  <2>1. IsBatch(batch) /\ IsBatch(changes)
    BY NoChangesIsEmpty DEF Init, VfsInit
  <2>2. text = [f \in DOMAIN text |-> text[f]]
    BY DEF Init
  <2>3. paths \in Seq(Paths) /\ state \in Seq(Contents \union {None})
        /\ drained \in Seq(Contents \union {None})
    BY DEF Init, VfsInit
  <2>4. VfsTypeOK
    BY <1>1, <2>1, <2>3 DEF VfsTypeOK
  <2>5. /\ DOMAIN text \subseteq DOMAIN paths
        /\ \A f \in DOMAIN text : text[f] \in Utf8
    BY <1>1
  <2>6. taken \in BOOLEAN
    BY Zenon DEF Init
  <2>7. Len(drained) <= Len(paths)
    BY <1>1
  <2> QED  BY <2>1, <2>2, <2>3, <2>4, <2>5, <2>6, <2>7 DEF TypeOK
<1>3. Kept
  BY <1>1 DEF Kept, NoPathTwice, Told, InStep, LogIsNetChange, DeletesAreOfKnownFiles
<1> QED  BY <1>2, <1>3 DEF VfsInvariant

LEMMA StutterKeeps ==
  ASSUME VfsInvariant, UNCHANGED vars
  PROVE  VfsInvariant'
<1>1. UNCHANGED <<paths, state, changes, revision, batch, taken, text, drained>>
  BY DEF vars, vfs
<1>2. TypeOK'
  BY <1>1 DEF VfsInvariant, TypeOK, VfsTypeOK, IsBatch
<1>3. Kept'
  BY <1>1 DEF VfsInvariant, Kept, NoPathTwice, Told, InStep, LogIsNetChange,
              DeletesAreOfKnownFiles, Before, Pending, TextOf
<1> QED  BY <1>2, <1>3 DEF VfsInvariant

(* The inductive invariant, on which the theorems below rest. *)
THEOREM VfsInductive == Spec => []VfsInvariant
<1>1. Init => VfsInvariant
  BY InitKeeps, VfsAssumption
<1>2. VfsInvariant /\ [Next]_vars => VfsInvariant'
  <2> SUFFICES ASSUME VfsInvariant, [Next]_vars
               PROVE  VfsInvariant'
    OBVIOUS
  <2>1. CASE \E p \in Paths, contents \in Contents \union {None} : Write(p, contents)
    BY <2>1, WriteKeeps, VfsAssumption
  <2>2. CASE Drain
    BY <2>2, DrainKeeps
  <2>3. CASE Apply
    BY <2>3, ApplyKeeps, VfsAssumption
  <2>4. CASE UNCHANGED vars
    BY <2>4, StutterKeeps
  <2> QED  BY <2>1, <2>2, <2>3, <2>4 DEF Next
<1> QED  BY <1>1, <1>2, PTL DEF Spec

(* The interner, the states, the log, the batch on its way and the texts   *)
(* of the database keep their types.                                       *)
THEOREM VfsTypeCorrect == Spec => []TypeOK
<1>1. VfsInvariant => TypeOK
  BY DEF VfsInvariant
<1> QED  BY <1>1, VfsInductive, PTL

(* `record` merges changes into the net change since the last drain.       *)
THEOREM LogIsAlwaysNet == Spec => []LogIsNetChange
<1>1. VfsInvariant => LogIsNetChange
  BY DEF VfsInvariant, Kept
<1> QED  BY <1>1, VfsInductive, PTL

(* No Delete names a file that the database never learned about.           *)
THEOREM DeletesAreKnown == Spec => []DeletesAreOfKnownFiles
<1>1. VfsInvariant => DeletesAreOfKnownFiles
  BY DEF VfsInvariant, Kept
<1> QED  BY <1>1, VfsInductive, PTL

(* With nothing pending, the database has the text of every file.          *)
THEOREM ReadsSeeWrites == Spec => []ReadAfterWrite
<1>1. VfsInvariant => ReadAfterWrite
  BY ReadAfterWriteFollows
<1> QED  BY <1>1, VfsInductive, PTL

-----------------------------------------------------------------------------
(* Values by path. *)

LEMMA AtItsId ==
  ASSUME NEW ids, \A f, g \in DOMAIN ids : ids[f] = ids[g] => f = g,
         NEW values, DOMAIN values \subseteq DOMAIN ids, NEW default,
         NEW f \in DOMAIN ids
  PROVE  ByPath(ids, values, ids[f], default) =
           IF f \in DOMAIN values THEN values[f] ELSE default
<1>1. CASE f \in DOMAIN values
  <2>1. \A g \in DOMAIN values : ids[g] = ids[f] => g = f
    OBVIOUS
  <2>2. (CHOOSE g \in DOMAIN values : ids[g] = ids[f]) = f
    BY <1>1, <2>1
  <2> QED  BY <1>1, <2>2 DEF ByPath
<1>2. CASE f \notin DOMAIN values
  <2>1. ~\E g \in DOMAIN values : ids[g] = ids[f]
    BY <1>2
  <2> QED  BY <1>2, <2>1 DEF ByPath
<1> QED  BY <1>1, <1>2

LEMMA WithoutId ==
  ASSUME NEW ids, NEW values, NEW default, NEW p, \A f \in DOMAIN values : ids[f] # p
  PROVE  ByPath(ids, values, p, default) = default
BY DEF ByPath

(* More ids make no difference to what the old ones have. *)
LEMMA MoreIds ==
  ASSUME NEW ids, \A f, g \in DOMAIN ids : ids[f] = ids[g] => f = g,
         NEW more, \A f, g \in DOMAIN more : more[f] = more[g] => f = g,
         DOMAIN ids \subseteq DOMAIN more, \A f \in DOMAIN ids : more[f] = ids[f],
         NEW values, DOMAIN values \subseteq DOMAIN ids, NEW default, NEW p
  PROVE  ByPath(more, values, p, default) = ByPath(ids, values, p, default)
<1>1. CASE \E f \in DOMAIN values : ids[f] = p
  <2>1. PICK f \in DOMAIN values : ids[f] = p
    BY <1>1
  <2>2. f \in DOMAIN ids /\ f \in DOMAIN more /\ more[f] = p
    BY <2>1
  <2>3. ByPath(ids, values, p, default) = values[f]
    BY <2>1, <2>2, AtItsId
  <2>4. ByPath(more, values, p, default) = values[f]
    <3>1. DOMAIN values \subseteq DOMAIN more
      OBVIOUS
    <3> QED  BY <2>1, <2>2, <3>1, AtItsId
  <2> QED  BY <2>3, <2>4
<1>2. CASE ~\E f \in DOMAIN values : ids[f] = p
  <2>1. \A f \in DOMAIN values : ids[f] # p /\ more[f] # p
    BY <1>2
  <2> QED  BY <2>1, WithoutId
<1> QED  BY <1>1, <1>2

-----------------------------------------------------------------------------
(* The refinement: each step of the Vfs and the database is one of Mirror. *)

LEMMA WriteRefines ==
  ASSUME VfsInvariant, VfsInvariant', NEW p \in Paths, NEW contents \in Contents \union {None},
         Write(p, contents)
  PROVE  Copied!Write(p, contents)
<1>1. /\ VfsTypeOK /\ NoPathTwice /\ NoPathTwice' /\ Told
      /\ drained \in Seq(Contents \union {None}) /\ Len(drained) <= Len(paths)
      /\ DOMAIN text \subseteq DOMAIN paths
  BY DEF VfsInvariant, Kept, TypeOK
<1>2. UNCHANGED <<taken, text, drained>>
  BY DEF Write
<1>3. PICK f : Writes(p, f, contents)
  BY <1>1, WriteById DEF Write
<1>4. Placed(paths', state', p, f, contents)
  BY <1>3 DEF Writes
<1>5. /\ DOMAIN paths = DOMAIN state /\ DOMAIN drained \subseteq DOMAIN paths
      /\ DOMAIN paths' = DOMAIN state'
  BY <1>1, <1>4 DEF VfsTypeOK, Placed
<1>6. \A q \in Paths : ByPath(paths', state', q, None) =
                       IF q = p THEN contents ELSE ByPath(paths, state, q, None)
  <2> SUFFICES ASSUME NEW q \in Paths
               PROVE  ByPath(paths', state', q, None) =
                      IF q = p THEN contents ELSE ByPath(paths, state, q, None)
    OBVIOUS
  <2>1. CASE q = p
    <3>1. f \in DOMAIN paths' /\ f \in DOMAIN state' /\ paths'[f] = p /\ state'[f] = contents
      BY <1>4 DEF Placed
    <3> QED  BY <1>1, <1>5, <2>1, <3>1, AtItsId DEF NoPathTwice
  <2>2. CASE q # p /\ \E g \in DOMAIN paths : paths[g] = q
    <3>1. PICK g \in DOMAIN paths : paths[g] = q
      BY <2>2
    <3>2. /\ g \in DOMAIN paths' /\ paths'[g] = q /\ g # f
          /\ g \in DOMAIN state /\ g \in DOMAIN state' /\ state'[g] = state[g]
      BY <1>4, <1>5, <2>2, <3>1 DEF Placed
    <3>3. ByPath(paths, state, q, None) = state[g]
      BY <1>1, <1>5, <3>1, <3>2, AtItsId DEF NoPathTwice
    <3>4. ByPath(paths', state', q, None) = state'[g]
      BY <1>1, <1>5, <3>2, AtItsId DEF NoPathTwice
    <3> QED  BY <2>2, <3>2, <3>3, <3>4
  <2>3. CASE q # p /\ ~\E g \in DOMAIN paths : paths[g] = q
    <3>1. /\ \A g \in DOMAIN state : paths[g] # q
          /\ \A g \in DOMAIN state' : paths'[g] # q
      BY <1>4, <1>5, <2>3 DEF Placed
    <3> QED  BY <2>3, <3>1, WithoutId
  <2> QED  BY <2>1, <2>2, <2>3
<1>7. /\ \A q \in Paths : ByPath(paths', drained, q, None) = ByPath(paths, drained, q, None)
      /\ \A q \in Paths : ByPath(paths', text, q, Unknown) = ByPath(paths, text, q, Unknown)
  <2>1. DOMAIN paths \subseteq DOMAIN paths' /\ \A g \in DOMAIN paths : paths'[g] = paths[g]
    BY <1>4 DEF Placed
  <2> QED  BY <1>1, <1>5, <2>1, MoreIds DEF NoPathTwice
<1>8. Files' = [Files EXCEPT ![p] = contents]
  BY <1>6 DEF Files
<1>9. Copy' = Copy /\ View' = View
  BY <1>2, <1>7 DEF Copy, View
<1> QED  BY <1>8, <1>9 DEF Copied!Write

LEMMA DrainRefines ==
  ASSUME Drain
  PROVE  Copied!Drain
<1>1. /\ UNCHANGED <<paths, state, text>>
      /\ ~taken /\ taken' = TRUE /\ drained' = state
  BY DEF Drain, TakeChanges
<1>2. Files' = Files /\ View' = View /\ Copy = None /\ Copy' = Files
  BY <1>1 DEF Files, View, Copy
<1> QED  BY <1>2 DEF Copied!Drain

LEMMA ApplyRefines ==
  ASSUME VfsInvariant, VfsInvariant', VfsAssumption, Apply
  PROVE  Copied!Deliver
<1>1. /\ VfsTypeOK /\ NoPathTwice /\ Told /\ InStep /\ DeletesAreOfKnownFiles
      /\ IsBatch(batch)
      /\ drained \in Seq(Contents \union {None}) /\ Len(drained) <= Len(paths)
      /\ DOMAIN text \subseteq DOMAIN paths /\ \A f \in DOMAIN text : text[f] \in Utf8
  BY DEF VfsInvariant, Kept, TypeOK
<1>2. /\ UNCHANGED <<paths, state, drained>>
      /\ text' = Applied(batch) /\ taken /\ taken' = FALSE
  BY DEF Apply, vfs
<1>3. /\ DOMAIN text' = DOMAIN text \union DOMAIN batch
      /\ \A f \in DOMAIN batch : text'[f] = TextOf(batch[f].contents)
      /\ \A f \in DOMAIN text : f \notin DOMAIN batch => text'[f] = text[f]
  BY <1>1, <1>2, AppliedFacts
<1>4. /\ DOMAIN paths = DOMAIN state /\ DOMAIN drained \subseteq DOMAIN paths
      /\ DOMAIN batch \subseteq DOMAIN paths /\ DOMAIN text' \subseteq DOMAIN paths
  BY <1>1, <1>3 DEF VfsTypeOK, IsBatch
<1>5. Copy = [p \in Paths |-> ByPath(paths, drained, p, None)]
  BY <1>2 DEF Copy
<1>6. Copy \in [Paths -> Contents \union {None}]
  <2> SUFFICES ASSUME NEW p \in Paths
               PROVE  ByPath(paths, drained, p, None) \in Contents \union {None}
    BY <1>5
  <2>1. CASE \E f \in DOMAIN paths : paths[f] = p
    <3>1. PICK f \in DOMAIN paths : paths[f] = p
      BY <2>1
    <3>2. ByPath(paths, drained, p, None) = IF f \in DOMAIN drained THEN drained[f] ELSE None
      BY <1>1, <1>4, <3>1, AtItsId DEF NoPathTwice
    <3>3. \A g \in DOMAIN drained : drained[g] \in Contents \union {None}
      BY <1>1
    <3> QED  BY <3>2, <3>3
  <2>2. CASE ~\E f \in DOMAIN paths : paths[f] = p
    <3>1. \A f \in DOMAIN drained : paths[f] # p
      BY <1>4, <2>2
    <3> QED  BY <3>1, WithoutId
  <2> QED  BY <2>1, <2>2
<1>7. \A p \in Paths : ByPath(paths, text', p, Unknown) =
        IF Copy[p] = None /\ ByPath(paths, text, p, Unknown) = Unknown
        THEN Unknown ELSE Copied!TextOf(Copy[p])
  <2> SUFFICES ASSUME NEW p \in Paths
               PROVE  ByPath(paths, text', p, Unknown) =
                        IF Copy[p] = None /\ ByPath(paths, text, p, Unknown) = Unknown
                        THEN Unknown ELSE TextOf(Copy[p])
    BY DEF Copied!TextOf, TextOf
  <2>1. CASE \E f \in DOMAIN paths : paths[f] = p
    <3>1. PICK f \in DOMAIN paths : paths[f] = p
      BY <2>1
    <3>2. Copy[p] = Before(f)
      BY <1>1, <1>4, <1>5, <3>1, AtItsId DEF NoPathTwice, Before
    <3>3. ByPath(paths, text, p, Unknown) = IF f \in DOMAIN text THEN text[f] ELSE Unknown
      BY <1>1, <3>1, AtItsId DEF NoPathTwice
    <3>4. ByPath(paths, text', p, Unknown) = IF f \in DOMAIN text' THEN text'[f] ELSE Unknown
      BY <1>1, <1>4, <3>1, AtItsId DEF NoPathTwice
    <3>5. f \in DOMAIN text => text[f] # Unknown
      BY <1>1 DEF VfsAssumption
    <3>6. CASE f \in DOMAIN batch
      <4>1. text'[f] = TextOf(Before(f)) /\ f \in DOMAIN text'
        BY <1>1, <1>3, <1>4, <3>1, <3>6 DEF InStep
      <4>2. Before(f) = None => f \in DOMAIN text
        <5>1. batch[f] \in Change /\ batch[f].contents = Before(f)
          BY <1>1, <1>4, <3>1, <3>6 DEF InStep, IsBatch
        <5> QED  BY <1>1, <3>6, <5>1, ChangeKinds DEF DeletesAreOfKnownFiles
      <4> QED  BY <3>2, <3>3, <3>4, <3>5, <4>1, <4>2
    <3>7. CASE f \notin DOMAIN batch /\ f \in DOMAIN text
      <4>1. text'[f] = TextOf(Before(f)) /\ f \in DOMAIN text'
        BY <1>1, <1>3, <1>4, <3>1, <3>7 DEF InStep
      <4> QED  BY <3>2, <3>3, <3>4, <3>5, <3>7, <4>1
    <3>8. CASE f \notin DOMAIN batch /\ f \notin DOMAIN text
      <4>1. Before(f) = None /\ f \notin DOMAIN text'
        BY <1>1, <1>3, <1>4, <3>1, <3>8 DEF InStep
      <4> QED  BY <3>2, <3>3, <3>4, <3>8, <4>1
    <3> QED  BY <3>6, <3>7, <3>8
  <2>2. CASE ~\E f \in DOMAIN paths : paths[f] = p
    <3>1. \A f \in DOMAIN text : paths[f] # p
      BY <1>1, <2>2
    <3>2. /\ \A f \in DOMAIN drained : paths[f] # p
          /\ \A f \in DOMAIN text' : paths[f] # p
      BY <1>4, <2>2
    <3>3. Copy[p] = None
      BY <1>5, <3>2, WithoutId
    <3>4. ByPath(paths, text, p, Unknown) = Unknown
      BY <3>1, WithoutId
    <3>5. ByPath(paths, text', p, Unknown) = Unknown
      BY <3>2, WithoutId
    <3> QED  BY <3>3, <3>4, <3>5
  <2> QED  BY <2>1, <2>2
<1>8. Copy # None /\ Copy' = None
  BY <1>2, <1>6 DEF Copy, VfsAssumption
<1>9. Files' = Files
  BY <1>2 DEF Files
<1>10. View' = [p \in Paths |-> IF Copy[p] = None /\ View[p] = Unknown
                                THEN Unknown ELSE Copied!TextOf(Copy[p])]
  BY <1>2, <1>7 DEF View
<1> QED  BY <1>8, <1>9, <1>10 DEF Copied!Deliver

LEMMA NothingToMirror ==
  ASSUME UNCHANGED <<paths, state, taken, text, drained>>
  PROVE  UNCHANGED Copied!vars
BY DEF Copied!vars, Files, Copy, View

(* The Vfs with its interner and log, and the database that applies the    *)
(* batches, implement copying: see Mirror.                                 *)
THEOREM VfsIsAMirror == Spec => ImplementsMirror
<1>1. Init => Copied!Init
  <2> SUFFICES ASSUME Init
               PROVE  Copied!Init
    OBVIOUS
  <2>1. DOMAIN state = {} /\ DOMAIN text = {} /\ ~taken
    BY DEF Init, VfsInit
  <2>2. /\ \A p \in Paths : ByPath(paths, state, p, None) = None
        /\ \A p \in Paths : ByPath(paths, text, p, Unknown) = Unknown
    BY <2>1, WithoutId
  <2> QED  BY <2>1, <2>2 DEF Copied!Init, Files, Copy, View
<1>2. VfsInvariant /\ VfsInvariant' /\ [Next]_vars => [Copied!Next]_(Copied!vars)
  <2> SUFFICES ASSUME VfsInvariant, VfsInvariant', [Next]_vars
               PROVE  [Copied!Next]_(Copied!vars)
    OBVIOUS
  <2>1. CASE \E p \in Paths, contents \in Contents \union {None} : Write(p, contents)
    BY <2>1, WriteRefines DEF Copied!Next
  <2>2. CASE Drain
    BY <2>2, DrainRefines DEF Copied!Next
  <2>3. CASE Apply
    BY <2>3, ApplyRefines, VfsAssumption DEF Copied!Next
  <2>4. CASE UNCHANGED vars
    BY <2>4, NothingToMirror DEF vars, vfs
  <2> QED  BY <2>1, <2>2, <2>3, <2>4 DEF Next
<1> QED  BY <1>1, <1>2, VfsInductive, PTL DEF Spec, ImplementsMirror, Copied!Spec

=============================================================================
