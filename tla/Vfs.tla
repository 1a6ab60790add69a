----------------------------------- MODULE Vfs -----------------------------------
(***************************************************************************)
(* The virtual file system (vfs/src/lib.rs, path_interner.rs): what it     *)
(* believes of each path, and the log of changes since the last drain.     *)
(*                                                                         *)
(* A FileId is a position in the interner, counted from 1 here.  Contents  *)
(* stand for their hash: a collision is not modelled.  The order of the    *)
(* log, that of first touch, is left out: no two entries are of one file.  *)
(***************************************************************************)
EXTENDS Naturals, Sequences

CONSTANTS
  Paths,
  Contents, (* what a file may hold                                        *)
  None      (* FileState::Deleted: no such file                            *)

VARIABLES
  paths,    (* the interner: the path of each id                           *)
  state,    (* what each id's file holds, or None                          *)
  changes,  (* the pending change of each id that has one                  *)
  revision  (* counts writes that changed something                        *)

vfs == <<paths, state, changes, revision>>

Present == [kind : {"Create", "Modify"}, contents : Contents]
Gone == [kind |-> "Delete", contents |-> None]
Change == Present \union {Gone}

NoChanges == [f \in {} |-> Gone]

(* A batch is a function from some ids to their changes. *)
IsBatch(batch) ==
  /\ DOMAIN batch \subseteq DOMAIN paths
  /\ batch = [f \in DOMAIN batch |-> batch[f]]
  /\ \A f \in DOMAIN batch : batch[f] \in Change

VfsTypeOK ==
  /\ paths \in Seq(Paths)
  /\ state \in Seq(Contents \union {None})
  /\ Len(state) = Len(paths)
  /\ IsBatch(changes)
  /\ revision \in Nat

VfsInit ==
  /\ paths = <<>>
  /\ state = <<>>
  /\ changes = NoChanges
  /\ revision = 0

(* `alloc_file_id`: a path seen for the first time gets the next id. *)
Interned(p) ==
  IF \E f \in DOMAIN paths : paths[f] = p THEN paths ELSE Append(paths, p)

(* Mutant: off by one, the states grow although the file has a slot. *)
ResizedMutant(n) == IF n >= Len(state) THEN Append(state, None) ELSE state

Resized(n) == IF n > Len(state) THEN Append(state, None) ELSE state

(* The change that takes a file from one state to another. *)
ChangeTo(old, new) ==
  IF new = None THEN Gone
  ELSE [kind |-> IF old = None THEN "Create" ELSE "Modify", contents |-> new]

(* Mutant: what is written again after a Delete was created. *)
MergedMutant(pending, change) ==
  IF change.kind = "Delete" THEN change
  ELSE [kind |-> IF pending.kind = "Modify" THEN "Modify" ELSE "Create",
        contents |-> change.contents]

(* The later change, told from the last drain's point of view. *)
Merged(pending, change) ==
  IF change.kind = "Delete" THEN change
  ELSE [kind |-> IF pending.kind = "Create" THEN "Create" ELSE "Modify",
        contents |-> change.contents]

Pending(f) == f \in DOMAIN changes

(* A file created and deleted between two drains leaves no change. *)
Record(f, change) ==
  IF Pending(f) /\ changes[f].kind = "Create" /\ change.kind = "Delete"
  THEN [g \in DOMAIN changes \ {f} |-> changes[g]]
  ELSE [g \in DOMAIN changes \union {f} |->
          IF g # f THEN changes[g]
          ELSE IF Pending(f) THEN Merged(changes[f], change) ELSE change]

(* The path is interned even if the write changes nothing. *)
SetFileContents(p, contents) ==
  \E f \in DOMAIN Interned(p) :
    LET known == Resized(f)
    IN  /\ Interned(p)[f] = p
        /\ paths' = Interned(p)
        /\ state' = [known EXCEPT ![f] = contents]
        /\ IF contents = known[f]
           THEN UNCHANGED <<changes, revision>>
           ELSE /\ changes' = Record(f, ChangeTo(known[f], contents))
                /\ revision' = revision + 1

HasPendingChanges == changes # NoChanges

(* Mutant: the batch is copied but not taken. *)
TakeChangesMutant == UNCHANGED vfs

(* The caller gets `changes`. *)
TakeChanges ==
  /\ changes' = NoChanges
  /\ UNCHANGED <<paths, state, revision>>

=============================================================================
