------------------------------- MODULE VfsDatabase -------------------------------
(***************************************************************************)
(* The Vfs and the database it feeds (base-db/src/lib.rs): somebody writes *)
(* to the Vfs, and somebody drains it into the database.  A batch may be   *)
(* on its way while there are more writes.  Nothing in the server drains   *)
(* it into a database yet; the tests of base-db do.  Source roots and      *)
(* durability are not modelled.                                            *)
(***************************************************************************)
EXTENDS Vfs

CONSTANTS
  Utf8,        (* the contents that are text                               *)
  Empty,       (* the contents that are no bytes at all                    *)
  Unknown,     (* no text recorded                                         *)
  MaxRevision  (* bound: writes that change something                      *)

ASSUME VfsAssumption ==
  /\ None \notin Contents
  /\ Utf8 \subseteq Contents
  /\ Empty \in Utf8
  /\ Unknown \notin Contents
  /\ None \notin [Paths -> Contents \union {None}]
  /\ MaxRevision \in Nat

VARIABLES
  batch,   (* the changes taken and not applied yet, or none               *)
  taken,   (* whether there is such a batch                                *)
  text,    (* FileText: the text of each id that has one                   *)
  drained  (* history: `state` at the last drain                           *)

vars == <<vfs, batch, taken, text, drained>>

TypeOK ==
  /\ VfsTypeOK
  /\ IsBatch(batch)
  /\ taken \in BOOLEAN
  /\ DOMAIN text \subseteq DOMAIN paths
  /\ text = [f \in DOMAIN text |-> text[f]]
  /\ \A f \in DOMAIN text : text[f] \in Utf8
  /\ drained \in Seq(Contents \union {None})
  /\ Len(drained) <= Len(paths)

Init ==
  /\ VfsInit
  /\ batch = NoChanges
  /\ taken = FALSE
  /\ text = [f \in {} |-> Empty]
  /\ drained = <<>>

(* Bytes are pushed in, or a file is gone. *)
Write(p, contents) ==
  /\ revision < MaxRevision
  /\ SetFileContents(p, contents)
  /\ UNCHANGED <<batch, taken, text, drained>>

Drain ==
  /\ ~taken
  /\ TakeChanges
  /\ batch' = changes
  /\ taken' = TRUE
  /\ drained' = state
  /\ UNCHANGED text

TextOf(contents) == IF contents \in Utf8 THEN contents ELSE Empty

(* Mutant: a deleted file keeps its text. *)
AppliedMutant(changed) ==
  [f \in DOMAIN text \union {g \in DOMAIN changed : changed[g] # Gone} |->
     IF f \in DOMAIN changed /\ changed[f] # Gone
     THEN TextOf(changed[f].contents) ELSE text[f]]

(* `apply_vfs_changes`: a deleted file keeps its id and becomes empty. *)
Applied(changed) ==
  [f \in DOMAIN text \union DOMAIN changed |->
     IF f \in DOMAIN changed THEN TextOf(changed[f].contents) ELSE text[f]]

Apply ==
  /\ taken
  /\ text' = Applied(batch)
  /\ batch' = NoChanges
  /\ taken' = FALSE
  /\ UNCHANGED <<vfs, drained>>

Next ==
  \/ \E p \in Paths, contents \in Contents \union {None} : Write(p, contents)
  \/ Drain
  \/ Apply

Spec == Init /\ [][Next]_vars

-----------------------------------------------------------------------------
Before(f) == IF f \in DOMAIN drained THEN drained[f] ELSE None

(***************************************************************************)
(* The log is the net change since the last drain, whatever was merged: a  *)
(* file without a change is what it was, the contents are today's, and     *)
(* only a Create is of a file that was absent then.  The assertions in     *)
(* `record` are then out of reach.  That a Modify's "content differs"      *)
(* (Change, lib.rs:78-83) is not part of it, as it is not so: a file that  *)
(* is written and written back, or deleted and restored, between two       *)
(* drains keeps a Modify with the contents of the last one.                *)
(***************************************************************************)
LogIsNetChange ==
  \A f \in DOMAIN state :
    IF ~Pending(f) THEN state[f] = Before(f)
    ELSE /\ changes[f].contents = state[f]
         /\ changes[f].kind = "Create" <=> Before(f) = None

(***************************************************************************)
(* The database is told only of the deletion of files it has a text for:   *)
(* a Delete must not "name a file the consumer never learned about".       *)
(***************************************************************************)
DeletesAreOfKnownFiles ==
  /\ \A f \in DOMAIN batch : batch[f] = Gone => f \in DOMAIN text
  /\ \A f \in DOMAIN changes :
       changes[f] = Gone => f \in DOMAIN text \union DOMAIN batch

(***************************************************************************)
(* The read-after-write barrier: when the log is empty and nothing is on   *)
(* its way, the database has every file's text, whatever was written,      *)
(* undone, deleted and written again between any two drains.               *)
(***************************************************************************)
ReadAfterWrite ==
  ~HasPendingChanges /\ ~taken =>
    \A f \in DOMAIN state :
      IF f \in DOMAIN text THEN text[f] = TextOf(state[f]) ELSE state[f] = None

(***************************************************************************)
(* Ids, merging and the log implement plain copying: see Mirror.           *)
(***************************************************************************)
ByPath(ids, values, p, default) ==
  IF \E f \in DOMAIN values : ids[f] = p
  THEN values[CHOOSE f \in DOMAIN values : ids[f] = p] ELSE default

Files == [p \in Paths |-> ByPath(paths, state, p, None)]
Copy == IF taken THEN [p \in Paths |-> ByPath(paths, drained, p, None)] ELSE None
View == [p \in Paths |-> ByPath(paths, text, p, Unknown)]

Copied == INSTANCE Mirror WITH files <- Files, copy <- Copy, view <- View

ImplementsMirror == Copied!Spec

=============================================================================
