---------------------------------- MODULE Mirror ----------------------------------
(***************************************************************************)
(* What the change log of the Vfs and the database that consumes it        *)
(* promise: the files are copied whole at a drain, and the copy reaches    *)
(* the database whole.  There is no log, no id and no merging here.        *)
(***************************************************************************)
EXTENDS Naturals

CONSTANTS
  Paths,
  Contents, (* what a file may hold                                        *)
  Utf8,     (* the contents that are text                                  *)
  Empty,    (* the contents that are no bytes at all                       *)
  None,     (* no file; no copy                                            *)
  Unknown   (* what the database has for a path it was never told of       *)

VARIABLES
  files, (* the contents by path, or None                                  *)
  copy,  (* the files as they were at the last drain, on their way         *)
  view   (* the database's texts, by path                                  *)

vars == <<files, copy, view>>

(* A file that is not UTF-8 has no text, and nor has one that is gone.     *)
TextOf(contents) == IF contents \in Utf8 THEN contents ELSE Empty

Init ==
  /\ files = [p \in Paths |-> None]
  /\ copy = None
  /\ view = [p \in Paths |-> Unknown]

Write(p, contents) ==
  /\ files' = [files EXCEPT ![p] = contents]
  /\ UNCHANGED <<copy, view>>

Drain ==
  /\ copy = None
  /\ copy' = files
  /\ UNCHANGED <<files, view>>

(* A path stays unknown for as long as no copy had it. *)
Deliver ==
  /\ copy # None
  /\ view' = [p \in Paths |-> IF copy[p] = None /\ view[p] = Unknown
                              THEN Unknown ELSE TextOf(copy[p])]
  /\ copy' = None
  /\ UNCHANGED files

Next ==
  \/ \E p \in Paths, contents \in Contents \union {None} : Write(p, contents)
  \/ Drain
  \/ Deliver

Spec == Init /\ [][Next]_vars

=============================================================================
