------------------------------ MODULE CacheRegister ------------------------------
(***************************************************************************)
(* What the index cache promises: a register that holds a whole snapshot   *)
(* or nothing.  A reader that finds a snapshot made for its key returns    *)
(* the one the register held when the read began, or else finds nothing,   *)
(* whatever is written, erased or abandoned meanwhile.                     *)
(***************************************************************************)
EXTENDS Naturals

CONSTANTS
  Heads,   (* the commits a snapshot may be made for                       *)
  Readers, (* the processes that read the cache                            *)
  None

(* An index, named by the shards it was decoded from, and its manifest. *)
Snapshot == [head : Heads, shards : Nat, index : Nat]
Whole(v) == v \in Snapshot /\ v.index = v.shards

VARIABLES
  value,   (* the snapshot the register holds                              *)
  reading, (* what each reader saw when its read began, and its key        *)
  got      (* what each reader's last read returned                        *)

vars == <<value, reading, got>>

Init ==
  /\ value = None
  /\ reading = [r \in Readers |-> None]
  /\ got = [r \in Readers |-> None]

Write ==
  /\ Whole(value')
  /\ UNCHANGED <<reading, got>>

Erase ==
  /\ value' = None
  /\ UNCHANGED <<reading, got>>

ReadBegins(r) ==
  /\ value # None
  /\ \E key \in Heads : reading' = [reading EXCEPT ![r] = [key |-> key, seen |-> value]]
  /\ got' = [got EXCEPT ![r] = None]
  /\ UNCHANGED value

ReadHits(r) ==
  /\ reading[r] # None
  /\ reading[r].seen.head = reading[r].key
  /\ got' = [got EXCEPT ![r] = reading[r].seen]
  /\ reading' = [reading EXCEPT ![r] = None]
  /\ UNCHANGED value

ReadMisses(r) ==
  /\ got' = [got EXCEPT ![r] = None]
  /\ reading' = [reading EXCEPT ![r] = None]
  /\ UNCHANGED value

Next ==
  \/ Write
  \/ Erase
  \/ \E r \in Readers : ReadBegins(r) \/ ReadHits(r) \/ ReadMisses(r)

Spec == Init /\ [][Next]_vars

=============================================================================
