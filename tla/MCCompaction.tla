---------------------------- MODULE MCCompaction ----------------------------
(* The keys are numbers and need no definitions.  Three levels are the     *)
(* fewest in which a deletion can meet a deeper level; a flush may skip    *)
(* level 0.  Four updates of two keys fill two tables of a level above one *)
(* of the next, so that inputs grow on both sides.                         *)
EXTENDS Compaction

(* A part of a larger instance: keys 1 and 3 twice, then 2, no snapshots. *)
OuterKeysFirst ==
    /\ snapshots = <<>>
    /\ \A i \in DOMAIN updates :
         updates[i] = [key |-> <<1, 3, 1, 3, 2>>[i], type |-> "value"]
=============================================================================
