----------------------------- MODULE MCBackups -----------------------------
(* Instances of Backups for TLC. *)
EXTENDS Backups, TLC

CONSTANTS p1, p2, r1

Identical == Permutations(Procs)
=============================================================================
