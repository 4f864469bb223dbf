----------------------------- MODULE MCLockfile -----------------------------
(* Model-checking instances of the lock file: processes are model values and *)
(* inodes are numbers. *)
EXTENDS Lockfile, TLC

ProcessSymmetry == Permutations(Process)
=============================================================================
