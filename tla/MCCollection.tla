---------------------------- MODULE MCCollection ----------------------------
(* Model-checking instance: an option that is moved, the level, and the time *)
(* of the newest log, of two.                                                *)
EXTENDS Collection

CONSTANTS info, on, off, l1, l2

MCBase == [k \in Key |-> IF k = "level" THEN info ELSE None]
MCMigrations == <<"enable">>
MCUserFiles == {[k \in Key |-> IF k = Newest THEN None ELSE on]}
=============================================================================
