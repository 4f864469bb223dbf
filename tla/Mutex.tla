------------------------------- MODULE Mutex -------------------------------
(***************************************************************************)
(* What a lock file promises to processes that use it once each, whatever   *)
(* is in the file and whoever dies: only one of them has the lock, nobody   *)
(* is told that another holds it unless one does, and an attempt fails in   *)
(* no other way than that the lock is gone while it is looked at.           *)
(***************************************************************************)
CONSTANT Process

VARIABLES stage,  \* how far each process has come with the lock
          exists  \* there is a lock file

Init == stage = [p \in Process |-> "out"] /\ ~exists

\* Another process is at one of these stages.
Another(p, stages) == \E q \in Process \ {p} : stage[q] \in stages

Move(p, from, to) == stage[p] \in from /\ stage' = [stage EXCEPT ![p] = to]

Asks(p) == Move(p, {"out", "refused"}, "wants") /\ UNCHANGED exists

\* A new file, or one that a process left when it died
Gets(p) == Move(p, {"wants"}, "has") /\ ~Another(p, {"has"}) /\ exists'

\* LockHeldError, after which it may ask again
Refused(p) == /\ Another(p, {"has", "leaves"})
              /\ \E to \in {"refused", "out"} : Move(p, {"wants"}, to)
              /\ UNCHANGED exists

\* FileNotFoundError
Fails(p) == /\ ~exists /\ Another(p, {"leaves", "gone"})
            /\ Move(p, {"wants"}, "out") /\ UNCHANGED exists

\* The lock is free before its holder is done.
Frees(p) == exists /\ Move(p, {"has"}, "leaves") /\ ~exists'
Ends(p) == Move(p, {"leaves"}, "gone") /\ UNCHANGED exists

Dies(p) == Move(p, {"out", "wants", "refused", "has", "leaves"}, "gone") /\ UNCHANGED exists

Next == \E p \in Process : \/ Asks(p) \/ Gets(p) \/ Refused(p) \/ Fails(p)
                           \/ Frees(p) \/ Ends(p) \/ Dies(p)

Spec == Init /\ [][Next]_<<stage, exists>>
=============================================================================
