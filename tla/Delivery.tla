------------------------------ MODULE Delivery ------------------------------
(***************************************************************************)
(* What submission promises of each log, whatever rounds, reports, restarts *)
(* and the network do: it is pending until it either fails or is uploaded,  *)
(* for good, and it is uploaded only when the server has all of it.  Logs   *)
(* do not wait for each other.                                              *)
(***************************************************************************)
CONSTANT Log

VARIABLES place, delivered

Init == /\ place \in [Log -> {"none", "pending"}]
        /\ delivered = [l \in Log |-> FALSE]

Appears(l) == place[l] = "none" /\ place'[l] = "pending" /\ ~delivered'[l]

\* The server has it, though the sender may never know.
Arrives(l) == place[l] = "pending" /\ place'[l] = "pending" /\ delivered'[l]

Uploads(l) == place[l] = "pending" /\ place'[l] = "uploaded" /\ delivered'[l]

\* One that comes with the call that submits it may fail at once.
Fails(l) == place[l] \in {"none", "pending"} /\ place'[l] = "failed" /\ (delivered[l] => delivered'[l])

Rests(l) == place'[l] = place[l] /\ delivered'[l] = delivered[l]

Next == \A l \in Log : Appears(l) \/ Arrives(l) \/ Uploads(l) \/ Fails(l) \/ Rests(l)

Spec == Init /\ [][Next]_<<place, delivered>>
=============================================================================
