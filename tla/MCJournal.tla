------------------------------ MODULE MCJournal ------------------------------
(* Model-checking instance: two invocations, of one unit of the system, or *)
(* each of a unit of a user whose service manager is busy.                  *)
EXTENDS Journal, TLC

CONSTANTS a, b, s, t

MCOneUnit == [i \in Invocation |-> s]
MCSetups == {[unitOf |-> MCOneUnit, users |-> {}, busy |-> {}],
             [unitOf |-> (a :> s) @@ (b :> t), users |-> {s, t}, busy |-> {"user"}]}

\* The invocations are alike, and what matters of a failure is what was logged
\* before it: only journals that begin with a line of a are followed.
LineFirst == journal # <<>> => journal[1] = [invocation |-> a, failure |-> FALSE]
=============================================================================
