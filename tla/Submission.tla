----------------------------- MODULE Submission -----------------------------
(***************************************************************************)
(* A round of collection and submission (steamos_log_submitter/runner.py)   *)
(* and the moves of a log between the directories of its helper, with       *)
(* system reports that are sent while rounds run (helpers/sysreport.py) and *)
(* logs that hooks leave in the pending directory at any time.              *)
(*                                                                         *)
(* A round runs one job per helper in each of its two phases; there is one  *)
(* round at a time (OneRound of module Daemon).  A round that is cancelled  *)
(* leaves its jobs running, and no other begins until the daemon restarts   *)
(* because the trigger lock stays taken.  Each action of a job goes from    *)
(* one suspension to the next: in between, nothing else of the daemon runs. *)
(* A log has a name of its own, for good.                                   *)
(***************************************************************************)
EXTENDS Naturals, Sentry

CONSTANTS Helper, Log, None,
          HelperOf,          \* the helper whose directory a log is in
          Setups,            \* the kinds that helpers, and contents that files, may have
          Reports,           \* the logs that SendReport submits
          Server,            \* what may come of each request for a log
          ClassErrors,       \* logs of helpers that may return CLASS_ERROR: none yet does
          MaxRestarts        \* bound on restarts of the daemon

ASSUME SubmissionAssumption == /\ HelperOf \in [Log -> Helper]
                               /\ Setups \subseteq [kind : [Helper -> Kinds], content : [Log -> Contents]]
                               /\ Reports \subseteq Log
                               /\ Server \in [Log -> SUBSET Status]
                               /\ ClassErrors \subseteq Log
                               /\ MaxRestarts \in Nat
                               /\ None \notin Helper \cup Log
                               /\ Helper \cap Log = {}

\* The round's job for a helper, or that of a SendReport call
Job == Helper \cup Reports

VARIABLES
  kind,           \* of each helper
  content,        \* of each log's file
  at,             \* the directory each log is in
  server,         \* history: what the server has of it
  acked,          \* history: how often submit returned OK for it
  lock,           \* the job that has each helper's lock
  phase,          \* of the round
  pc,             \* of each job
  todo,           \* the logs its listing has left
  log,            \* the log it is submitting
  restarts

jobs == <<pc, todo, log>>
files == <<kind, content>>
vars == <<files, at, server, acked, lock, phase, jobs, restarts>>

Sending == {"event", "attachments", "minidump"}

TypeOK == /\ [kind |-> kind, content |-> content] \in Setups
          /\ at \in [Log -> {"none", "pending", "uploaded", "failed"}]
          /\ server \in [Log -> SUBSET {"event", "attachments"}]
          /\ acked \in [Log -> 0..2]
          /\ lock \in [Helper -> Job \cup {None}]
          /\ phase \in {"idle", "collect", "submit", "cancelled"}
          /\ pc \in [Job -> {"none", "collect", "collecting", "submit"} \cup Sending]
          /\ todo \in [Job -> SUBSET Log]
          /\ log \in [Job -> Log \cup {None}]
          /\ restarts \in 0..MaxRestarts

HelperFor(j) == IF j \in Reports THEN HelperOf[j] ELSE j

Init == /\ \E setup \in Setups : kind = setup.kind /\ content = setup.content
        /\ at \in [Log -> {"none", "pending"}]
        /\ \A l \in Reports : at[l] = "none"
        /\ server = [l \in Log |-> {}]
        /\ acked = [l \in Log |-> 0]
        /\ lock = [h \in Helper |-> None]
        /\ phase = "idle"
        /\ pc = [j \in Job |-> "none"]
        /\ todo = [j \in Job |-> {}]
        /\ log = [j \in Job |-> None]
        /\ restarts = 0

-----------------------------------------------------------------------------
(* trigger, collect and submit: the phases of a round *)

Ended == \A h \in Helper : pc[h] = "none"

\* helper.list_pending(): what os.listdir sees of the helper's directory
Pending(h) == {l \in Log : HelperOf[l] = h /\ at[l] = "pending"}

\* A round begins.  Which helpers take part depends on the options.
Collect(hs) ==
  /\ phase = "idle"
  /\ phase' = "collect"
  /\ pc' = [j \in Job |-> IF j \in hs THEN "collect" ELSE pc[j]]
  /\ UNCHANGED <<files, at, server, acked, lock, todo, log, restarts>>

\* collect has waited for every job.  When submission is off, or the network
\* is, no helper takes part.  The directories are listed here, before the locks
\* are taken.
Submit(hs) ==
  /\ phase = "collect" /\ Ended
  /\ phase' = "submit"
  /\ pc' = [j \in Job |-> IF j \in hs THEN "submit" ELSE pc[j]]
  /\ todo' = [j \in Job |-> IF j \in hs THEN Pending(j) ELSE todo[j]]
  /\ UNCHANGED <<files, at, server, acked, lock, log, restarts>>

RoundEnds == /\ phase = "submit" /\ Ended
             /\ phase' = "idle"
             /\ UNCHANGED <<files, at, server, acked, lock, jobs, restarts>>

\* CancelledError at an asyncio.wait, which does not cancel what it waits for
Cancel == /\ phase \in {"collect", "submit"}
          /\ phase' = "cancelled"
          /\ UNCHANGED <<files, at, server, acked, lock, jobs, restarts>>

-----------------------------------------------------------------------------
(* collect_category *)

\* (Mutant: the lock is taken whoever has it.)
LocksRegardless(j) == TRUE
Locks(j) == lock[HelperFor(j)] = None

CollectCategory(j) ==
  /\ pc[j] = "collect"
  /\ \/ /\ Locks(j)
        /\ lock' = [lock EXCEPT ![HelperFor(j)] = j]
        /\ pc' = [pc EXCEPT ![j] = "collecting"]
     \/ /\ ~Locks(j)
        /\ pc' = [pc EXCEPT ![j] = "none"]
        /\ UNCHANGED lock
  /\ UNCHANGED <<files, at, server, acked, phase, todo, log, restarts>>

\* helper.collect() has added logs to the directory, none, or has raised.
Collected(j) ==
  /\ pc[j] = "collecting"
  /\ \E new \in SUBSET {l \in Log \ Reports : HelperOf[l] = HelperFor(j) /\ at[l] = "none"} :
       at' = [l \in Log |-> IF l \in new THEN "pending" ELSE at[l]]
  /\ lock' = [lock EXCEPT ![HelperFor(j)] = None]
  /\ pc' = [pc EXCEPT ![j] = "none"]
  /\ UNCHANGED <<files, server, acked, phase, todo, log, restarts>>

-----------------------------------------------------------------------------
(* submit_category *)

Leave(j) == /\ lock' = [lock EXCEPT ![HelperFor(j)] = None]
            /\ pc' = [pc EXCEPT ![j] = "none"]
            /\ todo' = [todo EXCEPT ![j] = {}]
            /\ log' = [log EXCEPT ![j] = None]

\* What submit would send of a log, or the result it has without sending
Ready(l) == Prepared(kind[HelperOf[l]], content[l])

\* Where os.replace moves the log.  A report that is not accepted is moved
\* away by send_report.  (Mutant: a log stays where it is when it is accepted.)
DirectoryKept(j, result) ==
  IF result = "PERMANENT_ERROR" \/ j \in Reports THEN "failed" ELSE "pending"

Directory(j, result) ==
  IF result = "OK" THEN "uploaded"
  ELSE IF result = "PERMANENT_ERROR" \/ j \in Reports THEN "failed"
  ELSE "pending"

\* The logs of the listing that os.access still finds, in any order, up to one
\* that submit sends something of, or to the end.
Advance(j, dirs) ==
  LET rest == {l \in todo[j] : dirs[l] = "pending"}
      idle == {l \in rest : Ready(l) \notin Sending}
  IN \E done \in SUBSET idle :
       /\ at' = [l \in Log |-> IF l \in done THEN Directory(j, Ready(l)) ELSE dirs[l]]
       /\ \/ done = rest /\ Leave(j)
          \/ \E l \in rest \ idle : /\ lock' = [lock EXCEPT ![HelperFor(j)] = j]
                                    /\ pc' = [pc EXCEPT ![j] = Ready(l)]
                                    /\ todo' = [todo EXCEPT ![j] = rest \ (done \cup {l})]
                                    /\ log' = [log EXCEPT ![j] = l]

SubmitCategory(j) ==
  /\ pc[j] = "submit"
  /\ \/ Locks(j) /\ Advance(j, at)
     \/ /\ ~Locks(j)
        /\ pc' = [pc EXCEPT ![j] = "none"]
        /\ todo' = [todo EXCEPT ![j] = {}]
        /\ UNCHANGED <<at, lock, log>>
  /\ UNCHANGED <<files, server, acked, phase, restarts>>

\* The results that end the loop.  (Mutant: any failure does.)
BreaksOnFailure == Results \ {"OK"}
Breaks == {"CLASS_ERROR"}

\* helper.submit() has returned, or raised.  os.replace raises when the log is gone.
Returns(j, result) ==
  LET l == log[j]
      dirs == IF at[l] = "pending" THEN [at EXCEPT ![l] = Directory(j, result)] ELSE at
  IN /\ acked' = IF result = "OK" THEN [acked EXCEPT ![l] = @ + 1] ELSE acked
     /\ IF result \in Breaks THEN Leave(j) /\ at' = dirs ELSE Advance(j, dirs)

\* The server takes what was posted, and may do so when its answer is lost.
Takes(j, status, what) ==
  \E taken \in IF status = "200" THEN {what} ELSE IF status \in Unanswered THEN {{}, what} ELSE {{}} :
    server' = [server EXCEPT ![log[j]] = server[log[j]] \cup taken]

\* The answer to the event: the attachments follow it.
StoreReply(j) ==
  /\ pc[j] = "event"
  /\ \E status \in Server[log[j]] :
       /\ Takes(j, status, {"event"})
       /\ IF status = "200" THEN /\ pc' = [pc EXCEPT ![j] = "attachments"]
                                 /\ UNCHANGED <<at, acked, lock, todo, log>>
                            ELSE Returns(j, StoreResult(status))
  /\ UNCHANGED <<files, phase, restarts>>

EnvelopeReply(j) ==
  /\ pc[j] = "attachments"
  /\ \E status \in Server[log[j]] : /\ Takes(j, status, {"attachments"})
                                   /\ Returns(j, EnvelopeResult(status))
  /\ UNCHANGED <<files, phase, restarts>>

MinidumpReply(j) ==
  /\ pc[j] = "minidump"
  /\ \E status \in Server[log[j]] : /\ Takes(j, status, {"event", "attachments"})
                                   /\ Returns(j, MinidumpResult(status))
  /\ UNCHANGED <<files, phase, restarts>>

ClassError(j) == /\ pc[j] \in Sending /\ log[j] \in ClassErrors
                 /\ Returns(j, "CLASS_ERROR")
                 /\ UNCHANGED <<files, server, phase, restarts>>

-----------------------------------------------------------------------------
(* send_report, hooks, restarts *)

\* The report is copied into the directory and submitted at once, or fails at
\* once when the lock is held or the copy cannot be read.
SendReport(s) ==
  /\ at[s] = "none"
  /\ \/ /\ Locks(s) /\ Ready(s) \in Sending
        /\ at' = [at EXCEPT ![s] = "pending"]
        /\ lock' = [lock EXCEPT ![HelperFor(s)] = s]
        /\ pc' = [pc EXCEPT ![s] = Ready(s)]
        /\ log' = [log EXCEPT ![s] = s]
        /\ UNCHANGED todo
     \/ /\ ~(Locks(s) /\ Ready(s) \in Sending)
        /\ at' = [at EXCEPT ![s] = "failed"]
        /\ UNCHANGED <<lock, jobs>>
  /\ UNCHANGED <<files, server, acked, phase, restarts>>

\* A hook renames a finished log into the pending directory, without the lock.
HookPublishes(l) == /\ l \notin Reports /\ at[l] = "none"
                    /\ at' = [at EXCEPT ![l] = "pending"]
                    /\ UNCHANGED <<files, server, acked, lock, phase, jobs, restarts>>

\* The daemon is killed and started again: a lock of a dead process is taken over.
Restart == /\ restarts < MaxRestarts
           /\ restarts' = restarts + 1
           /\ lock' = [h \in Helper |-> None]
           /\ phase' = "idle"
           /\ pc' = [j \in Job |-> "none"]
           /\ todo' = [j \in Job |-> {}]
           /\ log' = [j \in Job |-> None]
           /\ UNCHANGED <<files, at, server, acked>>

-----------------------------------------------------------------------------

JobStep(j) == \/ CollectCategory(j) \/ Collected(j) \/ SubmitCategory(j)
              \/ StoreReply(j) \/ EnvelopeReply(j) \/ MinidumpReply(j) \/ ClassError(j)

Next == \/ \E hs \in SUBSET Helper : Collect(hs) \/ Submit(hs)
        \/ RoundEnds \/ Cancel
        \/ \E j \in Job : JobStep(j)
        \/ \E s \in Reports : SendReport(s)
        \/ \E l \in Log : HookPublishes(l)
        \/ Restart

Spec == Init /\ [][Next]_vars

\* Rounds come again and again with everything switched on, and what is
\* submitted is answered (httpx has a timeout).
Fairness == /\ WF_vars(RoundEnds)
            /\ SF_vars(Collect(Helper)) /\ SF_vars(Submit(Helper))
            /\ \A j \in Job : WF_vars(JobStep(j))

FairSpec == Spec /\ Fairness

-----------------------------------------------------------------------------
(* Properties *)

\* A log that was accepted is not submitted again, though SendReport submits
\* from the directory that a round has listed or is about to list, listings are
\* older than the locks under which they are used, and jobs outlive their round.
AcceptedOnce == \A l \in Log : acked[l] <= 1

\* What the failed directory holds was never accepted: send_report and a round
\* do not end up with different ideas of the same report.
FailedNotAccepted == \A l \in Log : at[l] = "failed" => acked[l] = 0

\* Logs that fail again and again do not keep the others of their helper from
\* being uploaded, wherever the listing has them; only a CLASS_ERROR does, or
\* a round that is cancelled, after which there are no more.
OthersGetThrough ==
  \A l \in Log :
    /\ Server[l] = {"200"}
    /\ \A m \in ClassErrors : HelperOf[m] # HelperOf[l]
    => (at[l] = "pending" /\ Ready(l) \in Sending ~> (at[l] = "uploaded" \/ phase = "cancelled"))

\* Submission does what Delivery says: in particular a log is uploaded only when
\* the server has its event and its attachments, whichever request failed in
\* earlier rounds, and no job moves a log that another has dealt with.
D == INSTANCE Delivery WITH place <- at,
                            delivered <- [l \in Log |-> server[l] = {"event", "attachments"}]
Delivers == D!Spec
=============================================================================
