-------------------------- MODULE SubmissionProofs --------------------------
(***************************************************************************)
(* What holds of submission for any helpers, logs, reports and replies: its *)
(* type invariant, that a log is accepted once and not after it failed, and *)
(* that it implements Delivery.                                             *)
(***************************************************************************)
EXTENDS Submission, TLAPS

USE SubmissionAssumption

Places == {"none", "pending", "uploaded", "failed"}
Holding == {"collecting"} \cup Sending

\* A job that works on a directory has its lock, whatever round it is from.
LockHeld == \A j \in Job : pc[j] \in Holding => lock[HelperFor(j)] = j

\* A listing is of the job's own directory.
OwnListing == \A j \in Job : \A l \in todo[j] : HelperOf[l] = HelperFor(j)

\* A log that is being sent stays pending until the reply.
SentPending == \A j \in Job : pc[j] \in Sending =>
                 log[j] \in Log /\ HelperOf[log[j]] = HelperFor(j) /\ at[log[j]] = "pending"

\* The attachments follow the event.
EventFirst == \A j \in Job : pc[j] = "attachments" => "event" \in server[log[j]]

\* Only what was pending has been sent, and what was accepted is uploaded.
Accounted == \A l \in Log : /\ at[l] = "none" => server[l] = {}
                            /\ acked[l] = IF at[l] = "uploaded" THEN 1 ELSE 0

\* The inductive invariant
IInv == TypeOK /\ LockHeld /\ OwnListing /\ SentPending /\ EventFirst /\ Accounted

-----------------------------------------------------------------------------
(* What a log may go through in one step *)

\* What Delivery allows for l, and what the history records of it
LogStep(l) ==
  /\ acked'[l] = IF at'[l] = "uploaded" THEN 1 ELSE 0
  /\ \/ at'[l] = at[l] /\ server'[l] = server[l]
     \/ at[l] = "pending" /\ at'[l] = "pending" /\ server[l] \subseteq server'[l]
     \/ at[l] = "none" /\ at'[l] \in {"pending", "failed"} /\ server'[l] = server[l]
     \/ at[l] = "pending" /\ at'[l] = "failed" /\ server[l] \subseteq server'[l]
     \/ at[l] = "pending" /\ at'[l] = "uploaded" /\ server'[l] = {"event", "attachments"}

LogSteps == \A l \in Log : LogStep(l)

\* A helper does not accept a log without sending it.
LEMMA ReadyType ==
  ASSUME TypeOK, NEW l \in Log
  PROVE  /\ Ready(l) \in {"event", "minidump"} \cup (Results \ {"OK"})
         /\ Ready(l) \in Sending => Ready(l) \in {"event", "minidump"}
<1>1. kind[HelperOf[l]] \in Kinds /\ content[l] \in Contents
  BY DEF TypeOK
<1>2. QED
  BY <1>1 DEF Ready, Prepared, Kdump, Gpu, Devcoredump, Earlyoom, Trace, Journal, Sysreport,
              Minidump, Sysinfo, Kinds, Contents, Results, Sending

\* The job leaves the directory, or goes on to another pending log of its
\* listing; the logs in between stay where they are or fail.
LEMMA AdvanceStep ==
  ASSUME TypeOK, OwnListing, NEW j \in Job, NEW dirs \in [Log -> Places], Advance(j, dirs)
  PROVE  /\ at' \in [Log -> Places]
         /\ \A l \in Log : at'[l] = dirs[l]
                             \/ (dirs[l] = "pending" /\ at'[l] = "failed" /\ HelperOf[l] = HelperFor(j))
         /\ \E h \in Job \cup {None}, p \in {"none", "event", "minidump"},
               t \in SUBSET todo[j], m \in Log \cup {None} :
              /\ lock' = [lock EXCEPT ![HelperFor(j)] = h]
              /\ pc' = [pc EXCEPT ![j] = p]
              /\ todo' = [todo EXCEPT ![j] = t]
              /\ log' = [log EXCEPT ![j] = m]
              /\ p # "none" => h = j /\ m \in todo[j] /\ at'[m] = "pending"
<1> DEFINE rest == {l \in todo[j] : dirs[l] = "pending"}
           idle == {l \in rest : Ready(l) \notin Sending}
<1>0. todo[j] \subseteq Log /\ rest \subseteq Log
  BY DEF TypeOK
<1>1. PICK done \in SUBSET idle :
        /\ at' = [l \in Log |-> IF l \in done THEN Directory(j, Ready(l)) ELSE dirs[l]]
        /\ \/ done = rest /\ Leave(j)
           \/ \E l \in rest \ idle : /\ lock' = [lock EXCEPT ![HelperFor(j)] = j]
                                     /\ pc' = [pc EXCEPT ![j] = Ready(l)]
                                     /\ todo' = [todo EXCEPT ![j] = rest \ (done \cup {l})]
                                     /\ log' = [log EXCEPT ![j] = l]
  BY DEF Advance
<1>2. \A l \in done : Directory(j, Ready(l)) \in {"pending", "failed"}
  BY <1>0, ReadyType DEF Directory, Results, Sending
<1>3. /\ at' \in [Log -> Places]
      /\ \A l \in Log : at'[l] = dirs[l]
                          \/ (dirs[l] = "pending" /\ at'[l] = "failed" /\ HelperOf[l] = HelperFor(j))
  BY <1>0, <1>1, <1>2 DEF Places, OwnListing
<1>4. CASE Leave(j)
  BY <1>3, <1>4, {} \in SUBSET todo[j] DEF Leave
<1>5. ASSUME NEW l \in rest \ idle,
             /\ lock' = [lock EXCEPT ![HelperFor(j)] = j]
             /\ pc' = [pc EXCEPT ![j] = Ready(l)]
             /\ todo' = [todo EXCEPT ![j] = rest \ (done \cup {l})]
             /\ log' = [log EXCEPT ![j] = l]
      PROVE  \E h \in Job \cup {None}, p \in {"none", "event", "minidump"},
               t \in SUBSET todo[j], m \in Log \cup {None} :
              /\ lock' = [lock EXCEPT ![HelperFor(j)] = h]
              /\ pc' = [pc EXCEPT ![j] = p]
              /\ todo' = [todo EXCEPT ![j] = t]
              /\ log' = [log EXCEPT ![j] = m]
              /\ p # "none" => h = j /\ m \in todo[j] /\ at'[m] = "pending"
  <2>1. Ready(l) \in {"event", "minidump"}
    BY <1>0, <1>5, ReadyType
  <2>2. at'[l] = "pending" /\ l \in todo[j] /\ l \in Log
    BY <1>0, <1>1, <1>5
  <2>3. rest \ (done \cup {l}) \in SUBSET todo[j]
    OBVIOUS
  <2>4. QED
    BY <1>5, <2>1, <2>2, <2>3
<1>6. QED
  BY <1>1, <1>3, <1>4, <1>5

-----------------------------------------------------------------------------
(* Steps and the inductive invariant *)

\* What two logs' histories keep of LogStep
LEMMA AccountedStep ==
  ASSUME Accounted, LogSteps
  PROVE  Accounted'
BY DEF Accounted, LogSteps, LogStep

\* The lock keeps every other job out of the directory.
LEMMA Alone ==
  ASSUME TypeOK, LockHeld, NEW j \in Job, Locks(j) \/ pc[j] \in Holding,
         NEW i \in Job \ {j}, pc[i] \in Holding
  PROVE  HelperFor(i) # HelperFor(j)
BY DEF LockHeld, Locks, Job

\* A job that has the lock, or finds it free, moves on in its own directory.
LEMMA MoveInv ==
  ASSUME IInv, NEW j \in Job, Locks(j) \/ pc[j] \in Holding,
         NEW h \in Job \cup {None}, NEW p \in {"none", "event", "minidump", "collecting"},
         NEW t \in SUBSET todo[j], NEW m \in Log \cup {None},
         lock' = [lock EXCEPT ![HelperFor(j)] = h],
         pc' = [pc EXCEPT ![j] = p],
         todo' = [todo EXCEPT ![j] = t],
         log' = [log EXCEPT ![j] = m],
         p # "none" => h = j,
         p \in Sending => m \in Log /\ HelperOf[m] = HelperFor(j) /\ at'[m] = "pending",
         at' \in [Log -> Places], server' \in [Log -> SUBSET {"event", "attachments"}],
         acked' \in [Log -> 0..2], LogSteps,
         \A l \in Log : HelperOf[l] = HelperFor(j) \/ at[l] # "pending"
                           \/ (at'[l] = at[l] /\ server'[l] = server[l]),
         UNCHANGED <<files, phase, restarts>>
  PROVE  IInv'
<1> USE DEF IInv
<1>0. HelperFor(j) \in Helper
  BY DEF HelperFor, Job
<1>1. TypeOK'
  BY <1>0 DEF TypeOK, Sending, Places, files
<1>2. LockHeld'
  BY <1>0, Alone DEF LockHeld, TypeOK, Holding, Sending, HelperFor, Job
<1>3. OwnListing'
  BY DEF OwnListing, TypeOK, HelperFor
<1>4. SentPending'
  <2>1. ASSUME NEW i \in Job, pc'[i] \in Sending, i # j
        PROVE  (log[i] \in Log /\ HelperOf[log[i]] = HelperFor(i) /\ at[log[i]] = "pending")'
    <3>1. pc[i] \in Sending /\ log'[i] = log[i]
      BY <2>1 DEF TypeOK
    <3>2. HelperFor(i) # HelperFor(j)
      BY <2>1, <3>1, Alone DEF Holding
    <3>3. QED
      BY <3>1, <3>2 DEF SentPending, HelperFor
  <2>2. ASSUME pc'[j] \in Sending
        PROVE  (log[j] \in Log /\ HelperOf[log[j]] = HelperFor(j) /\ at[log[j]] = "pending")'
    BY <2>2 DEF TypeOK, HelperFor
  <2>3. QED
    BY <2>1, <2>2 DEF SentPending
<1>5. EventFirst'
  <2>1. ASSUME NEW i \in Job, pc'[i] = "attachments"
        PROVE  "event" \in server'[log'[i]]
    <3>1. i # j /\ pc[i] = "attachments" /\ log'[i] = log[i]
      BY <2>1 DEF TypeOK
    <3>2. HelperFor(i) # HelperFor(j)
      BY <3>1, Alone DEF Holding, Sending
    <3>3. log[i] \in Log /\ server'[log[i]] = server[log[i]]
      BY <3>1, <3>2 DEF SentPending, Sending
    <3>4. QED
      BY <3>1, <3>3 DEF EventFirst
  <2>2. QED
    BY <2>1 DEF EventFirst
<1>6. Accounted'
  BY AccountedStep
<1>7. QED
  BY <1>1, <1>2, <1>3, <1>4, <1>5, <1>6

\* submit has returned for a log that was pending, and the loop goes on.
LEMMA ReturnsInv ==
  ASSUME IInv, NEW j \in Job, pc[j] \in Sending, NEW result \in Results, Returns(j, result),
         server' \in [Log -> SUBSET {"event", "attachments"}],
         server[log[j]] \subseteq server'[log[j]],
         \A l \in Log \ {log[j]} : server'[l] = server[l],
         result = "OK" => server'[log[j]] = {"event", "attachments"},
         UNCHANGED <<files, phase, restarts>>
  PROVE  IInv' /\ LogSteps
<1> DEFINE dirs == [at EXCEPT ![log[j]] = Directory(j, result)]
<1>1. log[j] \in Log /\ HelperOf[log[j]] = HelperFor(j) /\ at[log[j]] = "pending"
  BY DEF IInv, SentPending
<1>2. dirs \in [Log -> Places] /\ Directory(j, result) \in {"uploaded", "failed", "pending"}
  BY <1>1 DEF IInv, TypeOK, Places, Directory
<1>3. Directory(j, result) = "uploaded" <=> result = "OK"
  BY DEF Directory
<1>4. /\ acked' = IF result = "OK" THEN [acked EXCEPT ![log[j]] = @ + 1] ELSE acked
      /\ IF result \in Breaks THEN Leave(j) /\ at' = dirs ELSE Advance(j, dirs)
  BY <1>1 DEF Returns
<1>a. /\ dirs[log[j]] = Directory(j, result)
      /\ \A l \in Log \ {log[j]} : dirs[l] = at[l]
  BY <1>1 DEF IInv, TypeOK
<1> HIDE DEF dirs
<1>5. /\ at' \in [Log -> Places]
      /\ \A l \in Log : at'[l] = dirs[l]
                          \/ (dirs[l] = "pending" /\ at'[l] = "failed" /\ HelperOf[l] = HelperFor(j))
  BY <1>2, <1>4, AdvanceStep DEF IInv
<1>6. acked' \in [Log -> 0..2] /\ \A l \in Log :
        acked'[l] = IF l = log[j] /\ result = "OK" THEN 1 ELSE acked[l]
  BY <1>1, <1>4 DEF IInv, TypeOK, Accounted
<1>7. LogSteps
  <2>1. LogStep(log[j])
    BY <1>1, <1>2, <1>3, <1>a, <1>5, <1>6 DEF IInv, TypeOK, Accounted, LogStep
  <2>2. ASSUME NEW l \in Log \ {log[j]}
        PROVE  LogStep(l)
    BY <1>a, <1>5, <1>6 DEF IInv, TypeOK, Accounted, LogStep
  <2>3. QED
    BY <2>1, <2>2 DEF LogSteps
<1>8. \A l \in Log : HelperOf[l] = HelperFor(j) \/ at[l] # "pending"
                        \/ (at'[l] = at[l] /\ server'[l] = server[l])
  BY <1>1, <1>a, <1>5 DEF IInv, TypeOK
<1>9. PICK h \in Job \cup {None}, p \in {"none", "event", "minidump"},
           t \in SUBSET todo[j], m \in Log \cup {None} :
              /\ lock' = [lock EXCEPT ![HelperFor(j)] = h]
              /\ pc' = [pc EXCEPT ![j] = p]
              /\ todo' = [todo EXCEPT ![j] = t]
              /\ log' = [log EXCEPT ![j] = m]
              /\ p # "none" => h = j /\ m \in todo[j] /\ at'[m] = "pending"
  <2>1. CASE result \in Breaks
    BY <1>4, <2>1, {} \in SUBSET todo[j] DEF Leave
  <2>2. CASE result \notin Breaks
    BY <1>2, <1>4, <2>2, AdvanceStep DEF IInv
  <2>3. QED
    BY <2>1, <2>2
<1>10. p \in Sending => m \in Log /\ HelperOf[m] = HelperFor(j) /\ at'[m] = "pending"
  BY <1>9 DEF IInv, TypeOK, OwnListing, Sending
<1>11. IInv'
  <2>1. pc[j] \in Holding /\ p \in {"none", "event", "minidump", "collecting"}
    BY DEF Holding
  <2>2. QED
    BY <1>5, <1>6, <1>7, <1>8, <1>9, <1>10, <2>1, MoveInv
<1>12. QED
  BY <1>7, <1>11

\* A step that leaves the logs, their histories and the jobs' claims alone
LEMMA SameLogs ==
  ASSUME IInv, UNCHANGED <<at, server, acked>>
  PROVE  LogSteps
BY DEF IInv, Accounted, LogSteps, LogStep

\* Logs that appear in directories do not disturb a job.
LEMMA AppearInv ==
  ASSUME IInv, at' \in [Log -> Places],
         \A l \in Log : at'[l] = at[l] \/ (at[l] = "none" /\ at'[l] \in {"pending", "failed"}),
         UNCHANGED <<files, server, acked, lock, phase, jobs, restarts>>
  PROVE  IInv' /\ LogSteps
<1> USE DEF IInv
<1>1. LogSteps
  BY DEF Accounted, LogSteps, LogStep
<1>2. TypeOK' /\ LockHeld' /\ OwnListing' /\ EventFirst'
  BY DEF TypeOK, Places, LockHeld, OwnListing, EventFirst, HelperFor, jobs, files
<1>3. SentPending'
  BY DEF SentPending, HelperFor, jobs
<1>4. QED
  BY <1>1, <1>2, <1>3, AccountedStep

\* A step of the round only sets the jobs that are to begin.
LEMMA RoundInv ==
  ASSUME IInv, pc' \in [Job -> {"none", "collect", "collecting", "submit"} \cup Sending],
         \A j \in Job : pc'[j] = pc[j] \/ pc'[j] \notin Holding,
         todo' \in [Job -> SUBSET Log],
         \A j \in Job : \A l \in todo'[j] : HelperOf[l] = HelperFor(j),
         phase' \in {"idle", "collect", "submit", "cancelled"},
         UNCHANGED <<files, at, server, acked, lock, log, restarts>>
  PROVE  IInv' /\ LogSteps
<1> USE DEF IInv
<1>1. LogSteps
  BY SameLogs
<1>2. TypeOK' /\ OwnListing'
  BY DEF TypeOK, OwnListing, HelperFor, files
<1>3. LockHeld' /\ SentPending' /\ EventFirst'
  BY DEF LockHeld, SentPending, EventFirst, HelperFor, Holding, Sending
<1>4. QED
  BY <1>1, <1>2, <1>3, AccountedStep

\* The server only adds to what it has of the log that is sent.
LEMMA TakesStep ==
  ASSUME IInv, NEW j \in Job, pc[j] \in Sending, NEW status \in Status,
         NEW what \in SUBSET {"event", "attachments"}, Takes(j, status, what)
  PROVE  /\ server' \in [Log -> SUBSET {"event", "attachments"}]
         /\ server[log[j]] \subseteq server'[log[j]]
         /\ \A l \in Log \ {log[j]} : server'[l] = server[l]
         /\ status = "200" => what \subseteq server'[log[j]]
<1>1. log[j] \in Log
  BY DEF IInv, SentPending
<1>2. PICK taken \in {{}, what} : /\ server' = [server EXCEPT ![log[j]] = server[log[j]] \cup taken]
                                 /\ taken \subseteq what /\ (status = "200" => taken = what)
  BY DEF Takes
<1> DEFINE new == server[log[j]] \cup taken
<1>3. server' = [server EXCEPT ![log[j]] = new]
  BY <1>2
<1>4. server \in [Log -> SUBSET {"event", "attachments"}]
  BY DEF IInv, TypeOK
<1>5. /\ new \in SUBSET {"event", "attachments"} /\ server[log[j]] \subseteq new
      /\ status = "200" => what \subseteq new
  BY <1>1, <1>2, <1>4
<1> HIDE DEF new
<1>6. QED
  BY <1>1, <1>3, <1>4, <1>5

-----------------------------------------------------------------------------
(* Every step *)

LEMMA InitInv ==
  ASSUME Init
  PROVE  IInv
<1>1. TypeOK
  BY DEF Init, TypeOK
<1>2. LockHeld /\ OwnListing /\ SentPending /\ EventFirst
  BY DEF Init, LockHeld, OwnListing, SentPending, EventFirst, Holding, Sending
<1>3. Accounted
  BY DEF Init, Accounted
<1>4. QED
  BY <1>1, <1>2, <1>3 DEF IInv

LEMMA NextInv ==
  ASSUME IInv, [Next]_vars
  PROVE  IInv' /\ LogSteps
<1>1. ASSUME NEW hs \in SUBSET Helper, Collect(hs)
      PROVE  IInv' /\ LogSteps
  BY <1>1, RoundInv DEF Collect, IInv, TypeOK, OwnListing, Holding, Sending
<1>2. ASSUME NEW hs \in SUBSET Helper, Submit(hs)
      PROVE  IInv' /\ LogSteps
  <2>1. \A j \in Job : \A l \in todo'[j] : HelperOf[l] = HelperFor(j)
    BY <1>2 DEF Submit, Pending, IInv, TypeOK, OwnListing, HelperFor, Job
  <2>2. todo' \in [Job -> SUBSET Log]
    BY <1>2 DEF Submit, Pending, IInv, TypeOK
  <2>3. QED
    BY <1>2, <2>1, <2>2, RoundInv DEF Submit, IInv, TypeOK, Holding, Sending
<1>3. CASE RoundEnds \/ Cancel
  BY <1>3, RoundInv DEF RoundEnds, Cancel, jobs, IInv, TypeOK, OwnListing
<1>4. ASSUME NEW j \in Job, CollectCategory(j)
      PROVE  IInv' /\ LogSteps
  <2>1. LogSteps
    BY <1>4, SameLogs DEF CollectCategory
  <2>2. CASE Locks(j)
    BY <1>4, <2>1, <2>2, MoveInv DEF CollectCategory, IInv, TypeOK, Places, Sending
  <2>3. CASE ~Locks(j)
    BY <1>4, <2>3, RoundInv DEF CollectCategory, IInv, TypeOK, OwnListing, Holding, Sending
  <2>4. QED
    BY <2>1, <2>2, <2>3
<1>5. ASSUME NEW j \in Job, Collected(j)
      PROVE  IInv' /\ LogSteps
  <2>1. PICK new \in SUBSET {l \in Log \ Reports : HelperOf[l] = HelperFor(j) /\ at[l] = "none"} :
          at' = [l \in Log |-> IF l \in new THEN "pending" ELSE at[l]]
    BY <1>5 DEF Collected
  <2>2. LogSteps
    BY <1>5, <2>1 DEF Collected, IInv, TypeOK, Accounted, LogSteps, LogStep
  <2>3. pc[j] \in Holding
    BY <1>5 DEF Collected, Holding
  <2>4. at' \in [Log -> Places]
    BY <2>1 DEF IInv, TypeOK, Places
  <2>5. \A l \in Log : HelperOf[l] = HelperFor(j) \/ at[l] # "pending"
                           \/ (at'[l] = at[l] /\ server'[l] = server[l])
    BY <1>5, <2>1 DEF Collected, IInv, TypeOK
  <2>6. /\ lock' = [lock EXCEPT ![HelperFor(j)] = None]
        /\ pc' = [pc EXCEPT ![j] = "none"]
        /\ todo' = [todo EXCEPT ![j] = todo[j]] /\ todo[j] \in SUBSET todo[j]
        /\ log' = [log EXCEPT ![j] = log[j]] /\ log[j] \in Log \cup {None}
        /\ server' \in [Log -> SUBSET {"event", "attachments"}] /\ acked' \in [Log -> 0..2]
        /\ UNCHANGED <<files, phase, restarts>>
    BY <1>5 DEF Collected, IInv, TypeOK
  <2>7. "none" \notin Sending
    BY DEF Sending
  <2>8. IInv'
    BY <2>2, <2>3, <2>4, <2>5, <2>6, <2>7, MoveInv
  <2>9. QED
    BY <2>2, <2>8
<1>6. ASSUME NEW j \in Job, SubmitCategory(j)
      PROVE  IInv' /\ LogSteps
  <2>1. CASE Locks(j) /\ Advance(j, at)
    <3>1. at \in [Log -> Places] /\ TypeOK /\ OwnListing
      BY DEF IInv, TypeOK, Places
    <3>2. /\ at' \in [Log -> Places]
          /\ \A l \in Log : at'[l] = at[l]
                             \/ (at[l] = "pending" /\ at'[l] = "failed" /\ HelperOf[l] = HelperFor(j))
      BY <2>1, <3>1, AdvanceStep
    <3>3. LogSteps
      BY <1>6, <3>2 DEF SubmitCategory, IInv, TypeOK, Accounted, LogSteps, LogStep
    <3>4. PICK h \in Job \cup {None}, p \in {"none", "event", "minidump"},
               t \in SUBSET todo[j], m \in Log \cup {None} :
              /\ lock' = [lock EXCEPT ![HelperFor(j)] = h]
              /\ pc' = [pc EXCEPT ![j] = p]
              /\ todo' = [todo EXCEPT ![j] = t]
              /\ log' = [log EXCEPT ![j] = m]
              /\ p # "none" => h = j /\ m \in todo[j] /\ at'[m] = "pending"
      BY <2>1, <3>1, AdvanceStep
    <3>5. p \in Sending => m \in Log /\ HelperOf[m] = HelperFor(j) /\ at'[m] = "pending"
      BY <3>4 DEF IInv, TypeOK, OwnListing, Sending
    <3>6. /\ p \in {"none", "event", "minidump", "collecting"}
          /\ server' \in [Log -> SUBSET {"event", "attachments"}] /\ acked' \in [Log -> 0..2]
          /\ \A l \in Log : HelperOf[l] = HelperFor(j) \/ at[l] # "pending"
                               \/ (at'[l] = at[l] /\ server'[l] = server[l])
          /\ UNCHANGED <<files, phase, restarts>>
      BY <1>6, <3>2 DEF SubmitCategory, IInv, TypeOK
    <3>7. Locks(j) \/ pc[j] \in Holding
      BY <2>1
    <3>8. IInv'
      <4>1. at' \in [Log -> Places]
        BY <3>2
      <4>2. QED
        BY <3>3, <3>4, <3>5, <3>6, <3>7, <4>1, MoveInv
    <3>9. QED
      BY <3>3, <3>8
  <2>2. CASE ~Locks(j)
    BY <1>6, <2>2, RoundInv DEF SubmitCategory, IInv, TypeOK, OwnListing, Holding, Sending
  <2>3. QED
    BY <1>6, <2>1, <2>2 DEF SubmitCategory
<1>7. ASSUME NEW j \in Job, StoreReply(j)
      PROVE  IInv' /\ LogSteps
  <2>1. PICK status \in Status :
          /\ Takes(j, status, {"event"})
          /\ IF status = "200" THEN /\ pc' = [pc EXCEPT ![j] = "attachments"]
                                    /\ UNCHANGED <<at, acked, lock, todo, log>>
                               ELSE Returns(j, StoreResult(status))
    <3>1. pc[j] \in Sending
      BY <1>7 DEF StoreReply, Sending
    <3>2. log[j] \in Log
      BY <3>1 DEF IInv, SentPending
    <3>3. QED
      BY <1>7, <3>2 DEF StoreReply
  <2>2. pc[j] = "event" /\ pc[j] \in Sending /\ UNCHANGED <<files, phase, restarts>>
    BY <1>7 DEF StoreReply, Sending
  <2>3. /\ server' \in [Log -> SUBSET {"event", "attachments"}]
        /\ server[log[j]] \subseteq server'[log[j]]
        /\ \A l \in Log \ {log[j]} : server'[l] = server[l]
        /\ status = "200" => {"event"} \subseteq server'[log[j]]
    BY <2>1, <2>2, TakesStep
  <2>4. CASE status = "200"
    <3>1. log[j] \in Log /\ HelperOf[log[j]] = HelperFor(j) /\ at[log[j]] = "pending"
      BY <2>2 DEF IInv, SentPending
    <3>2. LogSteps
      BY <2>1, <2>3, <2>4, <3>1 DEF IInv, TypeOK, Accounted, LogSteps, LogStep
    <3>3. TypeOK' /\ OwnListing' /\ LockHeld'
      BY <2>1, <2>2, <2>3, <2>4 DEF IInv, TypeOK, OwnListing, LockHeld, Holding, Sending, HelperFor, files
    <3>4. SentPending'
      BY <2>1, <2>2, <2>4, <3>1 DEF IInv, TypeOK, SentPending, Sending, HelperFor
    <3>5. EventFirst'
      BY <2>1, <2>3, <2>4 DEF IInv, TypeOK, EventFirst, SentPending, Sending
    <3>6. QED
      BY <3>2, <3>3, <3>4, <3>5, AccountedStep DEF IInv
  <2>5. CASE status # "200"
    <3>1. StoreResult(status) \in Results \ {"OK"} /\ Returns(j, StoreResult(status))
      BY <2>1, <2>5 DEF StoreResult, Results
    <3>2. QED
      BY <2>2, <2>3, <3>1, ReturnsInv
  <2>6. QED
    BY <2>4, <2>5
<1>8. ASSUME NEW j \in Job, EnvelopeReply(j)
      PROVE  IInv' /\ LogSteps
  <2>1. pc[j] = "attachments" /\ pc[j] \in Sending /\ UNCHANGED <<files, phase, restarts>>
    BY <1>8 DEF EnvelopeReply, Sending
  <2>2. log[j] \in Log /\ "event" \in server[log[j]]
    BY <2>1 DEF IInv, SentPending, EventFirst
  <2>3. PICK status \in Status : /\ Takes(j, status, {"attachments"})
                                 /\ Returns(j, EnvelopeResult(status))
    BY <1>8, <2>2 DEF EnvelopeReply
  <2>4. /\ server' \in [Log -> SUBSET {"event", "attachments"}]
        /\ server[log[j]] \subseteq server'[log[j]]
        /\ \A l \in Log \ {log[j]} : server'[l] = server[l]
        /\ status = "200" => {"attachments"} \subseteq server'[log[j]]
    BY <2>1, <2>3, TakesStep
  <2>5. EnvelopeResult(status) \in Results /\ (EnvelopeResult(status) = "OK" => status = "200")
    BY DEF EnvelopeResult, Results
  <2>6. EnvelopeResult(status) = "OK" => server'[log[j]] = {"event", "attachments"}
    BY <2>2, <2>4, <2>5
  <2>7. QED
    BY <2>1, <2>3, <2>4, <2>5, <2>6, ReturnsInv
<1>9. ASSUME NEW j \in Job, MinidumpReply(j)
      PROVE  IInv' /\ LogSteps
  <2>1. pc[j] \in Sending /\ UNCHANGED <<files, phase, restarts>>
    BY <1>9 DEF MinidumpReply, Sending
  <2>2. log[j] \in Log
    BY <2>1 DEF IInv, SentPending
  <2>3. PICK status \in Status : /\ Takes(j, status, {"event", "attachments"})
                                 /\ Returns(j, MinidumpResult(status))
    BY <1>9, <2>2 DEF MinidumpReply
  <2>4. /\ server' \in [Log -> SUBSET {"event", "attachments"}]
        /\ server[log[j]] \subseteq server'[log[j]]
        /\ \A l \in Log \ {log[j]} : server'[l] = server[l]
        /\ status = "200" => {"event", "attachments"} \subseteq server'[log[j]]
    BY <2>1, <2>3, TakesStep
  <2>5. MinidumpResult(status) \in Results /\ (MinidumpResult(status) = "OK" => status = "200")
    BY DEF MinidumpResult, Results
  <2>6. MinidumpResult(status) = "OK" => server'[log[j]] = {"event", "attachments"}
    BY <2>2, <2>4, <2>5
  <2>7. QED
    BY <2>1, <2>3, <2>4, <2>5, <2>6, ReturnsInv
<1>10. ASSUME NEW j \in Job, ClassError(j)
       PROVE  IInv' /\ LogSteps
  <2>1. "CLASS_ERROR" \in Results
    BY DEF Results
  <2>2. QED
    BY <1>10, <2>1, ReturnsInv DEF ClassError, IInv, TypeOK
<1>11. ASSUME NEW s \in Reports, SendReport(s)
       PROVE  IInv' /\ LogSteps
  <2>1. s \in Job /\ s \in Log /\ HelperFor(s) = HelperOf[s] /\ at[s] = "none"
    BY <1>11 DEF SendReport, Job, HelperFor
  <2>2. CASE Locks(s) /\ Ready(s) \in Sending
    <3>1. Ready(s) \in {"none", "event", "minidump", "collecting"} /\ Ready(s) # "none"
      BY <2>1, <2>2, ReadyType DEF IInv
    <3>2. /\ at' = [at EXCEPT ![s] = "pending"]
          /\ lock' = [lock EXCEPT ![HelperFor(s)] = s]
          /\ pc' = [pc EXCEPT ![s] = Ready(s)]
          /\ todo' = [todo EXCEPT ![s] = todo[s]]
          /\ log' = [log EXCEPT ![s] = s]
          /\ UNCHANGED <<files, server, acked, phase, restarts>>
      BY <1>11, <2>2 DEF SendReport, IInv, TypeOK
    <3>3. LogSteps
      BY <2>1, <3>2 DEF IInv, TypeOK, Accounted, LogSteps, LogStep
    <3>4. at' \in [Log -> Places] /\ at'[s] = "pending"
      BY <2>1, <3>2 DEF IInv, TypeOK, Places
    <3>5. \A l \in Log : HelperOf[l] = HelperFor(s) \/ at[l] # "pending"
                            \/ (at'[l] = at[l] /\ server'[l] = server[l])
      BY <2>1, <3>2 DEF IInv, TypeOK
    <3>6. server' \in [Log -> SUBSET {"event", "attachments"}] /\ acked' \in [Log -> 0..2]
      BY <3>2 DEF IInv, TypeOK
    <3>7. IInv'
      BY <2>1, <2>2, <3>1, <3>2, <3>3, <3>4, <3>5, <3>6, MoveInv
    <3>8. QED
      BY <3>3, <3>7
  <2>3. CASE ~(Locks(s) /\ Ready(s) \in Sending)
    <3>1. at' = [at EXCEPT ![s] = "failed"] /\ UNCHANGED <<files, server, acked, lock, phase, jobs, restarts>>
      BY <1>11, <2>3 DEF SendReport
    <3>2. at' \in [Log -> Places] /\ \A l \in Log : at'[l] = at[l] \/ (at[l] = "none" /\ at'[l] = "failed")
      BY <2>1, <3>1 DEF IInv, TypeOK, Places
    <3>3. QED
      BY <3>1, <3>2, AppearInv
  <2>4. QED
    BY <2>2, <2>3
<1>12. ASSUME NEW l \in Log, HookPublishes(l)
       PROVE  IInv' /\ LogSteps
  <2>1. at' \in [Log -> Places] /\ \A k \in Log : at'[k] = at[k] \/ (at[k] = "none" /\ at'[k] = "pending")
    BY <1>12 DEF HookPublishes, IInv, TypeOK, Places
  <2>2. QED
    BY <1>12, <2>1, AppearInv DEF HookPublishes
<1>13. CASE Restart
  <2>1. LogSteps
    BY <1>13, SameLogs DEF Restart
  <2>2. TypeOK'
    BY <1>13 DEF Restart, IInv, TypeOK, files
  <2>3. LockHeld' /\ OwnListing' /\ SentPending' /\ EventFirst'
    BY <1>13 DEF Restart, LockHeld, OwnListing, SentPending, EventFirst, Holding, Sending
  <2>4. QED
    BY <2>1, <2>2, <2>3, AccountedStep DEF IInv
<1>14. CASE UNCHANGED vars
  BY <1>14, RoundInv DEF vars, jobs, IInv, TypeOK, OwnListing
<1>15. QED
  BY <1>1, <1>2, <1>3, <1>4, <1>5, <1>6, <1>7, <1>8, <1>9, <1>10, <1>11, <1>12, <1>13, <1>14
     DEF Next, JobStep

-----------------------------------------------------------------------------
(* Theorems *)

LEMMA Invariance == Spec => []IInv
<1>1. QED
  BY InitInv, NextInv, PTL DEF Spec

\* The types of the state of runner.py's rounds and send_report.
THEOREM TypeInvariant == Spec => []TypeOK
<1>1. IInv => TypeOK
  BY DEF IInv
<1>2. QED
  BY <1>1, Invariance, PTL

\* submit_category has a log accepted at most once, whichever of the rounds and
\* reports that list it gets there first.
THEOREM LogsAcceptedOnce == Spec => []AcceptedOnce
<1>1. IInv => AcceptedOnce
  BY DEF IInv, Accounted, AcceptedOnce
<1>2. QED
  BY <1>1, Invariance, PTL

\* No log that submit_category got accepted is moved to the failed directory.
THEOREM FailedLogsNotAccepted == Spec => []FailedNotAccepted
<1>1. IInv => FailedNotAccepted
  BY DEF IInv, Accounted, FailedNotAccepted
<1>2. QED
  BY <1>1, Invariance, PTL

\* A step of submission is one that Delivery allows.
LEMMA DeliveryStep ==
  ASSUME IInv, IInv', LogSteps
  PROVE  D!Next
<1> DEFINE delivered == [l \in Log |-> server[l] = {"event", "attachments"}]
<1> SUFFICES ASSUME NEW l \in Log
             PROVE  D!Appears(l) \/ D!Arrives(l) \/ D!Uploads(l) \/ D!Fails(l) \/ D!Rests(l)
  BY DEF D!Next
<1>1. /\ delivered[l] <=> server[l] = {"event", "attachments"}
      /\ delivered'[l] <=> server'[l] = {"event", "attachments"}
      /\ server[l] \in SUBSET {"event", "attachments"} /\ server'[l] \in SUBSET {"event", "attachments"}
  BY DEF IInv, TypeOK
<1>2. LogStep(l) /\ (at[l] = "none" => server[l] = {})
  BY DEF LogSteps, IInv, Accounted
<1>3. QED
  BY <1>1, <1>2 DEF LogStep, D!Appears, D!Arrives, D!Uploads, D!Fails, D!Rests

\* Rounds, reports, requests and restarts together do what Delivery says.
THEOREM ImplementsDelivery == Spec => Delivers
<1>1. Init => D!Init
  <2>1. ASSUME Init, NEW l \in Log
        PROVE  (server[l] = {"event", "attachments"}) = FALSE
    BY <2>1 DEF Init
  <2>2. Init => at \in [Log -> {"none", "pending"}]
    BY DEF Init
  <2>3. QED
    BY <2>1, <2>2 DEF D!Init
<1>2. IInv /\ IInv' /\ [Next]_vars => [D!Next]_<<at, [l \in Log |-> server[l] = {"event", "attachments"}]>>
  BY NextInv, DeliveryStep
<1>3. QED
  BY <1>1, <1>2, Invariance, PTL DEF Spec, Delivers, D!Spec
=============================================================================
