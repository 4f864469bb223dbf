---------------------------- MODULE DaemonProofs ----------------------------
(***************************************************************************)
(* What holds of the scheduler for any number of tasks, any set of          *)
(* requests and any number of handlers: its type invariant, that rounds     *)
(* exclude each other, that a round only begins when it may, and, without   *)
(* wake-ups, that the round of an asynchronous trigger is not cancelled.    *)
(***************************************************************************)
EXTENDS Daemon, TLAPS

USE DaemonAssumption

\* _trigger_periodic tests _serving and calls trigger without suspending.
TriggerHeld == \A t \in Task : pc[t] = "trigger" => cur = t /\ serving

\* The inductive invariant
IInv == TypeOK /\ OneRound /\ TriggerHeld

\* What StartsAllowed says of a step
Starts == \A u \in Task : pc[u] # "run" /\ pc'[u] = "run"
                            => Allowed /\ (kind[u] = "periodic" => serving)

-----------------------------------------------------------------------------
(* How the steps of the event loop leave the tasks *)

\* Well formed, with no task in a round that was not in one before, and none
\* but t at the call of trigger.
Calm(t) == /\ LoopOK'
           /\ \A u \in Task : pc'[u] = "run" => pc[u] = "run"
           /\ \A u \in Task : pc'[u] = "reap" => pc[u] \in {"run", "reap"}
           /\ \A u \in Task : pc'[u] = "trigger" => pc[u] = "trigger" /\ u # t

\* What an await raises is an exception or nothing.
LEMMA ThrownType ==
  ASSUME LoopOK, NEW t \in Task
  PROVE  Thrown(t) \in {"none", "cancelled", "error"}
BY DEF LoopOK, Thrown

\* A task suspends outside of a round.
LEMMA YieldCalm ==
  ASSUME LoopOK, NEW t \in Task, NEW l \in External \ {"run"}, Yield(t, l)
  PROVE  Calm(t)
BY DEF LoopOK, Yield, Calm, Where, External

\* A function call that does not suspend.
LEMMA GotoCalm ==
  ASSUME LoopOK, NEW t \in Task, NEW l \in Where \ {"run", "trigger"},
         l = "reap" => pc[t] = "run",
         Goto(t, l)
  PROVE  Calm(t)
BY DEF LoopOK, Goto, Calm, Where

\* A task ends, seen by others or not.
LEMMA EndCalm ==
  ASSUME LoopOK, NEW t \in Task, NEW o \in Outcomes, End(t, o)
  PROVE  Calm(t)
BY DEF LoopOK, End, Calm, Where, Outcomes, Kinds

\* A handler ends after creating a task.
LEMMA EndWithCalm ==
  ASSUME LoopOK, NEW t \in Task, NEW n \in Task, NEW k \in Kinds, EndWith(t, n, k)
  PROVE  Calm(t)
BY DEF LoopOK, EndWith, Calm, Where, Kinds

\* A task awaits another one.
LEMMA AwaitCalm ==
  ASSUME LoopOK, NEW t \in Task, NEW u \in Task, NEW l \in Awaiting \ {"reap"}, Await(t, l, u)
  PROVE  Calm(t)
BY DEF LoopOK, Await, Calm, Where, Awaiting

\* A task cancels another one and awaits it, after it may have created one.
LEMMA CancelCalm ==
  ASSUME LoopOK, NEW t \in Task, NEW u \in Task, NEW l \in Awaiting,
         l = "reap" => pc[t] = "run",
         NEW pcs \in [Task -> Where],
         \A v \in Task : pcs[v] \in {"run", "reap", "trigger"} => pc[v] = pcs[v],
         kind' \in [Task -> Kinds],
         CancelAndAwait(t, l, u, pcs)
  PROVE  Calm(t)
BY DEF LoopOK, CancelAndAwait, Calm, Where, Awaiting

\* A step of t that leaves the trigger lock alone preserves the invariant.
LEMMA QuietStep ==
  ASSUME IInv, NEW t \in Task, CanRun(t), Calm(t), FieldsOK', triggerActive' = triggerActive
  PROVE  IInv' /\ Starts
<1>1. TypeOK'
  BY DEF Calm, TypeOK
<1>2. OneRound'
  BY DEF IInv, Calm, OneRound, Round, InRound
<1>3. TriggerHeld'
  BY DEF IInv, Calm, TriggerHeld, CanRun, TypeOK, LoopOK
<1>4. Starts
  BY DEF Calm, Starts
<1> QED BY <1>1, <1>2, <1>3, <1>4 DEF IInv

-----------------------------------------------------------------------------
(* The actions, in the order of Step *)

\* An exception that is not caught ends the task.
LEMMA UnwindKeeps == ASSUME IInv, NEW t \in Task, Unwind(t) PROVE IInv' /\ Starts
<1>1. Thrown(t) \in Outcomes
  BY ThrownType DEF IInv, TypeOK, Unwind, Outcomes
<1>2. Calm(t)
  BY <1>1, EndCalm DEF IInv, TypeOK, Unwind
<1> QED BY <1>2, QuietStep DEF IInv, TypeOK, FieldsOK, Unwind, config, fields

\* The periodic task up to its call of trigger
LEMMA PeriodicKeeps ==
  ASSUME IInv, NEW t \in Task,
         PeriodicSleep(t) \/ PeriodicAppList(t) \/ PeriodicFire(t) \/ PeriodicFail(t)
  PROVE  IInv' /\ Starts
<1>1. CASE PeriodicSleep(t)
  <2>1. Calm(t) BY <1>1, YieldCalm DEF IInv, TypeOK, PeriodicSleep, External
  <2> QED BY <1>1, <2>1, QuietStep DEF IInv, TypeOK, FieldsOK, PeriodicSleep, Resumes, config, fields
<1>2. CASE PeriodicAppList(t)
  <2>1. Calm(t) BY <1>2, YieldCalm DEF IInv, TypeOK, PeriodicAppList, External
  <2> QED BY <1>2, <2>1, QuietStep DEF IInv, TypeOK, FieldsOK, PeriodicAppList, Resumes, config, fields
<1>3. CASE PeriodicFire(t) /\ serving
  <2>1. CanRun(t) /\ Goto(t, "trigger") /\ UNCHANGED <<config, fields, due, bus>>
    BY <1>3 DEF PeriodicFire, Resumes
  <2>2. TypeOK'
    BY <2>1 DEF IInv, TypeOK, FieldsOK, LoopOK, Goto, Where, Inside, config, fields
  <2>3. \A u \in Task : pc'[u] = IF u = t THEN "trigger" ELSE pc[u]
    BY <2>1 DEF IInv, TypeOK, LoopOK, Goto
  <2>4. OneRound'
    BY <2>1, <2>3 DEF IInv, OneRound, Round, InRound, fields
  <2>5. TriggerHeld'
    BY <1>3, <2>1, <2>3 DEF IInv, TriggerHeld, CanRun, Goto, fields, TypeOK, LoopOK
  <2>6. Starts
    BY <2>3 DEF Starts
  <2> QED BY <2>2, <2>4, <2>5, <2>6 DEF IInv
<1>4. CASE PeriodicFire(t) /\ ~serving
  <2>1. Calm(t) BY <1>4, EndCalm DEF IInv, TypeOK, PeriodicFire, Outcomes
  <2> QED BY <1>4, <2>1, QuietStep DEF IInv, TypeOK, FieldsOK, PeriodicFire, Resumes, config, fields
<1>5. CASE PeriodicFail(t)
  <2>1. Calm(t) BY <1>5, EndCalm DEF IInv, TypeOK, PeriodicFail, Outcomes
  <2> QED BY <1>5, <2>1, QuietStep DEF IInv, TypeOK, FieldsOK, PeriodicFail, Resumes, config, fields
<1> QED BY <1>1, <1>2, <1>3, <1>4, <1>5

\* The asynchronous trigger's task starts, or a synchronous trigger runs the
\* round itself: it takes the lock, or finds that it may not.
LEMMA BeginRoundKeeps ==
  ASSUME IInv, NEW t \in Task, CanRun(t), BeginRound(t), kind[t] = "periodic" => serving,
         UNCHANGED <<config, serving, suspend, periodicTask, due, bus>>
  PROVE  IInv' /\ Starts
<1>1. CASE Allowed /\ ~triggerActive
  <2>1. triggerActive' = TRUE /\ Yield(t, "run") /\ UNCHANGED asyncTrigger
    BY <1>1 DEF BeginRound
  <2>2. TypeOK'
    BY <2>1 DEF IInv, TypeOK, FieldsOK, LoopOK, Yield, Where, External, config
  <2>3. \A u \in Task : pc'[u] = IF u = t THEN "run" ELSE pc[u]
    BY <2>1 DEF IInv, TypeOK, LoopOK, Yield
  <2>4. \A u \in Task : ~InRound(u)
    BY <1>1 DEF IInv, OneRound, Round
  <2>5. OneRound'
    BY <2>1, <2>3, <2>4 DEF OneRound, Round, InRound
  <2>6. TriggerHeld'
    BY <2>3 DEF IInv, TriggerHeld, CanRun, TypeOK, LoopOK
  <2>7. Starts
    BY <1>1, <2>3 DEF Starts
  <2> QED BY <2>2, <2>5, <2>6, <2>7 DEF IInv
<1>2. CASE ~(Allowed /\ ~triggerActive)
  <2>1. asyncTrigger' = None /\ End(t, "ok") /\ UNCHANGED triggerActive
    BY <1>2 DEF BeginRound
  <2>2. Calm(t) BY <2>1, EndCalm DEF IInv, TypeOK, Outcomes
  <2> QED BY <2>1, <2>2, QuietStep DEF IInv, TypeOK, FieldsOK, config
<1> QED BY <1>1, <1>2

\* trigger and the end of what it awaits
LEMMA TriggerKeeps ==
  ASSUME IInv, NEW t \in Task,
         \/ TriggerTask(t) \/ TriggerReturns(t) \/ TriggerJoins(t) \/ TriggerRuns(t)
         \/ TriggerSpawns(t) \/ JoinEnds(t) \/ JoinAsyncEnds(t)
  PROVE  IInv' /\ Starts
<1>1. CASE TriggerTask(t)
  BY <1>1, BeginRoundKeeps DEF TriggerTask, Resumes
<1>2. CASE TriggerReturns(t)
  <2>1. Calm(t) BY <1>2, EndCalm DEF IInv, TypeOK, TriggerReturns, Outcomes
  <2> QED BY <1>2, <2>1, QuietStep DEF IInv, TypeOK, FieldsOK, TriggerReturns, AtTrigger, Resumes, config, fields
<1>3. CASE TriggerJoins(t)
  <2>1. PICK u \in Task, l \in {"join", "joinAsync"} : Await(t, l, u)
    BY <1>3 DEF IInv, TypeOK, FieldsOK, TriggerJoins
  <2>2. Calm(t) BY <2>1, AwaitCalm DEF IInv, TypeOK, Awaiting
  <2> QED BY <1>3, <2>2, QuietStep DEF IInv, TypeOK, FieldsOK, TriggerJoins, AtTrigger, Resumes, config, fields
<1>4. CASE TriggerRuns(t)
  BY <1>4, BeginRoundKeeps DEF TriggerRuns, AtTrigger, Resumes, IInv, TriggerHeld
<1>5. CASE TriggerSpawns(t)
  <2>1. PICK a \in Task : asyncTrigger' = a /\ EndWith(t, a, "async")
    BY <1>5 DEF TriggerSpawns
  <2>2. Calm(t) BY <2>1, EndWithCalm DEF IInv, TypeOK, Kinds
  <2> QED BY <1>5, <2>1, <2>2, QuietStep DEF IInv, TypeOK, FieldsOK, TriggerSpawns, AtTrigger, Resumes, config
<1>6. CASE JoinEnds(t)
  <2>1. Calm(t) BY <1>6, EndCalm DEF IInv, TypeOK, JoinEnds, Outcomes
  <2> QED BY <1>6, <2>1, QuietStep DEF IInv, TypeOK, FieldsOK, JoinEnds, Resumes, config, fields
<1>7. CASE JoinAsyncEnds(t)
  <2>1. Calm(t) BY <1>7, EndCalm DEF IInv, TypeOK, JoinAsyncEnds, Outcomes
  <2> QED BY <1>7, <2>1, QuietStep DEF IInv, TypeOK, FieldsOK, JoinAsyncEnds, Resumes, config, fields
<1> QED BY <1>1, <1>2, <1>3, <1>4, <1>5, <1>6, <1>7

\* The end of runner.trigger: the task stays in its round while it waits for
\* the periodic task that it cancelled.
LEMMA RoundEndsKeeps == ASSUME IInv, NEW t \in Task, RoundEnds(t) PROVE IInv' /\ Starts
<1>1. CASE serving
  <2>1. PICK p \in Task :
          /\ Fresh(p) /\ periodicTask' = p /\ kind' = [kind EXCEPT ![p] = "periodic"]
          /\ LET pcs == [pc EXCEPT ![p] = "new"] IN
             IF periodicTask # None
               THEN CancelAndAwait(t, "reap", periodicTask, pcs)
               ELSE pc' = [pcs EXCEPT ![t] = "reap"] /\ cur' = t /\ UNCHANGED <<wait, exc>>
    BY <1>1 DEF RoundEnds, NewPeriodic
  <2>2. pc[t] = "run" /\ kind' \in [Task -> Kinds] /\ [pc EXCEPT ![p] = "new"] \in [Task -> Where]
    BY <2>1 DEF IInv, TypeOK, LoopOK, RoundEnds, Resumes, Kinds, Where
  <2>3. CASE periodicTask # None
    <3>1. periodicTask \in Task
      BY <2>3 DEF IInv, TypeOK, FieldsOK
    <3>2. CancelAndAwait(t, "reap", periodicTask, [pc EXCEPT ![p] = "new"])
      BY <2>1, <2>3
    <3>3. \A v \in Task : [pc EXCEPT ![p] = "new"][v] \in {"run", "reap", "trigger"}
                            => pc[v] = [pc EXCEPT ![p] = "new"][v]
      BY DEF IInv, TypeOK, LoopOK
    <3> HIDE DEF Calm
    <3>4. Calm(t)
      BY <2>2, <3>1, <3>2, <3>3, CancelCalm DEF IInv, TypeOK, Awaiting
    <3> QED BY <2>1, <3>4, QuietStep DEF IInv, TypeOK, FieldsOK, RoundEnds, Resumes, config
  <2>4. CASE periodicTask = None
    <3>1. Calm(t)
      BY <2>1, <2>2, <2>4 DEF IInv, TypeOK, LoopOK, Calm, Where, Awaiting, Kinds
    <3> QED BY <2>1, <3>1, QuietStep DEF IInv, TypeOK, FieldsOK, RoundEnds, Resumes, config
  <2> QED BY <2>3, <2>4
<1>2. CASE ~serving
  <2>1. Calm(t)
    <3>1. pc[t] = "run" BY DEF RoundEnds, Resumes
    <3>2. CASE periodicTask # None
      <4>1. periodicTask \in Task /\ CancelAndAwait(t, "reap", periodicTask, pc) /\ UNCHANGED kind
        BY <1>2, <3>2 DEF IInv, TypeOK, FieldsOK, RoundEnds
      <4> QED BY <3>1, <4>1, CancelCalm DEF IInv, TypeOK, LoopOK, Awaiting
    <3>3. CASE periodicTask = None
      BY <1>2, <3>1, <3>3, GotoCalm DEF IInv, TypeOK, RoundEnds, Where, Awaiting
    <3> QED BY <3>2, <3>3
  <2> QED BY <1>2, <2>1, QuietStep DEF IInv, TypeOK, FieldsOK, RoundEnds, Resumes, config
<1> QED BY <1>1, <1>2

\* A round that fails keeps the lock (nobody is in a round any more).
LEMMA RoundFailsKeeps == ASSUME IInv, NEW t \in Task, RoundFails(t) PROVE IInv' /\ Starts
<1>1. Calm(t) BY EndCalm DEF IInv, TypeOK, RoundFails, Outcomes
<1> QED BY <1>1, QuietStep DEF IInv, TypeOK, FieldsOK, RoundFails, Resumes, config, fields

\* The lock is released by the only task that is in a round.
LEMMA RoundReapsKeeps == ASSUME IInv, NEW t \in Task, RoundReaps(t) PROVE IInv' /\ Starts
<1>1. Calm(t)
  BY EndCalm DEF IInv, TypeOK, RoundReaps, Outcomes
<1>2. pc[t] = "reap" /\ pc'[t] \notin {"run", "reap", "trigger"}
  BY DEF RoundReaps, Caught, End, IInv, TypeOK, LoopOK
<1>3. \A u \in Task : pc'[u] \notin {"run", "reap"}
  BY <1>1, <1>2 DEF Calm, IInv, OneRound, InRound
<1>4. OneRound'
  BY <1>3 DEF OneRound, Round, InRound
<1>5. TypeOK'
  BY <1>1 DEF Calm, IInv, TypeOK, FieldsOK, RoundReaps, config
<1>6. TriggerHeld'
  BY <1>1 DEF Calm, IInv, TriggerHeld, RoundReaps, Caught, CanRun
<1>7. Starts
  BY <1>3 DEF Starts
<1> QED BY <1>4, <1>5, <1>6, <1>7 DEF IInv

\* enable and inhibit, up to _update_schedule
LEMMA SettingKeeps ==
  ASSUME IInv, NEW t \in Task, SettingCall(t) \/ SettingApply(t) PROVE IInv' /\ Starts
<1>1. CASE SettingCall(t)
  <2>1. \/ End(t, "ok")
        \/ asyncTrigger \in Task /\ Await(t, "drain", asyncTrigger)
        \/ Goto(t, "set")
    BY <1>1 DEF SettingCall, Drains, IInv, TypeOK, FieldsOK
  <2>2. Calm(t)
    BY <2>1, EndCalm, AwaitCalm, GotoCalm DEF IInv, TypeOK, Outcomes, Awaiting, Where, Inside
  <2> QED BY <1>1, <2>2, QuietStep DEF IInv, TypeOK, FieldsOK, SettingCall, Resumes, config, fields
<1>2. CASE SettingApply(t)
  <2>1. CanRun(t) /\ (Goto(t, "update") \/ End(t, "error"))
    BY <1>2 DEF SettingApply, Resumes
  <2>2. Calm(t)
    BY <2>1, EndCalm, GotoCalm DEF IInv, TypeOK, Outcomes, Where, Inside
  <2>3. FieldsOK'
    BY <1>2 DEF SettingApply, IInv, TypeOK, FieldsOK, fields
  <2> QED BY <1>2, <2>1, <2>2, <2>3, QuietStep DEF SettingApply, fields
<1> QED BY <1>1, <1>2

\* _update_schedule
LEMMA UpdateScheduleKeeps == ASSUME IInv, NEW t \in Task, UpdateSchedule(t) PROVE IInv' /\ Starts
<1>1. periodicTask' \in Task \cup {None} /\ Calm(t)
  <2>1. CASE Goto(t, "cancel") /\ UNCHANGED periodicTask
    BY <2>1, GotoCalm DEF IInv, TypeOK, FieldsOK, Where, Inside
  <2>2. CASE \E p \in Task : periodicTask' = p /\ EndWith(t, p, "periodic")
    BY <2>2, EndWithCalm DEF IInv, TypeOK, Kinds
  <2>3. CASE End(t, "ok") /\ UNCHANGED periodicTask
    BY <2>3, EndCalm DEF IInv, TypeOK, FieldsOK, Outcomes
  <2> QED BY <2>1, <2>2, <2>3 DEF UpdateSchedule
<1> QED BY <1>1, QuietStep DEF IInv, TypeOK, FieldsOK, UpdateSchedule, config

\* What follows _cancel_periodic
LEMMA AfterCancelCalm == ASSUME LoopOK, NEW t \in Task, AfterCancel(t) PROVE Calm(t)
BY EndCalm, GotoCalm DEF AfterCancel, Outcomes, Where, Inside

\* _cancel_periodic
LEMMA CancelKeeps ==
  ASSUME IInv, NEW t \in Task, CancelPeriodic(t) \/ CancelEnds(t) PROVE IInv' /\ Starts
<1>1. CASE CancelPeriodic(t)
  <2>1. Calm(t)
    <3>1. CASE AfterCancel(t)
      BY <3>1, AfterCancelCalm DEF IInv, TypeOK
    <3>2. CASE periodicTask # None /\ CancelAndAwait(t, "cancelling", periodicTask, pc) /\ UNCHANGED kind
      <4>1. periodicTask \in Task BY <3>2 DEF IInv, TypeOK, FieldsOK
      <4> QED BY <3>2, <4>1, CancelCalm DEF IInv, TypeOK, LoopOK, Awaiting
    <3>3. CASE End(t, "error")
      BY <3>3, EndCalm DEF IInv, TypeOK, Outcomes
    <3> QED BY <1>1, <3>1, <3>2, <3>3 DEF CancelPeriodic
  <2> QED BY <1>1, <2>1, QuietStep DEF IInv, TypeOK, FieldsOK, CancelPeriodic, config, fields
<1>2. CASE CancelEnds(t)
  <2>1. Calm(t) BY <1>2, AfterCancelCalm DEF IInv, TypeOK, CancelEnds
  <2> QED BY <1>2, <2>1, QuietStep DEF IInv, TypeOK, FieldsOK, CancelEnds, Caught, config
<1> QED BY <1>1, <1>2

\* start
LEMMA StartKeeps ==
  ASSUME IInv, NEW t \in Task, Start(t) \/ StartExport(t) \/ StartSubscribe(t) PROVE IInv' /\ Starts
<1>1. CASE Start(t)
  <2>1. Calm(t) /\ periodicTask' \in Task \cup {None}
    BY <1>1 DEF Start, NewPeriodic, Resumes, IInv, TypeOK, FieldsOK, LoopOK, Calm, Where, External, Kinds
  <2> QED BY <1>1, <2>1, QuietStep DEF IInv, TypeOK, FieldsOK, Start, Resumes, config
<1>2. CASE StartExport(t)
  <2>1. Calm(t) BY <1>2, YieldCalm, EndCalm DEF IInv, TypeOK, StartExport, External, Outcomes
  <2> QED BY <1>2, <2>1, QuietStep DEF IInv, TypeOK, FieldsOK, StartExport, Resumes, config, fields
<1>3. CASE StartSubscribe(t)
  <2>1. Calm(t) BY <1>3, EndCalm DEF IInv, TypeOK, StartSubscribe, Outcomes
  <2> QED BY <1>3, <2>1, QuietStep DEF IInv, TypeOK, FieldsOK, StartSubscribe, Resumes, config, fields
<1> QED BY <1>1, <1>2, <1>3

\* shutdown
LEMMA ShutdownKeeps ==
  ASSUME IInv, NEW t \in Task, Shutdown(t) \/ ShutdownDrained(t) \/ ShutdownEnds(t) PROVE IInv' /\ Starts
<1>1. CASE Shutdown(t)
  <2>1. \/ asyncTrigger \in Task /\ Await(t, "drain", asyncTrigger)
        \/ Goto(t, "cancel")
    BY <1>1 DEF Shutdown, IInv, TypeOK, FieldsOK
  <2>2. Calm(t) BY <2>1, AwaitCalm, GotoCalm DEF IInv, TypeOK, Awaiting, Where, Inside
  <2> QED BY <1>1, <2>2, QuietStep DEF IInv, TypeOK, FieldsOK, Shutdown, Resumes, config
<1>2. CASE ShutdownDrained(t)
  <2>1. Calm(t) BY <1>2, GotoCalm DEF IInv, TypeOK, ShutdownDrained, Where, Inside
  <2> QED BY <1>2, <2>1, QuietStep DEF IInv, TypeOK, FieldsOK, ShutdownDrained, Resumes, config
<1>3. CASE ShutdownEnds(t)
  <2>1. Calm(t) BY <1>3, EndCalm DEF IInv, TypeOK, ShutdownEnds, Outcomes
  <2> QED BY <1>3, <2>1, QuietStep DEF IInv, TypeOK, FieldsOK, ShutdownEnds, config, fields
<1> QED BY <1>1, <1>2, <1>3

\* _leave_suspend
LEMMA SuspendKeeps ==
  ASSUME IInv, NEW t \in Task, LeaveSuspend(t) \/ WakeupElapsed(t) PROVE IInv' /\ Starts
<1>1. CASE LeaveSuspend(t)
  <2>1. Calm(t) BY <1>1, EndCalm, YieldCalm DEF IInv, TypeOK, LeaveSuspend, Outcomes, External
  <2> QED BY <1>1, <2>1, QuietStep DEF IInv, TypeOK, FieldsOK, LeaveSuspend, Resumes, config
<1>2. CASE WakeupElapsed(t)
  <2>1. Calm(t) BY <1>2, GotoCalm DEF IInv, TypeOK, WakeupElapsed, Where, Inside
  <2> QED BY <1>2, <2>1, QuietStep DEF IInv, TypeOK, FieldsOK, WakeupElapsed, Resumes, config, fields
<1> QED BY <1>1, <1>2

\* A call arrives while the loop is free.
LEMMA RequestKeeps == ASSUME IInv, NEW r \in Requests, NEW h \in Task, Request(r, h) PROVE IInv' /\ Starts
<1>1. r \in Kinds BY DEF Kinds
<1>2. TypeOK'
  BY <1>1 DEF Request, IInv, TypeOK, FieldsOK, LoopOK, Where, config, fields
<1>3. \A u \in Task : pc'[u] = IF u = h THEN "new" ELSE pc[u]
  BY DEF Request, IInv, TypeOK, LoopOK
<1>4. OneRound'
  BY <1>3 DEF Request, IInv, OneRound, Round, InRound, fields
<1>5. TriggerHeld'
  BY <1>3 DEF Request, IInv, TriggerHeld, TypeOK, LoopOK, fields
<1>6. Starts
  BY <1>3 DEF Starts
<1> QED BY <1>2, <1>4, <1>5, <1>6 DEF IInv

-----------------------------------------------------------------------------
(* The asynchronous trigger *)

\* start() is the first task and runs alone.
StartAlone == \A t \in Task : kind[t] = "start" /\ pc[t] = "new" =>
                bus = "new" /\ \A u \in Task \ {t} : pc[u] = "free"

\* An asynchronous task that lives is the one that is remembered, there is
\* none beside a round that another task runs, and shutdown alone forgets it.
AsyncKnown == serving => \A t \in Task : Live(t) /\ kind[t] = "async" => asyncTrigger = t
SyncAlone == serving => \A t, u \in Task : InRound(t) /\ kind[t] # "async" /\ Live(u) => kind[u] # "async"
Drained == \A t \in Task : kind[t] = "Shutdown" /\ pc[t] = "drain" => ~serving

AsyncInv == StartAlone /\ AsyncKnown /\ SyncAlone /\ Drained

\* Beside the step of t there is at most a new task of another kind.
Steady(t) ==
  /\ Live(t) /\ pc'[t] # "new"
  /\ pc'[t] \notin Outcomes \cup {"free"} => kind'[t] = kind[t]
  /\ pc'[t] \in {"run", "reap"} => pc[t] \in {"run", "reap"}
  /\ \A u \in Task \ {t} : \/ pc'[u] = pc[u] /\ kind'[u] = kind[u]
                           \/ pc'[u] = "new" /\ kind'[u] \notin {"async", "start"}

\* Such a step keeps the invariant when it leaves the fields of the trigger.
LEMMA SteadyStep ==
  ASSUME AsyncInv, NEW t \in Task, Steady(t), asyncTrigger' = asyncTrigger, serving' => serving,
         kind[t] = "Shutdown" /\ pc'[t] = "drain" => ~serving'
  PROVE  AsyncInv'
<1>1. StartAlone'
  BY DEF Steady, AsyncInv, StartAlone, Live
<1>2. AsyncKnown'
  BY DEF Steady, AsyncInv, AsyncKnown, Live, Outcomes
<1>3. SyncAlone'
  BY DEF Steady, AsyncInv, SyncAlone, InRound, Live, Outcomes
<1>4. Drained'
  BY DEF Steady, AsyncInv, Drained, Outcomes
<1> QED BY <1>1, <1>2, <1>3, <1>4 DEF AsyncInv

LEMMA YieldSteady ==
  ASSUME LoopOK, NEW t \in Task, Live(t), NEW l \in External \ {"run"}, Yield(t, l)
  PROVE  Steady(t) /\ pc'[t] = l
BY DEF LoopOK, Yield, Steady, External

LEMMA GotoSteady ==
  ASSUME LoopOK, NEW t \in Task, Live(t), NEW l \in Inside \cup {"reap"}, l = "reap" => pc[t] = "run", Goto(t, l)
  PROVE  Steady(t) /\ pc'[t] = l
BY DEF LoopOK, Goto, Steady, Inside

LEMMA EndSteady ==
  ASSUME LoopOK, NEW t \in Task, Live(t), NEW o \in Outcomes, End(t, o)
  PROVE  Steady(t) /\ pc'[t] \in Outcomes \cup {"free"}
BY DEF LoopOK, End, Steady, Outcomes

LEMMA EndWithSteady ==
  ASSUME LoopOK, NEW t \in Task, Live(t), NEW n \in Task, EndWith(t, n, "periodic")
  PROVE  Steady(t) /\ pc'[t] = "free"
BY DEF LoopOK, EndWith, Fresh, Steady, Outcomes

LEMMA AwaitSteady ==
  ASSUME LoopOK, NEW t \in Task, Live(t), NEW u \in Task, NEW l \in Awaiting \ {"reap"}, Await(t, l, u)
  PROVE  Steady(t) /\ pc'[t] = l
BY DEF LoopOK, Await, Steady, Awaiting

LEMMA CancelSteady ==
  ASSUME LoopOK, NEW t \in Task, Live(t), NEW u \in Task, NEW l \in {"reap", "cancelling"},
         l = "reap" => pc[t] = "run",
         CancelAndAwait(t, l, u, pc), UNCHANGED kind
  PROVE  Steady(t) /\ pc'[t] = l
BY DEF LoopOK, CancelAndAwait, Steady

\* The actions that are such steps: all but those that begin or end a round,
\* create the asynchronous trigger, or forget it.
LEMMA TaskSteady ==
  ASSUME IInv, NEW t \in Task,
         \/ Unwind(t)
         \/ PeriodicSleep(t) \/ PeriodicAppList(t) \/ PeriodicFire(t) \/ PeriodicFail(t)
         \/ TriggerReturns(t) \/ TriggerJoins(t) \/ JoinEnds(t) \/ JoinAsyncEnds(t)
         \/ RoundFails(t) \/ StartExport(t) \/ StartSubscribe(t)
  PROVE  Steady(t) /\ UNCHANGED fields /\ pc'[t] # "drain"
<1> USE DEF IInv, TypeOK, Live, Resumes, Outcomes
<1>1. CASE Unwind(t)
  BY <1>1, ThrownType, EndSteady DEF Unwind, fields
<1>2. CASE PeriodicSleep(t) \/ PeriodicAppList(t)
  BY <1>2, YieldSteady DEF PeriodicSleep, PeriodicAppList, External, fields
<1>3. CASE PeriodicFire(t)
  BY <1>3, GotoSteady, EndSteady DEF PeriodicFire, Inside, fields
<1>4. CASE PeriodicFail(t) \/ JoinEnds(t) \/ JoinAsyncEnds(t) \/ RoundFails(t)
  BY <1>4, EndSteady DEF PeriodicFail, JoinEnds, JoinAsyncEnds, RoundFails, fields
<1>5. CASE TriggerReturns(t)
  BY <1>5, EndSteady DEF TriggerReturns, AtTrigger, fields
<1>6. CASE TriggerJoins(t)
  <2>1. PICK u \in Task, l \in {"join", "joinAsync"} : Await(t, l, u)
    BY <1>6 DEF FieldsOK, TriggerJoins
  <2> QED BY <1>6, <2>1, AwaitSteady DEF TriggerJoins, AtTrigger, Awaiting, fields
<1>7. CASE StartExport(t)
  BY <1>7, YieldSteady, EndSteady DEF StartExport, External, fields
<1>8. CASE StartSubscribe(t)
  BY <1>8, EndSteady DEF StartSubscribe, fields
<1> QED BY <1>1, <1>2, <1>3, <1>4, <1>5, <1>6, <1>7, <1>8

LEMMA FieldsSteady ==
  ASSUME IInv, NEW t \in Task,
         \/ SettingCall(t) \/ SettingApply(t) \/ UpdateSchedule(t) \/ CancelPeriodic(t) \/ CancelEnds(t)
         \/ Shutdown(t) \/ ShutdownEnds(t) \/ LeaveSuspend(t) \/ WakeupElapsed(t)
  PROVE  /\ Steady(t) /\ asyncTrigger' = asyncTrigger /\ (serving' => serving)
         /\ kind[t] = "Shutdown" /\ pc'[t] = "drain" => ~serving'
<1> USE DEF IInv, TypeOK, Live, Resumes, Outcomes
<1>1. CASE SettingCall(t)
  <2>1. \/ End(t, "ok")
        \/ asyncTrigger \in Task /\ Await(t, "drain", asyncTrigger)
        \/ Goto(t, "set")
    BY <1>1 DEF SettingCall, Drains, FieldsOK
  <2>2. Live(t) /\ kind[t] # "Shutdown" /\ UNCHANGED fields
    BY <1>1 DEF SettingCall, Settings
  <2> QED BY <2>1, <2>2, EndSteady, AwaitSteady, GotoSteady DEF Awaiting, Inside, fields
<1>2. CASE SettingApply(t)
  BY <1>2, EndSteady, GotoSteady DEF SettingApply, Inside, fields
<1>3. CASE UpdateSchedule(t)
  <2>1. Live(t) /\ UNCHANGED <<asyncTrigger, serving>>
    BY <1>3 DEF UpdateSchedule
  <2>2. Steady(t) /\ pc'[t] # "drain"
    BY <1>3, <2>1, GotoSteady, EndWithSteady, EndSteady DEF UpdateSchedule, Inside
  <2> QED BY <2>1, <2>2
<1>4. ASSUME Live(t), AfterCancel(t)
      PROVE  Steady(t) /\ pc'[t] # "drain"
  BY <1>4, EndSteady, GotoSteady DEF AfterCancel, Inside
<1>5. CASE CancelPeriodic(t)
  <2>1. Live(t) /\ UNCHANGED fields
    BY <1>5 DEF CancelPeriodic
  <2>2. Steady(t) /\ pc'[t] # "drain"
    <3>1. CASE End(t, "error")
      BY <2>1, <3>1, EndSteady
    <3>2. CASE periodicTask \in Task /\ CancelAndAwait(t, "cancelling", periodicTask, pc) /\ UNCHANGED kind
      BY <2>1, <3>2, CancelSteady
    <3> QED BY <1>4, <1>5, <2>1, <3>1, <3>2 DEF CancelPeriodic, FieldsOK
  <2> QED BY <2>1, <2>2 DEF fields
<1>6. CASE CancelEnds(t)
  BY <1>4, <1>6 DEF CancelEnds, Caught
<1>7. CASE Shutdown(t)
  <2>1. \/ asyncTrigger \in Task /\ Await(t, "drain", asyncTrigger)
        \/ Goto(t, "cancel")
    BY <1>7 DEF Shutdown, FieldsOK
  <2> QED BY <1>7, <2>1, AwaitSteady, GotoSteady DEF Shutdown, Awaiting, Inside
<1>8. CASE ShutdownEnds(t)
  BY <1>8, EndSteady DEF ShutdownEnds, fields
<1>9. CASE LeaveSuspend(t)
  BY <1>9, EndSteady, YieldSteady DEF LeaveSuspend, External
<1>10. CASE WakeupElapsed(t)
  BY <1>10, GotoSteady DEF WakeupElapsed, Inside, fields
<1> QED BY <1>1, <1>2, <1>3, <1>5, <1>6, <1>7, <1>8, <1>9, <1>10

\* The end of a round creates a periodic task, no other.
LEMMA RoundEndsSteady ==
  ASSUME IInv, NEW t \in Task, RoundEnds(t)
  PROVE  /\ Steady(t) /\ asyncTrigger' = asyncTrigger /\ serving' = serving
         /\ pc'[t] = "reap"
<1> USE DEF IInv, TypeOK, Live, Resumes, Outcomes
<1>1. pc[t] = "run" /\ UNCHANGED <<asyncTrigger, serving>>
  BY DEF RoundEnds
<1>2. CASE serving
  <2>1. PICK p \in Task :
          /\ Fresh(p) /\ kind' = [kind EXCEPT ![p] = "periodic"]
          /\ pc' = [[pc EXCEPT ![p] = "new"] EXCEPT ![t] = "reap"]
    BY <1>2 DEF RoundEnds, NewPeriodic, CancelAndAwait
  <2>2. p # t
    BY <1>1, <2>1 DEF Fresh
  <2> QED BY <1>1, <2>1, <2>2 DEF Steady, LoopOK
<1>3. CASE ~serving
  BY <1>1, <1>3, GotoSteady, CancelSteady DEF RoundEnds, FieldsOK
<1> QED BY <1>1, <1>2, <1>3

\* A round begins, or the trigger finds that it may not run: the task is the
\* asynchronous one, or there is none.
LEMMA BeginRoundAsync ==
  ASSUME IInv, AsyncInv, NEW t \in Task, Live(t), BeginRound(t), serving' = serving,
         kind[t] = "async" \/ asyncTrigger = None
  PROVE  AsyncInv'
<1> USE DEF IInv, TypeOK, Live, Outcomes
<1>1. \A u \in Task : u # t /\ serving => ~(Live(u) /\ kind[u] = "async")
  BY DaemonAssumption DEF AsyncInv, AsyncKnown
<1>2. \A u \in Task \ {t} : pc'[u] = pc[u] /\ kind'[u] = kind[u]
  BY DEF BeginRound, Yield, End, LoopOK
<1>3. \/ pc'[t] = "run" /\ kind'[t] = kind[t] /\ asyncTrigger' = asyncTrigger
      \/ pc'[t] \in Outcomes \cup {"free"} /\ asyncTrigger' = None
  BY DEF BeginRound, Yield, End, LoopOK
<1>4. StartAlone' /\ Drained'
  BY <1>2, <1>3 DEF AsyncInv, StartAlone, Drained
<1>5. AsyncKnown'
  BY <1>1, <1>2, <1>3 DEF AsyncInv, AsyncKnown
<1>6. SyncAlone'
  BY <1>1, <1>2, <1>3 DEF AsyncInv, SyncAlone, InRound
<1> QED BY <1>4, <1>5, <1>6 DEF AsyncInv

LEMMA TriggerAsync ==
  ASSUME IInv, AsyncInv, NEW t \in Task, TriggerTask(t) \/ TriggerRuns(t) \/ TriggerSpawns(t)
  PROVE  AsyncInv'
<1> USE DEF IInv, TypeOK, Live, Resumes, Outcomes
<1>1. CASE TriggerTask(t)
  BY <1>1, BeginRoundAsync DEF TriggerTask
<1>2. CASE TriggerRuns(t)
  BY <1>2, BeginRoundAsync DEF TriggerRuns, AtTrigger
<1>3. CASE TriggerSpawns(t)
  <2>1. PICK a \in Task : asyncTrigger' = a /\ Fresh(a) /\ EndWith(t, a, "async")
    BY <1>3 DEF TriggerSpawns, EndWith
  <2>2. /\ Live(t) /\ serving' = serving /\ asyncTrigger = None /\ ~triggerActive
        /\ pc'[t] = "free" /\ pc'[a] = "new" /\ kind'[a] = "async" /\ a # t
        /\ \A u \in Task \ {t, a} : pc'[u] = pc[u] /\ kind'[u] = kind[u]
    BY <1>3, <2>1 DEF TriggerSpawns, AtTrigger, EndWith, Fresh, LoopOK
  <2>3. \A u \in Task : serving => ~(Live(u) /\ kind[u] = "async")
    BY <2>2, DaemonAssumption DEF AsyncInv, AsyncKnown
  <2>4. \A u \in Task : ~InRound(u)
    BY <2>2 DEF OneRound, Round
  <2>5. StartAlone'
    BY <2>2 DEF AsyncInv, StartAlone
  <2>6. AsyncKnown'
    BY <2>1, <2>2, <2>3 DEF AsyncKnown
  <2>7. SyncAlone' /\ Drained'
    BY <2>2, <2>4 DEF AsyncInv, SyncAlone, Drained, InRound
  <2> QED BY <2>5, <2>6, <2>7 DEF AsyncInv
<1> QED BY <1>1, <1>2, <1>3

\* The end of a round forgets the asynchronous task: it is the one that ends,
\* or there is none.
LEMMA RoundReapsAsync ==
  ASSUME IInv, AsyncInv, NEW t \in Task, RoundReaps(t)
  PROVE  AsyncInv'
<1> USE DEF IInv, TypeOK, Live, Outcomes
<1>1. pc[t] = "reap" /\ serving' = serving /\ asyncTrigger' = None
  BY DEF RoundReaps, Caught
<1>2. Steady(t) /\ pc'[t] \in Outcomes \cup {"free"}
  BY <1>1, EndSteady DEF RoundReaps
<1>3. \A u \in Task : serving /\ u # t => ~(Live(u) /\ kind[u] = "async")
  BY <1>1 DEF AsyncInv, AsyncKnown, SyncAlone, InRound
<1>4. \A u \in Task : serving => ~(Live(u)' /\ kind'[u] = "async")
  BY <1>2, <1>3 DEF Steady
<1>5. StartAlone' /\ Drained'
  BY <1>1, <1>2 DEF AsyncInv, StartAlone, Drained, Steady
<1>6. AsyncKnown' /\ SyncAlone'
  BY <1>1, <1>4 DEF AsyncKnown, SyncAlone
<1> QED BY <1>5, <1>6 DEF AsyncInv

\* What is left: start(), shutdown() after its wait, calls and the clock
LEMMA StartAsync ==
  ASSUME IInv, AsyncInv, NEW t \in Task, Start(t)
  PROVE  AsyncInv'
<1> USE DEF IInv, TypeOK, Live, Resumes, Outcomes
<1>1. kind[t] = "start" /\ pc[t] = "new" /\ \A u \in Task \ {t} : pc[u] = "free"
  BY DEF Start, AsyncInv, StartAlone
<1>2. /\ pc'[t] = "connect" /\ kind'[t] = "start"
      /\ \A u \in Task \ {t} : pc'[u] = "free" \/ (pc'[u] = "new" /\ kind'[u] = "periodic")
  BY <1>1 DEF Start, NewPeriodic, LoopOK
<1> QED BY <1>2 DEF AsyncInv, StartAlone, AsyncKnown, SyncAlone, Drained, InRound

LEMMA ShutdownDrainedAsync ==
  ASSUME IInv, AsyncInv, NEW t \in Task, ShutdownDrained(t)
  PROVE  AsyncInv'
<1> USE DEF IInv, TypeOK, Live, Resumes, Outcomes
<1>1. pc[t] = "drain" /\ kind[t] = "Shutdown" /\ serving' = serving
  BY DEF ShutdownDrained
<1>2. ~serving'
  BY <1>1 DEF AsyncInv, Drained
<1>3. Steady(t) /\ pc'[t] = "cancel"
  BY <1>1, GotoSteady DEF ShutdownDrained, Inside
<1> QED BY <1>1, <1>2, <1>3 DEF AsyncInv, StartAlone, AsyncKnown, SyncAlone, Drained, Steady

LEMMA RequestAsync ==
  ASSUME IInv, AsyncInv, NEW r \in Requests, NEW h \in Task, Request(r, h)
  PROVE  AsyncInv'
<1> USE DEF IInv, TypeOK, Live, Outcomes
<1>1. /\ bus # "new" /\ pc'[h] = "new" /\ kind'[h] = r /\ UNCHANGED <<asyncTrigger, serving, bus>>
      /\ \A u \in Task \ {h} : pc'[u] = pc[u] /\ kind'[u] = kind[u]
  BY DEF Request, fields, LoopOK
<1>2. r \notin {"async", "start"}
  BY DaemonAssumption DEF AllRequests, Settings, Notices
<1> QED BY <1>1, <1>2 DEF AsyncInv, StartAlone, AsyncKnown, SyncAlone, Drained, InRound

LEMMA AsyncKeeps == ASSUME IInv, AsyncInv, [Next]_vars PROVE AsyncInv'
<1>1. ASSUME NEW t \in Task, Step(t) PROVE AsyncInv'
  <2>1. CASE TriggerTask(t) \/ TriggerRuns(t) \/ TriggerSpawns(t) \/ RoundReaps(t) \/ Start(t) \/ ShutdownDrained(t)
    BY <2>1, TriggerAsync, RoundReapsAsync, StartAsync, ShutdownDrainedAsync
  <2>2. CASE RoundEnds(t)
    BY <2>2, RoundEndsSteady, SteadyStep
  <2>3. CASE \/ Unwind(t)
             \/ PeriodicSleep(t) \/ PeriodicAppList(t) \/ PeriodicFire(t) \/ PeriodicFail(t)
             \/ TriggerReturns(t) \/ TriggerJoins(t) \/ JoinEnds(t) \/ JoinAsyncEnds(t)
             \/ RoundFails(t) \/ StartExport(t) \/ StartSubscribe(t)
    BY <2>3, TaskSteady, SteadyStep DEF fields
  <2>4. CASE \/ SettingCall(t) \/ SettingApply(t) \/ UpdateSchedule(t) \/ CancelPeriodic(t) \/ CancelEnds(t)
             \/ Shutdown(t) \/ ShutdownEnds(t) \/ LeaveSuspend(t) \/ WakeupElapsed(t)
    BY <2>4, FieldsSteady, SteadyStep
  <2> QED BY <1>1, <2>1, <2>2, <2>3, <2>4 DEF Step
<1>2. CASE \E r \in Requests, h \in Task : Request(r, h)
  BY <1>2, RequestAsync
<1>3. CASE Tick \/ UNCHANGED vars
  BY <1>3 DEF Tick, vars, loop, fields, AsyncInv, StartAlone, AsyncKnown, SyncAlone, Drained, InRound, Live
<1> QED BY <1>1, <1>2, <1>3 DEF Next

-----------------------------------------------------------------------------
(* The theorems *)

\* Every step of a task preserves the invariant.
LEMMA StepKeeps == ASSUME IInv, NEW t \in Task, Step(t) PROVE IInv' /\ Starts
BY UnwindKeeps, PeriodicKeeps, TriggerKeeps, RoundEndsKeeps, RoundFailsKeeps, RoundReapsKeeps,
   SettingKeeps, UpdateScheduleKeeps, CancelKeeps, StartKeeps, ShutdownKeeps, SuspendKeeps
   DEF Step

\* Every step of the specification does.
LEMMA NextKeeps == ASSUME IInv, [Next]_vars PROVE IInv' /\ Starts
<1>1. CASE \E t \in Task : Step(t)
  BY <1>1, StepKeeps
<1>2. CASE \E r \in Requests, h \in Task : Request(r, h)
  BY <1>2, RequestKeeps
<1>3. CASE UNCHANGED <<enable, inhibit, serving, triggerActive, suspend, asyncTrigger,
                       periodicTask, bus, loop>> /\ due' \in BOOLEAN
  BY <1>3 DEF IInv, TypeOK, FieldsOK, LoopOK, OneRound, Round, InRound, TriggerHeld, Starts, loop
<1>4. CASE Tick \/ UNCHANGED vars
  BY <1>3, <1>4 DEF Tick, IInv, TypeOK, FieldsOK, vars, config, fields
<1> QED BY <1>1, <1>2, <1>4 DEF Next

\* So the invariant is inductive.
LEMMA Invariance == Spec => []IInv
<1>1. Init => IInv
  BY DEF Init, IInv, TypeOK, FieldsOK, LoopOK, Where, Kinds, OneRound, Round, InRound, TriggerHeld
<1>2. IInv /\ [Next]_vars => IInv'
  BY NextKeeps
<1> QED BY <1>1, <1>2, PTL DEF Spec

\* The Daemon object's fields and the tasks of the event loop stay well formed.
THEOREM TypeCorrect == Spec => []TypeOK
<1>1. IInv => TypeOK BY DEF IInv
<1> QED BY <1>1, Invariance, PTL

\* The trigger lock excludes: two rounds never overlap, whatever is cancelled
\* or shut down meanwhile, and _trigger_active is up during each of them.
THEOREM RoundsExclusive == Spec => []OneRound
<1>1. IInv => OneRound BY DEF IInv
<1> QED BY <1>1, Invariance, PTL

\* A round only begins while the daemon is enabled and not inhibited, also
\* when the asynchronous trigger was created before the options changed, and
\* a periodic one only before shutdown has begun.
THEOREM RoundsStartAllowed == Spec => StartsAllowed
<1>1. IInv /\ [Next]_vars
        => [\A t \in Task : pc[t] # "run" /\ pc'[t] = "run"
                              => Allowed /\ (kind[t] = "periodic" => serving)]_vars
  BY NextKeeps DEF Starts
<1> QED BY <1>1, Invariance, PTL DEF Spec, StartsAllowed

\* The facts about the asynchronous trigger are inductive beside the invariant.
LEMMA AsyncInvariance == Spec => []AsyncInv
<1>1. Init => AsyncInv
  BY DEF Init, AsyncInv, StartAlone, AsyncKnown, SyncAlone, Drained
<1>2. IInv /\ AsyncInv /\ [Next]_vars => AsyncInv'
  BY AsyncKeeps
<1> QED BY <1>1, <1>2, Invariance, PTL DEF Spec

\* TriggerAsync calls never lead to two asynchronous rounds, or one that waits
\* beside one that runs: the task that is remembered is the only one, from the
\* call that creates it to the end of its round, until shutdown begins.
THEOREM AsyncExclusive == Spec => []AsyncDedup
<1>1. AsyncInv => AsyncDedup
  BY DEF AsyncInv, AsyncKnown, AsyncDedup
<1> QED BY <1>1, AsyncInvariance, PTL

-----------------------------------------------------------------------------
(* The round of an asynchronous trigger is not cancelled.  A wake-up ends    *)
(* with a _cancel_periodic that nothing has been awaited before, so the      *)
(* theorem is about a daemon that does not hear of them.                     *)

NoWake == "Wake" \notin Requests

\* Where a task that runs the coroutine k can be suspended or hold the loop
At(k, l) == \/ k = "async" /\ l \in {"new", "run", "reap"}
            \/ /\ k = "periodic"
               /\ l \in {"new", "sleep", "applist", "trigger", "run", "reap", "join", "joinAsync"}
            \/ k = "start" /\ l \in {"new", "connect", "startup"}
            \/ k = "Trigger" /\ l \in {"new", "run", "reap", "join", "joinAsync"}
            \/ k \in {"TriggerAsync", "Suspend"} /\ l = "new"
            \/ k \in Settings /\ l \in {"new", "set", "drain", "update", "cancel", "cancelling"}
            \/ k = "Shutdown" /\ l \in {"new", "drain", "cancel", "cancelling", "unexport"}

Shaped == \A t \in Task : Live(t) => At(kind[t], pc[t])

\* A task in the middle of a stretch holds the loop, and can go on.
LoopHeld == /\ \A t \in Task : pc[t] \in Inside => cur = t /\ exc[t] = "none"
            /\ cur # None => pc[cur] \in Inside \cup Awaiting /\ ~Waits(cur)

\* What is awaited is a trigger's or a periodic task's object, which is kept.
WaitsOK == \A t \in Task :
             /\ wait[t] # None => /\ pc[t] \in Awaiting
                                  /\ kind[wait[t]] \in {"async", "periodic"}
                                  /\ pc[wait[t]] # "free"
             /\ pc[t] = "drain" => wait[t] \in Task /\ kind[wait[t]] = "async"

\* The periodic task that is remembered waits for an asynchronous one at most.
PeriodicOK == periodicTask # None =>
                /\ kind[periodicTask] = "periodic" /\ pc[periodicTask] # "free"
                /\ wait[periodicTask] # None => kind[wait[periodicTask]] = "async"

\* An asynchronous trigger that has ended well is forgotten; switching off goes
\* on without a wait only when none is remembered.
AsyncOK == /\ asyncTrigger # None => /\ kind[asyncTrigger] = "async"
                                     /\ pc[asyncTrigger] \notin {"free", "ok"}
           /\ \A t \in Task : pc[t] = "set" /\ kind[t] \in {"Disable", "Inhibit"} => asyncTrigger = None

Struct == Shaped /\ LoopHeld /\ WaitsOK /\ PeriodicOK /\ AsyncOK

\* The lock is taken and nobody is in a round: none begins any more.
Stuck == triggerActive /\ ~Round

\* The periodic task will not ask for a round before the clock moves on.
Still == /\ ~due
         /\ periodicTask # None => pc[periodicTask] \in {"new", "sleep"} \cup Outcomes

\* The periodic task waits for a round.
Joins == periodicTask # None /\ Waits(periodicTask)

\* The wait of t for the asynchronous trigger is over, or there was none to wait for.
Resumed(t) == pc[t] = "drain" /\ pc[wait[t]] = "ok"
Past(t) == /\ kind[t] \in Settings \cup {"Shutdown"}
           /\ Resumed(t) \/ pc[t] \in {"set", "update", "cancel"}

\* The end of a's round waits for a periodic task that waits for it in turn;
\* or for one that is about to end.
Hung(a) == Waits(a) /\ wait[wait[a]] = a
Prompt(a) == Waits(a) => exc[wait[a]] # "none" /\ ~Waits(wait[a])

\* The round that the periodic task waits for is the only one, and is remembered.
JoinsKnown == Joins => /\ Allowed /\ asyncTrigger = wait[periodicTask]
                       /\ \A t \in Task : (Live(t) /\ kind[t] = "async") \/ InRound(t)
                                            => t = wait[periodicTask]

\* Who is about to cancel the periodic task finds it waiting for nothing.
PastFree == \A t \in Task : Past(t) => ~Joins

\* Between the end of the asynchronous trigger and the step of the task that
\* waited for it, the periodic task does not ask for a round: when the round
\* ended, its time has been set anew; when the trigger did nothing because it
\* was switched off, the one who did that had waited for an earlier trigger.
DrainedStill == serving => \A t \in Task : Resumed(t) => Still
NewStill == serving /\ ~Allowed => \A t \in Task : kind[t] = "async" /\ pc[t] = "new" => Still
ReapStill == serving => \A t \in Task : kind[t] = "async" /\ pc[t] = "reap"
                                          => Hung(t) \/ (Still /\ Prompt(t))

Cut == JoinsKnown /\ PastFree /\ DrainedStill /\ NewStill /\ ReapStill /\ AsyncRoundNotCancelled
CancelInv == Stuck \/ (Struct /\ Cut)

-----------------------------------------------------------------------------
(* How a step of a task leaves the tasks and the fields that refer to them *)

\* t ends; a trigger or periodic task that is referred to is kept.
Ended(t) == /\ pc'[t] \in Outcomes \cup {"free"} /\ wait'[t] = None /\ cur' = None
            /\ pc'[t] # "free" => kind'[t] = kind[t]
            /\ kind[t] \in {"async", "periodic"} /\ Held(t) => pc'[t] # "free"

\* t suspends for something else than a task, or goes on.
Went(t) == /\ kind'[t] = kind[t] /\ wait'[t] = None
           /\ At(kind[t], pc'[t]) /\ pc'[t] \notin {"new", "drain"}
           /\ pc'[t] \in Inside => cur' = t /\ exc'[t] = "none"
           /\ cur' = None \/ (cur' = t /\ pc'[t] \in Inside \cup {"reap"})

\* t awaits v.
Awaited(t, v) == /\ kind'[t] = kind[t] /\ wait'[t] = (IF v = t THEN None ELSE v)
                 /\ At(kind[t], pc'[t]) /\ pc'[t] \in Awaiting
                 /\ pc'[t] = "drain" => v = asyncTrigger
                 /\ cur' = IF v # t /\ Done(v) THEN t ELSE None

\* The others keep their place, and what is thrown into them.
Turn(t) == /\ Live(t) /\ CanRun(t)
           /\ \A u \in Task \ {t} :
                /\ wait'[u] = wait[u]
                /\ \/ pc'[u] = pc[u] /\ kind'[u] = kind[u]
                   \/ /\ Fresh(u) /\ pc'[u] = "new"
                      /\ kind'[u] = "periodic" \/ (kind'[u] = "async" /\ asyncTrigger' = u)
                /\ exc[u] # "none" => exc'[u] # "none"
           /\ \/ Ended(t) \/ Went(t)
              \/ \E v \in {asyncTrigger, periodicTask} \cap Task : Awaited(t, v)

\* A reference is kept, given up or set to a new task.
Refers(t) ==
  /\ \/ periodicTask' \in {periodicTask, None}
     \/ /\ periodicTask' \in Task \ {t} /\ Fresh(periodicTask')
        /\ pc'[periodicTask'] = "new" /\ kind'[periodicTask'] = "periodic"
  /\ \/ asyncTrigger' \in {asyncTrigger, None}
     \/ /\ asyncTrigger' \in Task \ {t} /\ Fresh(asyncTrigger')
        /\ pc'[asyncTrigger'] = "new" /\ kind'[asyncTrigger'] = "async"
  /\ asyncTrigger' = t => pc'[t] # "ok"
  /\ pc'[t] = "set" /\ kind[t] \in {"Disable", "Inhibit"} => asyncTrigger' = None

\* What is referred to stays what it is, and as it is until its own step.
LEMMA HeldStays ==
  ASSUME TypeOK, NEW t \in Task, Turn(t), NEW v \in Task, Held(v)
  PROVE  /\ v # t => pc'[v] = pc[v] /\ kind'[v] = kind[v]
         /\ kind[v] \in {"async", "periodic"} => kind'[v] = kind[v] /\ (pc[v] # "free" => pc'[v] # "free")
         /\ Done(v) => pc'[v] = pc[v]
<1>1. ~Fresh(v)
  BY DEF Fresh
<1>2. v # t => pc'[v] = pc[v] /\ kind'[v] = kind[v]
  BY <1>1 DEF Turn
<1>3. Done(v) => v # t
  BY DEF Turn, Live, Done
<1>4. CASE v = t
  <2>1. Ended(t) \/ (kind'[t] = kind[t] /\ (At(kind[t], pc'[t]) \/ pc'[t] \in Awaiting))
    BY DEF Turn, Went, Awaited
  <2> QED BY <1>3, <1>4, <2>1 DEF Ended, At, Awaiting, Settings
<1> QED BY <1>2, <1>3, <1>4

\* A step of t that keeps this shape
LEMMA StructStep ==
  ASSUME TypeOK, TypeOK', Struct, NEW t \in Task, Turn(t), Refers(t)
  PROVE  Struct'
<1> USE DEF TypeOK, Live, Done
<1>1. \A u \in Task \ {t} : pc[u] \notin Inside
  BY DEF Struct, LoopHeld, Turn, CanRun
<1>2. \A u \in Task : Fresh(u) => wait[u] = None
  BY DEF Fresh, Struct, WaitsOK, Outcomes, Awaiting, LoopOK
<1>3. \A u \in Task : wait[u] # None => wait[u] \in Task /\ Held(wait[u])
  BY DEF LoopOK, Held
<1>4. (asyncTrigger # None => asyncTrigger \in Task /\ Held(asyncTrigger))
      /\ (periodicTask # None => periodicTask \in Task /\ Held(periodicTask))
  BY DEF FieldsOK, Held
<1>5. Shaped'
  BY DEF Struct, Shaped, Turn, Ended, Went, Awaited, At, Outcomes
<1>6. LoopHeld'
  <2>1. \A u \in Task : pc'[u] \in Inside => cur' = t /\ exc'[t] = "none" /\ u = t
    BY <1>1 DEF Turn, Ended, Went, Awaited, Inside, Outcomes, Awaiting
  <2>2. cur' # None => cur' = t /\ pc'[t] \in Inside \cup Awaiting
    BY DEF Turn, Ended, Went, Awaited, Awaiting
  <2>3. ASSUME cur' # None, wait'[t] # None PROVE pc'[wait'[t]] \in Outcomes
    <3>1. PICK v \in {asyncTrigger, periodicTask} \cap Task : Awaited(t, v)
      BY <2>3 DEF Turn, Ended, Went
    <3>2. wait'[t] = v /\ Done(v) /\ Held(v)
      BY <1>4, <2>3, <3>1 DEF Awaited, Held
    <3> QED BY <3>2, HeldStays
  <2> QED BY <2>1, <2>2, <2>3, DaemonAssumption DEF LoopHeld, Waits, LoopOK
<1>7. WaitsOK'
  <2>1. ASSUME NEW u \in Task \ {t}
        PROVE  /\ wait'[u] # None => /\ pc'[u] \in Awaiting
                                     /\ kind'[wait'[u]] \in {"async", "periodic"}
                                     /\ pc'[wait'[u]] # "free"
               /\ pc'[u] = "drain" => wait'[u] \in Task /\ kind'[wait'[u]] = "async"
    <3>1. wait'[u] = wait[u]
      BY DEF Turn
    <3>2. wait[u] # None => pc'[u] = pc[u]
      BY <1>2 DEF Turn
    <3>3. pc'[u] = "drain" => pc[u] = "drain"
      BY DEF Turn
    <3>4. wait[u] # None => /\ kind'[wait[u]] = kind[wait[u]]
                            /\ pc'[wait[u]] # "free"
      BY <1>3, HeldStays DEF Struct, WaitsOK
    <3> QED BY <3>1, <3>2, <3>3, <3>4, DaemonAssumption DEF Struct, WaitsOK
  <2>2. ASSUME NEW v \in {asyncTrigger, periodicTask} \cap Task, Awaited(t, v)
        PROVE  /\ wait'[t] # None => /\ pc'[t] \in Awaiting
                                     /\ kind'[wait'[t]] \in {"async", "periodic"}
                                     /\ pc'[wait'[t]] # "free"
               /\ pc'[t] = "drain" => wait'[t] \in Task /\ kind'[wait'[t]] = "async"
    <3>1. kind[v] \in {"async", "periodic"} /\ pc[v] # "free" /\ (v = asyncTrigger => kind[v] = "async")
      BY DaemonAssumption DEF Struct, AsyncOK, PeriodicOK
    <3>2. kind'[v] = kind[v] /\ pc'[v] # "free"
      BY <1>4, <3>1, DaemonAssumption, HeldStays
    <3>3. pc'[t] = "drain" => v = asyncTrigger /\ v # t
      BY <2>2, <3>1 DEF Awaited, At, Settings
    <3> QED BY <2>2, <3>1, <3>2, <3>3 DEF Awaited
  <2>3. CASE Ended(t) \/ Went(t)
    <3>1. wait'[t] = None /\ pc'[t] # "drain"
      BY <2>3 DEF Ended, Went, Outcomes
    <3> QED BY <2>1, <3>1 DEF WaitsOK
  <2>4. CASE \E v \in {asyncTrigger, periodicTask} \cap Task : Awaited(t, v)
    BY <2>1, <2>2, <2>4 DEF WaitsOK
  <2> QED BY <2>3, <2>4 DEF Turn
<1>8. PeriodicOK'
  <2>1. CASE periodicTask' = periodicTask /\ periodicTask # None
    <3>1. /\ kind'[periodicTask] = "periodic" /\ pc'[periodicTask] # "free"
      BY <1>4, <2>1, HeldStays DEF Struct, PeriodicOK
    <3>2. ASSUME wait'[periodicTask] # None PROVE kind'[wait'[periodicTask]] = "async"
      <4>1. CASE periodicTask # t
        <5>1. wait'[periodicTask] = wait[periodicTask]
          BY <1>4, <2>1, <4>1 DEF Turn
        <5> QED BY <1>3, <1>4, <2>1, <3>2, <5>1, HeldStays DEF Struct, PeriodicOK
      <4>2. CASE periodicTask = t
        <5>1. wait'[t] = asyncTrigger /\ asyncTrigger \in Task
          BY <3>2, <4>2 DEF Turn, Ended, Went, Awaited
        <5> QED BY <1>4, <4>2, <5>1, DaemonAssumption, HeldStays DEF Struct, AsyncOK
      <4> QED BY <4>1, <4>2
    <3> QED BY <2>1, <3>1, <3>2 DEF PeriodicOK
  <2>2. CASE /\ periodicTask' \in Task \ {t} /\ Fresh(periodicTask')
             /\ pc'[periodicTask'] = "new" /\ kind'[periodicTask'] = "periodic"
    <3>1. wait'[periodicTask'] = None
      BY <1>2, <2>2 DEF Turn
    <3> QED BY <2>2, <3>1 DEF PeriodicOK
  <2> QED BY <2>1, <2>2 DEF Refers, PeriodicOK
<1>9. AsyncOK'
  <2>1. asyncTrigger' # None => kind'[asyncTrigger'] = "async" /\ pc'[asyncTrigger'] \notin {"free", "ok"}
    <3>1. CASE asyncTrigger' = asyncTrigger /\ asyncTrigger # None
      <4>1. kind'[asyncTrigger] = "async" /\ pc'[asyncTrigger] # "free"
        BY <1>4, <3>1, HeldStays DEF Struct, AsyncOK
      <4>2. pc'[asyncTrigger] # "ok"
        BY <1>4, <3>1, HeldStays DEF Struct, AsyncOK, Refers
      <4> QED BY <3>1, <4>1, <4>2
    <3> QED BY <3>1 DEF Refers
  <2>2. ASSUME NEW u \in Task, pc'[u] = "set", kind'[u] \in {"Disable", "Inhibit"}
        PROVE  asyncTrigger' = None
    <3>1. u = t
      BY <1>1, <2>2 DEF Turn, Inside
    <3> QED BY <2>2, <3>1 DEF Refers, Turn, Ended, Went, Awaited, Outcomes, Awaiting
  <2> QED BY <2>1, <2>2 DEF AsyncOK
<1> QED BY <1>5, <1>6, <1>7, <1>8, <1>9 DEF Struct

\* Beside t's step nothing changes for a task.
Alike(t) == \A u \in Task \ {t} :
              pc'[u] = pc[u] /\ kind'[u] = kind[u] /\ wait'[u] = wait[u] /\ exc'[u] = exc[u]

\* A task suspends for something else than a task.
LEMMA YieldTurn ==
  ASSUME LoopOK, NEW t \in Task, Live(t), CanRun(t),
         NEW l \in External, At(kind[t], l), Yield(t, l)
  PROVE  Turn(t) /\ Alike(t) /\ pc'[t] = l /\ wait'[t] = None /\ exc'[t] = "none"
<1>1. Went(t) /\ pc'[t] = l /\ exc'[t] = "none"
  BY DEF LoopOK, Yield, Went, External, Inside
<1>2. Alike(t)
  BY DEF LoopOK, Yield, Alike
<1> QED BY <1>1, <1>2 DEF Turn, Alike, Went

\* A function call that does not suspend
LEMMA GotoTurn ==
  ASSUME LoopOK, NEW t \in Task, Live(t), CanRun(t),
         NEW l \in Inside \cup {"reap"}, At(kind[t], l), Goto(t, l)
  PROVE  Turn(t) /\ Alike(t) /\ pc'[t] = l /\ wait'[t] = None
<1>1. Went(t) /\ pc'[t] = l
  BY DEF LoopOK, Goto, Went, Inside
<1>2. Alike(t)
  BY DEF LoopOK, Goto, Alike
<1> QED BY <1>1, <1>2 DEF Turn, Alike, Went

\* The end of a task
LEMMA EndTurn ==
  ASSUME LoopOK, NEW t \in Task, Live(t), CanRun(t), NEW o \in Outcomes, End(t, o)
  PROVE  Turn(t) /\ Alike(t) /\ pc'[t] \in {o, "free"} /\ wait'[t] = None
<1>1. Ended(t) /\ pc'[t] \in {o, "free"}
  BY DEF LoopOK, End, Ended, Outcomes
<1>2. Alike(t)
  BY DEF LoopOK, End, Alike
<1> QED BY <1>1, <1>2 DEF Turn, Alike, Ended

\* The end of a handler that has created a task
LEMMA EndWithTurn ==
  ASSUME LoopOK, NEW t \in Task, Live(t), CanRun(t), wait[t] = None,
         kind[t] \notin {"async", "periodic"},
         NEW n \in Task, NEW k \in {"async", "periodic"}, k = "async" => asyncTrigger' = n,
         EndWith(t, n, k)
  PROVE  /\ Turn(t) /\ pc'[t] = "free" /\ wait'[t] = None /\ exc' = exc
         /\ n # t /\ Fresh(n) /\ pc'[n] = "new" /\ kind'[n] = k
<1>1. n # t /\ Fresh(n)
  BY DEF EndWith, Fresh
<1>2. Ended(t) /\ pc'[t] = "free"
  BY <1>1 DEF LoopOK, EndWith, Ended
<1> QED BY <1>1, <1>2 DEF LoopOK, EndWith, Turn, Ended

\* The await of a trigger or a periodic task
LEMMA AwaitTurn ==
  ASSUME LoopOK, NEW t \in Task, Live(t), CanRun(t),
         NEW v \in {asyncTrigger, periodicTask} \cap Task, NEW l \in Awaiting, At(kind[t], l),
         l = "drain" => v = asyncTrigger,
         Await(t, l, v)
  PROVE  /\ Turn(t) /\ Alike(t) /\ pc'[t] = l /\ wait'[t] = IF v = t THEN None ELSE v
<1>1. Awaited(t, v) /\ pc'[t] = l
  BY DEF LoopOK, Await, Awaited
<1>2. Alike(t)
  BY DEF LoopOK, Await, Alike
<1> QED BY <1>1, <1>2 DEF Turn, Alike, Awaited

\* The cancellation of the periodic task, and the await of its end
LEMMA CancelTurn ==
  ASSUME LoopOK, NEW t \in Task, Live(t), CanRun(t), periodicTask \in Task,
         NEW l \in {"reap", "cancelling"}, At(kind[t], l),
         CancelAndAwait(t, l, periodicTask, pc), UNCHANGED kind
  PROVE  /\ Turn(t) /\ pc'[t] = l /\ wait'[t] = IF periodicTask = t THEN None ELSE periodicTask
         /\ \A u \in Task : pc'[u] = "new" => pc[u] = "new" /\ kind'[u] = kind[u]
<1>1. Awaited(t, periodicTask) /\ pc'[t] = l
  BY DEF LoopOK, CancelAndAwait, Awaited, Awaiting
<1>2. \A u \in Task \ {t} : /\ wait'[u] = wait[u] /\ pc'[u] = pc[u] /\ kind'[u] = kind[u]
                            /\ exc[u] # "none" => exc'[u] # "none"
  BY DEF LoopOK, CancelAndAwait
<1> QED BY <1>1, <1>2 DEF Turn, Awaited

-----------------------------------------------------------------------------
(* The steps that keep the periodic task from being cancelled in a round *)

\* The periodic task goes on waiting for what it waited for.
LEMMA JoinsStay ==
  ASSUME TypeOK, Struct, NEW t \in Task, Turn(t), Refers(t),
         t = periodicTask => wait'[t] = None,
         Joins'
  PROVE  /\ Joins /\ periodicTask' = periodicTask /\ wait'[periodicTask] = wait[periodicTask]
         /\ t # periodicTask /\ (t = wait[periodicTask] => pc'[t] \notin Outcomes)
<1> USE DEF TypeOK, FieldsOK, LoopOK, Live, Done
<1>1. periodicTask' # None /\ wait'[periodicTask'] # None /\ pc'[wait'[periodicTask']] \notin Outcomes
  BY DEF Joins, Waits
<1>2. periodicTask' = periodicTask
  <2>1. ASSUME Fresh(periodicTask'), periodicTask' \in Task \ {t} PROVE wait'[periodicTask'] = None
    BY <2>1 DEF Turn, Fresh, Struct, WaitsOK, Awaiting, Outcomes
  <2> QED BY <1>1, <2>1 DEF Refers
<1>3. t # periodicTask /\ wait'[periodicTask] = wait[periodicTask]
  BY <1>1, <1>2 DEF Turn
<1>4. Held(wait[periodicTask]) /\ wait[periodicTask] \in Task
  BY <1>1, <1>2, <1>3 DEF Held
<1>5. pc[wait[periodicTask]] \notin Outcomes
  BY <1>1, <1>2, <1>3, <1>4, HeldStays
<1> QED BY <1>1, <1>2, <1>3, <1>5 DEF Joins, Waits

\* A task whose await has ended well had it ended before, or it is t's end.
LEMMA ResumedStays ==
  ASSUME TypeOK, Struct, NEW t \in Task, Turn(t), NEW u \in Task, Resumed(u)'
  PROVE  Resumed(u) \/ (u # t /\ wait[u] = t /\ kind[t] = "async" /\ pc'[t] = "ok")
<1> USE DEF TypeOK, FieldsOK, LoopOK
<1>1. pc'[u] = "drain" /\ pc'[wait'[u]] = "ok"
  BY DEF Resumed
<1>2. CASE u = t
  <2>1. wait'[t] = asyncTrigger /\ asyncTrigger \in Task /\ t # asyncTrigger
    BY <1>1, <1>2 DEF Turn, Ended, Went, Awaited, Outcomes, At, Settings, Struct, AsyncOK
  <2>2. pc'[asyncTrigger] = pc[asyncTrigger]
    BY <2>1, HeldStays DEF Held
  <2> QED BY <1>1, <1>2, <2>1, <2>2 DEF Struct, AsyncOK
<1>3. CASE u # t
  <2>1. pc[u] = "drain" /\ wait'[u] = wait[u]
    BY <1>1, <1>3 DEF Turn
  <2>2. wait[u] \in Task /\ Held(wait[u]) /\ kind[wait[u]] = "async"
    BY <2>1 DEF Struct, WaitsOK, Held
  <2>3. wait[u] # t => pc'[wait[u]] = pc[wait[u]]
    BY <2>2, HeldStays
  <2> QED BY <1>1, <1>3, <2>1, <2>2, <2>3 DEF Resumed
<1> QED BY <1>2, <1>3

\* What t's step may do while the periodic task waits for a round
Passes(t) ==
  /\ t = periodicTask => wait'[t] = None
  /\ Joins /\ Joins' => /\ Allowed => Allowed'
                        /\ asyncTrigger' = asyncTrigger
                        /\ InRound(t)' => InRound(t) \/ kind[t] = "async"
  /\ pc'[t] \in {"set", "update", "cancel"} => Past(t) \/ ~Joins

\* Such a step leaves the round that is waited for the only one, and nobody
\* about to cancel the task that waits.
LEMMA JoinsStep ==
  ASSUME TypeOK, Struct, JoinsKnown, PastFree, NEW t \in Task, Turn(t), Refers(t), Passes(t)
  PROVE  JoinsKnown' /\ PastFree'
<1> USE DEF TypeOK, FieldsOK, LoopOK, Live
<1>1. Joins' => /\ Joins /\ periodicTask' = periodicTask /\ wait'[periodicTask] = wait[periodicTask]
                /\ t # periodicTask /\ (t = wait[periodicTask] => pc'[t] \notin Outcomes)
  BY JoinsStay DEF Passes
<1>2. ASSUME Joins' PROVE (Allowed /\ asyncTrigger = wait[periodicTask])'
  BY <1>1, <1>2 DEF JoinsKnown, Passes
<1>3. ASSUME Joins', NEW u \in Task, (Live(u) /\ kind[u] = "async")' \/ InRound(u)'
      PROVE  u = wait'[periodicTask']
  <2>1. wait'[periodicTask'] = wait[periodicTask] /\ asyncTrigger' = asyncTrigger /\ asyncTrigger = wait[periodicTask]
    BY <1>1, <1>3 DEF JoinsKnown, Passes
  <2>2. CASE u = t
    <3>1. (Live(t) /\ kind[t] = "async") \/ InRound(t)
      BY <1>1, <1>3, <2>2 DEF Turn, Ended, Went, Awaited, Passes, InRound, Outcomes
    <3> QED BY <1>1, <1>3, <2>1, <2>2, <3>1 DEF JoinsKnown
  <2>3. CASE u # t /\ pc'[u] = pc[u] /\ kind'[u] = kind[u]
    BY <1>1, <1>3, <2>1, <2>3 DEF JoinsKnown, InRound
  <2>4. CASE Fresh(u) /\ pc'[u] = "new"
    <3>1. u # t /\ kind'[u] = "async" /\ asyncTrigger' = u
      BY <1>3, <2>4 DEF Turn, Fresh, InRound
    <3>2. ~Held(u) /\ Held(asyncTrigger)
      BY <2>1, <2>4, <3>1 DEF Fresh, Held
    <3> QED BY <2>1, <3>1, <3>2
  <2> QED BY <2>2, <2>3, <2>4 DEF Turn
<1>4. ASSUME NEW u \in Task, Past(u)', Joins' PROVE FALSE
  <2>1. Joins
    BY <1>1, <1>4
  <2>2. ~Past(u)
    BY <2>1 DEF PastFree
  <2>3. CASE Resumed(u)'
    <3>1. CASE Resumed(u)
      <4>1. kind'[u] = kind[u]
        BY <2>3 DEF Turn, Ended, Went, Awaited, Resumed, Outcomes
      <4> QED BY <1>4, <2>2, <3>1, <4>1 DEF Past
    <3>2. CASE kind[t] = "async" /\ pc'[t] = "ok"
      <4>1. t = wait[periodicTask]
        BY <2>1, <3>2 DEF JoinsKnown, Turn
      <4> QED BY <1>1, <1>4, <3>2, <4>1 DEF Outcomes
    <3> QED BY <2>3, <3>1, <3>2, ResumedStays
  <2>4. CASE pc'[u] \in {"set", "update", "cancel"}
    <3>1. u # t => Past(u)
      BY <1>4, <2>4 DEF Turn, Past
    <3> QED BY <2>1, <2>2, <2>4, <3>1 DEF Passes
  <2> QED BY <1>4, <2>3, <2>4 DEF Past
<1>5. JoinsKnown'
  BY <1>2, <1>3 DEF JoinsKnown
<1>6. PastFree'
  BY <1>4 DEF PastFree
<1> QED BY <1>5, <1>6

\* What t's step may do to the time of the next round and to an asynchronous one
Spares(t) ==
  /\ due' => due
  /\ serving' => serving
  /\ t = periodicTask /\ pc[t] \in {"new", "sleep"} /\ ~due => pc'[t] \in {"sleep"} \cup Outcomes
  /\ kind[t] = "async" /\ pc'[t] = "ok" /\ serving => Still
  /\ serving /\ ~Allowed' => \/ ~Allowed \/ Still
                             \/ \A u \in Task : ~(kind[u] = "async" /\ pc[u] = "new")
  /\ asyncTrigger' \in {asyncTrigger, None} \/ Allowed'
  /\ kind[t] = "async" /\ pc'[t] = "reap" /\ serving => (Hung(t) \/ (Still /\ Prompt(t)))'
  /\ kind[t] \in {"async", "periodic"} /\ exc[t] # "none" => pc'[t] \in Outcomes \cup {"free"}
  /\ \A u \in Task : kind'[u] = "async" /\ pc'[u] = "run"
                       => exc'[u] = IF u = t THEN "none" ELSE exc[u]

\* The periodic task stays still.
LEMMA StillStays ==
  ASSUME TypeOK, Struct, NEW t \in Task, Turn(t), Refers(t), Spares(t), Still
  PROVE  Still'
<1> USE DEF TypeOK, FieldsOK, LoopOK
<1>1. ~due'
  BY DEF Spares, Still
<1>2. CASE periodicTask' = periodicTask /\ periodicTask # None
  <2>1. Held(periodicTask) /\ periodicTask \in Task
    BY <1>2 DEF Held
  <2>2. periodicTask # t => pc'[periodicTask] = pc[periodicTask]
    BY <2>1, HeldStays
  <2>3. CASE periodicTask = t
    BY <1>1, <1>2, <2>3 DEF Spares, Still, Turn, Live
  <2> QED BY <1>1, <1>2, <2>2, <2>3 DEF Still
<1>3. CASE periodicTask' # periodicTask \/ periodicTask = None
  BY <1>1, <1>3 DEF Refers, Still
<1> QED BY <1>2, <1>3

\* A round's end keeps waiting for what it waited for, in a circle or not.
LEMMA HungStays ==
  ASSUME TypeOK, Struct, NEW t \in Task, Turn(t), NEW a \in Task, Hung(a)
  PROVE  Hung(a)'
<1> USE DEF TypeOK, FieldsOK, LoopOK
<1>1. a # t /\ wait[a] # t /\ wait[a] \in Task
  <2>1. wait[a] \in Task /\ ~Done(wait[a]) /\ wait[wait[a]] = a /\ pc[a] \in Awaiting
    BY DEF Hung, Waits, Struct, WaitsOK
  <2> QED BY <2>1 DEF Turn, CanRun, Done, Outcomes, Awaiting
<1>2. Held(wait[a]) /\ Held(a)
  BY <1>1 DEF Held, Hung
<1>3. pc'[wait[a]] = pc[wait[a]] /\ wait'[a] = wait[a] /\ wait'[wait[a]] = a
  BY <1>1, <1>2, HeldStays DEF Turn, Hung
<1> QED BY <1>1, <1>3 DEF Hung, Waits, Done

LEMMA PromptStays ==
  ASSUME TypeOK, Struct, NEW t \in Task, Turn(t), Spares(t), NEW a \in Task \ {t}, Prompt(a)
  PROVE  Prompt(a)'
<1> USE DEF TypeOK, FieldsOK, LoopOK
<1>1. SUFFICES ASSUME Waits(a)' PROVE (exc[wait[a]] # "none" /\ ~Waits(wait[a]))'
  BY DEF Prompt
<1>2. wait'[a] = wait[a] /\ wait[a] \in Task
  BY <1>1 DEF Turn, Waits
<1>3. Held(wait[a]) /\ kind[wait[a]] \in {"async", "periodic"} /\ pc[wait[a]] # "free"
  BY <1>2 DEF Held, Struct, WaitsOK
<1>4. pc'[wait[a]] \notin Outcomes \cup {"free"}
  BY <1>1, <1>2, <1>3, HeldStays DEF Waits, Done
<1>5. ~Done(wait[a])
  BY <1>2, <1>3, <1>4, HeldStays DEF Done
<1>6. Waits(a) /\ exc[wait[a]] # "none" /\ ~Waits(wait[a])
  BY <1>2, <1>5 DEF Prompt, Waits
<1>7. wait[a] # t
  BY <1>3, <1>4, <1>6 DEF Spares
<1>8. exc'[wait[a]] # "none" /\ wait'[wait[a]] = wait[wait[a]]
  BY <1>2, <1>6, <1>7 DEF Turn
<1>9. wait[wait[a]] # None => pc'[wait[wait[a]]] \in Outcomes
  BY <1>2, <1>6, HeldStays DEF Waits, Done, Held
<1> QED BY <1>2, <1>8, <1>9 DEF Waits, Done

\* Such a step preserves what is known of the periodic task's time, and
\* cancels no asynchronous round.
LEMMA SparesStep ==
  ASSUME TypeOK, Struct, DrainedStill, NewStill, ReapStill, AsyncRoundNotCancelled,
         NEW t \in Task, Turn(t), Refers(t), Spares(t)
  PROVE  DrainedStill' /\ NewStill' /\ ReapStill' /\ AsyncRoundNotCancelled'
<1> USE DEF TypeOK, FieldsOK, LoopOK
<1>1. DrainedStill'
  <2>1. ASSUME serving', NEW u \in Task, Resumed(u)' PROVE Still'
    <3>1. Resumed(u) \/ (kind[t] = "async" /\ pc'[t] = "ok")
      BY <2>1, ResumedStays
    <3>2. Still
      BY <2>1, <3>1 DEF DrainedStill, Spares
    <3> QED BY <3>2, StillStays
  <2> QED BY <2>1 DEF DrainedStill
<1>2. NewStill'
  <2>1. ASSUME serving', ~Allowed', NEW u \in Task, kind'[u] = "async", pc'[u] = "new" PROVE Still'
    <3>1. u # t
      BY <2>1 DEF Turn, Ended, Went, Awaited, Outcomes, Awaiting
    <3>2. CASE kind[u] = "async" /\ pc[u] = "new"
      <4>1. Still
        BY <2>1, <3>2 DEF Spares, NewStill
      <4> QED BY <4>1, StillStays
    <3>3. CASE Fresh(u) /\ asyncTrigger' = u
      BY <2>1, <3>3 DEF Spares, Fresh, Held
    <3> QED BY <2>1, <3>1, <3>2, <3>3 DEF Turn
  <2> QED BY <2>1 DEF NewStill
<1>3. ReapStill'
  <2>1. ASSUME serving', NEW a \in Task, kind'[a] = "async", pc'[a] = "reap"
        PROVE  Hung(a)' \/ (Still' /\ Prompt(a)')
    <3>1. CASE a = t
      <4>1. kind[t] = "async"
        BY <2>1, <3>1 DEF Turn, Ended, Went, Awaited, Outcomes
      <4> QED BY <2>1, <3>1, <4>1 DEF Spares
    <3>2. CASE a # t
      <4>1. kind[a] = "async" /\ pc[a] = "reap"
        BY <2>1, <3>2 DEF Turn
      <4>2. Hung(a) \/ (Still /\ Prompt(a))
        BY <2>1, <4>1 DEF ReapStill, Spares
      <4> QED BY <3>2, <4>2, HungStays, StillStays, PromptStays
    <3> QED BY <3>1, <3>2
  <2> QED BY <2>1 DEF ReapStill
<1>4. AsyncRoundNotCancelled'
  <2>1. ASSUME NEW u \in Task, pc'[u] = "run", kind'[u] = "async" PROVE exc'[u] = "none"
    <3>1. u # t => pc[u] = "run" /\ kind[u] = "async"
      BY <2>1 DEF Turn
    <3> QED BY <2>1, <3>1 DEF Spares, AsyncRoundNotCancelled
  <2> QED BY <2>1 DEF AsyncRoundNotCancelled
<1> QED BY <1>1, <1>2, <1>3, <1>4

LEMMA CutStep ==
  ASSUME TypeOK, TypeOK', Struct, Cut, NEW t \in Task, Turn(t), Refers(t), Passes(t), Spares(t)
  PROVE  Struct' /\ Cut'
BY StructStep, JoinsStep, SparesStep DEF Cut

\* A step of t that throws nothing, leaves the options and the clock, and
\* neither begins nor ends an asynchronous round, nor makes the periodic task wait.
LEMMA QuietCut ==
  ASSUME TypeOK, TypeOK', Struct, Cut, NEW t \in Task, Turn(t), Refers(t),
         \A u \in Task \ {t} : exc'[u] = exc[u],
         UNCHANGED <<config, due>>, serving' => serving,
         asyncTrigger' = asyncTrigger \/ ~Joins,
         asyncTrigger' \in {asyncTrigger, None} \/ Allowed,
         InRound(t)' => InRound(t) \/ ~Joins,
         pc'[t] \in {"set", "update", "cancel"} => Past(t) \/ ~Joins,
         kind[t] = "async" => pc'[t] \notin {"ok", "run", "reap"},
         t = periodicTask => wait'[t] = None,
         t = periodicTask /\ pc[t] \in {"new", "sleep"} /\ ~due => pc'[t] \in {"sleep"} \cup Outcomes,
         kind[t] \in {"async", "periodic"} /\ exc[t] # "none" => pc'[t] \in Outcomes \cup {"free"}
  PROVE  Struct' /\ Cut'
<1>1. Allowed' = Allowed
  BY DEF Allowed, config
<1>2. Passes(t)
  BY <1>1 DEF Passes
<1>3. kind'[t] = "async" /\ pc'[t] = "run" => FALSE
  BY DEF Turn, Ended, Went, Awaited, Outcomes, Awaiting
<1>4. Spares(t)
  BY <1>1, <1>3 DEF Spares
<1> QED BY <1>2, <1>4, CutStep

\* A task that has not begun, or whose await has ended normally, has no exception thrown into it.
LEMMA ResumesLive ==
  ASSUME NEW t \in Task, NEW l, l \notin Outcomes \cup {"free"}, Resumes(t, l)
  PROVE  Live(t) /\ CanRun(t) /\ pc[t] = l /\ exc[t] = "none"
BY DEF Resumes, Live, Thrown

\* The end of a task that is not the end of an asynchronous round
LEMMA EndCut ==
  ASSUME TypeOK, TypeOK', Struct, Cut, NEW t \in Task, Live(t), CanRun(t),
         NEW o \in Outcomes, kind[t] = "async" => o # "ok", End(t, o),
         UNCHANGED <<config, due>>, serving' = serving, asyncTrigger' = asyncTrigger,
         periodicTask' \in {periodicTask, None}
  PROVE  Struct' /\ Cut'
<1>1. Turn(t) /\ Alike(t) /\ pc'[t] \in {o, "free"} /\ wait'[t] = None
  BY EndTurn DEF TypeOK
<1>2. Refers(t)
  BY <1>1 DEF Refers, Struct, AsyncOK, Outcomes
<1>3. t = periodicTask => pc'[t] \in Outcomes
  BY <1>1, HeldStays DEF Held, Struct, PeriodicOK
<1> QED BY <1>1, <1>2, <1>3, QuietCut DEF Alike, Outcomes, InRound

\* The periodic task until it calls trigger
LEMMA PeriodicCut ==
  ASSUME IInv, TypeOK', Struct, Cut, NEW t \in Task,
         PeriodicSleep(t) \/ PeriodicAppList(t) \/ PeriodicFire(t) \/ PeriodicFail(t)
  PROVE  Struct' /\ Cut'
<1> USE DEF IInv, TypeOK
<1>1. CASE PeriodicSleep(t) \/ PeriodicAppList(t)
  <2>1. /\ Live(t) /\ CanRun(t) /\ exc[t] = "none" /\ kind[t] = "periodic"
        /\ UNCHANGED <<config, fields, due, bus>>
    BY <1>1, ResumesLive DEF PeriodicSleep, PeriodicAppList, Outcomes
  <2>2. PICK l \in {"sleep", "applist"} :
          /\ Yield(t, l)
          /\ t = periodicTask /\ pc[t] \in {"new", "sleep"} /\ ~due => l = "sleep"
    BY <1>1 DEF PeriodicSleep, PeriodicAppList, TimeToRun, Resumes
  <2>3. Turn(t) /\ Alike(t) /\ pc'[t] = l /\ wait'[t] = None
    BY <2>1, <2>2, YieldTurn DEF At, External
  <2>4. Refers(t)
    BY <2>1, <2>3 DEF Refers, fields
  <2> QED BY <2>1, <2>2, <2>3, <2>4, QuietCut DEF Alike, fields, InRound
<1>2. CASE PeriodicFire(t) /\ serving
  <2>1. /\ Live(t) /\ CanRun(t) /\ exc[t] = "none" /\ kind[t] = "periodic" /\ Goto(t, "trigger")
        /\ t = periodicTask /\ pc[t] \in {"new", "sleep"} => due
        /\ UNCHANGED <<config, fields, due, bus>>
    BY <1>2, ResumesLive DEF PeriodicFire, Outcomes, TimeToRun, Resumes
  <2>2. Turn(t) /\ Alike(t) /\ pc'[t] = "trigger" /\ wait'[t] = None
    BY <2>1, GotoTurn DEF At, Inside
  <2>3. Refers(t)
    BY <2>1, <2>2 DEF Refers, fields
  <2> QED BY <2>1, <2>2, <2>3, QuietCut DEF Alike, fields, InRound
<1>3. CASE PeriodicFire(t) /\ ~serving
  <2>1. Live(t) /\ CanRun(t) /\ kind[t] = "periodic" /\ End(t, "ok") /\ UNCHANGED <<config, fields, due, bus>>
    BY <1>3, ResumesLive DEF PeriodicFire, Outcomes
  <2> QED BY <2>1, EndCut DEF Outcomes, fields
<1>4. CASE PeriodicFail(t)
  <2>1. Live(t) /\ CanRun(t) /\ End(t, "error") /\ UNCHANGED <<config, fields, due, bus>>
    BY <1>4, ResumesLive DEF PeriodicFail, Outcomes
  <2> QED BY <2>1, EndCut DEF Outcomes, fields
<1> QED BY <1>1, <1>2, <1>3, <1>4

\* An exception that is not caught
LEMMA UnwindCut == ASSUME IInv, TypeOK', Struct, Cut, NEW t \in Task, Unwind(t) PROVE Struct' /\ Cut'
<1>1. Thrown(t) \in Outcomes \ {"ok"}
  BY ThrownType DEF IInv, TypeOK, Unwind, Outcomes
<1> QED BY <1>1, EndCut DEF IInv, Unwind, fields

\* The call of trigger, by the periodic task or as a method
LEMMA AtTriggerShape ==
  ASSUME TypeOK, Struct, NEW t \in Task, AtTrigger(t)
  PROVE  /\ Live(t) /\ CanRun(t) /\ exc[t] = "none" /\ wait[t] = None
         /\ \/ kind[t] = "periodic" /\ pc[t] = "trigger" /\ cur = t
            \/ kind[t] \in {"Trigger", "TriggerAsync"} /\ pc[t] = "new"
<1>1. CASE pc[t] = "trigger" /\ CanRun(t)
  <2>1. Live(t) /\ exc[t] = "none" /\ cur = t
    BY <1>1 DEF Live, Outcomes, Struct, LoopHeld, Inside
  <2>2. kind[t] = "periodic"
    BY <1>1, <2>1 DEF Struct, Shaped, At, Settings
  <2> QED BY <1>1, <2>1, <2>2 DEF TypeOK, LoopOK, Struct, WaitsOK, Awaiting
<1>2. CASE kind[t] \in {"Trigger", "TriggerAsync"} /\ Resumes(t, "new")
  <2>1. Live(t) /\ CanRun(t) /\ pc[t] = "new" /\ exc[t] = "none"
    BY <1>2, ResumesLive DEF Outcomes
  <2> QED BY <1>2, <2>1 DEF TypeOK, LoopOK, Struct, WaitsOK, Awaiting
<1> QED BY <1>1, <1>2 DEF AtTrigger

\* Nobody waits for an asynchronous trigger that is not there.
LEMMA NoneToJoin == ASSUME JoinsKnown, asyncTrigger = None PROVE ~Joins
BY DEF JoinsKnown, Joins, Waits

\* The ends of trigger without a round, and of a round that fails
LEMMA ReturnsCut ==
  ASSUME IInv, TypeOK', Struct, Cut, NEW t \in Task,
         TriggerReturns(t) \/ JoinEnds(t) \/ JoinAsyncEnds(t) \/ RoundFails(t)
  PROVE  Struct' /\ Cut'
<1> USE DEF IInv, Outcomes, fields
<1>1. CASE TriggerReturns(t)
  BY <1>1, AtTriggerShape, EndCut DEF TriggerReturns
<1>2. CASE JoinEnds(t) \/ JoinAsyncEnds(t)
  <2>1. Live(t) /\ CanRun(t) /\ pc[t] \in {"join", "joinAsync"}
    BY <1>2, ResumesLive DEF JoinEnds, JoinAsyncEnds
  <2>2. kind[t] # "async"
    BY <2>1 DEF Struct, Shaped, At
  <2>3. \E o \in {"ok", "error"} : End(t, o)
    BY <1>2 DEF JoinEnds, JoinAsyncEnds
  <2> QED BY <1>2, <2>1, <2>2, <2>3, EndCut DEF JoinEnds, JoinAsyncEnds
<1>3. CASE RoundFails(t)
  <2>1. Live(t) /\ CanRun(t)
    BY <1>3, ResumesLive DEF RoundFails
  <2> QED BY <1>3, <2>1, EndCut DEF RoundFails
<1> QED BY <1>1, <1>2, <1>3

\* trigger waits for the round: when it is the periodic task that does, the
\* round is the asynchronous one, the only one, and nobody is about to cancel.
LEMMA TriggerJoinsCut ==
  ASSUME IInv, TypeOK', AsyncInv, Struct, Cut, NEW t \in Task, TriggerJoins(t)
  PROVE  Struct' /\ Cut'
<1> USE DEF IInv, TypeOK, FieldsOK
<1>1. /\ AtTrigger(t) /\ Allowed /\ kind[t] # "TriggerAsync" /\ UNCHANGED <<config, fields, due, bus>>
  BY DEF TriggerJoins
<1>2. /\ Live(t) /\ CanRun(t) /\ exc[t] = "none" /\ wait[t] = None
      /\ (kind[t] = "periodic" /\ pc[t] = "trigger" /\ cur = t) \/ (kind[t] = "Trigger" /\ pc[t] = "new")
  BY <1>1, AtTriggerShape
<1>3. PICK v \in {asyncTrigger, periodicTask} \cap Task, l \in {"join", "joinAsync"} :
        Await(t, l, v) /\ (t = periodicTask => v \in {asyncTrigger, t})
  BY DEF TriggerJoins
<1>4. Turn(t) /\ Alike(t) /\ pc'[t] = l /\ wait'[t] = IF v = t THEN None ELSE v
  BY <1>2, <1>3, AwaitTurn DEF Awaiting, At
<1>5. Refers(t)
  BY <1>1, <1>4 DEF Refers, fields, Struct, AsyncOK
<1>6. CASE t # periodicTask \/ v = t
  <2>1. t = periodicTask => wait'[t] = None
    BY <1>4, <1>6
  <2>2. t = periodicTask => pc[t] = "trigger"
    BY <1>2 DEF Struct, PeriodicOK
  <2> QED BY <1>1, <1>2, <1>4, <1>5, <2>1, <2>2, QuietCut DEF Alike, fields, InRound
<1>7. CASE t = periodicTask /\ v # t
  <2>1. v = asyncTrigger /\ kind[v] = "async" /\ pc[v] # "free" /\ kind[t] = "periodic" /\ pc[t] = "trigger" /\ cur = t
    BY <1>2, <1>3, <1>7 DEF Struct, AsyncOK, PeriodicOK
  <2>2. serving
    BY <2>1 DEF TriggerHeld
  <2>3. Allowed' = Allowed /\ serving' = serving
    BY <1>1 DEF Allowed, config, fields
  <2>4. Spares(t)
    BY <1>1, <1>2, <1>4, <2>1, <2>3 DEF Spares, Alike, fields, LoopOK
  <2>5. DrainedStill' /\ NewStill' /\ ReapStill' /\ AsyncRoundNotCancelled'
    BY <1>4, <1>5, <2>4, SparesStep DEF Cut
  <2>6. kind'[t] = "periodic"
    BY <1>4, <1>7, <2>1, HeldStays DEF Held
  <2>7. ASSUME Joins', NEW u \in Task, (Live(u) /\ kind[u] = "async")' \/ InRound(u)' PROVE u = v
    <3>1. pc'[v] = pc[v] /\ Live(v)
      BY <1>1, <1>4, <1>7, <2>1, <2>7 DEF Alike, Joins, Waits, Done, Live, fields
    <3>2. (Live(u) /\ kind[u] = "async") \/ InRound(u)
      BY <1>4, <2>1, <2>7, <2>6 DEF Alike, Live, InRound
    <3>3. CASE Live(u) /\ kind[u] = "async"
      BY <2>1, <2>2, <3>3 DEF AsyncInv, AsyncKnown
    <3>4. CASE InRound(u) /\ kind[u] # "async"
      BY <2>1, <2>2, <3>1, <3>4 DEF AsyncInv, SyncAlone
    <3>5. InRound(u) => Live(u)
      BY DEF InRound, Live, Outcomes
    <3> QED BY <3>2, <3>3, <3>4, <3>5
  <2>8. JoinsKnown'
    BY <1>1, <1>4, <1>7, <2>1, <2>3, <2>7 DEF JoinsKnown, fields
  <2>9. ASSUME NEW u \in Task, Past(u)' PROVE FALSE
    <3>1. u # t /\ pc[u] \notin Inside
      BY <2>1, <2>9, <2>6 DEF Past, Settings, Struct, LoopHeld
    <3>2. Resumed(u)'
      BY <1>4, <2>9, <3>1 DEF Past, Alike, Inside
    <3>3. Resumed(u)
      BY <1>4, <2>1, <3>2, ResumedStays
    <3> QED BY <1>7, <2>1, <2>2, <3>3 DEF Cut, DrainedStill, Still, Outcomes
  <2>10. PastFree'
    BY <2>9 DEF PastFree
  <2> QED BY <1>4, <1>5, <2>5, <2>8, <2>10, StructStep DEF Cut
<1> QED BY <1>6, <1>7

\* trigger runs the round itself, or creates the asynchronous task: nobody
\* waits for an asynchronous round then.
LEMMA TriggerBeginsCut ==
  ASSUME IInv, TypeOK', Struct, Cut, NEW t \in Task, TriggerRuns(t) \/ TriggerSpawns(t)
  PROVE  Struct' /\ Cut'
<1> USE DEF IInv, TypeOK
<1>1. /\ AtTrigger(t) /\ Allowed /\ ~triggerActive /\ asyncTrigger = None
      /\ UNCHANGED <<config, serving, periodicTask, due>>
  BY DEF TriggerRuns, TriggerSpawns
<1>2. /\ Live(t) /\ CanRun(t) /\ exc[t] = "none" /\ wait[t] = None
      /\ (kind[t] = "periodic" /\ pc[t] = "trigger") \/ (kind[t] \in {"Trigger", "TriggerAsync"} /\ pc[t] = "new")
  BY <1>1, AtTriggerShape
<1>3. ~Joins
  BY <1>1, NoneToJoin DEF Cut
<1>4. t = periodicTask => pc[t] = "trigger"
  BY <1>2 DEF Struct, PeriodicOK
<1>5. CASE TriggerRuns(t)
  <2>1. Yield(t, "run") /\ UNCHANGED asyncTrigger /\ kind[t] # "TriggerAsync"
    BY <1>1, <1>5 DEF TriggerRuns, BeginRound
  <2>2. Turn(t) /\ Alike(t) /\ pc'[t] = "run" /\ wait'[t] = None
    BY <1>2, <2>1, YieldTurn DEF At, External
  <2>3. Refers(t)
    BY <1>1, <2>1, <2>2 DEF Refers
  <2> QED BY <1>1, <1>2, <1>3, <1>4, <2>1, <2>2, <2>3, QuietCut DEF Alike
<1>6. CASE TriggerSpawns(t)
  <2>1. PICK a \in Task : asyncTrigger' = a /\ EndWith(t, a, "async") /\ kind[t] = "TriggerAsync"
    BY <1>6 DEF TriggerSpawns
  <2>2. /\ Turn(t) /\ pc'[t] = "free" /\ wait'[t] = None /\ exc' = exc
        /\ a # t /\ Fresh(a) /\ pc'[a] = "new" /\ kind'[a] = "async"
    BY <1>2, <2>1, EndWithTurn
  <2>3. Refers(t)
    BY <1>1, <2>1, <2>2 DEF Refers
  <2> QED BY <1>1, <1>2, <1>3, <1>4, <2>1, <2>2, <2>3, QuietCut DEF InRound
<1> QED BY <1>5, <1>6

\* The periodic task does not go on waiting for a round that ends.
LEMMA JoinsEnd ==
  ASSUME TypeOK, Struct, JoinsKnown, NEW t \in Task, Turn(t), Refers(t), wait'[t] = None,
         kind[t] = "async" \/ InRound(t), pc'[t] \in {"ok", "free"}
  PROVE  ~Joins'
<1>1. SUFFICES ASSUME Joins' PROVE FALSE
  OBVIOUS
<1>2. Joins /\ (t = wait[periodicTask] => pc'[t] \notin Outcomes)
  BY <1>1, JoinsStay
<1>3. t = wait[periodicTask]
  BY <1>2 DEF JoinsKnown, Turn
<1>4. pc'[t] # "free"
  <2>1. Held(t) /\ kind[t] = "async" /\ pc[t] # "free"
    BY <1>2, <1>3 DEF Held, JoinsKnown, Struct, AsyncOK, TypeOK, FieldsOK, Turn, Live
  <2> QED BY <2>1, HeldStays
<1> QED BY <1>2, <1>3, <1>4 DEF Outcomes

\* The asynchronous trigger's task begins its round, or finds that it may not.
LEMMA TriggerTaskCut ==
  ASSUME IInv, TypeOK', AsyncInv, Struct, ~Stuck, Cut, NEW t \in Task, TriggerTask(t)
  PROVE  Struct' /\ Cut'
<1> USE DEF IInv, TypeOK
<1>1. /\ Live(t) /\ CanRun(t) /\ pc[t] = "new" /\ exc[t] = "none" /\ kind[t] = "async"
      /\ UNCHANGED <<config, serving, periodicTask, due>>
  BY ResumesLive DEF TriggerTask, Outcomes
<1>2. Allowed' = Allowed /\ t # periodicTask
  BY <1>1 DEF Allowed, config, Struct, PeriodicOK
<1>3. CASE Allowed /\ ~triggerActive
  <2>1. Yield(t, "run") /\ UNCHANGED asyncTrigger
    BY <1>3 DEF TriggerTask, BeginRound
  <2>2. Turn(t) /\ Alike(t) /\ pc'[t] = "run" /\ exc'[t] = "none"
    BY <1>1, <2>1, YieldTurn DEF At, External
  <2>3. Refers(t) /\ Passes(t)
    BY <1>1, <1>2, <2>1, <2>2 DEF Refers, Passes
  <2>4. Spares(t)
    BY <1>1, <1>2, <2>1, <2>2 DEF Spares, Alike
  <2> QED BY <2>2, <2>3, <2>4, CutStep
<1>4. CASE ~(Allowed /\ ~triggerActive)
  <2>1. asyncTrigger' = None /\ End(t, "ok")
    BY <1>4 DEF TriggerTask, BeginRound
  <2>2. Turn(t) /\ Alike(t) /\ pc'[t] \in {"ok", "free"} /\ wait'[t] = None
    BY <1>1, <2>1, EndTurn DEF Outcomes
  <2>3. Refers(t)
    BY <1>1, <2>1, <2>2 DEF Refers
  <2>4. Passes(t)
    <3>1. ~Joins'
      BY <1>1, <2>2, <2>3, JoinsEnd DEF Cut
    <3> QED BY <1>2, <2>2, <3>1 DEF Passes
  <2>5. serving => Still
    <3>1. CASE ~Allowed
      BY <1>1, <3>1 DEF Cut, NewStill
    <3>2. CASE triggerActive
      <4>1. PICK u \in Task : InRound(u)
        BY <3>2 DEF Stuck, Round
      <4>2. CASE kind[u] = "async"
        <5>1. Live(u) /\ u # t
          BY <1>1, <4>1 DEF InRound, Live, Outcomes
        <5> QED BY <1>1, <4>2, <5>1 DEF AsyncInv, AsyncKnown
      <4>3. CASE kind[u] # "async"
        BY <1>1, <4>1, <4>3 DEF AsyncInv, SyncAlone
      <4> QED BY <4>2, <4>3
    <3> QED BY <1>4, <3>1, <3>2
  <2>6. Spares(t)
    BY <1>1, <1>2, <2>1, <2>2, <2>5 DEF Spares, Alike
  <2> QED BY <2>2, <2>3, <2>4, <2>6, CutStep
<1> QED BY <1>3, <1>4

\* A round has ended and the periodic task that it cancelled is gone.
LEMMA RoundReapsCut ==
  ASSUME IInv, TypeOK', Struct, Cut, NEW t \in Task, RoundReaps(t)
  PROVE  Struct' /\ Cut'
<1> USE DEF IInv, TypeOK
<1>1. /\ Live(t) /\ CanRun(t) /\ pc[t] = "reap" /\ End(t, "ok") /\ asyncTrigger' = None
      /\ UNCHANGED <<config, serving, periodicTask, due>>
  BY DEF RoundReaps, Caught, Live, Outcomes
<1>2. Allowed' = Allowed
  BY <1>1 DEF Allowed, config
<1>3. Turn(t) /\ Alike(t) /\ pc'[t] \in {"ok", "free"} /\ wait'[t] = None
  BY <1>1, EndTurn DEF Outcomes
<1>4. Refers(t)
  BY <1>1, <1>3 DEF Refers
<1>5. Passes(t)
  <2>1. ~Joins'
    BY <1>1, <1>3, <1>4, JoinsEnd DEF Cut, InRound
  <2> QED BY <1>3, <2>1 DEF Passes
<1>6. kind[t] = "async" /\ serving => Still
  BY <1>1 DEF Cut, ReapStill, Hung, Waits, CanRun
<1>7. Spares(t)
  BY <1>1, <1>2, <1>3, <1>6 DEF Spares, Alike, Outcomes
<1> QED BY <1>3, <1>4, <1>5, <1>7, CutStep

-----------------------------------------------------------------------------
(* Cancelling *)

\* What waits for nothing is the end of its own chain of awaits.
LEMMA ChainStops ==
  ASSUME LoopOK, NEW u \in Task, ~Waits(u)
  PROVE  Chain(u) = {u}
<1>1. u \in Chain(u)
  BY DEF Chain
<1>2. ASSUME NEW v \in Chain(u) PROVE v = u
  <2>1. {u} \in SUBSET Task /\ u \in {u} /\ \A w \in {u} : Waits(w) => wait[w] \in {u}
    OBVIOUS
  <2>2. v \in {u}
    BY <1>2, <2>1 DEF Chain
  <2> QED BY <2>2
<1> QED BY <1>1, <1>2

\* So cancelling it is all that its cancellation does.
LEMMA CancelledStops ==
  ASSUME LoopOK, NEW u \in Task, ~Waits(u)
  PROVE  Cancelled(u) = IF Done(u) THEN {} ELSE {u}
BY ChainStops DEF Cancelled

\* runner.trigger has returned.  The old periodic task is cancelled, or it waits
\* for this very round; the new one is not due.
LEMMA RoundEndsTurn ==
  ASSUME IInv, Struct, NEW t \in Task, RoundEnds(t)
  PROVE  /\ Turn(t) /\ Refers(t) /\ pc'[t] = "reap" /\ kind'[t] = kind[t]
         /\ t = periodicTask => wait'[t] = None
         /\ serving => Still'
<1> USE DEF IInv, TypeOK
<1>1. /\ Live(t) /\ CanRun(t) /\ pc[t] = "run" /\ exc[t] = "none" /\ wait[t] = None
      /\ due' = FALSE /\ UNCHANGED <<serving, asyncTrigger>>
  BY ResumesLive DEF RoundEnds, Outcomes, Struct, WaitsOK, Awaiting, LoopOK
<1>2. At(kind[t], "reap")
  BY <1>1 DEF Struct, Shaped, At, Settings
<1>3. periodicTask # None => periodicTask \in Task /\ Held(periodicTask)
  BY DEF FieldsOK, Held
<1>4. CASE serving
  <2>1. PICK p \in Task :
          /\ Fresh(p) /\ periodicTask' = p /\ kind' = [kind EXCEPT ![p] = "periodic"]
          /\ LET pcs == [pc EXCEPT ![p] = "new"] IN
             IF periodicTask # None
               THEN CancelAndAwait(t, "reap", periodicTask, pcs)
               ELSE pc' = [pcs EXCEPT ![t] = "reap"] /\ cur' = t /\ UNCHANGED <<wait, exc>>
    BY <1>4 DEF RoundEnds, NewPeriodic
  <2>2. p # t /\ p # periodicTask
    BY <1>1, <2>1 DEF Fresh, Held
  <2>3. pc'[t] = "reap" /\ pc'[p] = "new" /\ kind'[t] = kind[t] /\ kind'[p] = "periodic"
    BY <2>1, <2>2 DEF CancelAndAwait, LoopOK
  <2>4. Refers(t)
    BY <1>1, <2>1, <2>2, <2>3 DEF Refers, Struct, AsyncOK
  <2>5. Still'
    BY <1>1, <2>1, <2>3 DEF Still
  <2>6. \A u \in Task \ {t, p} : pc'[u] = pc[u] /\ kind'[u] = kind[u]
    BY <2>1 DEF CancelAndAwait, LoopOK
  <2>7. CASE periodicTask # None
    <3>1. CancelAndAwait(t, "reap", periodicTask, [pc EXCEPT ![p] = "new"])
      BY <2>1, <2>7
    <3>2. Awaited(t, periodicTask)
      BY <1>2, <2>3, <3>1 DEF CancelAndAwait, Awaited, LoopOK, Awaiting
    <3>3. \A u \in Task \ {t} : wait'[u] = wait[u] /\ (exc[u] # "none" => exc'[u] # "none")
      BY <3>1 DEF CancelAndAwait, LoopOK
    <3>4. Turn(t)
      BY <1>1, <1>3, <2>1, <2>3, <2>6, <2>7, <3>2, <3>3 DEF Turn
    <3> QED BY <2>3, <2>4, <2>5, <3>2, <3>4 DEF Awaited
  <2>8. CASE periodicTask = None
    <3>1. Went(t) /\ UNCHANGED <<wait, exc>>
      BY <1>1, <1>2, <2>1, <2>3, <2>8 DEF Went, Inside
    <3>2. Turn(t)
      BY <1>1, <2>1, <2>3, <2>6, <3>1 DEF Turn
    <3> QED BY <2>3, <2>4, <2>5, <2>8, <3>2
  <2> QED BY <2>7, <2>8
<1>5. CASE ~serving
  <2>1. UNCHANGED <<periodicTask, kind>>
    BY <1>5 DEF RoundEnds, Goto
  <2>2. Turn(t) /\ pc'[t] = "reap" /\ (t = periodicTask => wait'[t] = None)
    <3>1. CASE periodicTask # None
      BY <1>1, <1>2, <1>3, <1>5, <3>1, CancelTurn DEF RoundEnds
    <3>2. CASE periodicTask = None
      BY <1>1, <1>2, <1>5, <3>2, GotoTurn DEF RoundEnds
    <3> QED BY <3>1, <3>2
  <2>3. Refers(t)
    BY <1>1, <2>1, <2>2 DEF Refers, Struct, AsyncOK
  <2> QED BY <1>5, <2>1, <2>2, <2>3
<1> QED BY <1>4, <1>5

\* An asynchronous round waits for a periodic task that waits for it, or that is about to end.
LEMMA RoundEndsPrompt ==
  ASSUME IInv, Struct, JoinsKnown, NEW t \in Task, RoundEnds(t), serving, kind[t] = "async"
  PROVE  (Hung(t) \/ Prompt(t))'
<1> USE DEF IInv, TypeOK, FieldsOK
<1>1. Turn(t) /\ pc[t] = "run" /\ wait[t] = None
  BY RoundEndsTurn DEF RoundEnds, Resumes, Struct, WaitsOK, Awaiting, LoopOK
<1>2. CASE periodicTask = None
  <2>1. UNCHANGED wait
    BY <1>2 DEF RoundEnds
  <2> QED BY <1>1, <2>1 DEF Prompt, Waits
<1>3. CASE periodicTask # None
  <2>1. PICK p \in Task : CancelAndAwait(t, "reap", periodicTask, [pc EXCEPT ![p] = "new"])
    BY <1>3 DEF RoundEnds, NewPeriodic
  <2>2. periodicTask \in Task \ {t} /\ Held(periodicTask)
    BY <1>3 DEF Struct, PeriodicOK, Held
  <2>3. wait'[t] = periodicTask /\ wait'[periodicTask] = wait[periodicTask]
    BY <2>1, <2>2 DEF CancelAndAwait, LoopOK
  <2>4. pc'[periodicTask] = pc[periodicTask]
    BY <1>1, <2>2, HeldStays
  <2>5. CASE Waits(periodicTask)
    <3>1. wait[periodicTask] = t
      BY <1>1, <1>3, <2>5 DEF Joins, JoinsKnown, InRound
    <3> QED BY <1>3, <2>2, <2>3, <2>4, <2>5, <3>1 DEF Hung, Waits, Done, Struct, WaitsOK, Awaiting, Outcomes
  <2>6. CASE ~Waits(periodicTask) /\ ~Done(periodicTask)
    <3>1. exc'[periodicTask] = "cancelled"
      BY <2>1, <2>2, <2>6, CancelledStops DEF CancelAndAwait, LoopOK
    <3>2. wait[periodicTask] # None => pc'[wait[periodicTask]] \in Outcomes
      BY <1>1, <2>2, <2>6, HeldStays DEF Waits, Done, Held, LoopOK
    <3> QED BY <2>3, <3>1, <3>2 DEF Prompt, Waits, Done
  <2>7. CASE Done(periodicTask)
    BY <2>3, <2>4, <2>7 DEF Prompt, Waits, Done
  <2> QED BY <2>5, <2>6, <2>7
<1> QED BY <1>2, <1>3

LEMMA RoundEndsCut ==
  ASSUME IInv, TypeOK', Struct, Cut, NEW t \in Task, RoundEnds(t)
  PROVE  Struct' /\ Cut'
<1>1. /\ Turn(t) /\ Refers(t) /\ pc'[t] = "reap" /\ kind'[t] = kind[t]
      /\ t = periodicTask => wait'[t] = None
      /\ serving => Still'
  BY RoundEndsTurn
<1>2. /\ pc[t] = "run" /\ exc[t] = "none" /\ due' = FALSE
      /\ UNCHANGED <<config, serving, asyncTrigger>>
  BY ResumesLive DEF RoundEnds, Outcomes
<1>3. Allowed' = Allowed
  BY <1>2 DEF Allowed, config
<1>4. Passes(t)
  BY <1>1, <1>2, <1>3 DEF Passes, InRound
<1>5. \A u \in Task : pc'[u] # "run"
  BY <1>1, <1>2 DEF Turn, IInv, OneRound, InRound
<1>6. kind[t] = "async" /\ serving => (Hung(t) \/ Prompt(t))'
  BY RoundEndsPrompt DEF Cut
<1>7. Spares(t)
  BY <1>1, <1>2, <1>3, <1>5, <1>6 DEF Spares
<1> QED BY <1>1, <1>4, <1>7, CutStep DEF IInv

-----------------------------------------------------------------------------
(* enable, inhibit, start, shutdown, calls and the clock *)

\* A setting is changed, or waits for the asynchronous trigger first.
LEMMA SettingCallCut ==
  ASSUME IInv, TypeOK', Struct, Cut, NEW t \in Task, SettingCall(t) PROVE Struct' /\ Cut'
<1> USE DEF IInv, TypeOK
<1>1. /\ Live(t) /\ CanRun(t) /\ pc[t] = "new" /\ exc[t] = "none" /\ kind[t] \in Settings
      /\ UNCHANGED <<config, fields, due, bus>>
  BY ResumesLive DEF SettingCall, Outcomes
<1>2. kind[t] \notin {"async", "periodic"} /\ t # periodicTask
  BY <1>1 DEF Settings, Struct, PeriodicOK
<1>3. CASE End(t, "ok")
  BY <1>1, <1>2, <1>3, EndCut DEF Outcomes, fields
<1>4. CASE Drains(t) /\ Await(t, "drain", asyncTrigger)
  <2>1. asyncTrigger \in {asyncTrigger, periodicTask} \cap Task
    BY <1>4 DEF Drains, FieldsOK
  <2>2. Turn(t) /\ Alike(t) /\ pc'[t] = "drain"
    BY <1>1, <1>4, <2>1, AwaitTurn DEF At, Awaiting
  <2>3. Refers(t)
    BY <1>1, <2>2 DEF Refers, fields
  <2> QED BY <1>1, <1>2, <2>2, <2>3, QuietCut DEF Alike, fields, InRound
<1>5. CASE /\ ~Drains(t) /\ Goto(t, "set")
           /\ kind[t] = "Enable" => ~enable
           /\ kind[t] = "Uninhibit" => inhibit
  <2>1. Turn(t) /\ Alike(t) /\ pc'[t] = "set"
    BY <1>1, <1>5, GotoTurn DEF At, Inside
  <2>2. Refers(t)
    BY <1>1, <1>5, <2>1 DEF Refers, fields, Drains
  <2>3. ~Joins
    BY <1>1, <1>5, NoneToJoin DEF Cut, JoinsKnown, Allowed, Drains, Settings
  <2> QED BY <1>1, <1>2, <2>1, <2>2, <2>3, QuietCut DEF Alike, fields, InRound
<1> QED BY <1>1, <1>3, <1>4, <1>5 DEF SettingCall, Settings

\* The option is stored: whoever switches off has seen the last asynchronous
\* trigger end, and the periodic task is still.
LEMMA SettingApplyCut ==
  ASSUME IInv, TypeOK', AsyncInv, Struct, Cut, NEW t \in Task, SettingApply(t) PROVE Struct' /\ Cut'
<1> USE DEF IInv, TypeOK
<1>1. /\ Live(t) /\ CanRun(t) /\ kind[t] \in Settings
      /\ pc[t] = "set" \/ Resumed(t)
      /\ UNCHANGED <<fields, due, bus>>
  BY DEF SettingApply, Resumes, Live, Outcomes, Resumed, CanRun, Thrown, Done, Struct, WaitsOK
<1>2. kind[t] \notin {"async", "periodic"} /\ t # periodicTask
  BY <1>1 DEF Settings, Struct, PeriodicOK
<1>3. Past(t) /\ ~Joins
  BY <1>1 DEF Past, Cut, PastFree
<1>4. /\ Turn(t) /\ Alike(t) /\ pc'[t] \in {"update", "error", "free"}
  <2>1. Goto(t, "update") \/ End(t, "error")
    BY DEF SettingApply
  <2> QED BY <1>1, <2>1, GotoTurn, EndTurn DEF Outcomes, Inside, At
<1>5. Refers(t) /\ Passes(t)
  BY <1>1, <1>2, <1>3, <1>4 DEF Refers, Passes, fields, Struct, AsyncOK
<1>6. serving /\ ~Allowed' => \/ ~Allowed \/ Still
                              \/ \A u \in Task : ~(kind[u] = "async" /\ pc[u] = "new")
  <2>1. CASE Resumed(t)
    BY <2>1 DEF Cut, DrainedStill
  <2>2. CASE pc[t] = "set" /\ kind[t] \in {"Disable", "Inhibit"}
    <3>1. asyncTrigger = None
      BY <2>2 DEF Struct, AsyncOK
    <3> QED BY <3>1 DEF AsyncInv, AsyncKnown, Live, Outcomes
  <2>3. CASE kind[t] \in {"Enable", "Uninhibit"}
    BY <2>3 DEF SettingApply, Allowed
  <2> QED BY <1>1, <2>1, <2>2, <2>3 DEF Settings
<1>7. Spares(t)
  BY <1>1, <1>2, <1>4, <1>6 DEF Spares, Alike, fields
<1> QED BY <1>4, <1>5, <1>7, CutStep

\* _update_schedule
LEMMA UpdateScheduleCut ==
  ASSUME IInv, TypeOK', Struct, Cut, NEW t \in Task, UpdateSchedule(t) PROVE Struct' /\ Cut'
<1> USE DEF IInv, TypeOK
<1>1. /\ Live(t) /\ CanRun(t) /\ pc[t] = "update"
      /\ UNCHANGED <<config, serving, asyncTrigger, due>>
  BY DEF UpdateSchedule, Live, Outcomes
<1>2. kind[t] \in Settings /\ wait[t] = None
  BY <1>1 DEF Struct, Shaped, At, WaitsOK, Awaiting, LoopOK
<1>3. Past(t) /\ ~Joins /\ kind[t] \notin {"async", "periodic"} /\ t # periodicTask
  BY <1>1, <1>2 DEF Past, Cut, PastFree, Settings, Struct, PeriodicOK
<1>4. CASE Goto(t, "cancel") /\ UNCHANGED periodicTask
  <2>1. Turn(t) /\ Alike(t) /\ pc'[t] = "cancel"
    BY <1>1, <1>2, <1>4, GotoTurn DEF At, Inside
  <2>2. Refers(t)
    BY <1>1, <1>4, <2>1 DEF Refers, Struct, AsyncOK
  <2> QED BY <1>1, <1>3, <2>1, <2>2, QuietCut DEF Alike, InRound
<1>5. CASE \E p \in Task : periodicTask' = p /\ EndWith(t, p, "periodic")
  <2>1. PICK p \in Task : periodicTask' = p /\ EndWith(t, p, "periodic")
    BY <1>5
  <2>2. /\ Turn(t) /\ pc'[t] = "free" /\ exc' = exc
        /\ p # t /\ Fresh(p) /\ pc'[p] = "new" /\ kind'[p] = "periodic"
    BY <1>1, <1>2, <1>3, <2>1, EndWithTurn
  <2>3. Refers(t)
    BY <1>1, <2>1, <2>2 DEF Refers
  <2> QED BY <1>1, <1>3, <2>2, <2>3, QuietCut DEF InRound
<1>6. CASE End(t, "ok") /\ UNCHANGED periodicTask
  BY <1>1, <1>3, <1>6, EndCut DEF Outcomes
<1> QED BY <1>4, <1>5, <1>6 DEF UpdateSchedule

\* What follows _cancel_periodic
LEMMA AfterCancelCut ==
  ASSUME IInv, TypeOK', Struct, Cut, NEW t \in Task, Live(t), CanRun(t), AfterCancel(t),
         pc[t] \in {"cancel", "cancelling"},
         UNCHANGED <<config, serving, asyncTrigger, due>>, periodicTask' \in {periodicTask, None}
  PROVE  Struct' /\ Cut'
<1> USE DEF IInv, TypeOK
<1>1. kind[t] \in Settings \cup {"Shutdown"}
  BY DEF Struct, Shaped, At
<1>2. kind[t] \notin {"async", "periodic", "Wake"} /\ t # periodicTask
  BY <1>1 DEF Settings, Struct, PeriodicOK
<1>3. CASE End(t, "ok")
  BY <1>2, <1>3, EndCut DEF Outcomes
<1>4. CASE kind[t] = "Shutdown" /\ Goto(t, "unexport")
  <2>1. Turn(t) /\ Alike(t) /\ pc'[t] = "unexport"
    BY <1>4, GotoTurn DEF At, Inside
  <2>2. Refers(t)
    BY <2>1 DEF Refers, Struct, AsyncOK
  <2> QED BY <1>2, <2>1, <2>2, QuietCut DEF Alike, InRound
<1> QED BY <1>2, <1>3, <1>4 DEF AfterCancel

\* _cancel_periodic: the periodic task waits for nothing, so it alone is cancelled.
LEMMA CancelCut ==
  ASSUME IInv, TypeOK', Struct, Cut, NEW t \in Task, CancelPeriodic(t) \/ CancelEnds(t)
  PROVE  Struct' /\ Cut'
<1> USE DEF IInv, TypeOK
<1>1. CASE CancelPeriodic(t)
  <2>1. /\ Live(t) /\ CanRun(t) /\ pc[t] = "cancel" /\ UNCHANGED <<config, fields, due, bus>>
    BY <1>1 DEF CancelPeriodic, Live, Outcomes
  <2>2. kind[t] \in Settings \cup {"Shutdown"}
    BY <2>1 DEF Struct, Shaped, At
  <2>3. ~Joins /\ kind[t] \notin {"async", "periodic"} /\ t # periodicTask
    BY <2>1, <2>2 DEF Past, Cut, PastFree, Settings, Struct, PeriodicOK
  <2>4. CASE AfterCancel(t)
    BY <2>1, <2>4, AfterCancelCut DEF fields
  <2>5. CASE End(t, "error")
    BY <2>1, <2>5, EndCut DEF Outcomes, fields
  <2>6. CASE periodicTask # None /\ CancelAndAwait(t, "cancelling", periodicTask, pc) /\ UNCHANGED kind
    <3>1. periodicTask \in Task /\ kind[periodicTask] = "periodic" /\ ~Waits(periodicTask)
      BY <2>3, <2>6 DEF FieldsOK, Struct, PeriodicOK, Joins
    <3>2. Turn(t) /\ pc'[t] = "cancelling"
      BY <2>1, <2>2, <2>6, <3>1, CancelTurn DEF At
    <3>3. \A u \in Task \ {t, periodicTask} : exc'[u] = exc[u]
      BY <2>6, <3>1, CancelledStops DEF CancelAndAwait
    <3>4. Refers(t)
      BY <2>1, <3>2 DEF Refers, fields, Struct, AsyncOK
    <3>5. Allowed' = Allowed
      BY <2>1 DEF Allowed, config
    <3>6. Passes(t)
      BY <2>3, <3>2 DEF Passes
    <3>7. Spares(t)
      BY <2>1, <2>3, <2>6, <3>1, <3>2, <3>3, <3>5 DEF Spares, fields
    <3> QED BY <3>2, <3>4, <3>6, <3>7, CutStep
  <2> QED BY <1>1, <2>4, <2>5, <2>6 DEF CancelPeriodic
<1>2. CASE CancelEnds(t)
  <2>1. /\ Live(t) /\ CanRun(t) /\ pc[t] = "cancelling" /\ AfterCancel(t) /\ periodicTask' = None
        /\ UNCHANGED <<config, serving, asyncTrigger, due>>
    BY <1>2 DEF CancelEnds, Caught, Live, Outcomes
  <2> QED BY <2>1, AfterCancelCut
<1> QED BY <1>1, <1>2

\* start() runs alone: nobody waits, and no round has begun.
LEMMA StartCut ==
  ASSUME IInv, TypeOK', AsyncInv, Struct, NEW t \in Task, Start(t) PROVE Struct' /\ Cut'
<1> USE DEF IInv, TypeOK
<1>1. /\ Live(t) /\ CanRun(t) /\ pc[t] = "new" /\ exc[t] = "none" /\ kind[t] = "start"
      /\ UNCHANGED <<config, asyncTrigger, wait, exc, cur>>
  BY ResumesLive DEF Start, Outcomes
<1>2. \A u \in Task : u # t => pc[u] = "free"
  BY <1>1 DEF AsyncInv, StartAlone
<1>3. \A u \in Task : wait[u] = None
  BY <1>1, <1>2 DEF Struct, WaitsOK, Awaiting, LoopOK
<1>4. cur = None
  BY <1>1 DEF CanRun, Struct, LoopHeld, Inside, Awaiting
<1>5. pc'[t] = "connect" /\ kind'[t] = "start"
  BY <1>1 DEF Start, NewPeriodic, LoopOK
<1>6. \A u \in Task \ {t} : \/ pc'[u] = pc[u] /\ kind'[u] = kind[u]
                            \/ /\ Fresh(u) /\ pc'[u] = "new" /\ kind'[u] = "periodic"
  BY DEF Start, NewPeriodic, LoopOK
<1>7. Turn(t)
  <2>1. Went(t)
    BY <1>1, <1>3, <1>4, <1>5 DEF Went, At, Inside
  <2> QED BY <1>1, <1>6, <2>1 DEF Turn
<1>8. Refers(t)
  BY <1>1, <1>5 DEF Start, NewPeriodic, Refers, LoopOK, Struct, AsyncOK
<1>9. ~Joins'
  BY <1>1, <1>3 DEF Joins, Waits, FieldsOK
<1>10. \A u \in Task : pc'[u] \in {"connect", "free", "new"} /\ (pc'[u] = "new" => kind'[u] = "periodic")
  BY <1>2, <1>5, <1>6
<1>11. Cut'
  BY <1>9, <1>10 DEF Cut, JoinsKnown, PastFree, DrainedStill, NewStill, ReapStill,
                     AsyncRoundNotCancelled, Resumed
<1> QED BY <1>7, <1>8, <1>11, StructStep

\* The rest of start()
LEMMA StartedCut ==
  ASSUME IInv, TypeOK', Struct, Cut, NEW t \in Task, StartExport(t) \/ StartSubscribe(t)
  PROVE  Struct' /\ Cut'
<1> USE DEF IInv, TypeOK
<1>1. /\ Live(t) /\ CanRun(t) /\ kind[t] = "start" /\ UNCHANGED <<config, fields, due>>
  BY ResumesLive DEF StartExport, StartSubscribe, Outcomes
<1>2. CASE \E o \in {"ok", "error"} : End(t, o)
  BY <1>1, <1>2, EndCut DEF Outcomes, fields
<1>3. CASE Yield(t, "startup")
  <2>1. Turn(t) /\ Alike(t) /\ pc'[t] = "startup"
    BY <1>1, <1>3, YieldTurn DEF At, External
  <2>2. Refers(t) /\ t # periodicTask
    BY <1>1, <2>1 DEF Refers, fields, Struct, AsyncOK, PeriodicOK
  <2> QED BY <1>1, <2>1, <2>2, QuietCut DEF Alike, fields, InRound
<1> QED BY <1>2, <1>3 DEF StartExport, StartSubscribe

\* shutdown()
LEMMA ShutdownCut ==
  ASSUME IInv, TypeOK', Struct, Cut, NEW t \in Task,
         Shutdown(t) \/ ShutdownDrained(t) \/ ShutdownEnds(t)
  PROVE  Struct' /\ Cut'
<1> USE DEF IInv, TypeOK
<1>1. CASE Shutdown(t)
  <2>1. /\ Live(t) /\ CanRun(t) /\ exc[t] = "none" /\ kind[t] = "Shutdown" /\ ~serving'
        /\ UNCHANGED <<config, asyncTrigger, periodicTask, due>>
    BY <1>1, ResumesLive DEF Shutdown, Outcomes
  <2>2. t # periodicTask
    BY <2>1 DEF Struct, PeriodicOK
  <2>3. CASE asyncTrigger # None
    <3>1. asyncTrigger \in {asyncTrigger, periodicTask} \cap Task /\ Await(t, "drain", asyncTrigger)
      BY <1>1, <2>3 DEF Shutdown, FieldsOK
    <3>2. Turn(t) /\ Alike(t) /\ pc'[t] = "drain"
      BY <2>1, <3>1, AwaitTurn DEF At, Awaiting
    <3>3. Refers(t)
      BY <2>1, <3>2 DEF Refers
    <3> QED BY <2>1, <2>2, <3>2, <3>3, QuietCut DEF Alike, InRound
  <2>4. CASE asyncTrigger = None
    <3>1. ~Joins /\ Goto(t, "cancel")
      BY <1>1, <2>4, NoneToJoin DEF Shutdown, Cut
    <3>2. Turn(t) /\ Alike(t) /\ pc'[t] = "cancel"
      BY <2>1, <3>1, GotoTurn DEF At, Inside
    <3>3. Refers(t)
      BY <2>1, <3>2 DEF Refers
    <3> QED BY <2>1, <2>2, <3>1, <3>2, <3>3, QuietCut DEF Alike, InRound
  <2> QED BY <2>3, <2>4
<1>2. CASE ShutdownDrained(t)
  <2>1. /\ Live(t) /\ CanRun(t) /\ kind[t] = "Shutdown" /\ Resumed(t)
        /\ asyncTrigger' = None /\ Goto(t, "cancel") /\ UNCHANGED <<config, serving, periodicTask, due>>
    BY <1>2 DEF ShutdownDrained, Resumes, Live, Outcomes, Resumed, CanRun, Thrown, Done, Struct, WaitsOK
  <2>2. ~Joins /\ t # periodicTask
    BY <2>1 DEF Cut, PastFree, Past, Struct, PeriodicOK
  <2>3. Turn(t) /\ Alike(t) /\ pc'[t] = "cancel"
    BY <2>1, GotoTurn DEF At, Inside
  <2>4. Refers(t)
    BY <2>1, <2>3 DEF Refers
  <2> QED BY <2>1, <2>2, <2>3, <2>4, QuietCut DEF Alike, InRound
<1>3. CASE ShutdownEnds(t)
  <2>1. /\ Live(t) /\ CanRun(t) /\ kind[t] # "async" /\ End(t, "ok") /\ UNCHANGED <<config, fields, due>>
    BY <1>3 DEF ShutdownEnds, Live, Outcomes, Struct, Shaped, At
  <2> QED BY <2>1, EndCut DEF Outcomes, fields
<1> QED BY <1>1, <1>2, <1>3

\* The suspend target: wake-ups are not heard.
LEMMA SuspendCut ==
  ASSUME IInv, TypeOK', Struct, Cut, NEW t \in Task, LeaveSuspend(t) \/ WakeupElapsed(t)
  PROVE  Struct' /\ Cut'
<1> USE DEF IInv, TypeOK
<1>1. CASE LeaveSuspend(t)
  <2>1. /\ Live(t) /\ CanRun(t) /\ kind[t] \in Notices /\ pc[t] = "new"
        /\ UNCHANGED <<config, serving, asyncTrigger, periodicTask, due>>
    BY <1>1, ResumesLive DEF LeaveSuspend, Outcomes
  <2>2. kind[t] = "Suspend"
    BY <2>1 DEF Struct, Shaped, At, Notices, Settings
  <2>3. End(t, "ok")
    BY <1>1, <2>2 DEF LeaveSuspend
  <2> QED BY <2>1, <2>2, <2>3, EndCut DEF Outcomes
<1>2. CASE WakeupElapsed(t)
  BY <1>2, ResumesLive DEF WakeupElapsed, Struct, Shaped, At, Outcomes
<1> QED BY <1>1, <1>2

\* A call arrives.
LEMMA RequestCut ==
  ASSUME NoWake, IInv, TypeOK', Struct, Cut, NEW r \in Requests, NEW h \in Task, Request(r, h)
  PROVE  Struct' /\ Cut'
<1> USE DEF IInv, TypeOK, Live, Done
<1>1. /\ Fresh(h) /\ cur = None /\ pc'[h] = "new" /\ kind'[h] = r
      /\ \A u \in Task \ {h} : pc'[u] = pc[u] /\ kind'[u] = kind[u]
      /\ UNCHANGED <<config, fields, due, bus, wait, exc, cur>>
  BY DEF Request, LoopOK
<1>2. r \in AllRequests \ {"Wake"}
  BY DEF NoWake
<1>3. h # asyncTrigger /\ h # periodicTask /\ wait[h] = None /\ \A u \in Task : wait[u] # h
  BY <1>1 DEF Fresh, Held, Struct, WaitsOK, Awaiting, Outcomes, LoopOK
<1>4. \A u \in Task : wait[u] # None => wait[u] \in Task /\ pc'[wait[u]] = pc[wait[u]] /\ kind'[wait[u]] = kind[wait[u]]
  BY <1>1, <1>3 DEF LoopOK
<1>5. asyncTrigger # None => pc'[asyncTrigger] = pc[asyncTrigger] /\ kind'[asyncTrigger] = kind[asyncTrigger]
  BY <1>1, <1>3 DEF FieldsOK
<1>6. periodicTask # None => /\ pc'[periodicTask] = pc[periodicTask] /\ kind'[periodicTask] = kind[periodicTask]
                             /\ wait[periodicTask] # None => wait[periodicTask] \in Task
  BY <1>1, <1>3, <1>4 DEF FieldsOK
<1>7. Struct'
  <2>1. Shaped'
    BY <1>1, <1>2 DEF Struct, Shaped, At, AllRequests, Settings, Notices
  <2>2. LoopHeld'
    BY <1>1 DEF Struct, LoopHeld, Inside
  <2>3. WaitsOK'
    BY <1>1, <1>3, <1>4 DEF Struct, WaitsOK
  <2>4. PeriodicOK'
    BY <1>1, <1>4, <1>6 DEF Struct, PeriodicOK, fields, FieldsOK
  <2>5. AsyncOK'
    BY <1>1, <1>5 DEF Struct, AsyncOK, fields
  <2> QED BY <2>1, <2>2, <2>3, <2>4, <2>5 DEF Struct
<1>8. \A u \in Task : Waits(u)' = Waits(u)
  BY <1>1, <1>4 DEF Waits
<1>9. Joins' = Joins /\ Still' = Still /\ Allowed' = Allowed
  BY <1>1, <1>6, <1>8 DEF Joins, Still, Allowed, fields, config, FieldsOK
<1>10. \A u \in Task : Resumed(u)' => Resumed(u)
  <2>1. ASSUME NEW u \in Task, pc'[u] = "drain" PROVE pc[u] = "drain" /\ wait[u] \in Task
    BY <1>1, <2>1 DEF Struct, WaitsOK
  <2> QED BY <1>1, <1>4, <2>1 DEF Resumed
<1>11. r \notin {"async", "periodic"}
  BY <1>2 DEF AllRequests, Settings, Notices
<1>12. JoinsKnown' /\ PastFree'
  <2>1. \A u \in Task : (Live(u) /\ kind[u] = "async")' \/ InRound(u)'
                          => (Live(u) /\ kind[u] = "async") \/ InRound(u)
    BY <1>1, <1>11 DEF InRound
  <2>2. JoinsKnown'
    BY <1>1, <1>9, <2>1 DEF Cut, JoinsKnown, fields
  <2>3. \A u \in Task : Past(u)' => Past(u)
    BY <1>1, <1>10 DEF Past, Resumed
  <2> QED BY <1>9, <2>2, <2>3 DEF Cut, PastFree
<1>13. DrainedStill' /\ NewStill' /\ AsyncRoundNotCancelled'
  BY <1>1, <1>9, <1>10, <1>11 DEF Cut, DrainedStill, NewStill, AsyncRoundNotCancelled, fields
<1>14. ReapStill'
  <2>1. ASSUME NEW a \in Task, kind'[a] = "async", pc'[a] = "reap"
        PROVE  /\ kind[a] = "async" /\ pc[a] = "reap"
               /\ Hung(a) => Hung(a)'
               /\ Prompt(a) => Prompt(a)'
    <3>1. Waits(a) => wait[a] \in Task
      BY <1>4 DEF Waits
    <3> QED BY <1>1, <1>8, <1>11, <2>1, <3>1 DEF Hung, Prompt
  <2> QED BY <1>1, <1>9, <2>1 DEF Cut, ReapStill, fields
<1> QED BY <1>7, <1>12, <1>13, <1>14 DEF Cut

\* Time passes: whoever has been woken up has run by then, also a periodic task
\* that is about to end, so the ends of rounds that still wait hang.
LEMMA TickCut ==
  ASSUME IInv, Struct, Cut, Tick PROVE Struct' /\ Cut'
<1> USE DEF IInv, TypeOK
<1>1. /\ UNCHANGED <<config, fields, kind, pc, wait, exc, cur>> /\ bus # "stopped"
      /\ \A t \in Task : ~Ready(t)
  BY DEF Tick, loop
<1>2. cur = None
  <2>1. ASSUME cur # None PROVE Ready(cur)
    BY <1>1, <2>1 DEF LoopOK, Struct, LoopHeld, Ready, Live, CanRun, Waits, Inside, Awaiting, External, Outcomes
  <2> QED BY <1>1, <2>1 DEF LoopOK
<1>3. ASSUME NEW t \in Task, Live(t), ~Waits(t) PROVE pc[t] \in External /\ Thrown(t) = "none"
  BY <1>1, <1>2, <1>3 DEF Ready, CanRun, Waits
<1>4. \A t \in Task : ~Resumed(t)
  BY <1>3 DEF Resumed, Live, Waits, Done, Outcomes, External
<1>5. \A t \in Task : pc[t] # "new"
  BY <1>3 DEF Live, Waits, Outcomes, External, Struct, WaitsOK, Awaiting
<1>6. ASSUME NEW a \in Task, pc[a] = "reap", Prompt(a) PROVE FALSE
  <2>1. Waits(a) /\ wait[a] \in Task
    BY <1>3, <1>6 DEF Live, Waits, Outcomes, External, LoopOK
  <2>2. Live(wait[a]) /\ ~Waits(wait[a]) /\ exc[wait[a]] # "none"
    BY <1>6, <2>1 DEF Prompt, Waits, Done, Live, Struct, WaitsOK
  <2> QED BY <1>3, <2>1, <2>2 DEF Thrown
<1>7. Struct'
  BY <1>1 DEF Struct, Shaped, LoopHeld, WaitsOK, PeriodicOK, AsyncOK, Live, Waits, Done, fields
<1>8. JoinsKnown' /\ PastFree' /\ AsyncRoundNotCancelled'
  BY <1>1 DEF Cut, JoinsKnown, PastFree, AsyncRoundNotCancelled, Joins, Past, Resumed, Waits, Done, Live,
              InRound, Allowed, config, fields
<1>9. DrainedStill' /\ NewStill'
  BY <1>1, <1>4, <1>5 DEF DrainedStill, NewStill, Resumed
<1>10. ReapStill'
  BY <1>1, <1>6 DEF Cut, ReapStill, Hung, Waits, Done, fields
<1> QED BY <1>7, <1>8, <1>9, <1>10 DEF Cut

-----------------------------------------------------------------------------
(* A lock that is left taken *)

\* When the lock is taken and nobody is in a round, it stays so.
LEMMA StuckStays == ASSUME IInv, Stuck, NEW t \in Task, Step(t) PROVE Stuck'
<1> USE DEF IInv, TypeOK, Stuck, Outcomes
<1>1. \A u \in Task : pc[u] \notin {"run", "reap"}
  BY DEF Round, InRound
<1>2. ASSUME triggerActive', pc'[t] \notin {"run", "reap"},
             \A u \in Task \ {t} : pc'[u] = pc[u] \/ pc'[u] = "new"
      PROVE  Stuck'
  BY <1>1, <1>2 DEF Round, InRound
<1>3. ASSUME Steady(t), triggerActive' PROVE Stuck'
  BY <1>1, <1>2, <1>3 DEF Steady
<1>4. CASE \/ Unwind(t)
           \/ PeriodicSleep(t) \/ PeriodicAppList(t) \/ PeriodicFire(t) \/ PeriodicFail(t)
           \/ TriggerReturns(t) \/ TriggerJoins(t) \/ JoinEnds(t) \/ JoinAsyncEnds(t)
           \/ RoundFails(t) \/ StartExport(t) \/ StartSubscribe(t)
  BY <1>3, <1>4, TaskSteady DEF fields
<1>5. CASE \/ SettingCall(t) \/ SettingApply(t) \/ UpdateSchedule(t) \/ CancelPeriodic(t) \/ CancelEnds(t)
           \/ Shutdown(t) \/ ShutdownEnds(t) \/ LeaveSuspend(t) \/ WakeupElapsed(t)
  <2>1. UNCHANGED triggerActive
    BY <1>5 DEF SettingCall, SettingApply, UpdateSchedule, CancelPeriodic, CancelEnds,
                Shutdown, ShutdownEnds, LeaveSuspend, WakeupElapsed, fields
  <2> QED BY <1>3, <1>5, <2>1, FieldsSteady
<1>6. CASE TriggerTask(t) \/ TriggerRuns(t)
  <2>1. UNCHANGED triggerActive /\ End(t, "ok") /\ Live(t)
    BY <1>6, ResumesLive DEF TriggerTask, TriggerRuns, BeginRound
  <2> QED BY <1>3, <2>1, EndSteady
<1>7. CASE Start(t)
  BY <1>2, <1>7 DEF Start, NewPeriodic, LoopOK
<1>8. CASE ShutdownDrained(t)
  BY <1>2, <1>8 DEF ShutdownDrained, Goto, LoopOK
<1>9. CASE TriggerSpawns(t) \/ RoundEnds(t) \/ RoundReaps(t)
  BY <1>1, <1>9 DEF TriggerSpawns, RoundEnds, RoundReaps, Resumes, Caught
<1> QED BY <1>4, <1>5, <1>6, <1>7, <1>8, <1>9 DEF Step

-----------------------------------------------------------------------------
(* The invariant *)

\* While the lock is not stuck
LEMMA StepCut ==
  ASSUME IInv, TypeOK', AsyncInv, Struct, ~Stuck, Cut, NEW t \in Task, Step(t)
  PROVE  Struct' /\ Cut'
BY UnwindCut, PeriodicCut, ReturnsCut, TriggerJoinsCut, TriggerBeginsCut, TriggerTaskCut, RoundReapsCut,
   RoundEndsCut, SettingCallCut, SettingApplyCut, UpdateScheduleCut, CancelCut, StartCut, StartedCut,
   ShutdownCut, SuspendCut
   DEF Step

LEMMA CancelKept == ASSUME NoWake, IInv, IInv', AsyncInv, CancelInv, [Next]_vars PROVE CancelInv'
<1>1. CASE Stuck
  <2>1. CASE \E t \in Task : Step(t)
    BY <1>1, <2>1, StuckStays DEF CancelInv
  <2>2. CASE \E r \in Requests, h \in Task : Request(r, h)
    BY <1>1, <2>2 DEF Request, CancelInv, Stuck, Round, InRound, fields, IInv, TypeOK, LoopOK
  <2>3. CASE Tick \/ UNCHANGED vars
    BY <1>1, <2>3 DEF Tick, vars, loop, fields, CancelInv, Stuck, Round, InRound
  <2> QED BY <2>1, <2>2, <2>3 DEF Next
<1>2. CASE ~Stuck /\ Struct /\ Cut
  <2>1. CASE \E t \in Task : Step(t)
    BY <1>2, <2>1, StepCut DEF CancelInv, IInv
  <2>2. CASE \E r \in Requests, h \in Task : Request(r, h)
    BY <1>2, <2>2, RequestCut DEF CancelInv, IInv
  <2>3. CASE Tick
    BY <1>2, <2>3, TickCut DEF CancelInv
  <2>4. CASE UNCHANGED vars
    <3>1. Struct'
      BY <1>2, <2>4 DEF vars, loop, fields, Struct, Shaped, LoopHeld, WaitsOK, PeriodicOK, AsyncOK, Live, Waits, Done
    <3>2. Cut'
      BY <1>2, <2>4 DEF vars, config, loop, fields, Cut, JoinsKnown, PastFree, DrainedStill, NewStill,
         ReapStill, AsyncRoundNotCancelled, Joins, Past, Resumed, Still, Hung, Prompt, Waits, Done, Live, InRound, Allowed
    <3> QED BY <3>1, <3>2 DEF CancelInv
  <2> QED BY <2>1, <2>2, <2>3, <2>4 DEF Next
<1> QED BY <1>1, <1>2 DEF CancelInv

LEMMA CancelInit == Init => Struct /\ Cut
<1>1. SUFFICES ASSUME Init PROVE Struct /\ Cut
  OBVIOUS
<1>2. \A u \in Task : pc[u] \in {"new", "free"} /\ kind[u] = "start" /\ wait[u] = None /\ exc[u] = "none"
  <2>1. PICK t \in Task : pc = [u \in Task |-> IF u = t THEN "new" ELSE "free"]
    BY <1>1 DEF Init
  <2> QED BY <1>1, <2>1 DEF Init
<1>3. Struct
  <2>1. Shaped
    BY <1>2 DEF Shaped, At, Live
  <2> QED BY <1>1, <1>2, <2>1 DEF Init, Struct, LoopHeld, WaitsOK, PeriodicOK, AsyncOK, Inside
<1>4. Cut
  <2>1. ~Joins
    BY <1>1 DEF Init, Joins
  <2>2. JoinsKnown /\ PastFree
    BY <2>1 DEF JoinsKnown, PastFree
  <2> QED BY <1>2, <2>2 DEF Cut, DrainedStill, NewStill, ReapStill, AsyncRoundNotCancelled, Resumed
<1> QED BY <1>3, <1>4

LEMMA CancelInvariance ==
  ASSUME NoWake
  PROVE  Spec => []CancelInv
<1>1. Init => CancelInv
  BY CancelInit DEF CancelInv
<1>2. IInv /\ IInv' /\ AsyncInv /\ CancelInv /\ [Next]_vars => CancelInv'
  BY CancelKept
<1> QED BY <1>1, <1>2, Invariance, AsyncInvariance, PTL DEF Spec

\* A daemon that hears of no wake-up never cuts short the round of an
\* asynchronous trigger: enable, inhibit and shutdown wait for it before they
\* cancel the periodic task, and by then that task waits for no other one.
THEOREM AsyncRoundsKept == NoWake => (Spec => []AsyncRoundNotCancelled)
<1> SUFFICES ASSUME NoWake PROVE Spec => []AsyncRoundNotCancelled
  OBVIOUS
<1>1. CancelInv => AsyncRoundNotCancelled
  BY DEF CancelInv, Cut, Stuck, Round, InRound, AsyncRoundNotCancelled
<1> QED BY <1>1, CancelInvariance, PTL
=============================================================================
