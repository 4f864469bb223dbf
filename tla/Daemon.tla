------------------------------- MODULE Daemon -------------------------------
(***************************************************************************)
(* The daemon's scheduler (steamos_log_submitter/daemon.py, class Daemon)   *)
(* as the asyncio tasks that run it: the periodic task, the asynchronous    *)
(* trigger task, start(), and one task for each D-Bus call or suspend       *)
(* notification being handled.                                             *)
(*                                                                         *)
(* A task runs from one suspension to the next without interruption.  cur   *)
(* is the task that holds the event loop in the middle of such a stretch,   *)
(* so that a function of the source is one action here even when its        *)
(* caller goes on without suspending.  Awaiting a task that is already done *)
(* does not suspend.  Any task that can run may run next.                  *)
(***************************************************************************)
EXTENDS Naturals, FiniteSets

CONSTANTS Task,         \* identities of asyncio tasks
          None,         \* Python's None
          Requests,     \* the calls and notifications that arrive
          MaxHandlers,  \* bound on the handlers (and start) alive at the same time
          IoMayFail     \* whether write_config and the app list may raise

Settings  == {"Enable", "Disable", "Inhibit", "Uninhibit"}
Notices   == {"Suspend", "Wake"}
AllRequests == Settings \cup Notices \cup {"Trigger", "TriggerAsync", "Shutdown"}

ASSUME DaemonAssumption == /\ None \notin Task
                           /\ Requests \subseteq AllRequests
                           /\ MaxHandlers \in Nat
                           /\ IoMayFail \in BOOLEAN

VARIABLES
  enable, inhibit,  \* the options sls.enable and sls.inhibit
  serving,          \* _serving
  suspend,          \* _suspend
  triggerActive,    \* _trigger_active
  asyncTrigger,     \* _async_trigger
  periodicTask,     \* _periodic_task
  due,              \* time.time() has reached _next_trigger
  bus,              \* what start() and shutdown() have done on the D-Bus
  kind,             \* what coroutine each task runs
  pc,               \* where it is suspended, or how it ended
  wait,             \* the task it awaits (its _fut_waiter, when that is a task)
  exc,              \* the exception its next step throws into it
  cur               \* the task that holds the event loop

config == <<enable, inhibit>>
fields == <<serving, suspend, triggerActive, asyncTrigger, periodicTask>>
loop   == <<kind, pc, wait, exc, cur>>
vars   == <<config, fields, due, bus, loop>>

Outcomes   == {"ok", "cancelled", "error"}
External   == {"sleep", "applist", "run", "wakeup", "connect", "startup"}
Awaiting   == {"reap", "join", "joinAsync", "drain", "cancelling"}
Inside     == {"trigger", "set", "update", "cancel", "unexport"}
Kinds      == AllRequests \cup {"periodic", "async", "start"}

Where      == Outcomes \cup External \cup Awaiting \cup Inside \cup {"free", "new"}

FieldsOK == /\ enable \in BOOLEAN /\ inhibit \in BOOLEAN
            /\ serving \in BOOLEAN /\ triggerActive \in BOOLEAN
            /\ suspend \in {"active", "inactive"}
            /\ asyncTrigger \in Task \cup {None}
            /\ periodicTask \in Task \cup {None}
            /\ due \in BOOLEAN
            /\ bus \in {"new", "exported", "subscribed", "stopped"}
LoopOK   == /\ kind \in [Task -> Kinds]
            /\ pc \in [Task -> Where]
            /\ wait \in [Task -> Task \cup {None}]
            /\ exc \in [Task -> {"none", "cancelled", "error"}]
            /\ cur \in Task \cup {None}

\* The fields of the Daemon object and the tasks of the event loop are well formed.
TypeOK == FieldsOK /\ LoopOK

-----------------------------------------------------------------------------
(* asyncio *)

Done(t) == pc[t] \in Outcomes
Live(t) == pc[t] \notin Outcomes \cup {"free"}

\* Something refers to t's task object and can see how it ends.
Held(t) == t \in {asyncTrigger, periodicTask} \/ \E u \in Task : wait[u] = t

\* A task object that nothing refers to any more can be used for a new task.
Fresh(t) == ~Live(t) /\ ~Held(t)

\* t can take its next step: the loop runs and is free or t's own, and what t awaits is done.
CanRun(t) == /\ bus # "stopped" /\ cur \in {None, t}
             /\ wait[t] # None => Done(wait[t])

\* What the await on which t is suspended raises.
Thrown(t) == IF exc[t] # "none" THEN exc[t]
             ELSE IF wait[t] # None /\ pc[wait[t]] \in {"cancelled", "error"} THEN pc[wait[t]]
             ELSE "none"

Resumes(t, l) == pc[t] = l /\ CanRun(t) /\ Thrown(t) = "none"

\* t suspends at l and gives up the loop.
Yield(t, l) == /\ pc' = [pc EXCEPT ![t] = l]
               /\ wait' = [wait EXCEPT ![t] = None]
               /\ exc' = [exc EXCEPT ![t] = "none"]
               /\ cur' = None
               /\ UNCHANGED kind

\* t ends with outcome o; a task that nothing refers to is gone at once.
End(t, o) == /\ pc' = [pc EXCEPT ![t] = IF Held(t) THEN o ELSE "free"]
             /\ kind' = [kind EXCEPT ![t] = IF Held(t) THEN kind[t] ELSE "start"]
             /\ wait' = [wait EXCEPT ![t] = None]
             /\ exc' = [exc EXCEPT ![t] = "none"]
             /\ cur' = None

\* A handler t ends after asyncio.create_task has made n run coroutine k.
EndWith(t, n, k) == /\ Fresh(n)
                    /\ pc' = [pc EXCEPT ![t] = "free", ![n] = "new"]
                    /\ kind' = [kind EXCEPT ![t] = "start", ![n] = k]
                    /\ cur' = None
                    /\ UNCHANGED <<wait, exc>>

\* t goes on at l without suspending.
Goto(t, l) == /\ pc' = [pc EXCEPT ![t] = l]
              /\ wait' = [wait EXCEPT ![t] = None]
              /\ exc' = [exc EXCEPT ![t] = "none"]
              /\ cur' = t
              /\ UNCHANGED kind

\* await u.  A task that awaits itself gets a RuntimeError at its next step.
Await(t, l, u) == /\ pc' = [pc EXCEPT ![t] = l]
                  /\ wait' = [wait EXCEPT ![t] = IF u = t THEN None ELSE u]
                  /\ exc' = [exc EXCEPT ![t] = IF u = t THEN "error" ELSE "none"]
                  /\ cur' = IF u # t /\ Done(u) THEN t ELSE None
                  /\ UNCHANGED kind

\* t waits for a task that is not done.
Waits(t) == wait[t] # None /\ ~Done(wait[t])

\* The chain of awaits that starts at u: what is in every set that has u and,
\* of each member that waits, the task that it waits for.
Chain(u) == {v \in Task : \A S \in SUBSET Task :
               (u \in S /\ \A w \in S : Waits(w) => wait[w] \in S) => v \in S}

\* The tasks that u.cancel() will throw CancelledError into: Task.cancel
\* cancels what the task awaits, and so on down the chain, to its end if it
\* is no cycle.
Cancelled(u) == {v \in Chain(u) : ~Done(u) /\ ~Waits(v)}

\* u.cancel(); await u.  When the chain ends at t itself, t's pending
\* cancellation is passed on to u again and again: t and u stay suspended.
CancelAndAwait(t, l, u, pcs) ==
  /\ pc' = [pcs EXCEPT ![t] = l]
  /\ wait' = [wait EXCEPT ![t] = IF u = t THEN None ELSE u]
  /\ LET cancelled == Cancelled(u) IN
     exc' = [v \in Task |-> IF v \in cancelled THEN "cancelled"
                            ELSE IF v = t THEN "none" ELSE exc[v]]
  /\ cur' = IF u # t /\ Done(u) THEN t ELSE None

\* The awaits with an "except asyncio.CancelledError: pass" around them, in
\* _trigger and _cancel_periodic.  (Mutants: one of the two is missing.)
CatchingNoReap == {"cancelling"}
CatchingNoCancelling == {"reap"}
Catching == {"reap", "cancelling"}

\* An exception that no except clause catches ends the task.
Unwind(t) == /\ Live(t) /\ CanRun(t) /\ Thrown(t) # "none"
             /\ pc[t] \in Catching => Thrown(t) = "error"
             /\ End(t, Thrown(t))
             /\ UNCHANGED <<config, fields, due, bus>>

\* The await at l ended normally or with an exception that is caught there.
Caught(t, l) == /\ pc[t] = l /\ CanRun(t)
                /\ Thrown(t) = "none" \/ (l \in Catching /\ Thrown(t) = "cancelled")

-----------------------------------------------------------------------------
(* _trigger_periodic *)

Allowed == enable /\ ~inhibit

\* asyncio.create_task(self._trigger_periodic())
NewPeriodic(p) == Fresh(p) /\ periodicTask' = p /\ kind' = [kind EXCEPT ![p] = "periodic"]

\* The task that is still _periodic_task sleeps until _next_trigger; one that
\* has been replaced may have an earlier time to wake up.
TimeToRun(t) == due \/ (pc[t] = "sleep" /\ t # periodicTask)

PeriodicSleep(t) == /\ kind[t] = "periodic" /\ Resumes(t, "new") /\ ~due
                    /\ Yield(t, "sleep")
                    /\ UNCHANGED <<config, fields, due, bus>>

\* The app list is at least a day old: fetch it before the round.
PeriodicAppList(t) == /\ kind[t] = "periodic" /\ (Resumes(t, "new") \/ Resumes(t, "sleep"))
                      /\ TimeToRun(t)
                      /\ Yield(t, "applist")
                      /\ UNCHANGED <<config, fields, due, bus>>

PeriodicFire(t) == /\ kind[t] = "periodic"
                   /\ \/ (Resumes(t, "new") \/ Resumes(t, "sleep")) /\ TimeToRun(t)
                      \/ Resumes(t, "applist")
                   /\ IF serving THEN Goto(t, "trigger") ELSE End(t, "ok")
                   /\ UNCHANGED <<config, fields, due, bus>>

PeriodicFail(t) == /\ IoMayFail /\ Resumes(t, "applist")
                   /\ End(t, "error")
                   /\ UNCHANGED <<config, fields, due, bus>>

-----------------------------------------------------------------------------
(* trigger and _trigger *)

\* _trigger up to its await of runner.trigger().  (Mutants: the options are
\* not read again; the flag is not set before the await.)
BeginRoundAnyway(t) ==
  IF ~triggerActive
    THEN /\ triggerActive' = TRUE /\ Yield(t, "run") /\ UNCHANGED asyncTrigger
    ELSE /\ asyncTrigger' = None /\ End(t, "ok") /\ UNCHANGED triggerActive

BeginRoundLate(t) ==
  IF Allowed /\ ~triggerActive
    THEN Yield(t, "run") /\ UNCHANGED <<triggerActive, asyncTrigger>>
    ELSE /\ asyncTrigger' = None /\ End(t, "ok") /\ UNCHANGED triggerActive

BeginRound(t) ==
  IF Allowed /\ ~triggerActive
    THEN /\ triggerActive' = TRUE /\ Yield(t, "run") /\ UNCHANGED asyncTrigger
    ELSE /\ asyncTrigger' = None /\ End(t, "ok") /\ UNCHANGED triggerActive

TriggerTask(t) == /\ kind[t] = "async" /\ Resumes(t, "new")
                  /\ BeginRound(t)
                  /\ UNCHANGED <<config, serving, suspend, periodicTask, due, bus>>

\* trigger(wait = TRUE) is called by the Trigger method and the periodic task
AtTrigger(t) == \/ pc[t] = "trigger" /\ CanRun(t)
                \/ kind[t] \in {"Trigger", "TriggerAsync"} /\ Resumes(t, "new")

TriggerReturns(t) ==
  /\ AtTrigger(t)
  /\ \/ ~Allowed
     \/ triggerActive /\ kind[t] = "TriggerAsync"
     \/ triggerActive /\ asyncTrigger = None /\ periodicTask = None
     \/ asyncTrigger # None /\ kind[t] = "TriggerAsync"
  /\ End(t, "ok")
  /\ UNCHANGED <<config, fields, due, bus>>

TriggerJoins(t) ==
  /\ AtTrigger(t) /\ Allowed /\ kind[t] # "TriggerAsync"
  /\ \/ /\ triggerActive /\ asyncTrigger # None
        /\ Await(t, "join", asyncTrigger)
     \/ /\ triggerActive /\ asyncTrigger = None /\ periodicTask # None
        /\ Await(t, "join", periodicTask)
     \/ /\ ~triggerActive /\ asyncTrigger # None
        /\ Await(t, "joinAsync", asyncTrigger)
  /\ UNCHANGED <<config, fields, due, bus>>

\* (Mutant: a synchronous round registers as the asynchronous one.)
TriggerRunsStored(t) ==
  /\ AtTrigger(t) /\ Allowed /\ ~triggerActive /\ asyncTrigger = None
  /\ kind[t] # "TriggerAsync"
  /\ triggerActive' = TRUE /\ Yield(t, "run") /\ asyncTrigger' = t
  /\ UNCHANGED <<config, serving, suspend, periodicTask, due, bus>>

TriggerRuns(t) ==
  /\ AtTrigger(t) /\ Allowed /\ ~triggerActive /\ asyncTrigger = None
  /\ kind[t] # "TriggerAsync"
  /\ BeginRound(t)
  /\ UNCHANGED <<config, serving, suspend, periodicTask, due, bus>>

\* (Mutant: an asynchronous trigger that has not started yet is overlooked.)
TriggerSpawnsAgain(t) ==
  /\ AtTrigger(t) /\ Allowed /\ ~triggerActive
  /\ kind[t] = "TriggerAsync"
  /\ \E a \in Task : asyncTrigger' = a /\ EndWith(t, a, "async")
  /\ UNCHANGED <<config, serving, suspend, triggerActive, periodicTask, due, bus>>

TriggerSpawns(t) ==
  /\ AtTrigger(t) /\ Allowed /\ ~triggerActive /\ asyncTrigger = None
  /\ kind[t] = "TriggerAsync"
  /\ \E a \in Task : asyncTrigger' = a /\ EndWith(t, a, "async")
  /\ UNCHANGED <<config, serving, suspend, triggerActive, periodicTask, due, bus>>

\* The round that was awaited is over: assert not self._trigger_active
JoinEnds(t) == /\ Resumes(t, "join")
               /\ End(t, IF triggerActive THEN "error" ELSE "ok")
               /\ UNCHANGED <<config, fields, due, bus>>

JoinAsyncEnds(t) == /\ Resumes(t, "joinAsync")
                    /\ End(t, "ok")
                    /\ UNCHANGED <<config, fields, due, bus>>

\* runner.trigger() has returned: set the time of the next round, replace the
\* periodic task and wait for the old one to be gone.
RoundEnds(t) ==
  /\ Resumes(t, "run")
  /\ due' = FALSE
  /\ \/ /\ serving
        /\ \E p \in Task :
             /\ NewPeriodic(p)
             /\ LET pcs == [pc EXCEPT ![p] = "new"] IN
                IF periodicTask # None
                  THEN CancelAndAwait(t, "reap", periodicTask, pcs)
                  ELSE /\ pc' = [pcs EXCEPT ![t] = "reap"] /\ cur' = t
                       /\ UNCHANGED <<wait, exc>>
     \/ /\ ~serving
        /\ IF periodicTask # None
             THEN CancelAndAwait(t, "reap", periodicTask, pc) /\ UNCHANGED kind
             ELSE Goto(t, "reap")
        /\ UNCHANGED periodicTask
  /\ UNCHANGED <<config, serving, suspend, triggerActive, asyncTrigger, bus>>

\* write_config raises, or the round was cut short by it
RoundFails(t) == /\ IoMayFail /\ Resumes(t, "run")
                 /\ End(t, "error")
                 /\ UNCHANGED <<config, fields, due, bus>>

RoundReaps(t) == /\ Caught(t, "reap")
                 /\ triggerActive' = FALSE
                 /\ asyncTrigger' = None
                 /\ End(t, "ok")
                 /\ UNCHANGED <<config, serving, suspend, periodicTask, due, bus>>

-----------------------------------------------------------------------------
(* enable, inhibit, _update_schedule, _cancel_periodic *)

\* Switching off waits for an asynchronous trigger.  (Mutant: it does not.)
NeverDrains(t) == FALSE
Drains(t) == kind[t] \in {"Disable", "Inhibit"} /\ asyncTrigger # None

\* enable(state) and inhibit(state): nothing to do, wait for an asynchronous
\* trigger, or go on.
SettingCall(t) ==
  /\ kind[t] \in Settings /\ Resumes(t, "new")
  /\ LET same == kind[t] = CASE kind[t] \in {"Enable", "Disable"} -> IF enable THEN "Enable" ELSE "Disable"
                            [] OTHER -> IF inhibit THEN "Inhibit" ELSE "Uninhibit"
     IN \/ same /\ End(t, "ok")
        \/ ~same /\ Drains(t) /\ Await(t, "drain", asyncTrigger)
        \/ ~same /\ ~Drains(t) /\ Goto(t, "set")
  /\ UNCHANGED <<config, fields, due, bus>>

SettingApply(t) ==
  /\ kind[t] \in Settings
  /\ (pc[t] = "set" /\ CanRun(t)) \/ Resumes(t, "drain")
  /\ enable' = IF kind[t] \in {"Enable", "Disable"} THEN kind[t] = "Enable" ELSE enable
  /\ inhibit' = IF kind[t] \in {"Inhibit", "Uninhibit"} THEN kind[t] = "Inhibit" ELSE inhibit
  /\ Goto(t, "update") \/ (IoMayFail /\ End(t, "error"))
  /\ UNCHANGED <<fields, due, bus>>

UpdateSchedule(t) ==
  /\ pc[t] = "update" /\ CanRun(t)
  /\ \/ /\ ~Allowed /\ periodicTask # None
        /\ Goto(t, "cancel")
        /\ UNCHANGED periodicTask
     \/ /\ Allowed /\ periodicTask = None
        /\ \E p \in Task : periodicTask' = p /\ EndWith(t, p, "periodic")
     \/ /\ Allowed <=> periodicTask # None
        /\ End(t, "ok")
        /\ UNCHANGED periodicTask
  /\ UNCHANGED <<config, serving, suspend, triggerActive, asyncTrigger, due, bus>>

\* What the caller of _cancel_periodic does next
AfterCancel(t) == \/ kind[t] = "Wake" /\ Goto(t, "update")
                  \/ kind[t] = "Shutdown" /\ Goto(t, "unexport")
                  \/ kind[t] \in Settings /\ End(t, "ok")

\* Cancelling a task that is part of a cycle of awaits raises RecursionError.
CancelPeriodic(t) ==
  /\ pc[t] = "cancel" /\ CanRun(t)
  /\ \/ periodicTask = None /\ AfterCancel(t)
     \/ /\ periodicTask # None
        /\ Done(periodicTask) \/ Cancelled(periodicTask) # {}
        /\ CancelAndAwait(t, "cancelling", periodicTask, pc)
        /\ UNCHANGED kind
     \/ /\ periodicTask # None
        /\ ~Done(periodicTask) /\ Cancelled(periodicTask) = {}
        /\ End(t, "error")
  /\ UNCHANGED <<config, fields, due, bus>>

CancelEnds(t) == /\ Caught(t, "cancelling")
                 /\ periodicTask' = None
                 /\ AfterCancel(t)
                 /\ UNCHANGED <<config, serving, suspend, triggerActive, asyncTrigger, due, bus>>

-----------------------------------------------------------------------------
(* start, shutdown, _leave_suspend *)

Start(t) ==
  /\ kind[t] = "start" /\ Resumes(t, "new")
  /\ serving' = TRUE
  /\ due' = FALSE
  /\ \/ /\ Allowed
        /\ \E p \in Task \ {t} : /\ NewPeriodic(p)
                                 /\ pc' = [pc EXCEPT ![t] = "connect", ![p] = "new"]
     \/ /\ ~Allowed
        /\ pc' = [pc EXCEPT ![t] = "connect"]
        /\ UNCHANGED <<periodicTask, kind>>
  /\ UNCHANGED <<config, suspend, triggerActive, asyncTrigger, bus, wait, exc, cur>>

\* The bus connection is up and the interfaces are exported, or connecting raised.
StartExport(t) == /\ kind[t] = "start" /\ Resumes(t, "connect")
                  /\ \/ bus' = "exported" /\ Yield(t, "startup")
                     \/ bus' = bus /\ End(t, "error")
                  /\ UNCHANGED <<config, fields, due>>

\* The helpers are started; the subscription to the suspend target may fail.
StartSubscribe(t) == /\ kind[t] = "start" /\ Resumes(t, "startup")
                     /\ bus' \in {"subscribed", "exported"}
                     /\ End(t, "ok")
                     /\ UNCHANGED <<config, fields, due>>

Shutdown(t) == /\ kind[t] = "Shutdown" /\ Resumes(t, "new")
               /\ serving' = FALSE
               /\ IF asyncTrigger # None THEN Await(t, "drain", asyncTrigger)
                                         ELSE Goto(t, "cancel")
               /\ UNCHANGED <<config, suspend, triggerActive, asyncTrigger, periodicTask, due, bus>>

ShutdownDrained(t) == /\ kind[t] = "Shutdown" /\ Resumes(t, "drain")
                      /\ asyncTrigger' = None
                      /\ Goto(t, "cancel")
                      /\ UNCHANGED <<config, serving, suspend, triggerActive, periodicTask, due, bus>>

\* Unexport everything and loop.stop()
ShutdownEnds(t) == /\ pc[t] = "unexport" /\ CanRun(t)
                   /\ bus' = "stopped"
                   /\ End(t, "ok")
                   /\ UNCHANGED <<config, fields, due>>

\* (Mutant: whatever the notification says is stored.)
LeaveSuspendRaw(t) ==
  /\ kind[t] \in Notices /\ Resumes(t, "new")
  /\ suspend' = kind[t]
  /\ IF kind[t] = "Suspend" \/ triggerActive THEN End(t, "ok") ELSE Yield(t, "wakeup")
  /\ UNCHANGED <<config, serving, triggerActive, asyncTrigger, periodicTask, due, bus>>

LeaveSuspend(t) ==
  /\ kind[t] \in Notices /\ Resumes(t, "new")
  /\ LET value == IF kind[t] = "Suspend" THEN "active" ELSE "inactive" IN
     /\ suspend' = value
     /\ IF value = suspend \/ value = "active" \/ triggerActive
          THEN End(t, "ok")
          ELSE Yield(t, "wakeup")
  /\ UNCHANGED <<config, serving, triggerActive, asyncTrigger, periodicTask, due, bus>>

\* WAKEUP_DELAY has passed
WakeupElapsed(t) == /\ Resumes(t, "wakeup")
                    /\ Goto(t, "cancel")
                    /\ UNCHANGED <<config, fields, due, bus>>

-----------------------------------------------------------------------------
(* The environment *)

Handlers == {t \in Task : Live(t) /\ kind[t] \in AllRequests}

\* A client calls a method or sets a property, or systemd reports a change of
\* the suspend target: the D-Bus library starts a task for the handler.
Request(r, h) == /\ cur = None
                 /\ bus = "subscribed" \/ (bus = "exported" /\ r \notin Notices)
                 /\ Cardinality({u \in Task : Live(u) /\ kind[u] \notin {"periodic", "async"}}) < MaxHandlers
                 /\ Fresh(h)
                 /\ kind' = [kind EXCEPT ![h] = r]
                 /\ pc' = [pc EXCEPT ![h] = "new"]
                 /\ UNCHANGED <<config, fields, due, bus, wait, exc, cur>>

\* The loop can run t now: t does not wait for a timer, a reply or the round.
Ready(t) == /\ Live(t) /\ CanRun(t)
            /\ pc[t] \in External => Thrown(t) # "none"

\* The wall clock reaches _next_trigger.  The interval is twenty seconds or
\* more, so the loop has run everything that is ready by then.
Tick == /\ ~due /\ bus # "stopped"
        /\ \A t \in Task : ~Ready(t)
        /\ due' = TRUE
        /\ UNCHANGED <<config, fields, bus, loop>>

Init == /\ enable \in BOOLEAN /\ inhibit \in BOOLEAN
        /\ serving = FALSE /\ suspend = "inactive" /\ triggerActive = FALSE
        /\ asyncTrigger = None /\ periodicTask = None
        /\ due = FALSE /\ bus = "new"
        /\ \E t \in Task : pc = [u \in Task |-> IF u = t THEN "new" ELSE "free"]
        /\ kind = [u \in Task |-> "start"]
        /\ wait = [u \in Task |-> None]
        /\ exc = [u \in Task |-> "none"]
        /\ cur = None

Step(t) == \/ Unwind(t)
           \/ PeriodicSleep(t) \/ PeriodicAppList(t) \/ PeriodicFire(t) \/ PeriodicFail(t)
           \/ TriggerTask(t) \/ TriggerReturns(t) \/ TriggerJoins(t) \/ TriggerRuns(t)
           \/ TriggerSpawns(t) \/ JoinEnds(t) \/ JoinAsyncEnds(t)
           \/ RoundEnds(t) \/ RoundFails(t) \/ RoundReaps(t)
           \/ SettingCall(t) \/ SettingApply(t) \/ UpdateSchedule(t)
           \/ CancelPeriodic(t) \/ CancelEnds(t)
           \/ Start(t) \/ StartExport(t) \/ StartSubscribe(t)
           \/ Shutdown(t) \/ ShutdownDrained(t) \/ ShutdownEnds(t)
           \/ LeaveSuspend(t) \/ WakeupElapsed(t)

Next == \/ \E t \in Task : Step(t)
        \/ \E r \in Requests, h \in Task : Request(r, h)
        \/ Tick

Spec == Init /\ [][Next]_vars

\* The event loop runs every task that can run, timers expire, a round's
\* HTTP requests and subprocesses come to an end.  Nobody has to call.
Fairness == WF_vars(Tick) /\ \A t \in Task : SF_vars(Step(t))
FairSpec == Spec /\ Fairness

-----------------------------------------------------------------------------
(* Properties *)

InRound(t) == pc[t] \in {"run", "reap"}
Round == \E t \in Task : InRound(t)

\* The trigger lock works: whatever the order of periodic, asynchronous and
\* D-Bus triggers, shutdowns and cancellations, at most one task is between
\* "_trigger_active = True" and its reset in _trigger, and the flag is up.
OneRound == /\ \A t, u \in Task : InRound(t) /\ InRound(u) => t = u
            /\ Round => triggerActive

\* trigger tests the options before it creates the asynchronous task and
\* _trigger tests them again when that task starts: no round begins while the
\* daemon is disabled or inhibited, and no periodic one after shutdown began.
StartsAllowed ==
  [][\A t \in Task : pc[t] # "run" /\ pc'[t] = "run"
                       => Allowed /\ (kind[t] = "periodic" => serving)]_vars

\* TriggerAsync calls do not pile up: trigger keeps at most one asynchronous
\* task alive, until shutdown forgets one that was created while it waited.
AsyncDedup ==
  serving => \A t, u \in Task :
               Live(t) /\ Live(u) /\ kind[t] = "async" /\ kind[u] = "async" => t = u

\* inhibit and enable wait for the asynchronous trigger before they cancel
\* the periodic task, which may be waiting for it: its round is not cut short.
AsyncRoundNotCancelled ==
  \A t \in Task : pc[t] = "run" /\ kind[t] = "async" => exc[t] = "none"

\* Each round cancels and replaces the periodic task that runs it, and goes
\* on to the next: the daemon collects and submits again and again, until it
\* is disabled, inhibited or shut down.
PeriodicRounds == (serving /\ Allowed) ~> (~(serving /\ Allowed) \/ \E t \in Task : pc[t] = "run")

\* Every D-Bus call and suspend notification is answered, with a result or an error.
RequestsReturn == \A t \in Task : (t \in Handlers) ~> (t \notin Handlers)

\* A Shutdown call ends with the daemon stopped.
ShutdownCompletes == (\E t \in Task : kind[t] = "Shutdown" /\ Live(t)) ~> (bus = "stopped")

-----------------------------------------------------------------------------
(* A statement of the documentation that the code does not meet *)

\* Trigger "waits for the process to finish" (API.md:37), which it does.
TriggerFinishes ==
  \A t \in Task : (Live(t) /\ kind[t] = "Trigger") ~> ~(Live(t) /\ kind[t] = "Trigger")
=============================================================================
