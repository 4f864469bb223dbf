----------------------------- MODULE Collection -----------------------------
(***************************************************************************)
(* What a collection announces (Helper.collect in                           *)
(* steamos_log_submitter/helpers/__init__.py): the pending logs that are    *)
(* newer than the newest one of the last collection, whose time is an       *)
(* option in the local file (module Settings).  Hooks write a log into a    *)
(* hidden staging file, whose time is that of the last write, and rename it *)
(* later.  One helper is modelled.                                          *)
(***************************************************************************)
EXTENDS Settings, FiniteSetsExt

CONSTANTS Log, MaxTime

Newest == "newest"
Time == 1..MaxTime

ASSUME CollectionAssumption == /\ MaxTime \in Nat \ {0}
                               /\ Newest \in Key \ (Options \cup Range(Migrations) \cup {Level})
                               /\ Time \subseteq Value

VARIABLES
  at,           \* where each log is
  mtime,        \* when it was written, 0 for never; rounded
  announced,    \* history: how often NewLogs had it, up to 2
  clock

cvars == <<at, mtime, announced, clock>>
vars == <<svars, cvars>>

TypeOK == /\ SettingsTypeOK
          /\ at \in [Log -> {"none", "staging", "pending", "gone"}]
          /\ mtime \in [Log -> 0..MaxTime] /\ announced \in [Log -> 0..2]
          /\ clock \in Time
          /\ local[Newest] \in Time \cup {None}

Init == /\ SettingsInit
        /\ at = [l \in Log |-> "none"] /\ mtime = [l \in Log |-> 0]
        /\ announced = [l \in Log |-> 0] /\ clock = 1

-----------------------------------------------------------------------------

Pending == {l \in Log : at[l] = "pending"}

\* (Mutants: and those of the same time; none before a time is kept.)
NewerOrEqual(l) == local[Newest] = None \/ mtime[l] >= local[Newest]
NewerThanKept(l) == local[Newest] # None /\ mtime[l] > local[Newest]
Newer(l) == local[Newest] = None \/ mtime[l] > local[Newest]

Announces == announced' = [l \in Log |-> IF l \in Pending /\ Newer(l) /\ announced[l] < 2
                                           THEN announced[l] + 1 ELSE announced[l]]

\* The time that is kept
NewTime == Max({mtime[l] : l \in Pending})

SomeNew == {l \in Pending : Newer(l)} # {}

\* NewLogs is emitted before the time is written.
Collect ==
  /\ state = "up" /\ Quiet
  /\ Announces
  /\ IF SomeNew
       THEN Assign(Newest, NewTime) /\ UNCHANGED level
       ELSE UNCHANGED svars
  /\ UNCHANGED <<at, mtime, clock>>

\* The process dies in between.
CrashInCollect ==
  /\ state = "up" /\ Quiet /\ SomeNew
  /\ Announces
  /\ state' = "down" /\ local' = Blank /\ forgotten' = TRUE /\ Fault(TRUE)
  /\ UNCHANGED <<localFile, userFile, todo, copy, level, may, damaged, edits, at, mtime, clock>>

\* A hook writes its log and later renames it into the pending directory.
Stage(l) == /\ at[l] = "none"
            /\ at' = [at EXCEPT ![l] = "staging"] /\ mtime' = [mtime EXCEPT ![l] = clock]
            /\ UNCHANGED <<svars, announced, clock>>

Publish(l) == /\ at[l] = "staging"
              /\ at' = [at EXCEPT ![l] = "pending"]
              /\ UNCHANGED <<svars, mtime, announced, clock>>

\* The log is submitted, and leaves the pending directory.
Submitted(l) == /\ at[l] = "pending" /\ state = "up" /\ Quiet
                /\ at' = [at EXCEPT ![l] = "gone"]
                /\ UNCHANGED <<svars, mtime, announced, clock>>

Tick == /\ clock < MaxTime /\ clock' = clock + 1
        /\ UNCHANGED <<svars, at, mtime, announced>>

-----------------------------------------------------------------------------

Next == \/ SettingsNext /\ UNCHANGED cvars
        \/ Collect \/ CrashInCollect \/ Tick
        \/ \E l \in Log : Stage(l) \/ Publish(l) \/ Submitted(l)

Spec == Init /\ [][Next]_vars

\* Rounds collect again and again; a daemon that died is started again, and
\* its steps end.
Fairness == /\ SF_vars(Collect)
            /\ WF_vars(SettingsNext /\ state # "up" /\ state' # "down" /\ UNCHANGED cvars)
            /\ WF_vars((MigrateEnds \/ SetLogLevelEnds) /\ UNCHANGED cvars)

FairSpec == Spec /\ Fairness

-----------------------------------------------------------------------------
(* Properties *)

\* A log is announced once, though it stays pending over many collections and
\* the daemon is restarted in between: the time of the newest survives with
\* the options; unless it could not be written.
AnnouncedOnce == ~damaged /\ ~forgotten => \A l \in Log : announced[l] <= 1

\* A log that is younger than all that were published before is announced, if
\* it is not gone before, whenever that is and whatever is published later.
YoungestAnnounced ==
  \A l \in Log :
    (at[l] = "pending" /\ \A m \in Log \ {l} : at[m] \in {"pending", "gone"} => mtime[m] < mtime[l])
      ~> (announced[l] > 0 \/ at[l] = "gone")
=============================================================================
