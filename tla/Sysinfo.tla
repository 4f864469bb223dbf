------------------------------- MODULE Sysinfo -------------------------------
(***************************************************************************)
(* The sysinfo helper (steamos_log_submitter/helpers/sysinfo.py).  Every    *)
(* collection lists the devices of the types that are enabled and merges    *)
(* them into a cache file; once per interval the cache becomes a report in  *)
(* the pending directory.  When that was is kept in the data file.          *)
(*                                                                         *)
(* A collection is suspended once, while the types are listed; what follows *)
(* runs to its end, unless a write fails or the process dies.  The D-Bus    *)
(* method Collect runs beside the collection of a round.  Instead of a time *)
(* the data file has its age, up to Interval.                               *)
(***************************************************************************)
EXTENDS Naturals, FiniteSets, Sequences

CONSTANTS Types,         \* the registered types, sorted by name
          Device, TypeOf,
          None, Torn,
          Interval,
          MaxFaults,     \* bound on crashes and failed writes
          MaxToggles     \* bound on changes of the options

Type == {Types[n] : n \in DOMAIN Types}
Collector == {"round", "dbus"}
Section == [Type -> SUBSET Device]

ASSUME SysinfoAssumption == /\ Types \in Seq(Type)
                            /\ \A m, n \in DOMAIN Types : Types[m] = Types[n] => m = n
                            /\ TypeOf \in [Device -> Type]
                            /\ None # Torn /\ {None, Torn} \cap Section = {}
                            /\ Interval \in Nat \ {0}
                            /\ {MaxFaults, MaxToggles} \subseteq Nat

VARIABLES
  enabled,               \* the types that are
  cache,                 \* sysinfo-pending.json: the devices of each section
  report,                \* the devices of each section in all reports
  memory, dirty, disk,   \* the age of the timestamp
  pc, asked,             \* of each collection; the types that it lists
  reportAge,             \* of the last report, up to Interval
  seen, lost,            \* history: devices that were listed; that were in a file that is lost
  everOff, crashed, faults, toggles

data == <<memory, dirty, disk>>
history == <<seen, lost, everOff, crashed, faults, toggles>>
vars == <<enabled, cache, report, data, pc, asked, reportAge, history>>

Data == INSTANCE DataStore WITH Empty <- None

Age == 0..Interval
Nothing == [t \in Type |-> {}]

TypeOK ==
  /\ enabled \subseteq Type /\ everOff \subseteq Type
  /\ cache \in Section \cup {None, Torn} /\ report \in Section
  /\ {memory, disk} \subseteq Age \cup {None, Torn}
  /\ pc \in [Collector -> {"idle", "listing"}] /\ asked \in [Collector -> SUBSET Type]
  /\ reportAge \in Age /\ seen \subseteq Device /\ lost \subseteq Device
  /\ {dirty, crashed} \subseteq BOOLEAN /\ faults \in 0..MaxFaults /\ toggles \in 0..MaxToggles

Init == /\ enabled = Type /\ cache = None /\ report = Nothing
        /\ Data!Init
        /\ pc = [c \in Collector |-> "idle"] /\ asked = [c \in Collector |-> {}]
        /\ reportAge = Interval /\ seen = {} /\ lost = {}
        /\ everOff = {} /\ crashed = FALSE /\ faults = 0 /\ toggles = 0

Fault(happens) == /\ happens => faults < MaxFaults
                  /\ faults' = IF happens THEN faults + 1 ELSE faults

-----------------------------------------------------------------------------
(* collect *)

\* gather starts the listing of the types that are enabled.
Collect(c) ==
  /\ pc[c] = "idle" /\ Data!Loaded
  /\ pc' = [pc EXCEPT ![c] = "listing"]
  /\ asked' = [asked EXCEPT ![c] = enabled]
  /\ UNCHANGED <<enabled, cache, report, data, reportAge, history>>

\* The results are in the order of the types that were asked, and are paired
\* with the names of all types, the n-th with the n-th.
Place(c, t) == Cardinality({n \in DOMAIN Types : /\ Types[n] \in asked[c]
                                                 /\ \E m \in DOMAIN Types : n <= m /\ Types[m] = t})

Paired(c, listed) == [t \in Type |-> UNION {listed[u] : u \in {v \in asked[c] : Types[Place(c, v)] = t}}]

\* The cache file, nothing if there is none or it cannot be parsed
Cache == IF cache \in {None, Torn} THEN Nothing ELSE cache

\* A section of the cache is extended.  (Mutants: it is replaced; sections of
\* other types are dropped.)
KnownListed(c, listed) == [t \in asked[c] |-> Cache[t] \cup Paired(c, listed)[t]]
KnownReplaced(c, listed) ==
  [t \in Type |-> IF Paired(c, listed)[t] # {} THEN Paired(c, listed)[t] ELSE Cache[t]]
Known(c, listed) == [t \in Type |-> Cache[t] \cup Paired(c, listed)[t]]

\* An interval has passed since the timestamp.
Due == memory = Interval

\* There is a new timestamp when there was none, or with a report.  (Mutants:
\* only when there was none; always.)
NewTimestampFirst == memory = None
NewTimestampAlways == TRUE
NewTimestamp == memory = None \/ Due

\* Disabled types are left out.
Reports(known) ==
  /\ cache' = None /\ reportAge' = 0
  /\ report' = [t \in Type |-> report[t] \cup IF t \in enabled THEN known[t] ELSE {}]

All(sections) == UNION {sections[t] : t \in Type}

\* The types have been listed; one that raises an exception counts as one
\* without devices.
Listings(c) == {[t \in Type |-> {d \in found : TypeOf[d] = t}] :
                  found \in SUBSET {d \in Device : TypeOf[d] \in asked[c]}}

Listed(c, listed) == /\ pc[c] = "listing" /\ seen' = seen \cup All(listed)
                     /\ UNCHANGED <<enabled, everOff, toggles>>

Returns(c) == /\ pc' = [pc EXCEPT ![c] = "idle"] /\ asked' = [asked EXCEPT ![c] = {}]

\* The cache is written or becomes a report, and the timestamp is written when
\* it is new; that it could not be is only logged.
Collected(c) == \E listed \in Listings(c) :
  /\ Listed(c, listed)
  /\ IF Due THEN Reports(Known(c, listed))
            ELSE cache' = Known(c, listed) /\ UNCHANGED <<report, reportAge>>
  /\ IF NewTimestamp THEN Data!SetItemsAndWrite(0, TRUE) ELSE UNCHANGED data
  /\ Fault(Data!WriteFails)
  /\ Returns(c)
  /\ UNCHANGED <<lost, crashed>>

\* The cache has been cut short; or it has been deleted and the report that
\* was to hold its devices is not there, or is cut short.
Interrupted(known) ==
  /\ \/ cache' = Torn /\ lost' = lost \cup All(Cache)
     \/ Due /\ cache' = None /\ lost' = lost \cup All(known)
  /\ UNCHANGED <<report, reportAge>>

\* An OSError of these writes is an exception out of collect.
CollectRaises(c) == \E listed \in Listings(c) :
  /\ Listed(c, Nothing) /\ Interrupted(Known(c, listed))
  /\ Fault(TRUE) /\ Returns(c)
  /\ UNCHANGED <<data, crashed>>

-----------------------------------------------------------------------------
(* The options, time, crashes *)

\* SysinfoType.enable
Enable(t, on) == /\ toggles < MaxToggles /\ toggles' = toggles + 1
                 /\ enabled' = IF on THEN enabled \cup {t} ELSE enabled \ {t}
                 /\ everOff' = IF on THEN everOff ELSE everOff \cup {t}
                 /\ UNCHANGED <<cache, report, data, pc, asked, reportAge, seen, lost, crashed, faults>>

Older(age) == IF age \in 0..(Interval - 1) THEN age + 1 ELSE age

Tick == /\ memory' = Older(memory) /\ disk' = Older(disk) /\ reportAge' = Older(reportAge)
        /\ UNCHANGED <<enabled, cache, report, dirty, pc, asked, history>>

Dies == /\ Fault(TRUE) /\ crashed' = TRUE
        /\ pc' = [c \in Collector |-> "idle"] /\ asked' = [c \in Collector |-> {}]

Crash == /\ Dies /\ Data!Crash
         /\ UNCHANGED <<enabled, cache, report, reportAge, seen, lost, everOff, toggles>>

\* In the middle of a file; after the cache, or after the report and before
\* the new timestamp; or in the data file.
CrashInCollect(c) == \E listed \in Listings(c) :
  /\ Dies
  /\ \/ /\ Listed(c, Nothing) /\ Interrupted(Known(c, listed))
        /\ Data!Crash
     \/ /\ Listed(c, listed) /\ cache' = Known(c, listed) /\ UNCHANGED <<report, reportAge, lost>>
        /\ Data!Crash \/ (memory = None /\ Data!CrashInWrite)
     \/ /\ Due /\ Listed(c, listed) /\ Reports(Known(c, listed)) /\ UNCHANGED lost
        /\ Data!Crash \/ Data!CrashInWrite

-----------------------------------------------------------------------------

Next == \/ \E c \in Collector : Collect(c) \/ Collected(c) \/ CollectRaises(c) \/ CrashInCollect(c)
        \/ \E t \in Type, on \in BOOLEAN : Enable(t, on)
        \/ Tick \/ Crash

Spec == Init /\ [][Next]_vars

\* Rounds come again and again and time passes.
FairSpec == Spec /\ WF_vars(Tick) /\ WF_vars(Collect("round")) /\ WF_vars(Collected("round"))

-----------------------------------------------------------------------------
(* Properties *)

Kept(d) == d \in lost \cup Cache[TypeOf[d]] \cup report[TypeOf[d]]

\* A device that was listed stays in the cache until a report has it, though
\* collections overlap, listings fail and each write may be cut short: only
\* what was in a file that was being rewritten or replaced can be lost.
SeenReported == everOff = {} => \A d \in seen : Kept(d)

\* With options that change: a device of a type whose option does not is in some
\* section, its own or another (the code does not keep this).
OthersReported ==
  \A d \in seen : TypeOf[d] \notin everOff => d \in lost \cup All(Cache) \cup All(report)

\* Reports are an interval apart, also when the timestamp could not be
\* written; unless a crash brings back an old timestamp.
ReportsApart ==
  [][(\E c \in Collector : pc[c] = "listing" /\ pc'[c] = "idle") /\ cache' = None /\ reportAge' = 0
       => (reportAge = Interval \/ crashed')]_vars

\* What is in the cache gets into a report, though collections may fail for
\* some time: the timestamp is renewed by a report and by nothing else.
CacheReported ==
  \A d \in Device : (cache \notin {None, Torn} /\ d \in Cache[TypeOf[d]] /\ everOff = {})
                      ~> (d \in report[TypeOf[d]] \/ d \in lost \/ memory = Torn \/ everOff # {})
=============================================================================
