--------------------------- MODULE CollectionProofs ---------------------------
(***************************************************************************)
(* What holds of a helper's collections for any number of logs, times,      *)
(* options and faults: the types, that options survive, and that no log is  *)
(* announced twice.                                                         *)
(***************************************************************************)
EXTENDS Collection, SettingsProofs, Maxima

\* The time of the newest log that was announced, which the daemon has or the
\* next one will find
KnownTime == IF state = "down" THEN localFile[Newest] ELSE local[Newest]

NewestOK == {local[Newest], localFile[Newest]} \subseteq Time \cup {None}

\* While the daemon starts, it has assigned nothing that was not written.
Upgrading == ~damaged /\ state = "upgrading" => local[Newest] = localFile[Newest]

\* A log that is somewhere has a time; only a pending one is announced.
Published == \A l \in Log : /\ at[l] # "none" => mtime[l] \in Time
                            /\ announced[l] > 0 => at[l] \in {"pending", "gone"}

\* No log that was announced is newer than the time that is kept.
Once == ~damaged /\ ~forgotten =>
  \A l \in Log : announced[l] > 0 => announced[l] = 1 /\ KnownTime \in Time /\ mtime[l] <= KnownTime

\* The inductive invariant
IInv == TypeOK /\ SettingsInv /\ NewestOK /\ Upgrading /\ Published /\ Once

-----------------------------------------------------------------------------
(* No operation on the other options changes the time that is kept *)

NewestStep == /\ NewestOK' /\ Upgrading'
              /\ ~damaged' /\ ~forgotten' => ~damaged /\ ~forgotten /\ KnownTime' = KnownTime

LEMMA NewestKey ==
  /\ Newest \in Key /\ Newest # Level /\ Newest \notin Options /\ Newest \notin Range(Migrations)
  /\ None \notin Time /\ Time \subseteq Value
BY CollectionAssumption, SettingsAssumption

LEMMA LocalNewest ==
  ASSUME SettingsTypeOK, NEW k \in Key \ {Newest}, NEW v
  PROVE  [local EXCEPT ![k] = v][Newest] = local[Newest]
BY NewestKey DEF SettingsTypeOK, Config

LEMMA WriteFailsNewest ==
  ASSUME SettingsTypeOK, NewestOK, WriteFails
  PROVE  /\ localFile'[Newest] \in Time \cup {None}
         /\ ~damaged' => ~damaged /\ localFile' = localFile
<1>1. CASE UNCHANGED <<localFile, damaged>>
  BY <1>1 DEF NewestOK
<1>2. CASE localFile' = Blank /\ damaged' = TRUE
  BY <1>2, NewestKey, BlankType
<1> QED BY <1>1, <1>2 DEF WriteFails

LEMMA AssignNewest ==
  ASSUME SettingsInv, NewestOK, NEW k \in Key \ {Newest}, NEW v, Assign(k, v), state = "up"
  PROVE  NewestStep
<1>1. local'[Newest] = local[Newest] /\ UNCHANGED <<state, forgotten>>
  BY LocalNewest DEF Assign, SettingsInv
<1>2. /\ localFile'[Newest] \in Time \cup {None}
      /\ ~damaged' => ~damaged
  <2>1. CASE Writes(local')
    BY <1>1, <2>1 DEF Writes, NewestOK
  <2>2. CASE WriteFails
    BY <2>2, WriteFailsNewest DEF SettingsInv
  <2> QED BY <2>1, <2>2 DEF Assign
<1> QED BY <1>1, <1>2 DEF NewestStep, NewestOK, Upgrading, KnownTime

LEMMA MigrateNewest ==
  ASSUME SettingsInv, NewestOK, Upgrading, NEW k \in Key \ {Newest}, Migrate(k), state # "down",
         UNCHANGED <<state, forgotten>>
  PROVE  NewestStep
<1>1. local'[Newest] = local[Newest] /\ localFile' = local' /\ damaged' = damaged
  BY LocalNewest DEF Migrate, Writes, SettingsInv
<1> QED BY <1>1 DEF NewestStep, NewestOK, Upgrading, KnownTime

LEMMA MigrateRaisesNewest ==
  ASSUME SettingsInv, NewestOK, Upgrading, NEW k \in Key \ {Newest}, MigrateRaises(k), state # "down"
  PROVE  NewestStep
<1>1. WriteFails /\ state' = (IF state = "up" THEN "up" ELSE "down") /\ forgotten' = forgotten
  BY DEF MigrateRaises, Raises
<1>2. /\ localFile'[Newest] \in Time \cup {None}
      /\ ~damaged' => ~damaged /\ localFile' = localFile
  BY <1>1, WriteFailsNewest DEF SettingsInv
<1>3. CASE state = "up"
  <2>1. local'[Newest] = local[Newest]
    BY <1>3, LocalNewest DEF MigrateRaises, SettingsInv
  <2> QED BY <1>1, <1>2, <1>3, <2>1 DEF NewestStep, NewestOK, Upgrading, KnownTime
<1>4. CASE state = "upgrading"
  <2>1. local'[Newest] = None
    BY <1>4, NewestKey, BlankType DEF MigrateRaises
  <2> QED BY <1>1, <1>2, <1>4, <2>1 DEF NewestStep, NewestOK, Upgrading, KnownTime
<1> QED BY <1>3, <1>4 DEF SettingsInv, SettingsTypeOK

LEMMA MigrateEndRaisesNewest ==
  ASSUME SettingsInv, NewestOK, Upgrading, MigrateEndRaises
  PROVE  NewestStep
<1>1. /\ state' = (IF state = "up" THEN "up" ELSE "down") /\ UNCHANGED <<forgotten, localFile>>
      /\ local' = IF state = "up" THEN local ELSE Blank
      /\ ~damaged' => ~damaged
  BY DEF MigrateEndRaises, Raises
<1>2. Blank[Newest] = None
  BY NewestKey, BlankType
<1>3. CASE state = "up"
  BY <1>1, <1>3 DEF NewestStep, NewestOK, Upgrading, KnownTime
<1>4. CASE state # "up"
  <2>1. state = "upgrading" \/ state = "down"
    BY <1>4 DEF SettingsInv, SettingsTypeOK
  <2> QED BY <1>1, <1>2, <1>4, <2>1 DEF NewestStep, NewestOK, Upgrading, KnownTime
<1> QED BY <1>3, <1>4

LEMMA StopsNewest ==
  ASSUME SettingsInv, NewestOK, Shutdown \/ Crash \/ CrashInWrite
  PROVE  NewestStep
<1>1. /\ state # "down" /\ state' = "down" /\ local'[Newest] = None
      /\ ~forgotten' => ~forgotten /\ local = localFile
  BY NewestKey, BlankType DEF Shutdown, Crash, CrashInWrite, Stops
<1>2. CASE UNCHANGED <<localFile, damaged>>
  BY <1>1, <1>2 DEF NewestStep, NewestOK, Upgrading, KnownTime
<1>3. CASE damaged' = TRUE /\ (localFile' = Blank \/ localFile' = localFile)
  BY <1>1, <1>3, NewestKey, BlankType DEF NewestStep, NewestOK, Upgrading
<1> QED BY <1>2, <1>3 DEF Shutdown, Crash, CrashInWrite

LEMMA UnchangedNewest ==
  ASSUME NewestOK, Upgrading, UNCHANGED <<state, local, localFile, damaged, forgotten>>
  PROVE  NewestStep
BY DEF NewestStep, NewestOK, Upgrading, KnownTime

LEMMA SettingsNewest ==
  ASSUME SettingsInv, NewestOK, Upgrading, [SettingsNext]_svars
  PROVE  NewestStep
<1>1. CASE \E k \in Options, v \in Choice : Set(k, v)
  <2>1. PICK k \in Key \ {Newest}, v \in Choice : Set(k, v)
    BY <1>1, NewestKey, SettingsAssumption
  <2> QED BY <2>1, AssignNewest DEF Set
<1>2. CASE \E v \in Choice : SetLogLevel(v)
  <2>1. PICK v \in Choice : SetLogLevel(v)
    BY <1>2
  <2>2. Level \in Key \ {Newest} /\ state = "up"
    BY <2>1, NewestKey, SettingsAssumption DEF SetLogLevel
  <2> QED BY <2>1, <2>2, MigrateNewest, MigrateRaisesNewest, AssignNewest DEF SetLogLevel
<1>3. CASE SetLogLevelEnds
  <2>1. Level \in Key \ {Newest} /\ state = "up"
    BY <1>3, NewestKey, SettingsAssumption DEF SetLogLevelEnds, SettingsInv, Survive, LevelUp
  <2> QED BY <1>3, <2>1, AssignNewest DEF SetLogLevelEnds
<1>4. CASE MigrateEnds
  BY <1>4, UnchangedNewest DEF MigrateEnds
<1>5. CASE MigrateEndRaises
  BY <1>5, MigrateEndRaisesNewest
<1>6. CASE Start \/ Upgraded
  BY <1>6 DEF Start, Upgraded, NewestStep, NewestOK, Upgrading, KnownTime
<1>7. CASE Upgrade
  <2>1. Head(todo) \in Key \ {Newest} /\ state = "upgrading"
    BY <1>7, HeadType, NewestKey DEF Upgrade, SettingsInv
  <2>2. CASE Migrate(Head(todo)) /\ UNCHANGED <<state, forgotten>>
    BY <2>1, <2>2, MigrateNewest
  <2>3. CASE MigrateRaises(Head(todo))
    BY <2>1, <2>3, MigrateRaisesNewest
  <2>4. CASE UNCHANGED <<state, local, localFile, damaged, forgotten>>
    BY <2>4, UnchangedNewest
  <2> QED BY <1>7, <2>2, <2>3, <2>4 DEF Upgrade
<1>8. CASE \E k \in Options \cup Range(Migrations) \cup {Level}, v \in Choice \cup {None} : UserEdits(k, v)
  BY <1>8, UnchangedNewest DEF UserEdits
<1>9. CASE Shutdown \/ Crash \/ CrashInWrite
  BY <1>9, StopsNewest
<1>10. CASE UNCHANGED svars
  BY <1>10, UnchangedNewest DEF svars
<1> QED BY <1>1, <1>2, <1>3, <1>4, <1>5, <1>6, <1>7, <1>8, <1>9, <1>10 DEF SettingsNext

-----------------------------------------------------------------------------
(* The steps *)

\* The options change and the logs do not.
LEMMA SettingsStepKeeps ==
  ASSUME IInv, [SettingsNext]_svars, UNCHANGED cvars
  PROVE  IInv'
<1>1. SettingsInv' /\ NewestStep
  BY SettingsNextInv, SettingsNewest DEF IInv
<1>2. NewestOK' /\ Upgrading' /\ (~damaged' /\ ~forgotten' => ~damaged /\ ~forgotten /\ KnownTime' = KnownTime)
  BY <1>1 DEF NewestStep
<1>3. TypeOK'
  BY <1>1, <1>2 DEF IInv, TypeOK, SettingsInv, NewestOK, cvars
<1>4. Published' /\ Once'
  BY <1>2 DEF IInv, Published, Once, cvars
<1> QED BY <1>1, <1>2, <1>3, <1>4 DEF IInv

\* What a collection announces
LEMMA AnnouncesType ==
  ASSUME IInv, Announces
  PROVE  /\ announced' \in [Log -> 0..2]
         /\ \A l \in Log : announced'[l] > 0 => announced[l] > 0 \/ l \in Pending
         /\ \A l \in Log : announced'[l] = announced[l] \/ (l \in Pending /\ Newer(l) /\ announced'[l] = announced[l] + 1)
<1>1. announced \in [Log -> 0..2]
  BY DEF IInv, TypeOK
<1>2. \A l \in Log : announced'[l] = IF l \in Pending /\ Newer(l) /\ announced[l] < 2
                                       THEN announced[l] + 1 ELSE announced[l]
  BY DEF Announces
<1>3. \A l \in Log : announced'[l] \in 0..2
  BY <1>1, <1>2
<1>4. announced' \in [Log -> 0..2]
  BY <1>3 DEF Announces
<1> QED BY <1>1, <1>2, <1>4

\* The time that a collection keeps is that of the newest pending log.
LEMMA NewTimeType ==
  ASSUME IInv, SomeNew
  PROVE  /\ NewTime \in Time
         /\ \A l \in Pending : mtime[l] <= NewTime
         /\ local[Newest] # None => local[Newest] < NewTime
<1> DEFINE S == {mtime[l] : l \in Pending}
<1>1. \A l \in Pending : l \in Log /\ mtime[l] \in Time
  BY DEF IInv, Published, Pending
<1>2. S \subseteq 0..MaxTime /\ S # {} /\ MaxTime \in Nat
  BY <1>1, CollectionAssumption DEF SomeNew, Time
<1>3. Max(S) \in S /\ \A x \in S : x <= Max(S)
  <2> HIDE DEF S
  <2> QED BY <1>2, MaxExists
<1>4. NewTime \in Time /\ \A l \in Pending : mtime[l] <= NewTime
  BY <1>1, <1>3 DEF NewTime
<1>5. ASSUME local[Newest] # None PROVE local[Newest] < NewTime
  <2>1. PICK l \in Pending : mtime[l] > local[Newest]
    BY <1>5 DEF SomeNew, Newer
  <2>2. local[Newest] \in Time
    BY <1>5 DEF IInv, NewestOK
  <2> QED BY <1>1, <1>4, <2>1, <2>2, CollectionAssumption DEF Time
<1> QED BY <1>4, <1>5

LEMMA PublishedKeeps ==
  ASSUME IInv, Announces, UNCHANGED <<at, mtime>>
  PROVE  Published'
BY AnnouncesType DEF IInv, Published, Pending

LEMMA CollectKeeps ==
  ASSUME IInv, Collect
  PROVE  IInv'
<1>1. /\ state = "up" /\ Quiet /\ Announces /\ UNCHANGED <<at, mtime, clock>>
      /\ announced' \in [Log -> 0..2] /\ Published'
  BY AnnouncesType, PublishedKeeps DEF Collect
<1>2. CASE ~SomeNew
  <2>1. UNCHANGED svars
    BY <1>2 DEF Collect
  <2>2. announced' = announced
    <3>1. \A l \in Log : announced'[l] = announced[l]
      BY <1>1, <1>2 DEF Announces, SomeNew
    <3> QED BY <1>1, <3>1 DEF IInv, TypeOK
  <2> QED BY <1>1, <2>1, <2>2, SettingsStepKeeps DEF cvars
<1>3. CASE SomeNew
  <2>1. Assign(Newest, NewTime) /\ level' = level
    BY <1>3 DEF Collect
  <2>2. /\ NewTime \in Time /\ \A l \in Pending : mtime[l] <= NewTime
        /\ local[Newest] # None => local[Newest] < NewTime
    BY <1>3, NewTimeType
  <2>3. SettingsInv'
    BY <1>1, <2>1, <2>2, NewestKey, AssignKeeps DEF IInv, Quiet
  <2>4. /\ local'[Newest] = NewTime /\ state' = "up" /\ forgotten' = forgotten
        /\ ~damaged' => ~damaged
        /\ localFile'[Newest] \in Time \cup {None}
    <3>1. local'[Newest] = NewTime
      <4>1. local \in Config /\ local' = [local EXCEPT ![Newest] = NewTime]
        BY <2>1 DEF Assign, IInv, TypeOK, SettingsTypeOK
      <4> QED BY <4>1, NewestKey DEF Config
    <3>2. CASE Writes(local')
      BY <1>1, <2>1, <2>2, <3>1, <3>2 DEF Assign, Writes
    <3>3. CASE WriteFails
      BY <1>1, <2>1, <3>1, <3>3, WriteFailsNewest DEF Assign, IInv, SettingsInv
    <3> QED BY <2>1, <3>2, <3>3 DEF Assign
  <2>5. NewestOK' /\ Upgrading' /\ KnownTime' = NewTime
    BY <2>2, <2>4 DEF NewestOK, Upgrading, KnownTime
  <2>6. TypeOK'
    BY <1>1, <2>2, <2>3, <2>4 DEF IInv, TypeOK, SettingsInv
  <2>7. Once'
    <3> SUFFICES ASSUME ~damaged', ~forgotten', NEW l \in Log, announced'[l] > 0
                 PROVE  announced'[l] = 1 /\ mtime[l] <= NewTime
      BY <1>1, <2>2, <2>5 DEF Once
    <3>1. announced[l] > 0 => announced[l] = 1 /\ local[Newest] \in Time /\ mtime[l] <= local[Newest]
      BY <1>1, <2>4 DEF IInv, Once, KnownTime
    <3>2. announced[l] \in 0..2 /\ mtime[l] \in 0..MaxTime
      BY DEF IInv, TypeOK
    <3>3. CASE announced[l] = 0
      BY <1>1, <2>2, <3>2, <3>3, AnnouncesType
    <3>4. CASE announced[l] > 0
      <4>1. local[Newest] # None /\ ~Newer(l)
        BY <3>1, <3>2, <3>4, NewestKey, CollectionAssumption DEF Newer, Time
      <4>2. announced'[l] = announced[l]
        BY <1>1, <4>1, AnnouncesType
      <4> QED BY <2>2, <3>1, <3>2, <3>4, <4>1, <4>2, CollectionAssumption DEF Time
    <3> QED BY <3>2, <3>3, <3>4
  <2> QED BY <1>1, <2>3, <2>5, <2>6, <2>7 DEF IInv
<1> QED BY <1>2, <1>3

LEMMA CrashInCollectKeeps ==
  ASSUME IInv, CrashInCollect
  PROVE  IInv'
<1>1. /\ state' = "down" /\ local' = Blank /\ forgotten' = TRUE /\ Fault(TRUE) /\ Announces
      /\ UNCHANGED <<localFile, userFile, todo, copy, level, may, damaged, edits, at, mtime, clock>>
      /\ copy = None /\ level = None
  BY DEF CrashInCollect, Quiet
<1>2. announced' \in [Log -> 0..2] /\ Published'
  BY <1>1, AnnouncesType, PublishedKeeps
<1>3. faults' \in 0..MaxFaults /\ todo = <<>>
  BY <1>1, FaultType DEF IInv, TypeOK, SettingsTypeOK, CrashInCollect
<1>4. {local', localFile', userFile'} \subseteq Config /\ local'[Newest] = None
  BY <1>1, BlankType, NewestKey DEF IInv, TypeOK, SettingsTypeOK
<1>5. {damaged', forgotten'} \subseteq BOOLEAN
  BY <1>1 DEF IInv, TypeOK, SettingsTypeOK
<1>6. SettingsInv'
  BY <1>1, <1>3, <1>4, <1>5, EndsKeeps DEF IInv
<1>7. NewestOK' /\ Upgrading' /\ Once'
  BY <1>1, <1>4 DEF IInv, NewestOK, Upgrading, Once
<1>8. TypeOK'
  BY <1>1, <1>2, <1>4, <1>6 DEF IInv, TypeOK, SettingsInv
<1> QED BY <1>2, <1>6, <1>7, <1>8 DEF IInv

\* A log is written, published or submitted, or time passes.
LEMMA LogKeeps ==
  ASSUME IInv, Tick \/ \E l \in Log : Stage(l) \/ Publish(l) \/ Submitted(l)
  PROVE  IInv'
<1>1. UNCHANGED svars /\ announced' = announced
  BY DEF Tick, Stage, Publish, Submitted
<1>2. SettingsInv' /\ NewestOK' /\ Upgrading'
  BY <1>1, StutterKeeps DEF IInv, NewestOK, Upgrading, svars
<1>3. clock' \in Time
  BY CollectionAssumption DEF IInv, TypeOK, Tick, Stage, Publish, Submitted, Time
<1>4. CASE Tick
  <2>1. TypeOK' /\ Published' /\ Once'
    BY <1>1, <1>2, <1>3, <1>4 DEF IInv, TypeOK, SettingsInv, Published, Once, KnownTime, Tick, svars
  <2> QED BY <1>2, <2>1 DEF IInv
<1>5. CASE \E l \in Log : Stage(l) \/ Publish(l) \/ Submitted(l)
  <2>1. PICK l \in Log : Stage(l) \/ Publish(l) \/ Submitted(l)
    BY <1>5
  <2>2. clock \in Time /\ clock \in 0..MaxTime
    BY DEF IInv, TypeOK, Time
  <2>3. /\ at' \in [Log -> {"none", "staging", "pending", "gone"}]
        /\ mtime' \in [Log -> 0..MaxTime]
    BY <2>1, <2>2 DEF IInv, TypeOK, Stage, Publish, Submitted
  <2>4. TypeOK'
    BY <1>1, <1>2, <1>3, <2>3 DEF IInv, TypeOK, SettingsInv, svars
  <2>5. ASSUME NEW m \in Log
        PROVE  /\ at'[m] # "none" => mtime'[m] \in Time
               /\ at'[m] = at[m] \/ at[m] \in {"none", "staging", "pending"}
               /\ announced[m] > 0 => at'[m] \in {"pending", "gone"} /\ mtime'[m] = mtime[m]
    BY <2>1, <2>2 DEF IInv, TypeOK, Published, Stage, Publish, Submitted
  <2>6. Published' /\ Once'
    BY <1>1, <2>5 DEF IInv, Published, Once, KnownTime, svars
  <2> QED BY <1>2, <2>4, <2>6 DEF IInv
<1> QED BY <1>4, <1>5

-----------------------------------------------------------------------------
(* The invariance *)

LEMMA InitInv == Init => IInv
<1> SUFFICES ASSUME Init PROVE IInv
  OBVIOUS
<1>1. SettingsInit
  BY DEF Init
<1>2. SettingsInv
  BY <1>1, SettingsInitInv
<1>3. local[Newest] = None /\ localFile[Newest] = None
  BY <1>1, NewestKey, BlankType DEF SettingsInit
<1>4. /\ at = [l \in Log |-> "none"] /\ mtime = [l \in Log |-> 0]
      /\ announced = [l \in Log |-> 0] /\ clock \in Time
  BY CollectionAssumption DEF Init, Time
<1>5. mtime \in [Log -> 0..MaxTime] /\ announced \in [Log -> 0..2]
  BY <1>4, CollectionAssumption
<1>6. TypeOK
  BY <1>2, <1>3, <1>4, <1>5 DEF TypeOK, SettingsInv
<1>7. NewestOK /\ Upgrading /\ Published /\ Once
  BY <1>3, <1>4 DEF NewestOK, Upgrading, Published, Once
<1> QED BY <1>2, <1>6, <1>7 DEF IInv

LEMMA NextInv == IInv /\ [Next]_vars => IInv'
<1> SUFFICES ASSUME IInv, [Next]_vars PROVE IInv'
  OBVIOUS
<1>1. CASE SettingsNext /\ UNCHANGED cvars
  BY <1>1, SettingsStepKeeps
<1>2. CASE UNCHANGED vars
  BY <1>2, SettingsStepKeeps DEF vars
<1>3. CASE Collect \/ CrashInCollect
  BY <1>3, CollectKeeps, CrashInCollectKeeps
<1>4. CASE Tick \/ \E l \in Log : Stage(l) \/ Publish(l) \/ Submitted(l)
  BY <1>4, LogKeeps
<1> QED BY <1>1, <1>2, <1>3, <1>4 DEF Next

LEMMA Invariance == Spec => []IInv
BY InitInv, NextInv, PTL DEF Spec

\* Every variable has its type; the newest time that is kept is one that a log
\* has had, though it lies among options of other types.
THEOREM TypeCorrect == Spec => []TypeOK
<1>1. IInv => TypeOK
  BY DEF IInv
<1> QED BY <1>1, Invariance, PTL

\* Options survive beside collections, which write the same file.
THEOREM OptionsCorrect == Spec => []OptionsSurvive
<1>1. IInv => OptionsSurvive
  BY DEF IInv, SettingsInv, Survive
<1> QED BY <1>1, Invariance, PTL

\* No log is announced twice, whatever is published and submitted between two
\* collections and however often the daemon is restarted, unless the time of
\* the newest could not be written.
THEOREM AnnouncedOnceCorrect == Spec => []AnnouncedOnce
<1>1. IInv => AnnouncedOnce
  <2> SUFFICES ASSUME IInv, ~damaged, ~forgotten, NEW l \in Log PROVE announced[l] <= 1
    BY DEF AnnouncedOnce
  <2>1. announced[l] \in 0..2
    BY DEF IInv, TypeOK
  <2> QED BY <2>1 DEF IInv, Once
<1> QED BY <1>1, Invariance, PTL
=============================================================================
