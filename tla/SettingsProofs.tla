---------------------------- MODULE SettingsProofs ----------------------------
(***************************************************************************)
(* What each operation on the options keeps, for any keys, values and       *)
(* migrations and any number of edits and faults: what was set survives.    *)
(***************************************************************************)
EXTENDS Settings, TLAPS

\* set_log_level is only called of a daemon that is up.
LevelUp == level # None => state = "up"

\* The file has nothing that is not in memory, too, and what is in memory may
\* be written at any time.
MemorySurvives ==
  ~damaged /\ state # "down" =>
    \A k \in Key : /\ local[k] = None => localFile[k] = None
                   /\ local[k] # None => local[k] \in may[k]

\* The second write of a migration may happen, or not.
CopySurvives == ~damaged /\ copy # None => \A k \in Key : Lookup(localFile, copy, k) \in may[k]

\* The inductive invariant, less the types
Survive == LevelUp /\ MemorySurvives /\ CopySurvives /\ OptionsSurvive
SettingsInv == SettingsTypeOK /\ Survive

-----------------------------------------------------------------------------
(* Types *)

LEMMA BlankType == Blank \in Config /\ \A k \in Key : Blank[k] = None
BY DEF Config, Blank

LEMMA LookupType ==
  ASSUME NEW first \in Config, NEW second \in Config, NEW k \in Key
  PROVE  Lookup(first, second, k) \in Value \cup {None}
BY SettingsAssumption DEF Lookup, Config

LEMMA FaultType ==
  ASSUME NEW happens \in BOOLEAN, faults \in 0..MaxFaults, Fault(happens)
  PROVE  faults' \in 0..MaxFaults
BY SettingsAssumption DEF Fault

\* The keys that may be set, or edited
LEMMA KeyType == /\ Range(Migrations) \subseteq Key
                 /\ Options \cup Range(Migrations) \cup {Level} \subseteq Key
                 /\ Migrations \in Seq(Range(Migrations))
<1>1. Range(Migrations) \subseteq Key
  BY SettingsAssumption DEF Range
<1>2. Migrations \in Seq(Range(Migrations))
  BY SettingsAssumption DEF Range
<1> QED BY <1>1, <1>2, SettingsAssumption

LEMMA HeadType ==
  ASSUME SettingsTypeOK, todo # <<>>
  PROVE  /\ Head(todo) \in Range(Migrations) /\ Head(todo) \in Key
         /\ Tail(todo) \in Seq(Range(Migrations))
<1> DEFINE S == Range(Migrations)
<1>1. todo \in Seq(S)
  BY DEF SettingsTypeOK
<1>2. Head(todo) \in S /\ Tail(todo) \in Seq(S)
  <2> HIDE DEF S
  <2> QED BY <1>1
<1> QED BY <1>2, KeyType

-----------------------------------------------------------------------------
(* What is written *)

\* The file after a write that failed
LEMMA WriteFailsType ==
  ASSUME SettingsTypeOK, WriteFails
  PROVE  /\ localFile' \in Config /\ damaged' \in BOOLEAN /\ faults' \in 0..MaxFaults
         /\ ~damaged' => ~damaged /\ localFile' = localFile
<1>1. faults' \in 0..MaxFaults
  BY FaultType DEF WriteFails, SettingsTypeOK
<1>2. CASE UNCHANGED <<localFile, damaged>>
  BY <1>1, <1>2 DEF SettingsTypeOK
<1>3. CASE localFile' = Blank /\ damaged' = TRUE
  BY <1>1, <1>3, BlankType
<1> QED BY <1>2, <1>3 DEF WriteFails

LEMMA AssignKeeps ==
  ASSUME SettingsInv, NEW k \in Key, NEW v \in Value, Assign(k, v), state = "up", copy = None,
         level' \in {level, None}
  PROVE  SettingsInv'
<1> USE DEF SettingsInv
<1>0. v # None /\ local \in Config /\ may \in [Key -> SUBSET (Value \cup {None})]
  BY SettingsAssumption DEF SettingsTypeOK
<1>1. UNCHANGED <<state, userFile, todo, copy, forgotten, edits>>
  BY DEF Assign
<1>2. /\ local' \in Config /\ local'[k] = v
      /\ \A x \in Key \ {k} : local'[x] = local[x]
  <2>1. local' = [local EXCEPT ![k] = v]
    BY DEF Assign
  <2> QED BY <1>0, <2>1 DEF Config
<1>3. CASE Writes(local') /\ may' = [may EXCEPT ![k] = {v}]
  <2>1. localFile' = local' /\ damaged' = damaged /\ faults' \in 0..MaxFaults
    BY <1>3, FaultType DEF Writes, SettingsTypeOK
  <2>2. /\ may' \in [Key -> SUBSET (Value \cup {None})] /\ may'[k] = {v}
        /\ \A x \in Key \ {k} : may'[x] = may[x]
    BY <1>0, <1>3
  <2>3. SettingsTypeOK'
    BY <1>1, <1>2, <2>1, <2>2 DEF SettingsTypeOK
  <2>4. LevelUp'
    BY <1>1
       DEF Survive, LevelUp
  <2>5. ASSUME ~damaged, NEW x \in Key
        PROVE  /\ local'[x] # None => local'[x] \in may'[x]
               /\ Lookup(local', userFile, x) \in may'[x]
    <3>1. CASE x = k
      BY <1>0, <1>2, <2>2, <3>1 DEF Lookup
    <3>2. CASE x # k
      <4>1. local'[x] = local[x] /\ may'[x] = may[x]
        BY <1>2, <2>2, <3>2
      <4>2. /\ local[x] = None => localFile[x] = None
            /\ local[x] # None => local[x] \in may[x]
            /\ Lookup(localFile, userFile, x) \in may[x]
        BY <2>5 DEF Survive, MemorySurvives, OptionsSurvive, AfterRestart
      <4> QED BY <4>1, <4>2 DEF Lookup
    <3> QED BY <3>1, <3>2
  <2>6. MemorySurvives' /\ OptionsSurvive' /\ CopySurvives'
    BY <1>1, <2>1, <2>5 DEF MemorySurvives, OptionsSurvive, CopySurvives, AfterRestart, Lookup
  <2> QED BY <2>3, <2>4, <2>6 DEF Survive
<1>4. CASE WriteFails /\ may' = [may EXCEPT ![k] = @ \cup {v}]
  <2>1. /\ localFile' \in Config /\ damaged' \in BOOLEAN /\ faults' \in 0..MaxFaults
        /\ ~damaged' => ~damaged /\ localFile' = localFile
    BY <1>4, WriteFailsType
  <2>2. /\ may' \in [Key -> SUBSET (Value \cup {None})] /\ v \in may'[k]
        /\ \A x \in Key : may[x] \subseteq may'[x]
    BY <1>0, <1>4
  <2>3. SettingsTypeOK'
    BY <1>1, <1>2, <2>1, <2>2 DEF SettingsTypeOK
  <2>4. LevelUp'
    BY <1>1 DEF Survive, LevelUp
  <2>5. ASSUME ~damaged', NEW x \in Key
        PROVE  /\ local'[x] = None => localFile[x] = None
               /\ local'[x] # None => local'[x] \in may'[x]
               /\ Lookup(localFile, userFile, x) \in may'[x]
    BY <1>0, <1>2, <2>1, <2>2, <2>5 DEF Survive, MemorySurvives, OptionsSurvive, AfterRestart
  <2>6. MemorySurvives' /\ OptionsSurvive' /\ CopySurvives'
    BY <1>1, <2>1, <2>5 DEF MemorySurvives, OptionsSurvive, CopySurvives, AfterRestart, Lookup
  <2> QED BY <2>3, <2>4, <2>6 DEF Survive
<1> QED BY <1>3, <1>4 DEF Assign

-----------------------------------------------------------------------------
(* What is moved *)

\* A value that is in the user's file alone, with the key in memory
LEMMA MovedValue ==
  ASSUME SettingsInv, NEW k \in Key, Moves(k), state # "down",
         NEW new, new = [local EXCEPT ![k] = userFile[k]]
  PROVE  /\ new \in Config /\ userFile[k] \in Value
         /\ [userFile EXCEPT ![k] = None] \in Config
         /\ ~damaged => \A x \in Key : /\ localFile[x] # None => new[x] # None
                                       /\ new[x] # None => new[x] \in may[x]
                                       /\ Lookup(new, userFile, x) \in may[x]
                                       /\ Lookup(new, [userFile EXCEPT ![k] = None], x) \in may[x]
<1> DEFINE rest == [userFile EXCEPT ![k] = None]
<1>1. local \in Config /\ userFile \in Config
  BY DEF SettingsInv, SettingsTypeOK
<1>2. userFile[k] \in Value /\ userFile[k] # None /\ local[k] = None
  BY <1>1 DEF Moves, Config
<1>3. new \in Config /\ rest \in Config
  BY <1>1, <1>2 DEF Config
<1>4. ASSUME ~damaged, NEW x \in Key
      PROVE  /\ localFile[x] # None => new[x] # None
             /\ new[x] # None => new[x] \in may[x]
             /\ Lookup(new, userFile, x) \in may[x]
             /\ Lookup(new, rest, x) \in may[x]
  <2>1. /\ local[x] = None => localFile[x] = None
        /\ local[x] # None => local[x] \in may[x]
        /\ Lookup(localFile, userFile, x) \in may[x]
    BY <1>4 DEF SettingsInv, Survive, MemorySurvives, OptionsSurvive, AfterRestart
  <2>2. CASE x = k
    <3>1. new[x] = userFile[x] /\ new[x] # None
      BY <1>1, <1>2, <2>2 DEF Config
    <3> QED BY <1>2, <2>1, <2>2, <3>1 DEF Lookup
  <2>3. CASE x # k
    <3>1. new[x] = local[x] /\ rest[x] = userFile[x]
      BY <1>1, <2>3 DEF Config
    <3> HIDE DEF rest
    <3> QED BY <2>1, <3>1 DEF Lookup
  <2> QED BY <2>2, <2>3
<1> QED BY <1>2, <1>3, <1>4

LEMMA MigrateKeeps ==
  ASSUME SettingsInv, NEW k \in Key, Migrate(k), state # "down",
         UNCHANGED <<state, may, forgotten, edits>>,
         level' \in Value \cup {None}, level' # None => state = "up",
         todo' \in Seq(Range(Migrations)), state # "upgrading" => todo' = <<>>
  PROVE  SettingsInv'
<1> DEFINE new == [local EXCEPT ![k] = userFile[k]]
           rest == [userFile EXCEPT ![k] = None]
<1>1. Moves(k) /\ local' = new /\ copy' = rest /\ userFile' = userFile
  BY DEF Migrate
<1>2. localFile' = new /\ damaged' = damaged /\ faults' \in 0..MaxFaults
  BY FaultType DEF Migrate, Writes, SettingsInv, SettingsTypeOK
<1>3. /\ new \in Config /\ rest \in Config
      /\ ~damaged => \A x \in Key : /\ new[x] # None => new[x] \in may[x]
                                    /\ Lookup(new, userFile, x) \in may[x]
                                    /\ Lookup(new, rest, x) \in may[x]
  BY <1>1, MovedValue
<1> HIDE DEF new, rest
<1>4. SettingsTypeOK'
  BY <1>1, <1>2, <1>3 DEF SettingsInv, SettingsTypeOK
<1>5. LevelUp'
  BY DEF LevelUp
<1>6. MemorySurvives' /\ CopySurvives' /\ OptionsSurvive'
  BY <1>1, <1>2, <1>3 DEF MemorySurvives, CopySurvives, OptionsSurvive, AfterRestart, Lookup
<1> QED BY <1>4, <1>5, <1>6 DEF SettingsInv, Survive

LEMMA MigrateEndsKeeps ==
  ASSUME SettingsInv, MigrateEnds
  PROVE  SettingsInv'
<1>1. SettingsTypeOK'
  BY DEF SettingsInv, SettingsTypeOK, MigrateEnds
<1>2. LevelUp' /\ MemorySurvives' /\ CopySurvives'
  BY DEF SettingsInv, Survive, LevelUp, MemorySurvives, CopySurvives, MigrateEnds
<1>3. OptionsSurvive'
  BY DEF SettingsInv, Survive, CopySurvives, OptionsSurvive, AfterRestart, Lookup, MigrateEnds
<1> QED BY <1>1, <1>2, <1>3 DEF SettingsInv, Survive

\* An exception, or the end of the daemon, leaves the files as they are, or
\* empties one.
LEMMA EndsKeeps ==
  ASSUME SettingsInv, state' \in {"up", "down"}, copy' = None, level' = None, todo' = <<>>,
         UNCHANGED <<may, edits>>, {damaged', forgotten'} \subseteq BOOLEAN, faults' \in 0..MaxFaults,
         {local', localFile', userFile'} \subseteq Config,
         ~damaged' => ~damaged /\ UNCHANGED <<localFile, userFile>>,
         state' = "up" /\ ~damaged =>
           \A x \in Key : /\ localFile[x] # None => local'[x] # None
                          /\ local'[x] # None => local'[x] \in may[x]
  PROVE  SettingsInv'
<1>1. todo' \in Seq(Range(Migrations))
  OBVIOUS
<1>2. SettingsTypeOK'
  BY <1>1 DEF SettingsInv, SettingsTypeOK
<1>3. LevelUp' /\ CopySurvives'
  BY DEF LevelUp, CopySurvives
<1>4. MemorySurvives' /\ OptionsSurvive'
  BY DEF SettingsInv, Survive, MemorySurvives, OptionsSurvive, AfterRestart, Lookup
<1> QED BY <1>2, <1>3, <1>4 DEF SettingsInv, Survive

LEMMA MigrateRaisesKeeps ==
  ASSUME SettingsInv, NEW k \in Key, MigrateRaises(k), state # "down"
  PROVE  SettingsInv'
<1> DEFINE new == [local EXCEPT ![k] = userFile[k]]
<1>1. Moves(k) /\ WriteFails /\ Raises /\ userFile' = userFile
  BY DEF MigrateRaises
<1>2. local' = new \/ (local' = Blank /\ state # "up")
  BY DEF MigrateRaises
<1>3. /\ new \in Config
      /\ ~damaged => \A x \in Key : /\ localFile[x] # None => new[x] # None
                                    /\ new[x] # None => new[x] \in may[x]
  BY <1>1, MovedValue
<1>4. /\ localFile' \in Config /\ damaged' \in BOOLEAN /\ faults' \in 0..MaxFaults
      /\ ~damaged' => ~damaged /\ localFile' = localFile
  BY <1>1, WriteFailsType DEF SettingsInv
<1>5. userFile' \in Config
  BY <1>1 DEF SettingsInv, SettingsTypeOK
<1> HIDE DEF new
<1>6. {local', localFile', userFile'} \subseteq Config
  BY <1>2, <1>3, <1>4, <1>5, BlankType
<1>7. state' = "up" => local' = new
  BY <1>1, <1>2 DEF Raises
<1>8. forgotten' \in BOOLEAN
  BY <1>1 DEF Raises, SettingsInv, SettingsTypeOK
<1> QED BY <1>1, <1>3, <1>4, <1>6, <1>7, <1>8, EndsKeeps DEF Raises

LEMMA MigrateEndRaisesKeeps ==
  ASSUME SettingsInv, MigrateEndRaises
  PROVE  SettingsInv'
<1>1. Raises /\ localFile' = localFile /\ faults' \in 0..MaxFaults
  BY FaultType DEF MigrateEndRaises, SettingsInv, SettingsTypeOK
<1>2. local' = local \/ (local' = Blank /\ state # "up")
  BY DEF MigrateEndRaises
<1>3. /\ userFile' \in Config /\ damaged' \in BOOLEAN
      /\ ~damaged' => ~damaged /\ userFile' = userFile
  <2>1. CASE UNCHANGED <<userFile, damaged>>
    BY <2>1 DEF SettingsInv, SettingsTypeOK
  <2>2. CASE userFile' = Blank /\ damaged' = TRUE
    BY <2>2, BlankType
  <2> QED BY <2>1, <2>2 DEF MigrateEndRaises
<1>4. {local', localFile', userFile'} \subseteq Config
  BY <1>1, <1>2, <1>3, BlankType DEF SettingsInv, SettingsTypeOK
<1>5. state' = "up" => local' = local /\ state = "up"
  BY <1>1, <1>2 DEF Raises
<1>6. state' = "up" /\ ~damaged =>
           \A x \in Key : /\ localFile[x] # None => local'[x] # None
                          /\ local'[x] # None => local'[x] \in may[x]
  BY <1>5 DEF SettingsInv, Survive, MemorySurvives
<1>7. forgotten' \in BOOLEAN
  BY <1>1 DEF Raises, SettingsInv, SettingsTypeOK
<1> QED BY <1>1, <1>3, <1>4, <1>6, <1>7, EndsKeeps DEF Raises

-----------------------------------------------------------------------------
(* Starting, and the setters *)

\* What is in the file is what the next process finds.
LEMMA FileSurvives ==
  ASSUME SettingsInv, ~damaged, NEW k \in Key, localFile[k] # None
  PROVE  localFile[k] \in may[k]
BY DEF SettingsInv, Survive, OptionsSurvive, AfterRestart, Lookup

LEMMA StartKeeps ==
  ASSUME SettingsInv, Start \/ Upgraded
  PROVE  SettingsInv'
<1>1. /\ local' = localFile /\ state' \in {"upgrading", "up"}
      /\ UNCHANGED <<localFile, userFile, copy, level, may, damaged, forgotten, edits, faults>>
      /\ todo' \in Seq(Range(Migrations)) /\ (state' # "upgrading" => todo' = <<>>)
  BY KeyType DEF Start, Upgraded, SettingsInv, SettingsTypeOK
<1>2. SettingsTypeOK'
  BY <1>1 DEF SettingsInv, SettingsTypeOK
<1>3. LevelUp'
  BY <1>1 DEF SettingsInv, Survive, LevelUp, Start, Upgraded, Quiet
<1>4. MemorySurvives'
  BY <1>1, FileSurvives DEF MemorySurvives
<1>5. CopySurvives' /\ OptionsSurvive'
  BY <1>1 DEF SettingsInv, Survive, CopySurvives, OptionsSurvive, AfterRestart
<1> QED BY <1>2, <1>3, <1>4, <1>5 DEF SettingsInv, Survive

LEMMA UpgradeKeeps ==
  ASSUME SettingsInv, Upgrade
  PROVE  SettingsInv'
<1>1. /\ Head(todo) \in Key /\ Tail(todo) \in Seq(Range(Migrations))
      /\ state = "upgrading" /\ level = None
  BY HeadType DEF SettingsInv, Upgrade, Quiet
<1>2. CASE /\ Migrate(Head(todo)) /\ todo' = Tail(todo)
           /\ UNCHANGED <<state, level, may, forgotten, edits>>
  BY <1>1, <1>2, MigrateKeeps
<1>3. CASE MigrateRaises(Head(todo))
  BY <1>1, <1>3, MigrateRaisesKeeps
<1>4. CASE /\ todo' = Tail(todo)
           /\ UNCHANGED <<state, local, localFile, userFile, copy, level, may, damaged, forgotten, edits, faults>>
  <2>1. SettingsTypeOK'
    BY <1>1, <1>4 DEF SettingsInv, SettingsTypeOK
  <2>2. Survive'
    BY <1>4 DEF SettingsInv, Survive, LevelUp, MemorySurvives, CopySurvives, OptionsSurvive, AfterRestart
  <2> QED BY <2>1, <2>2 DEF SettingsInv
<1> QED BY <1>2, <1>3, <1>4 DEF Upgrade

LEMMA SetKeeps ==
  ASSUME SettingsInv, NEW k \in Options, NEW v \in Choice, Set(k, v)
  PROVE  SettingsInv'
BY AssignKeeps, KeyType, SettingsAssumption DEF Set, Quiet

LEMMA SetLogLevelKeeps ==
  ASSUME SettingsInv, NEW v \in Choice, SetLogLevel(v)
  PROVE  SettingsInv'
<1>1. Level \in Key /\ v \in Value /\ state = "up" /\ Quiet
  BY SettingsAssumption DEF SetLogLevel
<1>2. CASE Migrate(Level) /\ level' = v /\ UNCHANGED <<state, todo, may, forgotten, edits>>
  <2>1. todo' \in Seq(Range(Migrations)) /\ todo' = <<>>
    BY <1>1, <1>2 DEF SettingsInv, SettingsTypeOK
  <2> QED BY <1>1, <1>2, <2>1, MigrateKeeps
<1>3. CASE MigrateRaises(Level)
  BY <1>1, <1>3, MigrateRaisesKeeps
<1>4. CASE ~Moves(Level) /\ Assign(Level, v) /\ UNCHANGED level
  BY <1>1, <1>4, AssignKeeps DEF Quiet
<1> QED BY <1>2, <1>3, <1>4 DEF SetLogLevel

LEMMA SetLogLevelEndsKeeps ==
  ASSUME SettingsInv, SetLogLevelEnds
  PROVE  SettingsInv'
<1>1. level \in Value /\ Level \in Key /\ state = "up" /\ copy = None /\ Assign(Level, level) /\ level' = None
  BY SettingsAssumption DEF SetLogLevelEnds, SettingsInv, SettingsTypeOK, Survive, LevelUp
<1> QED BY <1>1, AssignKeeps

-----------------------------------------------------------------------------
(* The user, and the end of the daemon *)

LEMMA UserEditsKeeps ==
  ASSUME SettingsInv, NEW k \in Key, NEW v \in Value \cup {None}, UserEdits(k, v)
  PROVE  SettingsInv'
<1> DEFINE value == Lookup(localFile, userFile', k)
<1>1. /\ userFile' = [userFile EXCEPT ![k] = v]
      /\ may' = [may EXCEPT ![k] = IF Quiet /\ local[k] = localFile[k] THEN {value} ELSE @ \cup {value}]
      /\ UNCHANGED <<state, local, localFile, todo, copy, level, damaged, forgotten, faults>>
  BY DEF UserEdits
<1>2. edits' \in 0..MaxEdits
  BY SettingsAssumption DEF UserEdits, SettingsInv, SettingsTypeOK
<1>3. userFile' \in Config /\ \A x \in Key \ {k} : userFile'[x] = userFile[x]
  <2>1. userFile \in Config
    BY DEF SettingsInv, SettingsTypeOK
  <2> QED BY <1>1, <2>1 DEF Config
<1>4. value \in Value \cup {None}
  BY <1>3, LookupType DEF SettingsInv, SettingsTypeOK
<1>5. may \in [Key -> SUBSET (Value \cup {None})]
  BY DEF SettingsInv, SettingsTypeOK
<1>6. value = Lookup(localFile, userFile', k)
  OBVIOUS
<1> HIDE DEF value
<1>7. may' \in [Key -> SUBSET (Value \cup {None})]
  BY <1>1, <1>4, <1>5
<1>8. /\ value \in may'[k] /\ \A x \in Key \ {k} : may'[x] = may[x]
      /\ ~(Quiet /\ local[k] = localFile[k]) => may[k] \subseteq may'[k]
  BY <1>1, <1>5
<1>9. SettingsTypeOK'
  BY <1>1, <1>2, <1>3, <1>7 DEF SettingsInv, SettingsTypeOK
<1>10. LevelUp'
  BY <1>1 DEF SettingsInv, Survive, LevelUp
<1>11. MemorySurvives'
  <2> SUFFICES ASSUME ~damaged, state # "down", NEW x \in Key
               PROVE  /\ local[x] = None => localFile[x] = None
                      /\ local[x] # None => local[x] \in may'[x]
    BY <1>1 DEF MemorySurvives
  <2>1. /\ local[x] = None => localFile[x] = None
        /\ local[x] # None => local[x] \in may[x]
    BY DEF SettingsInv, Survive, MemorySurvives
  <2>2. CASE x = k /\ Quiet /\ local[k] = localFile[k]
    BY <1>6, <1>8, <2>1, <2>2 DEF Lookup
  <2> QED BY <1>8, <2>1, <2>2
<1>12. CopySurvives'
  <2> SUFFICES ASSUME ~damaged, copy # None, NEW x \in Key
               PROVE  Lookup(localFile, copy, x) \in may'[x]
    BY <1>1 DEF CopySurvives, Lookup
  <2>1. Lookup(localFile, copy, x) \in may[x]
    BY DEF SettingsInv, Survive, CopySurvives
  <2>2. may[x] \subseteq may'[x]
    BY <1>8 DEF Quiet
  <2> QED BY <2>1, <2>2
<1>13. OptionsSurvive'
  <2> SUFFICES ASSUME ~damaged, NEW x \in Key
               PROVE  Lookup(localFile, userFile', x) \in may'[x]
    BY <1>1 DEF OptionsSurvive, AfterRestart, Lookup
  <2>1. CASE x = k
    BY <1>6, <1>8, <2>1
  <2>2. CASE x # k
    BY <1>3, <1>8, <2>2 DEF SettingsInv, Survive, OptionsSurvive, AfterRestart, Lookup
  <2> QED BY <2>1, <2>2
<1> QED BY <1>9, <1>10, <1>11, <1>12, <1>13 DEF SettingsInv, Survive

LEMMA StopsKeeps ==
  ASSUME SettingsInv, Shutdown \/ Crash \/ CrashInWrite
  PROVE  SettingsInv'
<1>1. /\ state' = "down" /\ local' = Blank /\ todo' = <<>> /\ copy' = None /\ level' = None
      /\ forgotten' = (forgotten \/ local # localFile) /\ UNCHANGED <<may, edits>>
  BY DEF Shutdown, Crash, CrashInWrite, Stops
<1>2. forgotten' \in BOOLEAN
  BY <1>1 DEF SettingsInv, SettingsTypeOK
<1>3. faults' \in 0..MaxFaults
  BY FaultType DEF Shutdown, Crash, CrashInWrite, SettingsInv, SettingsTypeOK
<1>4. CASE UNCHANGED <<localFile, userFile, damaged>>
  <2>1. {local', localFile', userFile'} \subseteq Config /\ damaged' \in BOOLEAN
    BY <1>1, <1>4, BlankType DEF SettingsInv, SettingsTypeOK
  <2> QED BY <1>1, <1>2, <1>3, <1>4, <2>1, EndsKeeps
<1>5. CASE CrashInWrite
  <2>1. damaged' = TRUE /\ {local', localFile', userFile'} \subseteq Config
    BY <1>1, <1>5, BlankType DEF CrashInWrite, SettingsInv, SettingsTypeOK
  <2> QED BY <1>1, <1>2, <1>3, <2>1, EndsKeeps
<1> QED BY <1>4, <1>5 DEF Shutdown, Crash

-----------------------------------------------------------------------------
(* The invariance *)

LEMMA SettingsInitInv == SettingsInit => SettingsInv
<1> SUFFICES ASSUME SettingsInit PROVE SettingsInv
  OBVIOUS
<1>1. SettingsTypeOK
  <2>1. userFile \in Config
    BY SettingsAssumption DEF SettingsInit, Config
  <2>2. may \in [Key -> SUBSET (Value \cup {None})]
    BY <2>1, BlankType, LookupType DEF SettingsInit
  <2>3. <<>> \in Seq(Range(Migrations)) /\ edits \in 0..MaxEdits /\ faults \in 0..MaxFaults
    BY SettingsAssumption DEF SettingsInit
  <2> QED BY <2>1, <2>2, <2>3, BlankType DEF SettingsInit, SettingsTypeOK
<1>2. Survive
  BY DEF SettingsInit, Survive, LevelUp, MemorySurvives, CopySurvives, OptionsSurvive, AfterRestart
<1> QED BY <1>1, <1>2 DEF SettingsInv

LEMMA StutterKeeps ==
  ASSUME SettingsInv, UNCHANGED svars
  PROVE  SettingsInv'
<1>1. SettingsTypeOK'
  BY DEF SettingsInv, SettingsTypeOK, svars
<1>2. Survive'
  BY DEF SettingsInv, Survive, LevelUp, MemorySurvives, CopySurvives, OptionsSurvive, AfterRestart, Lookup, svars
<1> QED BY <1>1, <1>2 DEF SettingsInv

LEMMA SettingsNextInv == SettingsInv /\ [SettingsNext]_svars => SettingsInv'
<1> SUFFICES ASSUME SettingsInv, [SettingsNext]_svars PROVE SettingsInv'
  OBVIOUS
<1>1. CASE \/ \E k \in Options, v \in Choice : Set(k, v)
           \/ \E v \in Choice : SetLogLevel(v)
           \/ SetLogLevelEnds \/ MigrateEnds \/ MigrateEndRaises
  BY <1>1, SetKeeps, SetLogLevelKeeps, SetLogLevelEndsKeeps, MigrateEndsKeeps, MigrateEndRaisesKeeps
<1>2. CASE Start \/ Upgrade \/ Upgraded
  BY <1>2, StartKeeps, UpgradeKeeps
<1>3. CASE \E k \in Options \cup Range(Migrations) \cup {Level}, v \in Choice \cup {None} : UserEdits(k, v)
  <2>1. PICK k \in Key, v \in Value \cup {None} : UserEdits(k, v)
    BY <1>3, KeyType, SettingsAssumption
  <2> QED BY <2>1, UserEditsKeeps
<1>4. CASE Shutdown \/ Crash \/ CrashInWrite
  BY <1>4, StopsKeeps
<1>5. CASE UNCHANGED svars
  BY <1>5, StutterKeeps
<1> QED BY <1>1, <1>2, <1>3, <1>4, <1>5 DEF SettingsNext

\* An option that was set, or edited by the user, is what the next daemon
\* finds, unless a file was truncated: also when the two writes that move it
\* are cut apart.
THEOREM SettingsCorrect == SettingsSpec => [](SettingsTypeOK /\ OptionsSurvive)
<1>1. SettingsInv => SettingsTypeOK /\ OptionsSurvive
  BY DEF SettingsInv, Survive
<1> QED BY <1>1, SettingsInitInv, SettingsNextInv, PTL DEF SettingsSpec
=============================================================================
