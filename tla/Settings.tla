------------------------------ MODULE Settings ------------------------------
(***************************************************************************)
(* The options (steamos_log_submitter/config.py) and what writes them.  A   *)
(* value is looked up in the local file, which is the daemon's own, then in *)
(* the user's, which its owner may edit at any time, then in the base.      *)
(* Files are truncated and rewritten in place, and are too small to reach   *)
(* the disk in parts.  When the daemon starts it moves old options from the *)
(* user's file to the local one, by two writes.                             *)
(*                                                                         *)
(* No action of the daemon is suspended; a write may fail, the process may  *)
(* die, and the user may edit the file, between two steps.                  *)
(***************************************************************************)
EXTENDS Naturals, Sequences, SequencesExt

CONSTANTS Key, Value, None,
          Base,           \* the shipped configuration
          Migrations,     \* the keys that upgrade moves
          Level,          \* the key that set_log_level moves
          Options,        \* the keys with a setter of the daemon or a helper
          Choice,         \* the values that they, or the user, may give
          UserFiles,      \* what the user's file may hold at first
          MaxEdits,       \* bound on edits of the user's file
          MaxFaults       \* bound on crashes and failed writes

ASSUME SettingsAssumption == /\ Base \in [Key -> Value \cup {None}] /\ None \notin Value
                             /\ Migrations \in Seq(Key) /\ Level \in Key
                             /\ Options \subseteq Key /\ Choice \subseteq Value
                             /\ UserFiles \subseteq [Key -> Value \cup {None}]
                             /\ {MaxEdits, MaxFaults} \subseteq Nat

VARIABLES
  state,        \* "down", "upgrading" or "up"
  local,        \* local_config
  localFile, userFile,
  todo,         \* the keys that upgrade has left
  copy,         \* the user's file that migrate_key is about to write, or None
  level,        \* what set_log_level is about to set after that, or None
  may,          \* history: the values that each key may have, after a restart
  damaged,      \* history: a file was truncated and not written
  forgotten,    \* history: the daemon ended with values that were in no file
  edits, faults

svars == <<state, local, localFile, userFile, todo, copy, level, may, damaged, forgotten, edits, faults>>

Config == [Key -> Value \cup {None}]
Blank == [k \in Key |-> None]

SettingsTypeOK ==
  /\ state \in {"down", "upgrading", "up"}
  /\ {local, localFile, userFile} \subseteq Config
  /\ copy \in Config \cup {None} /\ level \in Value \cup {None}
  /\ todo \in Seq(Range(Migrations)) /\ (state # "upgrading" => todo = <<>>)
  /\ may \in [Key -> SUBSET (Value \cup {None})] /\ {damaged, forgotten} \subseteq BOOLEAN
  /\ edits \in 0..MaxEdits /\ faults \in 0..MaxFaults

\* The value of a key in layers, the first that has it.
Lookup(first, second, k) == IF first[k] # None THEN first[k]
                            ELSE IF second[k] # None THEN second[k] ELSE Base[k]

\* What a process that starts now would find
AfterRestart(k) == Lookup(localFile, userFile, k)

SettingsInit ==
  /\ state = "down" /\ local = Blank /\ localFile = Blank
  /\ userFile \in UserFiles
  /\ todo = <<>> /\ copy = None /\ level = None
  /\ may = [k \in Key |-> {Lookup(Blank, userFile, k)}]
  /\ damaged = FALSE /\ forgotten = FALSE /\ edits = 0 /\ faults = 0

Fault(happens) == /\ happens => faults < MaxFaults
                  /\ faults' = IF happens THEN faults + 1 ELSE faults

\* No write is under way.
Quiet == copy = None /\ level = None

-----------------------------------------------------------------------------
(* write_config *)

Writes(new) == localFile' = new /\ Fault(FALSE) /\ UNCHANGED damaged

\* open may fail, or the write of the file that it truncated.
WriteFails == /\ Fault(TRUE)
              /\ \/ UNCHANGED <<localFile, damaged>>
                 \/ localFile' = Blank /\ damaged' = TRUE

-----------------------------------------------------------------------------
(* Setters: enable, enable_collect, newest, last_trigger and so on *)

\* A value that could not be written is in force until the daemon ends, and
\* gets into the file with the next one that is.
Assign(k, v) ==
  /\ local' = [local EXCEPT ![k] = v]
  /\ \/ Writes(local') /\ may' = [may EXCEPT ![k] = {v}]
     \/ WriteFails /\ may' = [may EXCEPT ![k] = @ \cup {v}]
  /\ UNCHANGED <<state, userFile, todo, copy, forgotten, edits>>

Set(k, v) == state = "up" /\ Quiet /\ Assign(k, v) /\ UNCHANGED level

-----------------------------------------------------------------------------
(* migrate_key, upgrade and set_log_level *)

\* (Mutant: whatever the local file has.)
MovesAlways(k) == userFile[k] # None
Moves(k) == userFile[k] # None /\ local[k] = None

\* The two writes.  The user's file is as it was when it was read, without
\* the key.  (Mutant: the second comes first.)
MigrateSwapped(k) ==
  /\ Moves(k)
  /\ local' = [local EXCEPT ![k] = userFile[k]]
  /\ userFile' = [userFile EXCEPT ![k] = None] /\ copy' = userFile'
  /\ UNCHANGED <<localFile, damaged, faults>>

Migrate(k) ==
  /\ Moves(k)
  /\ local' = [local EXCEPT ![k] = userFile[k]]
  /\ copy' = [userFile EXCEPT ![k] = None] /\ UNCHANGED userFile
  /\ Writes(local')

MigrateEnds ==
  /\ copy # None
  /\ userFile' = copy /\ copy' = None
  /\ UNCHANGED <<state, local, localFile, todo, level, may, damaged, forgotten, edits, faults>>

\* An exception ends set_log_level, or the daemon that is starting.
Raises == /\ copy' = None /\ level' = None /\ todo' = <<>>
          /\ state' = IF state = "up" THEN "up" ELSE "down"
          /\ UNCHANGED <<may, forgotten, edits>>

MigrateRaises(k) ==
  /\ Moves(k) /\ WriteFails /\ Raises
  /\ local' = IF state = "up" THEN [local EXCEPT ![k] = userFile[k]] ELSE Blank
  /\ UNCHANGED userFile

MigrateEndRaises ==
  /\ copy # None /\ Fault(TRUE) /\ Raises
  /\ local' = IF state = "up" THEN local ELSE Blank
  /\ \/ UNCHANGED <<userFile, damaged>>
     \/ userFile' = Blank /\ damaged' = TRUE
  /\ UNCHANGED localFile

\* The daemon starts with what it finds in the files.
Start == /\ state = "down"
         /\ state' = "upgrading" /\ local' = localFile /\ todo' = Migrations
         /\ UNCHANGED <<localFile, userFile, copy, level, may, damaged, forgotten, edits, faults>>

Upgrade ==
  /\ state = "upgrading" /\ todo # <<>> /\ Quiet
  /\ \/ Migrate(Head(todo)) /\ todo' = Tail(todo) /\ UNCHANGED <<state, level, may, forgotten, edits>>
     \/ MigrateRaises(Head(todo))
     \/ /\ ~Moves(Head(todo)) /\ todo' = Tail(todo)
        /\ UNCHANGED <<state, local, localFile, userFile, copy, level, may, damaged, forgotten, edits, faults>>

\* The daemon serves when every key was moved.  (Mutant: any that is left is
\* skipped, as with a generator in place of the list.)
UpgradedAtOnce ==
  /\ state = "upgrading" /\ Quiet
  /\ state' = "up" /\ local' = localFile
  /\ UNCHANGED <<localFile, userFile, todo, copy, level, may, damaged, forgotten, edits, faults>>
Upgraded == /\ state = "upgrading" /\ todo = <<>> /\ Quiet
            /\ state' = "up" /\ local' = localFile
            /\ UNCHANGED <<localFile, userFile, todo, copy, level, may, damaged, forgotten, edits, faults>>

\* set_log_level moves the old level first, and then replaces it.
SetLogLevel(v) ==
  /\ state = "up" /\ Quiet
  /\ \/ Migrate(Level) /\ level' = v /\ UNCHANGED <<state, todo, may, forgotten, edits>>
     \/ MigrateRaises(Level)
     \/ ~Moves(Level) /\ Assign(Level, v) /\ UNCHANGED level

SetLogLevelEnds == /\ level # None /\ copy = None
                   /\ Assign(Level, level) /\ level' = None

-----------------------------------------------------------------------------
(* The user, and the end of the daemon *)

\* An edit counts unless the local file has the key, or the file is about to
\* be overwritten with what it was before.
UserEdits(k, v) ==
  /\ edits < MaxEdits /\ edits' = edits + 1
  /\ userFile' = [userFile EXCEPT ![k] = v]
  /\ LET value == Lookup(localFile, userFile', k)
     IN may' = [may EXCEPT ![k] = IF Quiet /\ local[k] = localFile[k] THEN {value} ELSE @ \cup {value}]
  /\ UNCHANGED <<state, local, localFile, todo, copy, level, damaged, forgotten, faults>>

Stops == /\ state # "down" /\ state' = "down" /\ local' = Blank
         /\ todo' = <<>> /\ copy' = None /\ level' = None
         /\ forgotten' = (forgotten \/ local # localFile)
         /\ UNCHANGED <<may, edits>>

Shutdown == /\ state = "up" /\ Quiet /\ Stops /\ Fault(FALSE)
            /\ UNCHANGED <<localFile, userFile, damaged>>

Crash == Stops /\ Fault(TRUE) /\ UNCHANGED <<localFile, userFile, damaged>>

\* The process dies between the truncation of a file and its write.
CrashInWrite ==
  /\ Stops /\ Fault(TRUE) /\ damaged' = TRUE
  /\ \/ copy # None /\ userFile' = Blank /\ UNCHANGED localFile
     \/ copy = None /\ localFile' = Blank /\ UNCHANGED userFile

-----------------------------------------------------------------------------

SettingsNext ==
  \/ \E k \in Options, v \in Choice : Set(k, v)
  \/ \E v \in Choice : SetLogLevel(v)
  \/ SetLogLevelEnds \/ MigrateEnds \/ MigrateEndRaises
  \/ Start \/ Upgrade \/ Upgraded
  \/ \E k \in Options \cup Range(Migrations) \cup {Level}, v \in Choice \cup {None} : UserEdits(k, v)
  \/ Shutdown \/ Crash \/ CrashInWrite

SettingsSpec == SettingsInit /\ [][SettingsNext]_svars

-----------------------------------------------------------------------------
(* Properties *)

\* An option that was set, or edited by the user, is the one that the next
\* daemon finds, wherever it is by then: moving it by two writes of two files
\* neither loses it nor brings back an older one when the daemon dies between
\* them or one of them fails.  Only a file that was truncated loses options.
OptionsSurvive == ~damaged => \A k \in Key : AfterRestart(k) \in may[k]
=============================================================================
