------------------------------ MODULE DataStore ------------------------------
(***************************************************************************)
(* The data file of one helper (steamos_log_submitter/data.py): a           *)
(* dictionary in memory and the JSON file it is loaded from once, when the  *)
(* daemon starts, and written to whole, in place.  A file that was cut      *)
(* short is Torn; so is a dictionary that could not be loaded from it.      *)
(***************************************************************************)
CONSTANTS Torn,
          Empty      \* the dictionary without a key set, and a missing file

VARIABLES memory, dirty, disk

Init == memory = Empty /\ dirty = FALSE /\ disk = Empty

\* The dictionary becomes m; assigned tells whether a key was assigned to.
SetItems(m, assigned) == memory' = m /\ dirty' = (dirty \/ assigned) /\ UNCHANGED disk

\* The same, and the write() that follows: it returns when nothing was
\* assigned; open truncates the file, and dump may fail after that.
SetItemsAndWrite(m, assigned) ==
  /\ memory' = m
  /\ IF dirty \/ assigned
       THEN \/ disk' = m /\ dirty' = FALSE
            \/ disk' \in {disk, Torn} /\ dirty' = TRUE
       ELSE UNCHANGED <<dirty, disk>>

WriteFails == dirty'

\* The process dies in write().
CrashInWrite == disk' = Torn /\ memory' = Torn /\ dirty' = FALSE

\* The next process loads the file.  A torn one raises JSONDecodeError, which
\* is none of the exceptions that the loader catches: there is no dictionary,
\* and every call of get_data raises again.
Crash == memory' = disk /\ dirty' = FALSE /\ UNCHANGED disk

Loaded == memory # Torn
=============================================================================
