------------------------------- MODULE Journal -------------------------------
(***************************************************************************)
(* The journal helper (steamos_log_submitter/helpers/journal.py).  A        *)
(* collection reads what systemd logged about units that failed, from where *)
(* the last one stopped, and then, unit by unit, what the failed            *)
(* invocations of the unit logged, from where the last one stopped, into    *)
(* one pending file per invocation; first for the system, then for the      *)
(* user.  The cursors are kept in the data file of the helper.              *)
(*                                                                         *)
(* Each action of a collection goes from one suspension to the next; it is  *)
(* suspended only while journalctl runs.  A round collects and then         *)
(* submits; the D-Bus method Collect takes no lock and collects beside it.  *)
(* A cursor is a position in the journal, 0 stands for None.  The window of *)
(* 30 days of the first listing holds the whole journal.                    *)
(***************************************************************************)
EXTENDS Naturals, Sequences, FiniteSetsExt

CONSTANTS Invocation, Unit,
          Setups,         \* the units that invocations may be of, and that may be the
                          \* user's, and the scopes that may be busy
          None, Torn,
          MaxEntries,     \* bound on the length of the journal
          MaxFaults,      \* bound on crashes and failed reads and writes
          MaxCalls        \* bound on calls of the D-Bus method Collect

Scope == {"system", "user"}
Collector == {"round", "dbus"}
Position == 1..MaxEntries

ASSUME JournalAssumption == /\ Setups \subseteq [unitOf : [Invocation -> Unit], users : SUBSET Unit, busy : SUBSET Scope]
                            /\ Unit \cap Scope = {}
                            /\ \A S \in SUBSET Position : S \notin {None, Torn}
                            /\ Torn \notin [Scope \cup Unit -> 0..MaxEntries]
                            /\ {MaxEntries, MaxFaults, MaxCalls} \subseteq Nat

VARIABLES
  unitOf,         \* the unit of each invocation
  users,          \* the units of the user's service manager
  busy,           \* the scopes whose service manager logs other things all the time
  journal,        \* entries: what an invocation logged, or that it failed
  file,           \* of each invocation in pending: the entries in it, Torn or None
  uploaded,       \* the entries of each invocation that were moved to uploaded
  received,       \* the entries that the server has
  sending,        \* the file that is being submitted, as it was when read
  memory, dirty, disk,                          \* the cursors
  pc, scope, unit, cursor, failed, todo,        \* the local variables of collect
  gone,           \* history: entries that were given up
  unread,         \* history: entries that a failed journalctl kept back
  twice,          \* history: entries that were collected again
  overlapped, crashed, faults, calls

filevars == <<file, uploaded, received, sending>>
data == <<memory, dirty, disk>>
locals == <<pc, scope, unit, cursor, failed, todo>>
history == <<gone, unread, twice, overlapped, crashed, faults, calls>>
setup == <<unitOf, users, busy>>
vars == <<setup, journal, filevars, data, locals, history>>

NoCursors == [k \in Scope \cup Unit |-> 0]

Data == INSTANCE DataStore WITH Empty <- NoCursors

Cursor == 0..Len(journal)

JournalOK ==
  /\ [unitOf |-> unitOf, users |-> users, busy |-> busy] \in Setups
  /\ journal \in Seq([invocation : Invocation, failure : BOOLEAN])
  /\ Len(journal) <= MaxEntries

FilesOK ==
  /\ file \in [Invocation -> (SUBSET DOMAIN journal) \cup {None, Torn}]
  /\ uploaded \in [Invocation -> SUBSET DOMAIN journal]
  /\ received \subseteq DOMAIN journal
  /\ sending \in {None} \cup [invocation : Invocation, entries : SUBSET DOMAIN journal]

DataOK ==
  /\ memory \in [Scope \cup Unit -> Cursor] \cup {Torn}
  /\ disk \in [Scope \cup Unit -> Cursor] \cup {Torn}
  /\ dirty \in BOOLEAN

LocalsOK ==
  /\ pc \in [Collector -> {"idle", "listing", "reading"}]
  /\ scope \in [Collector -> Scope] /\ unit \in [Collector -> Unit \cup {None}]
  /\ cursor \in [Collector -> Cursor]
  /\ failed \in [Collector -> SUBSET Invocation] /\ todo \in [Collector -> SUBSET Unit]

HistoryOK ==
  /\ {gone, unread, twice} \subseteq SUBSET DOMAIN journal
  /\ {overlapped, crashed} \subseteq BOOLEAN /\ faults \in 0..MaxFaults /\ calls \in 0..MaxCalls

TypeOK == JournalOK /\ FilesOK /\ DataOK /\ LocalsOK /\ HistoryOK

Each(v) == [c \in Collector |-> v]

Init == /\ \E u \in Setups : unitOf = u.unitOf /\ users = u.users /\ busy = u.busy
        /\ journal = <<>>
        /\ file = [i \in Invocation |-> None] /\ uploaded = [i \in Invocation |-> {}]
        /\ received = {} /\ sending = None
        /\ Data!Init
        /\ pc = Each("idle") /\ scope = Each("system") /\ unit = Each(None)
        /\ cursor = Each(0) /\ failed = Each({}) /\ todo = Each({})
        /\ gone = {} /\ unread = {} /\ twice = {} /\ overlapped = FALSE /\ crashed = FALSE /\ faults = 0 /\ calls = 0

Fault(happens) == /\ happens => faults < MaxFaults
                  /\ faults' = IF happens THEN faults + 1 ELSE faults

-----------------------------------------------------------------------------
(* What journalctl shows *)

UnitsOf(s) == IF s = "user" THEN users ELSE Unit \ users

\* After the cursor, up to the end of the output
After(c, end) == {p \in DOMAIN journal : cursor[c] < p /\ p <= end}

Of(p, units) == unitOf[journal[p].invocation] \in units

\* What init.scope logged of the failures of units, or, the user's service
\* manager and its units together, of theirs.
Listing(c, end) ==
  {p \in After(c, end) : /\ Of(p, UnitsOf(scope[c]))
                         /\ scope[c] = "user" \/ journal[p].failure}

Failures(c, end) == {p \in Listing(c, end) : journal[p].failure}

\* The lines of the unit, whichever invocation logged them.
Lines(c, end) == {p \in After(c, end) : ~journal[p].failure /\ Of(p, {unit[c]})}

\* journalctl shows also what systemd said of the unit; or, for a unit of the
\* user, everything.
Shown(c, end) == {p \in After(c, end) : scope[c] = "user" \/ Of(p, {unit[c]})}

\* read_journal returns the last cursor that it saw, None when it saw nothing.
\* (Mutants: where it started; the one after the last.)
CursorNext(c, seen) == IF seen = {} THEN 0 ELSE Max(seen) + 1
CursorKept(c, seen) == IF seen = {} THEN cursor[c] ELSE Max(seen)
CursorAfter(c, seen) == IF seen = {} THEN 0 ELSE Max(seen)

\* The output ends with the journal; journalctl may have failed to start,
\* which shows nothing.
Outputs == {Len(journal), 0}

-----------------------------------------------------------------------------
(* collect *)

Goto(c, l, s, u, from) == /\ pc' = [pc EXCEPT ![c] = l]
                          /\ scope' = [scope EXCEPT ![c] = s]
                          /\ unit' = [unit EXCEPT ![c] = u]
                          /\ cursor' = [cursor EXCEPT ![c] = from]

\* The next unit that failed, or the user's, or the end of collect; m is what
\* the cursors are by now, and invocations those that failed.
Ends(c, units) == units = {} /\ scope[c] = "user"

\* (Mutant: the cursors are written before a unit is read.)
ProceedWriting(c, units, invocations, m, assigned) ==
  \/ \E u \in units : /\ Goto(c, "reading", scope[c], u, m[u])
                      /\ todo' = [todo EXCEPT ![c] = units \ {u}]
                      /\ failed' = [failed EXCEPT ![c] = invocations]
                      /\ Data!SetItemsAndWrite(m, assigned) /\ ~Data!WriteFails
  \/ /\ units = {} /\ scope[c] = "system"
     /\ Goto(c, "listing", "user", None, m["user"])
     /\ todo' = [todo EXCEPT ![c] = {}] /\ failed' = [failed EXCEPT ![c] = {}]
     /\ Data!SetItems(m, assigned)
  \/ /\ Ends(c, units)
     /\ Goto(c, "idle", "system", None, 0)
     /\ todo' = [todo EXCEPT ![c] = {}] /\ failed' = [failed EXCEPT ![c] = {}]
     /\ Data!SetItemsAndWrite(m, assigned)

Proceed(c, units, invocations, m, assigned) ==
  \/ \E u \in units : /\ Goto(c, "reading", scope[c], u, m[u])
                      /\ todo' = [todo EXCEPT ![c] = units \ {u}]
                      /\ failed' = [failed EXCEPT ![c] = invocations]
                      /\ Data!SetItems(m, assigned)
  \/ /\ units = {} /\ scope[c] = "system"
     /\ Goto(c, "listing", "user", None, m["user"])
     /\ todo' = [todo EXCEPT ![c] = {}] /\ failed' = [failed EXCEPT ![c] = {}]
     /\ Data!SetItems(m, assigned)
  \/ /\ Ends(c, units)
     /\ Goto(c, "idle", "system", None, 0)
     /\ todo' = [todo EXCEPT ![c] = {}] /\ failed' = [failed EXCEPT ![c] = {}]
     /\ Data!SetItemsAndWrite(m, assigned)

\* A collection of a round begins after the submission of the one before.
Collect(c) ==
  /\ pc[c] = "idle" /\ Data!Loaded
  /\ c = "round" => sending = None
  /\ Goto(c, "listing", "system", None, memory["system"])
  /\ overlapped' = (overlapped \/ sending # None \/ \E d \in Collector : pc[d] # "idle")
  /\ calls' = IF c = "dbus" THEN calls + 1 ELSE calls
  /\ calls' <= MaxCalls
  /\ UNCHANGED <<journal, filevars, data, failed, todo, gone, unread, twice, crashed, faults>>

\* failed_units has returned.  The other things that were logged have no entry
\* here; they move the cursor to the end of the output.
Listed(c) ==
  /\ pc[c] = "listing"
  /\ \E end \in Outputs :
       LET seen == IF scope[c] \in busy THEN 1..end ELSE Listing(c, end)
           invocations == {journal[p].invocation : p \in Failures(c, end)}
           units == {unitOf[i] : i \in invocations}
       IN /\ Proceed(c, units, invocations, [memory EXCEPT ![scope[c]] = CursorAfter(c, seen)], TRUE)
          /\ Fault(end < Len(journal) \/ (Data!WriteFails /\ Ends(c, units)))
  /\ UNCHANGED <<journal, filevars, gone, unread, twice, overlapped, crashed, calls>>

\* What the read of a unit found for an invocation, and for which it found any
New(c, i) == {p \in Lines(c, Len(journal)) : journal[p].invocation = i}
Invocations(c) == {i \in failed[c] : New(c, i) # {}}

Content(i) == IF file[i] \in {None, Torn} THEN {} ELSE file[i]

\* Of those, what has been collected before
Again(c, i) == New(c, i) \cap (Content(i) \cup uploaded[i])

\* The files that were extended, and that were cut short.  (Mutant: the new
\* lines replace the file.)
FilesReplaced(c, done, cut) ==
  [i \in Invocation |-> IF i \in cut THEN Torn ELSE IF i \in done THEN New(c, i) ELSE file[i]]
Files(c, done, cut) ==
  [i \in Invocation |-> IF i \in cut THEN Torn
                        ELSE IF i \in done THEN Content(i) \cup New(c, i) ELSE file[i]]

\* read_journal found nothing of the failed invocations, or failed.  (Mutant:
\* the cursor, None when there was no entry, is stored nevertheless.)
StoresNothingCursor(c) == [memory EXCEPT ![unit[c]] = CursorAfter(c, Shown(c, Len(journal)))]
StoresNothing(c) == memory

NothingRead(c) ==
  /\ pc[c] = "reading"
  /\ \E end \in Outputs :
       /\ end > 0 => Invocations(c) = {}
       /\ Proceed(c, todo[c], failed[c], StoresNothing(c), FALSE)
       /\ unread' = IF end = 0 THEN unread \cup UNION {New(c, i) : i \in failed[c]} ELSE unread
       /\ Fault(end < Len(journal) \/ (Data!WriteFails /\ Ends(c, todo[c])))
  /\ UNCHANGED <<journal, filevars, gone, twice, overlapped, crashed, calls>>

\* It found some.  Lines of other invocations are passed over, and so are
\* those whose file could not be opened or written.
Stored(c) ==
  /\ pc[c] = "reading" /\ Invocations(c) # {}
  /\ \E done \in SUBSET Invocations(c) : \E cut \in SUBSET (Invocations(c) \ done) :
       LET lines == Lines(c, Len(journal)) IN
       /\ file' = Files(c, done, cut)
       /\ gone' = gone \cup (lines \ UNION {New(c, i) : i \in done})
                       \cup UNION {Content(i) : i \in cut}
       /\ twice' = twice \cup UNION {Again(c, i) : i \in done}
       /\ Proceed(c, todo[c], failed[c], [memory EXCEPT ![unit[c]] = CursorAfter(c, Shown(c, Len(journal)))], TRUE)
       /\ Fault(done # Invocations(c) \/ (Data!WriteFails /\ Ends(c, todo[c])))
  /\ UNCHANGED <<journal, uploaded, received, sending, unread, overlapped, crashed, calls>>

-----------------------------------------------------------------------------
(* submit *)

\* (Mutant: the submission does not wait for the collection.)
CollectedAlways == TRUE
CollectedBefore == pc["round"] = "idle"

\* The file is read, whatever is in it, and sent.
Submit(i) ==
  /\ sending = None /\ file[i] # None /\ Data!Loaded
  /\ CollectedBefore
  /\ sending' = [invocation |-> i, entries |-> Content(i)]
  /\ overlapped' = (overlapped \/ pc["dbus"] # "idle")
  /\ UNCHANGED <<journal, file, uploaded, received, data, locals, gone, unread, twice, crashed, faults, calls>>

\* The file, as it is by now, is moved; or it stays for the next round.
Submitted ==
  /\ sending # None
  /\ sending' = None
  /\ LET i == sending.invocation IN
     \/ /\ received' = received \cup sending.entries
        /\ uploaded' = [uploaded EXCEPT ![i] = @ \cup Content(i)]
        /\ file' = [file EXCEPT ![i] = None]
     \/ UNCHANGED <<received, uploaded, file>>
  /\ UNCHANGED <<journal, data, locals, history>>

-----------------------------------------------------------------------------
(* The journal grows, the daemon dies and is started again *)

LogLine(i) == /\ Len(journal) < MaxEntries
              /\ journal' = Append(journal, [invocation |-> i, failure |-> FALSE])
              /\ UNCHANGED <<filevars, data, locals, history>>

LogFailure(i) == /\ Len(journal) < MaxEntries
                 /\ \A p \in DOMAIN journal : journal[p] # [invocation |-> i, failure |-> TRUE]
                 /\ journal' = Append(journal, [invocation |-> i, failure |-> TRUE])
                 /\ UNCHANGED <<filevars, data, locals, history>>

Dies == /\ Fault(TRUE) /\ crashed' = TRUE
        /\ pc' = Each("idle") /\ scope' = Each("system") /\ unit' = Each(None)
        /\ cursor' = Each(0) /\ failed' = Each({}) /\ todo' = Each({})
        /\ sending' = None
        /\ UNCHANGED <<journal, uploaded, received, unread, overlapped, calls>>

Crash == Dies /\ Data!Crash /\ UNCHANGED <<file, gone, twice>>

\* In the middle of a file of an invocation: what it had is lost.
CrashInFile(c) ==
  /\ pc[c] = "reading"
  /\ \E i \in Invocations(c) : \E done \in SUBSET (Invocations(c) \ {i}) :
       /\ file' = Files(c, done, {i})
       /\ gone' = gone \cup Content(i)
       /\ twice' = twice \cup UNION {Again(c, j) : j \in done}
  /\ Dies /\ Data!Crash

\* In the middle of the data file, when collect has written the others
CrashInData(c) ==
  /\ \/ pc[c] = "listing" /\ Ends(c, {unitOf[journal[p].invocation] : p \in Failures(c, Len(journal))})
        /\ UNCHANGED <<file, twice>>
     \/ pc[c] = "reading" /\ Ends(c, todo[c])
        /\ file' = Files(c, Invocations(c), {})
        /\ twice' = twice \cup UNION {Again(c, i) : i \in Invocations(c)}
  /\ Dies /\ Data!CrashInWrite /\ UNCHANGED gone

-----------------------------------------------------------------------------

CollectorStep(c) == Listed(c) \/ NothingRead(c) \/ Stored(c)

Step == \/ \E c \in Collector : Collect(c) \/ CollectorStep(c) \/ CrashInFile(c) \/ CrashInData(c)
        \/ \E i \in Invocation : Submit(i) \/ LogLine(i) \/ LogFailure(i)
        \/ Submitted \/ Crash

Next == Step /\ UNCHANGED setup

Spec == Init /\ [][Next]_vars

\* Rounds come again and again; journalctl and the server answer.
Fairness == /\ SF_vars(Collect("round") /\ UNCHANGED setup)
            /\ \A c \in Collector : WF_vars(CollectorStep(c) /\ UNCHANGED setup)
            /\ WF_vars(Submitted /\ UNCHANGED setup)

FairSpec == Spec /\ Fairness

-----------------------------------------------------------------------------
(* Properties *)

IsLine(p) == ~journal[p].failure

Collected(p) ==
  /\ p \in DOMAIN journal /\ IsLine(p)
  /\ LET i == journal[p].invocation IN p \in Content(i) \cup uploaded[i]

FailedAfter(p) == \E q \in DOMAIN journal :
                    p < q /\ journal[q] = [invocation |-> journal[p].invocation, failure |-> TRUE]

\* The cursors keep a line from being collected twice, though the listing goes
\* back to the beginning whenever it found nothing new and files are extended
\* from one collection to the next; unless collections overlap, or a crash
\* takes the cursors back behind the files.
CollectedOnce ==
  ~overlapped /\ ~crashed => twice = {}

\* The cursor of a unit is never ahead of the files, in memory or on disk: no
\* crash, failed read or overlap makes a line disappear, only what gone has.
CursorsBehindFiles ==
  \A m \in {memory, disk} : m # Torn =>
    \A p \in DOMAIN journal :
      (IsLine(p) /\ p <= m[unitOf[journal[p].invocation]]) => (Collected(p) \/ p \in gone)

\* What was moved to uploaded is what the server received, unless Collect
\* extended the file while it was being sent.
UploadedWhole == ~overlapped => \A i \in Invocation : uploaded[i] \subseteq received

\* What an invocation logged before it failed gets into a file, though the
\* failure is passed over before its lines are read, and the cursor is lost by
\* a listing that finds nothing new: when the daemon dies in between, the
\* failure is found again.  Only a journalctl that failed keeps lines back for
\* good, a file that was cut short, or a Collect call that wrote the cursor of a
\* round that was still reading when the daemon died.
FailuresCollected ==
  \A p \in Position :
    (p \in DOMAIN journal /\ IsLine(p) /\ FailedAfter(p))
      ~> (Collected(p) \/ p \in gone \cup unread \/ (overlapped /\ crashed) \/ memory = Torn)
=============================================================================
