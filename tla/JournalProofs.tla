---------------------------- MODULE JournalProofs ----------------------------
(***************************************************************************)
(* What holds of the journal helper for any number of units, invocations,   *)
(* entries, crashes and calls: its type invariant, that no cursor is ahead  *)
(* of the files, that no line is collected twice, and that the server has   *)
(* all that was moved to uploaded.                                          *)
(***************************************************************************)
EXTENDS Journal, Maxima

Kept(p) == Collected(p) \/ p \in gone

\* Every line of unit u up to n is somewhere.
Behind(u, n) == \A p \in DOMAIN journal : IsLine(p) /\ Of(p, {u}) /\ p <= n => Kept(p)

\* A collection only runs on a dictionary that was loaded, and reads a unit.
Matched == \A c \in Collector : /\ pc[c] # "idle" => memory # Torn
                                /\ pc[c] = "reading" => unit[c] \in Unit

\* CursorsBehindFiles, and the same of the cursor that a read started from
StoredBehind == \A m \in {memory, disk} : m # Torn => \A u \in Unit : Behind(u, m[u])
ReadBehind == \A c \in Collector : pc[c] = "reading" => Behind(unit[c], cursor[c])
AllBehind == StoredBehind /\ ReadBehind

\* As long as no line is collected twice, one collection runs at a time, has
\* the cursor that is stored, and no file is ahead of that.
Once == ~overlapped /\ ~crashed =>
  /\ twice = {} /\ memory # Torn
  /\ \A c, d \in Collector : pc[c] # "idle" /\ pc[d] # "idle" => c = d
  /\ \A c \in Collector : pc[c] = "reading" => cursor[c] = memory[unit[c]]
  /\ \A i \in Invocation : \A p \in Content(i) \cup uploaded[i] :
       journal[p].invocation = i /\ p <= memory[unitOf[i]]

\* Nothing is collected while a file is sent, which therefore holds no more
\* than what is sent.
Whole == ~overlapped /\ sending # None =>
  /\ \A c \in Collector : pc[c] = "idle"
  /\ Content(sending.invocation) \subseteq sending.entries

\* The inductive invariant
IInv == TypeOK /\ Matched /\ AllBehind /\ Once /\ Whole /\ UploadedWhole

-----------------------------------------------------------------------------
(* The journal and the cursors *)

LEMMA SetupType ==
  ASSUME JournalOK
  PROVE  /\ unitOf \in [Invocation -> Unit] /\ users \subseteq Unit
         /\ DOMAIN journal = 1..Len(journal) /\ Len(journal) \in Nat
         /\ \A p \in DOMAIN journal : /\ journal[p].invocation \in Invocation
                                      /\ journal[p].failure \in BOOLEAN
<1> DEFINE u == [unitOf |-> unitOf, users |-> users, busy |-> busy]
<1>1. u \in [unitOf : [Invocation -> Unit], users : SUBSET Unit, busy : SUBSET Scope]
  BY JournalAssumption DEF JournalOK
<1>2. u.unitOf = unitOf /\ u.users = users
  OBVIOUS
<1>3. unitOf \in [Invocation -> Unit] /\ users \subseteq Unit
  BY <1>1, <1>2
<1> DEFINE Entry == [invocation : Invocation, failure : BOOLEAN]
<1>4. journal \in Seq(Entry)
  BY DEF JournalOK
<1>5. DOMAIN journal = 1..Len(journal) /\ Len(journal) \in Nat
  BY <1>4
<1>6. \A p \in DOMAIN journal : journal[p] \in Entry
  <2> HIDE DEF Entry
  <2> QED BY <1>4, <1>5
<1> QED BY <1>3, <1>5, <1>6

\* The cursor that a read of the journal returns is a position in it, behind
\* none that the read saw.
LEMMA CursorAfterType ==
  ASSUME JournalOK, NEW c \in Collector, NEW seen \in SUBSET DOMAIN journal
  PROVE  /\ CursorAfter(c, seen) \in Cursor
         /\ \A p \in seen : p <= CursorAfter(c, seen)
         /\ seen # {} => CursorAfter(c, seen) \in seen
<1>1. seen \subseteq 0..Len(journal) /\ Len(journal) \in Nat
  BY SetupType
<1>2. CASE seen = {}
  BY <1>1, <1>2 DEF CursorAfter, Cursor
<1>3. CASE seen # {}
  BY <1>1, <1>3, MaxExists DEF CursorAfter, Cursor
<1> QED BY <1>2, <1>3

LEMMA ListingType ==
  ASSUME JournalOK, LocalsOK, NEW c \in Collector, NEW end \in Outputs
  PROVE  /\ Listing(c, end) \subseteq DOMAIN journal /\ 1..end \subseteq DOMAIN journal
         /\ Failures(c, end) \subseteq DOMAIN journal
BY SetupType DEF Listing, Failures, After, Outputs

\* What a read stores of the lines that it found
LEMMA LinesType ==
  ASSUME JournalOK, LocalsOK, NEW c \in Collector
  PROVE  /\ Lines(c, Len(journal)) \subseteq Shown(c, Len(journal))
         /\ Shown(c, Len(journal)) \subseteq DOMAIN journal
         /\ \A i \in Invocation : New(c, i) \subseteq Lines(c, Len(journal))
         /\ Invocations(c) \subseteq Invocation
BY DEF LocalsOK, Lines, Shown, New, Invocations, After

LEMMA FilesType ==
  ASSUME JournalOK, LocalsOK, FilesOK, NEW c \in Collector,
         NEW done \in SUBSET Invocation, NEW cut \in SUBSET Invocation
  PROVE  Files(c, done, cut) \in [Invocation -> (SUBSET DOMAIN journal) \cup {None, Torn}]
<1>1. \A i \in Invocation : Content(i) \in SUBSET DOMAIN journal
  BY DEF FilesOK, Content
<1>2. \A i \in Invocation : New(c, i) \in SUBSET DOMAIN journal
  BY LinesType
<1>3. \A i \in Invocation : Content(i) \cup New(c, i) \in SUBSET DOMAIN journal
  BY <1>1, <1>2
<1>4. \A i \in Invocation : file[i] \in (SUBSET DOMAIN journal) \cup {None, Torn}
  BY DEF FilesOK
<1> QED BY <1>3, <1>4 DEF Files

-----------------------------------------------------------------------------
(* The steps of a collection from one unit to the next *)

\* The collection c goes on, the others stay where they are.
Moves(c, m) ==
  /\ LocalsOK'
  /\ memory' = m /\ disk' \in {m, disk, Torn} /\ dirty' \in BOOLEAN
  /\ pc'[c] = "reading" => unit'[c] \in Unit /\ cursor'[c] = m[unit'[c]]
  /\ \A d \in Collector \ {c} : pc'[d] = pc[d] /\ unit'[d] = unit[d] /\ cursor'[d] = cursor[d]

LEMMA ProceedMoves ==
  ASSUME LocalsOK, DataOK, NEW c \in Collector, NEW units \in SUBSET Unit,
         NEW invocations \in SUBSET Invocation, NEW m \in [Scope \cup Unit -> Cursor],
         NEW assigned \in BOOLEAN, journal' = journal,
         Proceed(c, units, invocations, m, assigned)
  PROVE  Moves(c, m)
<1>0. Cursor' = Cursor /\ 0 \in Cursor
  BY DEF Cursor, JournalOK
<1>1. memory' = m /\ disk' \in {m, disk, Torn} /\ dirty' \in BOOLEAN
  BY DEF Proceed, Data!SetItems, Data!SetItemsAndWrite, DataOK
<1>2. CASE \E u \in units : /\ Goto(c, "reading", scope[c], u, m[u])
                            /\ todo' = [todo EXCEPT ![c] = units \ {u}]
                            /\ failed' = [failed EXCEPT ![c] = invocations]
  BY <1>0, <1>1, <1>2 DEF Moves, LocalsOK, Goto
<1>3. CASE /\ \/ Goto(c, "listing", "user", None, m["user"])
              \/ Goto(c, "idle", "system", None, 0)
           /\ todo' = [todo EXCEPT ![c] = {}] /\ failed' = [failed EXCEPT ![c] = {}]
  BY <1>0, <1>1, <1>3 DEF Moves, LocalsOK, Goto, Scope
<1> QED BY <1>2, <1>3 DEF Proceed

-----------------------------------------------------------------------------
(* What steps do to the cursors *)

\* The journal is only appended to, and what was somewhere stays somewhere.
Keeps == /\ unitOf' = unitOf /\ JournalOK' /\ Len(journal) <= Len(journal')
         /\ \A p \in DOMAIN journal : journal'[p] = journal[p]
         /\ \A p \in DOMAIN journal : Kept(p) => Kept(p)'

LEMMA BehindStays ==
  ASSUME JournalOK, Keeps, NEW u \in Unit, NEW n \in Cursor, Behind(u, n)
  PROVE  Behind(u, n)'
<1>1. DOMAIN journal = 1..Len(journal) /\ DOMAIN journal' = 1..Len(journal')
      /\ Len(journal) \in Nat /\ Len(journal') \in Nat
  BY DEF JournalOK, Keeps
<1> SUFFICES ASSUME NEW p \in DOMAIN journal', IsLine(p)', Of(p, {u})', p <= n
             PROVE  Kept(p)'
  BY DEF Behind
<1>2. p \in DOMAIN journal
  BY <1>1 DEF Cursor
<1>3. IsLine(p) /\ Of(p, {u})
  BY <1>2 DEF Keeps, IsLine, Of
<1> QED BY <1>2, <1>3 DEF Behind, Keeps

\* A dictionary that is taken over, or lost, and collections that end
LEMMA StoredBehindStays ==
  ASSUME JournalOK, DataOK, Keeps, StoredBehind,
         memory' \in {memory, disk, Torn}, disk' \in {disk, Torn}
  PROVE  StoredBehind'
<1> SUFFICES ASSUME NEW m \in {memory', disk'}, m # Torn, NEW u \in Unit
             PROVE  Behind(u, m[u])'
  BY DEF StoredBehind
<1>1. m \in {memory, disk}
  OBVIOUS
<1>2. m[u] \in Cursor
  BY <1>1 DEF DataOK
<1> QED BY <1>1, <1>2, BehindStays DEF StoredBehind

LEMMA ReadBehindStays ==
  ASSUME JournalOK, LocalsOK, Matched, Keeps, ReadBehind,
         \A c \in Collector : pc'[c] = "reading" =>
           pc[c] = "reading" /\ unit'[c] = unit[c] /\ cursor'[c] = cursor[c]
  PROVE  ReadBehind'
<1> SUFFICES ASSUME NEW c \in Collector, pc'[c] = "reading"
             PROVE  Behind(unit[c], cursor[c])'
  BY DEF ReadBehind
<1>1. pc[c] = "reading" /\ unit'[c] = unit[c] /\ cursor'[c] = cursor[c]
  OBVIOUS
<1>2. PICK u \in Unit, n \in Cursor : u = unit[c] /\ n = cursor[c]
  BY <1>1 DEF Matched, LocalsOK
<1>3. Behind(u, n)'
  BY <1>1, <1>2, BehindStays DEF ReadBehind
<1> QED BY <1>1, <1>2, <1>3 DEF Behind, Of

\* A collection that goes on with the cursors m, all of them behind the files
LEMMA MovesBehind ==
  ASSUME JournalOK, DataOK, LocalsOK, Matched, Keeps, AllBehind,
         NEW c \in Collector, NEW m, Moves(c, m), \A u \in Unit : Behind(u, m[u])'
  PROVE  AllBehind'
<1>1. StoredBehind'
  <2> SUFFICES ASSUME NEW n \in {memory', disk'}, n # Torn, NEW u \in Unit
               PROVE  Behind(u, n[u])'
    BY DEF StoredBehind
  <2>1. CASE n = m
    BY <2>1
  <2>2. CASE n = disk
    <3>1. disk[u] \in Cursor /\ Behind(u, disk[u])
      BY <2>2 DEF DataOK, AllBehind, StoredBehind
    <3> QED BY <2>2, <3>1, BehindStays
  <2> QED BY <2>1, <2>2 DEF Moves
<1>2. ReadBehind'
  <2> SUFFICES ASSUME NEW d \in Collector, pc'[d] = "reading"
               PROVE  Behind(unit[d], cursor[d])'
    BY DEF ReadBehind
  <2>1. CASE d = c
    <3>1. PICK u \in Unit : u = unit'[c] /\ cursor'[c] = m[u]
      BY <2>1 DEF Moves
    <3>2. Behind(u, m[u])'
      OBVIOUS
    <3> QED BY <2>1, <3>1, <3>2 DEF Behind, Of
  <2>2. CASE d # c
    <3>1. pc[d] = "reading" /\ unit'[d] = unit[d] /\ cursor'[d] = cursor[d]
      BY <2>2 DEF Moves
    <3>2. PICK u \in Unit, n \in Cursor : u = unit[d] /\ n = cursor[d]
      BY <3>1 DEF Matched, LocalsOK
    <3>3. Behind(u, n)'
      BY <3>1, <3>2, BehindStays DEF AllBehind, ReadBehind
    <3> QED BY <3>1, <3>2, <3>3 DEF Behind, Of
  <2> QED BY <2>1, <2>2
<1> QED BY <1>1, <1>2 DEF AllBehind

-----------------------------------------------------------------------------
(* The steps of a collection *)

\* A dictionary is none that could not be loaded.
LEMMA DictionaryLoaded ==
  ASSUME JournalOK, NEW m \in [Scope \cup Unit -> Cursor]
  PROVE  m # Torn
<1>1. Cursor \subseteq 0..MaxEntries
  BY JournalAssumption DEF JournalOK, Cursor
<1>2. m \in [Scope \cup Unit -> 0..MaxEntries]
  BY <1>1
<1> QED BY <1>2, JournalAssumption

\* What each step of a running collection has to establish besides Once
LEMMA MovesKeeps ==
  ASSUME IInv, NEW c \in Collector, pc[c] # "idle", UNCHANGED <<setup, journal>>,
         NEW m \in [Scope \cup Unit -> Cursor], Moves(c, m),
         FilesOK', HistoryOK', Keeps, \A u \in Unit : Behind(u, m[u])',
         UNCHANGED <<uploaded, received, sending, overlapped>>
  PROVE  TypeOK' /\ Matched' /\ AllBehind' /\ Whole' /\ UploadedWhole'
<1>1. m # Torn
  BY DictionaryLoaded DEF IInv, TypeOK
<1>2. TypeOK'
  BY DEF IInv, TypeOK, JournalOK, DataOK, Moves, setup, Cursor
<1>3. Matched'
  BY <1>1 DEF IInv, Matched, Moves
<1>4. AllBehind'
  BY MovesBehind DEF IInv, TypeOK
<1>5. Whole' /\ UploadedWhole'
  BY DEF IInv, Whole, UploadedWhole
<1> QED BY <1>2, <1>3, <1>4, <1>5

\* And Once, when it stores no cursor of a unit
LEMMA MovesOnce ==
  ASSUME IInv, NEW c \in Collector, pc[c] # "idle", UNCHANGED <<setup, journal>>,
         NEW m \in [Scope \cup Unit -> Cursor], Moves(c, m),
         \A u \in Unit : m[u] = memory[u],
         UNCHANGED <<file, uploaded, twice, overlapped, crashed>>
  PROVE  Once'
<1> SUFFICES ASSUME ~overlapped, ~crashed PROVE Once'
  BY DEF Once
<1>1. \A d \in Collector : pc[d] # "idle" => d = c
  BY DEF IInv, Once
<1>2. \A d \in Collector : pc'[d] # "idle" => d = c
  BY <1>1 DEF Moves
<1>3. \A i \in Invocation : unitOf[i] \in Unit
  BY SetupType DEF IInv, TypeOK
<1>4. \A i \in Invocation : Content(i)' = Content(i)
  BY DEF Content
<1>5. \A d \in Collector : pc'[d] = "reading" => cursor'[d] = memory'[unit'[d]]
  BY <1>2 DEF Moves
<1>6. \A i \in Invocation : \A p \in Content(i)' \cup uploaded'[i] :
        journal'[p].invocation = i /\ p <= memory'[unitOf'[i]]
  BY <1>3, <1>4 DEF IInv, Once, Moves, setup
<1>7. m # Torn
  BY DictionaryLoaded DEF IInv, TypeOK
<1> QED BY <1>2, <1>5, <1>6, <1>7 DEF IInv, Once, Moves

\* A step that leaves the journal and the files alone keeps what there is.
LEMMA KeepsUnchanged ==
  ASSUME JournalOK, UNCHANGED <<setup, journal, file, uploaded, gone>>
  PROVE  Keeps
<1>1. \A p \in DOMAIN journal : Kept(p) => Kept(p)'
  BY DEF Kept, Collected, IsLine, Content
<1> QED BY <1>1, SetupType DEF Keeps, JournalOK, setup

\* A failed listing, or one that worked, moves the cursor of its scope only.
LEMMA ListedKeeps ==
  ASSUME IInv, NEW c \in Collector, Listed(c), UNCHANGED setup
  PROVE  IInv'
<1> USE DEF IInv, TypeOK
<1>1. pc[c] # "idle" /\ memory # Torn
  BY DEF Listed, Matched
<1>2. PICK end \in Outputs :
        LET seen == IF scope[c] \in busy THEN 1..end ELSE Listing(c, end)
            invocations == {journal[p].invocation : p \in Failures(c, end)}
            units == {unitOf[i] : i \in invocations}
        IN /\ Proceed(c, units, invocations, [memory EXCEPT ![scope[c]] = CursorAfter(c, seen)], TRUE)
           /\ Fault(end < Len(journal) \/ (Data!WriteFails /\ Ends(c, units)))
  BY DEF Listed
<1> DEFINE seen == IF scope[c] \in busy THEN 1..end ELSE Listing(c, end)
           invocations == {journal[p].invocation : p \in Failures(c, end)}
           units == {unitOf[i] : i \in invocations}
<1>3. invocations \subseteq Invocation /\ units \subseteq Unit /\ seen \subseteq DOMAIN journal
  BY SetupType, ListingType
<1>4. PICK m \in [Scope \cup Unit -> Cursor] :
        /\ m = [memory EXCEPT ![scope[c]] = CursorAfter(c, seen)]
        /\ \A u \in Unit : m[u] = memory[u]
  <2>1. PICK n \in Cursor : n = CursorAfter(c, seen)
    BY <1>3, CursorAfterType
  <2>2. scope[c] \in Scope /\ memory \in [Scope \cup Unit -> Cursor]
    BY <1>1 DEF LocalsOK, DataOK
  <2>3. \A u \in Unit : scope[c] # u
    BY <2>2, JournalAssumption
  <2>4. /\ [memory EXCEPT ![scope[c]] = n] \in [Scope \cup Unit -> Cursor]
        /\ \A u \in Unit : [memory EXCEPT ![scope[c]] = n][u] = memory[u]
    BY <2>2, <2>3
  <2> QED BY <2>1, <2>4
<1>5. /\ Proceed(c, units, invocations, m, TRUE)
      /\ Fault(end < Len(journal) \/ (Data!WriteFails /\ Ends(c, units)))
  BY <1>2, <1>4
<1> HIDE DEF units, invocations, seen
<1>6. UNCHANGED <<setup, journal, filevars, gone, unread, twice, overlapped, crashed, calls>>
  BY DEF Listed
<1>7. Moves(c, m)
  BY <1>3, <1>5, <1>6, ProceedMoves
<1>8. Keeps
  BY <1>6, KeepsUnchanged DEF filevars
<1>9. \A u \in Unit : Behind(u, m[u])'
  BY <1>1, <1>4, <1>8, BehindStays DEF AllBehind, StoredBehind
<1>10. FilesOK' /\ HistoryOK'
  <2>1. faults' \in 0..MaxFaults
    BY <1>5, JournalAssumption DEF Fault, HistoryOK
  <2> QED BY <1>6, <2>1 DEF FilesOK, HistoryOK, filevars
<1>11. TypeOK' /\ Matched' /\ AllBehind' /\ Whole' /\ UploadedWhole'
  BY <1>1, <1>6, <1>7, <1>8, <1>9, <1>10, MovesKeeps DEF filevars
<1>12. Once'
  BY <1>1, <1>4, <1>6, <1>7, MovesOnce DEF filevars
<1> QED BY <1>11, <1>12

\* A read that found nothing, or failed, stores no cursor.
LEMMA NothingReadKeeps ==
  ASSUME IInv, NEW c \in Collector, NothingRead(c), UNCHANGED setup
  PROVE  IInv'
<1> USE DEF IInv, TypeOK
<1>1. pc[c] # "idle" /\ memory # Torn
  BY DEF NothingRead, Matched
<1>2. PICK m \in [Scope \cup Unit -> Cursor] : m = memory
  BY <1>1 DEF DataOK
<1>3. PICK end \in Outputs :
        /\ Proceed(c, todo[c], failed[c], m, FALSE)
        /\ unread' = IF end = 0 THEN unread \cup UNION {New(c, i) : i \in failed[c]} ELSE unread
        /\ Fault(end < Len(journal) \/ (Data!WriteFails /\ Ends(c, todo[c])))
  BY <1>2 DEF NothingRead, StoresNothing
<1>4. UNCHANGED <<setup, journal, filevars, gone, twice, overlapped, crashed, calls>>
  BY DEF NothingRead
<1>5. todo[c] \subseteq Unit /\ failed[c] \subseteq Invocation
  BY DEF LocalsOK
<1>6. Moves(c, m)
  BY <1>3, <1>4, <1>5, ProceedMoves
<1>7. Keeps
  BY <1>4, KeepsUnchanged DEF filevars
<1>8. \A u \in Unit : Behind(u, m[u])'
  BY <1>1, <1>2, <1>7, BehindStays DEF AllBehind, StoredBehind
<1>9. FilesOK' /\ HistoryOK'
  <2>1. faults' \in 0..MaxFaults
    BY <1>3, JournalAssumption DEF Fault, HistoryOK
  <2>2. unread' \subseteq DOMAIN journal
    <3>1. \A i \in failed[c] : New(c, i) \subseteq DOMAIN journal
      BY <1>5, LinesType
    <3> QED BY <1>3, <3>1 DEF HistoryOK
  <2> QED BY <1>4, <2>1, <2>2 DEF FilesOK, HistoryOK, filevars
<1>10. TypeOK' /\ Matched' /\ AllBehind' /\ Whole' /\ UploadedWhole'
  BY <1>1, <1>4, <1>6, <1>7, <1>8, <1>9, MovesKeeps DEF filevars
<1>11. Once'
  BY <1>1, <1>2, <1>4, <1>6, MovesOnce DEF filevars
<1> QED BY <1>10, <1>11

\* What is in a file after a read
LEMMA ContentAfter ==
  ASSUME JournalOK, FilesOK, LocalsOK, NEW c \in Collector,
         NEW done \in SUBSET Invocation, NEW cut \in SUBSET Invocation, done \cap cut = {},
         file' = Files(c, done, cut), NEW i \in Invocation
  PROVE  Content(i)' = IF i \in cut THEN {} ELSE IF i \in done THEN Content(i) \cup New(c, i)
                                                               ELSE Content(i)
<1>1. \A S \in SUBSET DOMAIN journal : S \notin {None, Torn}
  <2>1. DOMAIN journal \subseteq Position
    BY JournalAssumption DEF JournalOK, Position
  <2> QED BY <2>1, JournalAssumption
<1>2. New(c, i) \subseteq DOMAIN journal /\ Content(i) \subseteq DOMAIN journal
  BY LinesType DEF FilesOK, Content
<1>3. file'[i] = IF i \in cut THEN Torn ELSE IF i \in done THEN Content(i) \cup New(c, i) ELSE file[i]
  BY DEF Files
<1>4. Content(i) \cup New(c, i) \in SUBSET DOMAIN journal
  BY <1>2
<1> QED BY <1>1, <1>3, <1>4 DEF Content

\* A read that wrote the files of done and cut those of cut short keeps what
\* there was, if gone has the rest.
LEMMA KeepsFiles ==
  ASSUME JournalOK, FilesOK, LocalsOK, NEW c \in Collector,
         NEW done \in SUBSET Invocation, NEW cut \in SUBSET Invocation, done \cap cut = {},
         file' = Files(c, done, cut), UNCHANGED <<setup, journal, uploaded>>,
         gone \subseteq gone', \A i \in cut : Content(i) \subseteq gone'
  PROVE  Keeps
<1>1. \A p \in DOMAIN journal : Kept(p) => Kept(p)'
  <2> SUFFICES ASSUME NEW p \in DOMAIN journal, Kept(p) PROVE Kept(p)'
    OBVIOUS
  <2>1. PICK i \in Invocation : i = journal[p].invocation
    BY SetupType
  <2>2. Content(i) \subseteq Content(i)' \cup gone'
    <3>1. Content(i)' = IF i \in cut THEN {} ELSE IF i \in done THEN Content(i) \cup New(c, i)
                                                                ELSE Content(i)
      BY ContentAfter
    <3> QED BY <3>1
  <2> QED BY <2>1, <2>2 DEF Kept, Collected, IsLine
<1> QED BY <1>1, SetupType DEF Keeps, JournalOK, setup

\* A read that found something takes the cursor to the end of what it saw: the
\* lines up to there are in a file, were there before, or are gone.
LEMMA StoredKeeps ==
  ASSUME IInv, NEW c \in Collector, Stored(c), UNCHANGED setup
  PROVE  IInv'
<1> USE DEF IInv, TypeOK
<1>1. pc[c] = "reading" /\ memory # Torn /\ Invocations(c) \subseteq Invocation
  BY LinesType DEF Stored, Matched
<1>2. PICK u \in Unit : u = unit[c]
  BY <1>1 DEF Matched
<1>3. PICK n \in Cursor : n = CursorAfter(c, Shown(c, Len(journal)))
  BY LinesType, CursorAfterType
<1>4. PICK m \in [Scope \cup Unit -> Cursor] :
        m = [memory EXCEPT ![u] = n] /\ m[u] = n /\ \A v \in Unit \ {u} : m[v] = memory[v]
  <2>1. memory \in [Scope \cup Unit -> Cursor]
    BY <1>1 DEF DataOK
  <2>2. /\ [memory EXCEPT ![u] = n] \in [Scope \cup Unit -> Cursor]
        /\ [memory EXCEPT ![u] = n][u] = n
        /\ \A v \in Unit \ {u} : [memory EXCEPT ![u] = n][v] = memory[v]
    BY <2>1
  <2> QED BY <2>2
<1>5. PICK done \in SUBSET Invocations(c), cut \in SUBSET Invocations(c) :
        /\ done \cap cut = {}
        /\ file' = Files(c, done, cut)
        /\ gone' = gone \cup (Lines(c, Len(journal)) \ UNION {New(c, i) : i \in done})
                        \cup UNION {Content(i) : i \in cut}
        /\ twice' = twice \cup UNION {Again(c, i) : i \in done}
        /\ Proceed(c, todo[c], failed[c], m, TRUE)
        /\ Fault(done # Invocations(c) \/ (Data!WriteFails /\ Ends(c, todo[c])))
  <2>1. [memory EXCEPT ![unit[c]] = CursorAfter(c, Shown(c, Len(journal)))] = m
    BY <1>2, <1>3, <1>4
  <2>2. PICK done \in SUBSET Invocations(c) : \E cut \in SUBSET (Invocations(c) \ done) :
          /\ file' = Files(c, done, cut)
          /\ gone' = gone \cup (Lines(c, Len(journal)) \ UNION {New(c, i) : i \in done})
                          \cup UNION {Content(i) : i \in cut}
          /\ twice' = twice \cup UNION {Again(c, i) : i \in done}
          /\ Proceed(c, todo[c], failed[c], m, TRUE)
          /\ Fault(done # Invocations(c) \/ (Data!WriteFails /\ Ends(c, todo[c])))
    BY <2>1, Zenon DEF Stored
  <2> QED BY <2>2
<1>6. UNCHANGED <<setup, journal, uploaded, received, sending, unread, overlapped, crashed, calls>>
  BY DEF Stored
<1>7. todo[c] \subseteq Unit /\ failed[c] \subseteq Invocation
  BY DEF LocalsOK
<1>8. Moves(c, m)
  BY <1>5, <1>6, <1>7, ProceedMoves
<1>9. Keeps
  <2>1. gone \subseteq gone' /\ \A i \in cut : Content(i) \subseteq gone'
    BY <1>5
  <2> QED BY <1>1, <1>5, <1>6, <2>1, KeepsFiles
<1>10. \A v \in Unit : Behind(v, m[v])'
  <2>1. ASSUME NEW v \in Unit, v # u
        PROVE  Behind(v, m[v])'
    <3>1. Behind(v, memory[v]) /\ memory[v] = m[v] /\ m[v] \in Cursor
      BY <1>1, <1>4, <2>1 DEF AllBehind, StoredBehind
    <3> QED BY <1>9, <3>1, BehindStays
  <2>2. Behind(u, n)'
    <3> SUFFICES ASSUME NEW p \in DOMAIN journal, IsLine(p), Of(p, {u}), p <= n
                 PROVE  Kept(p)'
      BY <1>6 DEF Behind, IsLine, Of, setup
    <3>1. CASE p <= cursor[c]
      <4>1. Kept(p)
        BY <1>1, <1>2, <3>1 DEF AllBehind, ReadBehind, Behind
      <4> QED BY <1>9, <4>1 DEF Keeps
    <3>2. CASE ~(p <= cursor[c])
      <4>1. p \in Lines(c, Len(journal))
        <5>1. p \in Nat /\ p <= Len(journal) /\ cursor[c] \in Nat
          BY SetupType DEF LocalsOK, Cursor
        <5> QED BY <1>2, <3>2, <5>1 DEF Lines, After, IsLine
      <4>2. CASE p \in gone'
        BY <4>2 DEF Kept
      <4>3. CASE p \notin gone'
        <5>1. PICK i \in done : p \in New(c, i)
          BY <1>5, <4>1, <4>3
        <5>2. i \in Invocation /\ i \notin cut /\ journal[p].invocation = i
          BY <1>1, <1>5, <5>1 DEF New
        <5>3. p \in Content(i)'
          BY <1>1, <1>5, <5>1, <5>2, ContentAfter
        <5> QED BY <1>6, <5>2, <5>3 DEF Kept, Collected, IsLine
      <4> QED BY <4>2, <4>3
    <3> QED BY <3>1, <3>2
  <2> QED BY <1>4, <2>1, <2>2
<1>11. FilesOK' /\ HistoryOK'
  <2>1. faults' \in 0..MaxFaults
    BY <1>5, JournalAssumption DEF Fault, HistoryOK
  <2>2. file' \in [Invocation -> (SUBSET DOMAIN journal) \cup {None, Torn}]
    BY <1>1, <1>5, FilesType
  <2>3. Lines(c, Len(journal)) \subseteq DOMAIN journal
    BY LinesType
  <2>4. \A i \in Invocation : Content(i) \subseteq DOMAIN journal /\ Again(c, i) \subseteq DOMAIN journal
    BY LinesType DEF FilesOK, Content, Again
  <2>5. gone' \subseteq DOMAIN journal /\ twice' \subseteq DOMAIN journal
    BY <1>1, <1>5, <2>3, <2>4 DEF HistoryOK
  <2> QED BY <1>6, <2>1, <2>2, <2>5 DEF FilesOK, HistoryOK
<1>12. TypeOK' /\ Matched' /\ AllBehind' /\ Whole' /\ UploadedWhole'
  BY <1>1, <1>6, <1>8, <1>9, <1>10, <1>11, MovesKeeps
<1>13. ASSUME ~overlapped, ~crashed
       PROVE  Once'
  <2>1. /\ twice = {}
        /\ \A d \in Collector : pc[d] # "idle" => d = c
        /\ cursor[c] = memory[u]
    BY <1>1, <1>2, <1>13 DEF Once
  <2>2. \A i \in Invocation : \A p \in Content(i) \cup uploaded[i] :
          p \in DOMAIN journal /\ journal[p].invocation = i /\ p <= memory[unitOf[i]]
    BY <1>13 DEF Once, FilesOK, Content
  <2>3. \A i \in Invocation : \A p \in New(c, i) :
          p \in DOMAIN journal /\ journal[p].invocation = i /\ unitOf[i] = u /\ memory[u] < p /\ p <= n
    BY <1>2, <1>3, <2>1, LinesType, CursorAfterType DEF New, Lines, After, Of
  <2>4. cursor[c] <= n
    <3>1. PICK i \in Invocations(c) : New(c, i) # {}
      BY DEF Stored, Invocations
    <3>2. PICK p \in New(c, i) : TRUE
      BY <3>1
    <3>3. memory[u] < p /\ p <= n /\ p \in Nat
      BY <1>1, <2>3, <3>2, SetupType
    <3> QED BY <1>1, <2>1, <3>3 DEF DataOK, LocalsOK, Cursor
  <2>5. \A v \in Unit : memory[v] <= m[v]
    BY <1>1, <1>4, <2>1, <2>4 DEF DataOK, Cursor, JournalOK
  <2>6. twice' = {}
    <3>1. \A i \in Invocation : Again(c, i) = {}
      <4> SUFFICES ASSUME NEW i \in Invocation, NEW p \in Again(c, i) PROVE FALSE
        OBVIOUS
      <4>1. memory[u] < p /\ p <= memory[u] /\ p \in Nat /\ memory[u] \in Nat
        BY <1>1, <2>2, <2>3, SetupType DEF Again, DataOK, Cursor
      <4> QED BY <4>1
    <3> QED BY <1>1, <1>5, <2>1, <3>1
  <2>7. \A d \in Collector : pc'[d] # "idle" => d = c
    BY <1>8, <2>1 DEF Moves
  <2>8. \A d \in Collector : pc'[d] = "reading" => cursor'[d] = memory'[unit'[d]]
    BY <1>8, <2>7 DEF Moves
  <2>9. \A i \in Invocation : \A p \in Content(i)' \cup uploaded'[i] :
          journal'[p].invocation = i /\ p <= memory'[unitOf'[i]]
    <3> SUFFICES ASSUME NEW i \in Invocation, NEW p \in Content(i)' \cup uploaded[i]
                 PROVE  journal[p].invocation = i /\ p <= m[unitOf[i]]
      BY <1>6, <1>8 DEF Moves, setup
    <3>1. unitOf[i] \in Unit
      BY SetupType
    <3>2. p \in Content(i) \cup uploaded[i] \/ p \in New(c, i)
      <4>1. Content(i)' = IF i \in cut THEN {} ELSE IF i \in done THEN Content(i) \cup New(c, i)
                                                                  ELSE Content(i)
        BY <1>1, <1>5, ContentAfter
      <4> QED BY <4>1
    <3>3. CASE p \in Content(i) \cup uploaded[i]
      <4>1. p \in Nat /\ memory[unitOf[i]] \in Nat /\ m[unitOf[i]] \in Nat
        BY <1>1, <2>2, <3>1, <3>3, SetupType DEF DataOK, Cursor
      <4> QED BY <2>2, <2>5, <3>1, <3>3, <4>1
    <3>4. CASE p \in New(c, i)
      BY <1>4, <2>3, <3>4
    <3> QED BY <3>2, <3>3, <3>4
  <2>10. memory' # Torn
    BY <1>1, <1>8, DictionaryLoaded DEF Moves
  <2> QED BY <2>6, <2>7, <2>8, <2>9, <2>10 DEF Once
<1> QED BY <1>6, <1>12, <1>13 DEF Once

\* A collection that begins has no unit yet; beside another one, or a
\* submission, it overlaps.
LEMMA CollectKeeps ==
  ASSUME IInv, NEW c \in Collector, Collect(c), UNCHANGED setup
  PROVE  IInv'
<1> USE DEF IInv, TypeOK
<1>1. memory \in [Scope \cup Unit -> Cursor] /\ memory # Torn
  BY DEF Collect, Data!Loaded, DataOK
<1>2. /\ Goto(c, "listing", "system", None, memory["system"])
      /\ UNCHANGED <<setup, journal, filevars, data, failed, todo, gone, unread, twice, crashed, faults>>
      /\ overlapped' = (overlapped \/ sending # None \/ \E d \in Collector : pc[d] # "idle")
  BY DEF Collect
<1>3. Keeps
  BY <1>2, KeepsUnchanged DEF filevars
<1>4. Cursor' = Cursor /\ memory["system"] \in Cursor
  BY <1>1, <1>2 DEF Cursor, Scope
<1>5. pc'[c] = "listing" /\ \A d \in Collector \ {c} : pc'[d] = pc[d] /\ unit'[d] = unit[d] /\ cursor'[d] = cursor[d]
  BY <1>2 DEF Goto, LocalsOK
<1>6. TypeOK'
  <2>1. LocalsOK'
    BY <1>2, <1>4 DEF Goto, LocalsOK, Scope
  <2>2. calls' \in 0..MaxCalls
    BY JournalAssumption DEF Collect, HistoryOK
  <2>3. JournalOK' /\ FilesOK' /\ DataOK'
    BY <1>2, <1>4 DEF JournalOK, FilesOK, DataOK, setup, filevars, data
  <2> QED BY <1>2, <2>1, <2>2, <2>3 DEF HistoryOK
<1>7. Matched'
  BY <1>1, <1>2, <1>5 DEF Matched, data
<1>8. AllBehind'
  <2>1. StoredBehind'
    BY <1>2, <1>3, StoredBehindStays DEF AllBehind, data
  <2>2. ReadBehind'
    BY <1>3, <1>5, ReadBehindStays DEF AllBehind
  <2> QED BY <2>1, <2>2 DEF AllBehind
<1>9. Once'
  <2> SUFFICES ASSUME ~overlapped', ~crashed' PROVE Once'
    BY DEF Once
  <2>1. ~overlapped /\ ~crashed /\ \A d \in Collector : pc[d] = "idle"
    BY <1>2
  <2>2. \A d \in Collector : pc'[d] # "idle" => d = c
    BY <1>5, <2>1
  <2>3. \A i \in Invocation : Content(i)' = Content(i)
    BY <1>2 DEF Content, filevars
  <2>4. \A i \in Invocation : \A p \in Content(i)' \cup uploaded'[i] :
          journal'[p].invocation = i /\ p <= memory'[unitOf'[i]]
    BY <1>2, <2>1, <2>3 DEF Once, filevars, data, setup
  <2> QED BY <1>1, <1>2, <1>5, <2>1, <2>2, <2>4 DEF Once, data
<1>10. Whole' /\ UploadedWhole'
  BY <1>2 DEF Whole, UploadedWhole, filevars
<1> QED BY <1>6, <1>7, <1>8, <1>9, <1>10

-----------------------------------------------------------------------------
(* The submission *)

\* The file is read while no collection runs, or the run overlaps.
LEMMA SubmitKeeps ==
  ASSUME IInv, NEW i \in Invocation, Submit(i), UNCHANGED setup
  PROVE  IInv'
<1> USE DEF IInv, TypeOK
<1>1. /\ UNCHANGED <<setup, journal, file, uploaded, received, data, locals>>
      /\ UNCHANGED <<gone, unread, twice, crashed, faults, calls>>
      /\ sending' = [invocation |-> i, entries |-> Content(i)]
      /\ overlapped' = (overlapped \/ pc["dbus"] # "idle")
  BY DEF Submit
<1>2. Content(i) \subseteq DOMAIN journal
  BY DEF FilesOK, Content
<1>3. TypeOK'
  <2>1. FilesOK'
    BY <1>1, <1>2 DEF FilesOK
  <2>2. JournalOK' /\ DataOK' /\ LocalsOK'
    BY <1>1 DEF JournalOK, DataOK, LocalsOK, Cursor, setup, data, locals
  <2> QED BY <1>1, <2>1, <2>2 DEF HistoryOK
<1>4. Keeps
  BY <1>1, KeepsUnchanged
<1>5. Matched' /\ AllBehind'
  <2>1. StoredBehind'
    BY <1>1, <1>4, StoredBehindStays DEF AllBehind, data
  <2>2. ReadBehind'
    BY <1>1, <1>4, ReadBehindStays DEF AllBehind, locals
  <2> QED BY <1>1, <2>1, <2>2 DEF AllBehind, Matched, data, locals
<1>6. Once'
  BY <1>1 DEF Once, Content, data, locals, setup
<1>7. Whole'
  <2> SUFFICES ASSUME ~overlapped' PROVE Whole'
    BY DEF Whole
  <2>1. \A c \in Collector : pc'[c] = "idle"
    BY <1>1 DEF Submit, CollectedBefore, Collector, locals
  <2>2. Content(i)' = Content(i) /\ sending'.invocation = i /\ sending'.entries = Content(i)
    BY <1>1 DEF Content
  <2> QED BY <2>1, <2>2 DEF Whole
<1>8. UploadedWhole'
  BY <1>1 DEF UploadedWhole
<1> QED BY <1>3, <1>5, <1>6, <1>7, <1>8

\* The server has all of the file, unless Collect extended it meanwhile.
LEMMA SubmittedKeeps ==
  ASSUME IInv, Submitted, UNCHANGED setup
  PROVE  IInv'
<1> USE DEF IInv, TypeOK
<1>1. PICK i \in Invocation : i = sending.invocation
  BY DEF Submitted, FilesOK
<1>2. /\ UNCHANGED <<setup, journal, data, locals, history>> /\ sending' = None /\ sending # None
      /\ \/ /\ received' = received \cup sending.entries
            /\ uploaded' = [uploaded EXCEPT ![i] = @ \cup Content(i)]
            /\ file' = [file EXCEPT ![i] = None]
         \/ UNCHANGED <<received, uploaded, file>>
  BY <1>1 DEF Submitted
<1>3. \A j \in Invocation : /\ Content(j) \subseteq DOMAIN journal
                            /\ Content(j)' \cup uploaded'[j] = Content(j) \cup uploaded[j]
  BY <1>2 DEF FilesOK, Content
<1>4. TypeOK'
  <2>1. FilesOK'
    BY <1>2, <1>3 DEF FilesOK
  <2>2. JournalOK' /\ DataOK' /\ LocalsOK' /\ HistoryOK'
    BY <1>2 DEF JournalOK, DataOK, LocalsOK, HistoryOK, Cursor, setup, data, locals, history
  <2> QED BY <2>1, <2>2
<1>5. Keeps
  <2>1. \A p \in DOMAIN journal : Kept(p) => Kept(p)'
    <3> SUFFICES ASSUME NEW p \in DOMAIN journal, Kept(p) PROVE Kept(p)'
      OBVIOUS
    <3>1. PICK j \in Invocation : j = journal[p].invocation
      BY SetupType
    <3>2. Content(j)' \cup uploaded'[j] = Content(j) \cup uploaded[j]
      BY <1>3
    <3> QED BY <1>2, <3>1, <3>2 DEF Kept, Collected, IsLine, history
  <2> QED BY <1>2, <2>1, SetupType DEF Keeps, JournalOK, setup
<1>6. Matched' /\ AllBehind'
  <2>1. StoredBehind'
    BY <1>2, <1>5, StoredBehindStays DEF AllBehind, data
  <2>2. ReadBehind'
    BY <1>2, <1>5, ReadBehindStays DEF AllBehind, locals
  <2> QED BY <1>2, <2>1, <2>2 DEF AllBehind, Matched, data, locals
<1>7. Once'
  BY <1>2, <1>3 DEF Once, data, locals, setup, history
<1>8. Whole'
  BY <1>2 DEF Whole
<1>9. UploadedWhole'
  BY <1>1, <1>2 DEF UploadedWhole, Whole, FilesOK, history
<1> QED BY <1>4, <1>6, <1>7, <1>8, <1>9

-----------------------------------------------------------------------------
(* The environment *)

\* What is logged comes after every cursor.
LEMMA LogKeeps ==
  ASSUME IInv, NEW i \in Invocation, LogLine(i) \/ LogFailure(i), UNCHANGED setup
  PROVE  IInv'
<1> USE DEF IInv, TypeOK
<1>1. PICK e \in [invocation : Invocation, failure : BOOLEAN] : journal' = Append(journal, e)
  BY DEF LogLine, LogFailure
<1>2. Len(journal) < MaxEntries /\ UNCHANGED <<setup, filevars, data, locals, history>>
  BY DEF LogLine, LogFailure
<1>3. /\ Len(journal') = Len(journal) + 1 /\ Len(journal) \in Nat
      /\ DOMAIN journal = 1..Len(journal) /\ DOMAIN journal' = 1..Len(journal')
      /\ \A p \in DOMAIN journal : journal'[p] = journal[p]
  BY <1>1 DEF JournalOK
<1>4. DOMAIN journal \subseteq DOMAIN journal' /\ Cursor \subseteq Cursor'
  BY <1>3 DEF Cursor
<1>5. TypeOK'
  <2>1. JournalOK'
    <3>1. Len(journal') <= MaxEntries
      BY <1>2, <1>3, JournalAssumption
    <3> QED BY <1>1, <1>2, <3>1 DEF JournalOK, setup
  <2>2. FilesOK'
    BY <1>2, <1>4 DEF FilesOK, filevars
  <2>3. DataOK' /\ LocalsOK' /\ HistoryOK'
    BY <1>2, <1>4 DEF DataOK, LocalsOK, HistoryOK, data, locals, history
  <2> QED BY <2>1, <2>2, <2>3
<1>6. \A j \in Invocation : Content(j)' = Content(j) /\ Content(j) \subseteq DOMAIN journal
  BY <1>2 DEF Content, FilesOK, filevars
<1>7. Keeps
  <2>1. \A p \in DOMAIN journal : Kept(p) => Kept(p)'
    BY <1>2, <1>3, <1>4 DEF Kept, Collected, IsLine, Content, filevars, history
  <2> QED BY <1>2, <1>3, <1>5, <2>1 DEF Keeps, setup
<1>8. Matched' /\ AllBehind'
  <2>1. StoredBehind'
    BY <1>2, <1>7, StoredBehindStays DEF AllBehind, data
  <2>2. ReadBehind'
    BY <1>2, <1>7, ReadBehindStays DEF AllBehind, locals
  <2> QED BY <1>2, <2>1, <2>2 DEF AllBehind, Matched, data, locals
<1>9. Once'
  <2>1. \A j \in Invocation : \A p \in Content(j)' \cup uploaded'[j] :
          p \in DOMAIN journal /\ journal'[p] = journal[p] /\ p \in Content(j) \cup uploaded[j]
    BY <1>2, <1>3, <1>6 DEF FilesOK, filevars
  <2> QED BY <1>2, <2>1 DEF Once, data, locals, setup, history
<1>10. Whole' /\ UploadedWhole'
  <2>1. sending # None => sending.invocation \in Invocation
    BY DEF FilesOK
  <2> QED BY <1>2, <1>6, <2>1 DEF Whole, UploadedWhole, filevars, locals, history
<1> QED BY <1>5, <1>8, <1>9, <1>10

\* When the process dies nothing runs any more, and the cursors are those of
\* the disk.
LEMMA DiesKeeps ==
  ASSUME IInv, Dies, UNCHANGED setup, Keeps, FilesOK', {gone', twice'} \subseteq SUBSET DOMAIN journal,
         memory' \in {disk, Torn}, disk' \in {disk, Torn}, dirty' = FALSE
  PROVE  IInv'
<1> USE DEF IInv, TypeOK
<1>1. /\ \A c \in Collector : pc'[c] = "idle"
      /\ sending' = None /\ crashed' = TRUE /\ UNCHANGED <<setup, journal, uploaded, received, unread, overlapped, calls>>
  BY DEF Dies, Each
<1>2. TypeOK'
  <2>1. 0 \in Cursor
    BY DEF Cursor, JournalOK
  <2>2. LocalsOK'
    BY <1>1, <2>1 DEF Dies, Each, LocalsOK, Cursor, Scope
  <2>3. faults' \in 0..MaxFaults
    BY JournalAssumption DEF Dies, Fault, HistoryOK
  <2>4. JournalOK' /\ DataOK'
    BY <1>1 DEF JournalOK, DataOK, Cursor, setup
  <2> QED BY <1>1, <2>2, <2>3, <2>4 DEF HistoryOK
<1>3. AllBehind'
  <2>1. StoredBehind'
    BY StoredBehindStays DEF AllBehind
  <2> QED BY <1>1, <2>1 DEF AllBehind, ReadBehind
<1>4. Matched' /\ Once' /\ Whole' /\ UploadedWhole'
  BY <1>1 DEF Matched, Once, Whole, UploadedWhole
<1> QED BY <1>2, <1>3, <1>4

LEMMA CrashKeeps ==
  ASSUME IInv, UNCHANGED setup,
         Crash \/ \E c \in Collector : CrashInFile(c) \/ CrashInData(c)
  PROVE  IInv'
<1> USE DEF IInv, TypeOK
<1>1. CASE Crash
  <2>1. UNCHANGED <<journal, file, uploaded, gone, twice, received>> /\ sending' = None
    BY <1>1 DEF Crash, Dies
  <2>2. Keeps
    BY <2>1, KeepsUnchanged
  <2>3. FilesOK' /\ {gone', twice'} \subseteq SUBSET DOMAIN journal
    BY <2>1 DEF FilesOK, HistoryOK
  <2> QED BY <1>1, <2>2, <2>3, DiesKeeps DEF Crash, Data!Crash
<1>2. ASSUME NEW c \in Collector, CrashInFile(c)
      PROVE  IInv'
  <2>1. PICK i \in Invocations(c), done \in SUBSET Invocations(c) :
          /\ i \notin done /\ file' = Files(c, done, {i})
          /\ gone' = gone \cup Content(i)
          /\ twice' = twice \cup UNION {Again(c, j) : j \in done}
    BY <1>2 DEF CrashInFile
  <2>2. Invocations(c) \subseteq Invocation
    BY LinesType
  <2>3. UNCHANGED <<journal, uploaded, received>> /\ sending' = None
    BY <1>2 DEF CrashInFile, Dies
  <2>4. done \in SUBSET Invocation /\ {i} \in SUBSET Invocation /\ done \cap {i} = {}
    BY <2>1, <2>2
  <2>5. Keeps
    BY <2>1, <2>3, <2>4, KeepsFiles
  <2>6. FilesOK' /\ {gone', twice'} \subseteq SUBSET DOMAIN journal
    <3>1. \A j \in Invocation : Content(j) \subseteq DOMAIN journal /\ Again(c, j) \subseteq DOMAIN journal
      BY LinesType DEF FilesOK, Content, Again
    <3>2. file' \in [Invocation -> (SUBSET DOMAIN journal) \cup {None, Torn}]
      BY <2>1, <2>4, FilesType
    <3>3. gone' \subseteq DOMAIN journal /\ twice' \subseteq DOMAIN journal
      BY <2>1, <2>2, <3>1 DEF HistoryOK
    <3>4. FilesOK'
      BY <2>3, <3>2 DEF FilesOK
    <3> QED BY <3>3, <3>4
  <2> QED BY <1>2, <2>5, <2>6, DiesKeeps DEF CrashInFile, Data!Crash
<1>3. ASSUME NEW c \in Collector, CrashInData(c)
      PROVE  IInv'
  <2>1. UNCHANGED <<journal, uploaded, received, gone>> /\ sending' = None
    BY <1>3 DEF CrashInData, Dies
  <2>2. \/ UNCHANGED <<file, twice>>
        \/ /\ file' = Files(c, Invocations(c), {})
           /\ twice' = twice \cup UNION {Again(c, i) : i \in Invocations(c)}
    BY <1>3 DEF CrashInData
  <2>3. Invocations(c) \in SUBSET Invocation /\ {} \in SUBSET Invocation
    BY LinesType
  <2>4. Keeps
    BY <2>1, <2>2, <2>3, KeepsFiles, KeepsUnchanged
  <2>5. FilesOK' /\ {gone', twice'} \subseteq SUBSET DOMAIN journal
    <3>1. \A j \in Invocation : Again(c, j) \subseteq DOMAIN journal
      BY LinesType DEF Again
    <3>2. Files(c, Invocations(c), {}) \in [Invocation -> (SUBSET DOMAIN journal) \cup {None, Torn}]
      BY <2>3, FilesType
    <3>3. twice' \subseteq DOMAIN journal
      BY <2>2, <2>3, <3>1 DEF HistoryOK
    <3>4. FilesOK'
      BY <2>1, <2>2, <3>2 DEF FilesOK
    <3> QED BY <2>1, <3>3, <3>4 DEF HistoryOK
  <2> QED BY <1>3, <2>4, <2>5, DiesKeeps DEF CrashInData, Data!CrashInWrite
<1> QED BY <1>1, <1>2, <1>3

-----------------------------------------------------------------------------
(* The invariance *)

LEMMA InitInv == Init => IInv
<1> SUFFICES ASSUME Init PROVE IInv
  OBVIOUS
<1> USE DEF Init, Each
<1>1. PICK u \in Setups : unitOf = u.unitOf /\ users = u.users /\ busy = u.busy
  OBVIOUS
<1>2. [unitOf |-> unitOf, users |-> users, busy |-> busy] \in Setups
  <2>1. u \in [unitOf : [Invocation -> Unit], users : SUBSET Unit, busy : SUBSET Scope]
    BY JournalAssumption
  <2>2. u = [unitOf |-> u.unitOf, users |-> u.users, busy |-> u.busy]
    BY <2>1
  <2> QED BY <1>1, <2>2
<1>3. journal = <<>> /\ Len(journal) = 0 /\ DOMAIN journal = {} /\ 0 \in Cursor
  BY DEF Cursor
<1>4. JournalOK
  BY <1>2, <1>3, JournalAssumption DEF JournalOK
<1>5. FilesOK /\ LocalsOK
  BY <1>3 DEF FilesOK, LocalsOK, Scope
<1>6. DataOK
  BY <1>3 DEF Data!Init, NoCursors, DataOK
<1>7. HistoryOK
  <2>1. faults \in 0..MaxFaults /\ calls \in 0..MaxCalls
    BY JournalAssumption
  <2> QED BY <2>1 DEF HistoryOK
<1>8. memory # Torn
  <2>1. memory \in [Scope \cup Unit -> Cursor]
    BY <1>3 DEF Data!Init, NoCursors
  <2> QED BY <1>4, <2>1, DictionaryLoaded
<1>9. Matched /\ AllBehind /\ Once /\ Whole /\ UploadedWhole
  BY <1>3, <1>8 DEF Matched, AllBehind, StoredBehind, ReadBehind, Behind, Once, Whole, UploadedWhole, Content
<1> QED BY <1>4, <1>5, <1>6, <1>7, <1>9 DEF IInv, TypeOK

LEMMA NextInv == IInv /\ [Next]_vars => IInv'
<1> SUFFICES ASSUME IInv, [Next]_vars PROVE IInv'
  OBVIOUS
<1>1. CASE UNCHANGED vars
  BY <1>1 DEF IInv, TypeOK, JournalOK, FilesOK, DataOK, LocalsOK, HistoryOK, Cursor, Matched,
              AllBehind, StoredBehind, ReadBehind, Behind, Kept, Collected, IsLine, Of, Once, Whole,
              UploadedWhole, Content, vars, setup, filevars, data, locals, history
<1>2. CASE Next
  <2>1. UNCHANGED setup
    BY <1>2 DEF Next
  <2>2. CASE \E c \in Collector : Collect(c) \/ CollectorStep(c)
    BY <2>1, <2>2, CollectKeeps, ListedKeeps, NothingReadKeeps, StoredKeeps DEF CollectorStep
  <2>3. CASE Submitted \/ \E i \in Invocation : Submit(i)
    BY <2>1, <2>3, SubmitKeeps, SubmittedKeeps
  <2>4. CASE \E i \in Invocation : LogLine(i) \/ LogFailure(i)
    BY <2>1, <2>4, LogKeeps
  <2>5. CASE Crash \/ \E c \in Collector : CrashInFile(c) \/ CrashInData(c)
    BY <2>1, <2>5, CrashKeeps
  <2> QED BY <1>2, <2>2, <2>3, <2>4, <2>5 DEF Next, Step
<1> QED BY <1>1, <1>2

LEMMA Invariance == Spec => []IInv
BY InitInv, NextInv, PTL DEF Spec

\* Every variable has its type, in each of the behaviours of the helper: a
\* cursor is a position in the journal, files hold entries of the journal.
THEOREM TypeCorrect == Spec => []TypeOK
<1>1. IInv => TypeOK
  BY DEF IInv
<1> QED BY <1>1, Invariance, PTL

\* The cursor of a unit, in memory or on disk, is never ahead of the files: not
\* after a crash between two writes, a failed read, or a Collect call beside a
\* round.
THEOREM CursorsCorrect == Spec => []CursorsBehindFiles
<1>1. IInv => CursorsBehindFiles
  <2> SUFFICES ASSUME IInv, NEW m \in {memory, disk}, m # Torn, NEW p \in DOMAIN journal,
                      IsLine(p), p <= m[unitOf[journal[p].invocation]]
               PROVE  Collected(p) \/ p \in gone
    BY DEF CursorsBehindFiles
  <2>1. unitOf[journal[p].invocation] \in Unit
    BY SetupType DEF IInv, TypeOK
  <2> QED BY <2>1 DEF IInv, AllBehind, StoredBehind, Behind, Of, Kept
<1> QED BY <1>1, Invariance, PTL

\* No line is collected again into a file, though a listing that finds nothing
\* goes back to the beginning, as long as no collections overlap and the
\* daemon does not die.
THEOREM CollectedOnceCorrect == Spec => []CollectedOnce
<1>1. IInv => CollectedOnce
  BY DEF IInv, Once, CollectedOnce
<1> QED BY <1>1, Invariance, PTL

\* The server has what was moved to uploaded, as long as Collect is not called
\* during a submission.
THEOREM UploadedCorrect == Spec => []UploadedWhole
<1>1. IInv => UploadedWhole
  BY DEF IInv
<1> QED BY <1>1, Invariance, PTL
=============================================================================
