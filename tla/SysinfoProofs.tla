---------------------------- MODULE SysinfoProofs ----------------------------
(***************************************************************************)
(* What holds of the sysinfo helper for any types and devices and any       *)
(* number of faults: its type invariant, that a device that was listed gets *)
(* into a report, and that reports are an interval apart.                   *)
(***************************************************************************)
EXTENDS Sysinfo, FiniteSetTheorems, TLAPS

\* As long as no type was off, all are listed.
AllAsked == everOff = {} =>
  enabled = Type /\ \A c \in Collector : pc[c] = "listing" => asked[c] = Type

\* The timestamp is no older than the last report.
Renewed == ~crashed /\ memory \in Age => memory <= reportAge

\* The inductive invariant
IInv == TypeOK /\ AllAsked /\ Renewed /\ SeenReported

-----------------------------------------------------------------------------
(* Which section a device gets into *)

\* With all types listed, the place of a type among the results is its own.
LEMMA PlaceOfAll ==
  ASSUME NEW c \in Collector, asked[c] = Type, NEW t \in Type
  PROVE  Types[Place(c, t)] = t
<1>1. DOMAIN Types = 1..Len(Types) /\ Len(Types) \in Nat
  BY SysinfoAssumption
<1>2. PICK k \in DOMAIN Types : Types[k] = t
  BY DEF Type
<1>3. \A m \in DOMAIN Types : Types[m] = t => m = k
  BY <1>2, SysinfoAssumption
<1>4. {n \in DOMAIN Types : /\ Types[n] \in asked[c]
                            /\ \E m \in DOMAIN Types : n <= m /\ Types[m] = t} = 1..k
  <2>1. \A n \in DOMAIN Types : Types[n] \in asked[c]
    BY DEF Type
  <2>2. \A n \in DOMAIN Types : (\E m \in DOMAIN Types : n <= m /\ Types[m] = t) <=> n <= k
    BY <1>2, <1>3
  <2>3. k \in 1..Len(Types)
    BY <1>1, <1>2
  <2> QED BY <1>1, <2>1, <2>2, <2>3
<1>5. Cardinality(1..k) = k
  BY <1>1, <1>2, FS_Interval
<1> QED BY <1>2, <1>4, <1>5 DEF Place

\* Which sections the devices that were listed are put into
LEMMA PairedType ==
  ASSUME NEW c \in Collector, asked[c] \subseteq Type, NEW listed \in Section
  PROVE  /\ Paired(c, listed) \in Section
         /\ asked[c] = Type => Paired(c, listed) = listed
<1>1. Paired(c, listed) \in Section
  <2>1. \A u \in asked[c] : listed[u] \subseteq Device
    BY DEF Section
  <2> QED BY <2>1 DEF Paired, Section
<1>2. ASSUME asked[c] = Type PROVE Paired(c, listed) = listed
  <2>1. \A t \in Type : {v \in asked[c] : Types[Place(c, v)] = t} = {t}
    BY <1>2, PlaceOfAll
  <2>2. \A t \in Type : UNION {listed[u] : u \in {t}} = listed[t]
    OBVIOUS
  <2>3. \A t \in Type : Paired(c, listed)[t] = listed[t]
    BY <2>1, <2>2 DEF Paired
  <2>4. Paired(c, listed) = [t \in Type |-> Paired(c, listed)[t]] /\ listed = [t \in Type |-> listed[t]]
    BY <1>1 DEF Section
  <2> QED BY <2>3, <2>4
<1> QED BY <1>1, <1>2

LEMMA CacheType ==
  ASSUME TypeOK
  PROVE  Cache \in Section
BY DEF TypeOK, Cache, Nothing, Section

\* The sections that a collection writes are those of the cache and what was
\* listed.
LEMMA KnownType ==
  ASSUME TypeOK, NEW c \in Collector, NEW listed \in Section
  PROVE  /\ Known(c, listed) \in Section
         /\ \A t \in Type : Cache[t] \subseteq Known(c, listed)[t]
         /\ asked[c] = Type => \A t \in Type : listed[t] \subseteq Known(c, listed)[t]
<1>1. asked[c] \subseteq Type
  BY DEF TypeOK
<1>2. Cache \in Section /\ Paired(c, listed) \in Section
  BY <1>1, CacheType, PairedType
<1>3. \A t \in Type : Known(c, listed)[t] = Cache[t] \cup Paired(c, listed)[t]
  BY DEF Known
<1>4. asked[c] = Type => Paired(c, listed) = listed
  BY <1>1, PairedType
<1>5. Known(c, listed) \in Section
  BY <1>2 DEF Known, Section
<1> QED BY <1>3, <1>4, <1>5

LEMMA ListingsType ==
  ASSUME NEW c \in Collector, NEW listed \in Listings(c)
  PROVE  /\ listed \in Section
         /\ \A t \in Type : \A d \in listed[t] : TypeOf[d] = t
         /\ All(listed) \subseteq Device
BY DEF Listings, Section, All

LEMMA NothingType == Nothing \in Section /\ All(Nothing) = {}
BY DEF Nothing, Section, All

\* What a file held before is one of the devices.
LEMMA AllType ==
  ASSUME NEW sections \in Section
  PROVE  /\ All(sections) \subseteq Device
         /\ \A t \in Type : sections[t] \subseteq All(sections)
BY DEF Section, All

-----------------------------------------------------------------------------
(* The steps *)

LEMMA InitInv == Init => IInv
<1> SUFFICES ASSUME Init PROVE IInv
  OBVIOUS
<1> USE DEF Init
<1>1. memory = None /\ dirty = FALSE /\ disk = None
  BY DEF Data!Init
<1>2. reportAge \in Age
  BY SysinfoAssumption DEF Age
<1>3. pc \in [Collector -> {"idle", "listing"}] /\ asked \in [Collector -> SUBSET Type]
  OBVIOUS
<1>4. TypeOK
  <2>1. cache = None /\ report \in Section /\ faults \in 0..MaxFaults /\ toggles \in 0..MaxToggles
    BY SysinfoAssumption, NothingType
  <2>2. enabled = Type /\ everOff = {} /\ seen = {} /\ lost = {} /\ crashed = FALSE
    OBVIOUS
  <2> HIDE DEF Init
  <2> QED BY <1>1, <1>2, <1>3, <2>1, <2>2 DEF TypeOK
<1>5. AllAsked /\ SeenReported
  BY DEF AllAsked, SeenReported
<1>6. Renewed
  BY <1>1, SysinfoAssumption DEF Renewed, Age
<1> QED BY <1>4, <1>5, <1>6 DEF IInv

LEMMA FaultType ==
  ASSUME NEW happens \in BOOLEAN, faults \in 0..MaxFaults, Fault(happens)
  PROVE  faults' \in 0..MaxFaults
BY SysinfoAssumption DEF Fault

\* The age of the timestamp after the writes of a collection
Written == /\ memory' \in {0, memory} /\ disk' \in {0, disk, Torn} /\ dirty' \in BOOLEAN
           /\ memory = None \/ Due => memory' = 0

LEMMA TimestampWritten ==
  ASSUME TypeOK, IF NewTimestamp THEN Data!SetItemsAndWrite(0, TRUE) ELSE UNCHANGED data
  PROVE  Written
<1>1. CASE NewTimestamp
  BY <1>1 DEF Written, Data!SetItemsAndWrite, TypeOK
<1>2. CASE ~NewTimestamp
  BY <1>2 DEF Written, NewTimestamp, data, TypeOK
<1> QED BY <1>1, <1>2

\* Whatever the files become, no device that was listed disappears from them
\* but those that are lost.
LEMMA KeptByCache ==
  ASSUME TypeOK, AllAsked, SeenReported, everOff = {}, NEW c \in Collector, pc[c] = "listing",
         NEW listed \in Listings(c), seen' \subseteq seen \cup All(listed),
         cache' = Known(c, listed), UNCHANGED <<report, lost, everOff>>
  PROVE  SeenReported'
<1>1. /\ Known(c, listed) \in Section
      /\ \A t \in Type : Cache[t] \cup listed[t] \subseteq Known(c, listed)[t]
  BY ListingsType, KnownType DEF AllAsked
<1>2. Cache' = Known(c, listed)
  BY <1>1, SysinfoAssumption DEF Cache
<1>3. ASSUME NEW d \in seen' PROVE Kept(d)'
  <2>1. d \in seen => d \in lost \cup Cache[TypeOf[d]] \cup report[TypeOf[d]]
    BY DEF SeenReported, Kept
  <2>2. d \in All(listed) => d \in listed[TypeOf[d]] /\ TypeOf[d] \in Type
    BY ListingsType DEF All
  <2>3. d \in Device /\ TypeOf[d] \in Type
    BY <1>3, ListingsType, SysinfoAssumption DEF TypeOK
  <2> QED BY <1>1, <1>2, <1>3, <2>1, <2>2, <2>3 DEF Kept
<1> QED BY <1>3 DEF SeenReported

LEMMA KeptByReport ==
  ASSUME TypeOK, AllAsked, SeenReported, everOff = {}, NEW c \in Collector, pc[c] = "listing",
         NEW listed \in Listings(c), seen' \subseteq seen \cup All(listed),
         Reports(Known(c, listed)), UNCHANGED <<lost, everOff>>
  PROVE  SeenReported'
<1>1. /\ Known(c, listed) \in Section
      /\ \A t \in Type : Cache[t] \cup listed[t] \subseteq Known(c, listed)[t]
  BY ListingsType, KnownType DEF AllAsked
<1>2. \A t \in Type : report'[t] = report[t] \cup Known(c, listed)[t]
  BY DEF Reports, AllAsked
<1>3. ASSUME NEW d \in seen' PROVE Kept(d)'
  <2>1. d \in seen => d \in lost \cup Cache[TypeOf[d]] \cup report[TypeOf[d]]
    BY DEF SeenReported, Kept
  <2>2. d \in All(listed) => d \in listed[TypeOf[d]] /\ TypeOf[d] \in Type
    BY ListingsType DEF All
  <2>3. d \in Device /\ TypeOf[d] \in Type
    BY <1>3, ListingsType, SysinfoAssumption DEF TypeOK
  <2> QED BY <1>1, <1>2, <1>3, <2>1, <2>2, <2>3 DEF Kept
<1> QED BY <1>3 DEF SeenReported

\* A write that was interrupted loses what was in its file.
LEMMA KeptByInterrupted ==
  ASSUME TypeOK, AllAsked, SeenReported, everOff = {}, NEW c \in Collector, pc[c] = "listing",
         NEW listed \in Listings(c), seen' = seen, Interrupted(Known(c, listed)), UNCHANGED everOff
  PROVE  SeenReported'
<1>1. /\ Known(c, listed) \in Section
      /\ \A t \in Type : Cache[t] \subseteq Known(c, listed)[t]
  BY ListingsType, KnownType DEF AllAsked
<1>2. ASSUME NEW d \in seen PROVE Kept(d)'
  <2>1. d \in lost \cup Cache[TypeOf[d]] \cup report[TypeOf[d]]
    BY DEF SeenReported, Kept
  <2>2. TypeOf[d] \in Type
    BY SysinfoAssumption DEF TypeOK
  <2>3. report' = report /\ lost \cup Cache[TypeOf[d]] \subseteq lost'
    BY <1>1, <2>2, CacheType, AllType DEF Interrupted
  <2> QED BY <2>1, <2>3 DEF Kept
<1> QED BY <1>2 DEF SeenReported

LEMMA InterruptedType ==
  ASSUME TypeOK, NEW c \in Collector, NEW listed \in Listings(c), Interrupted(Known(c, listed))
  PROVE  /\ cache' \in Section \cup {None, Torn} /\ report' \in Section
         /\ reportAge' \in Age /\ lost' \subseteq Device
<1>1. Known(c, listed) \in Section /\ Cache \in Section
  BY ListingsType, KnownType, CacheType
<1> QED BY <1>1, AllType DEF Interrupted, TypeOK

LEMMA ReportsType ==
  ASSUME TypeOK, NEW c \in Collector, NEW listed \in Listings(c), Reports(Known(c, listed))
  PROVE  cache' = None /\ report' \in Section /\ reportAge' = 0
<1>1. Known(c, listed) \in Section /\ report \in Section
  BY ListingsType, KnownType DEF TypeOK
<1> QED BY <1>1 DEF Reports, Section

LEMMA CollectKeeps ==
  ASSUME IInv, NEW c \in Collector, Collect(c)
  PROVE  IInv'
<1>1. pc' \in [Collector -> {"idle", "listing"}] /\ asked' \in [Collector -> SUBSET Type]
  BY DEF IInv, TypeOK, Collect
<1>2. TypeOK'
  BY <1>1 DEF IInv, TypeOK, Collect, data, history
<1>3. AllAsked'
  BY DEF IInv, TypeOK, AllAsked, Collect, history
<1>4. Renewed' /\ SeenReported'
  BY DEF IInv, Renewed, SeenReported, Kept, Cache, Collect, data, history
<1> QED BY <1>2, <1>3, <1>4 DEF IInv

LEMMA ReturnsKeeps ==
  ASSUME TypeOK, AllAsked, NEW c \in Collector, Returns(c), UNCHANGED <<enabled, everOff>>
  PROVE  /\ pc' \in [Collector -> {"idle", "listing"}] /\ asked' \in [Collector -> SUBSET Type]
         /\ AllAsked'
<1>1. pc' \in [Collector -> {"idle", "listing"}] /\ asked' \in [Collector -> SUBSET Type]
  BY DEF TypeOK, Returns
<1>2. \A d \in Collector : pc'[d] = "listing" => pc[d] = "listing" /\ asked'[d] = asked[d]
  BY DEF TypeOK, Returns
<1> QED BY <1>1, <1>2 DEF AllAsked

LEMMA CollectedKeeps ==
  ASSUME IInv, NEW c \in Collector, Collected(c)
  PROVE  IInv'
<1>1. PICK listed \in Listings(c) :
        /\ Listed(c, listed)
        /\ IF Due THEN Reports(Known(c, listed))
                  ELSE cache' = Known(c, listed) /\ UNCHANGED <<report, reportAge>>
        /\ IF NewTimestamp THEN Data!SetItemsAndWrite(0, TRUE) ELSE UNCHANGED data
        /\ Fault(Data!WriteFails)
        /\ Returns(c)
        /\ UNCHANGED <<lost, crashed>>
  BY DEF Collected
<1>2. pc[c] = "listing" /\ seen' = seen \cup All(listed) /\ UNCHANGED <<enabled, everOff, toggles>>
  BY <1>1 DEF Listed
<1>3. Written
  BY <1>1, TimestampWritten DEF IInv
<1>4. /\ pc' \in [Collector -> {"idle", "listing"}] /\ asked' \in [Collector -> SUBSET Type]
      /\ AllAsked'
  BY <1>1, <1>2, ReturnsKeeps DEF IInv
<1>5. faults' \in 0..MaxFaults
  <2>1. Data!WriteFails \in BOOLEAN
    BY <1>3 DEF Written, Data!WriteFails
  <2> QED BY <1>1, <2>1, FaultType DEF IInv, TypeOK
<1>6. seen' \subseteq Device
  BY <1>2, ListingsType DEF IInv, TypeOK
<1>7. /\ {memory', disk'} \subseteq Age \cup {None, Torn}
      /\ 0 \in Age
  BY <1>3, SysinfoAssumption DEF IInv, TypeOK, Written, Age
<1>8. CASE Due
  <2>1. Reports(Known(c, listed))
    BY <1>1, <1>8
  <2>2. cache' = None /\ report' \in Section /\ reportAge' = 0
    BY <2>1, ReportsType DEF IInv
  <2>3. TypeOK'
    BY <1>1, <1>2, <1>3, <1>4, <1>5, <1>6, <1>7, <2>2 DEF IInv, TypeOK, Written
  <2>4. Renewed'
    BY <1>3, <1>8, <2>2 DEF Written, Renewed
  <2>5. SeenReported'
    <3>1. CASE everOff = {}
      BY <1>1, <1>2, <2>1, <3>1, KeptByReport DEF IInv
    <3> QED BY <1>2, <3>1 DEF SeenReported
  <2> QED BY <1>4, <2>3, <2>4, <2>5 DEF IInv
<1>9. CASE ~Due
  <2>1. cache' = Known(c, listed) /\ report' = report /\ reportAge' = reportAge
    BY <1>1, <1>9
  <2>2. Known(c, listed) \in Section
    BY ListingsType, KnownType DEF IInv
  <2>3. TypeOK'
    BY <1>1, <1>2, <1>3, <1>4, <1>5, <1>6, <1>7, <2>1, <2>2 DEF IInv, TypeOK, Written
  <2>4. Renewed'
    <3>1. reportAge \in Nat /\ reportAge' = reportAge /\ crashed' = crashed
      BY <1>1, <2>1 DEF IInv, TypeOK, Age
    <3> QED BY <1>3, <3>1 DEF IInv, Written, Renewed, Age
  <2>5. SeenReported'
    <3>1. CASE everOff = {}
      BY <1>1, <1>2, <2>1, <3>1, KeptByCache DEF IInv
    <3> QED BY <1>2, <3>1 DEF SeenReported
  <2> QED BY <1>4, <2>3, <2>4, <2>5 DEF IInv
<1> QED BY <1>8, <1>9

LEMMA CollectRaisesKeeps ==
  ASSUME IInv, NEW c \in Collector, CollectRaises(c)
  PROVE  IInv'
<1>1. PICK listed \in Listings(c) :
        /\ Listed(c, Nothing) /\ Interrupted(Known(c, listed))
        /\ Fault(TRUE) /\ Returns(c)
        /\ UNCHANGED <<data, crashed>>
  BY DEF CollectRaises
<1>2. pc[c] = "listing" /\ seen' = seen /\ UNCHANGED <<enabled, everOff, toggles>>
  BY <1>1, NothingType DEF Listed
<1>3. /\ pc' \in [Collector -> {"idle", "listing"}] /\ asked' \in [Collector -> SUBSET Type]
      /\ AllAsked'
  BY <1>1, <1>2, ReturnsKeeps DEF IInv
<1>4. faults' \in 0..MaxFaults
  BY <1>1, FaultType DEF IInv, TypeOK
<1>5. /\ cache' \in Section \cup {None, Torn} /\ report' \in Section
      /\ reportAge' \in Age /\ lost' \subseteq Device
  BY <1>1, InterruptedType DEF IInv
<1>6. TypeOK'
  BY <1>1, <1>2, <1>3, <1>4, <1>5 DEF IInv, TypeOK, data
<1>7. Renewed'
  BY <1>1 DEF IInv, Renewed, Interrupted, data
<1>8. SeenReported'
  <2>1. CASE everOff = {}
    BY <1>1, <1>2, <2>1, KeptByInterrupted DEF IInv
  <2> QED BY <1>2, <2>1 DEF SeenReported
<1> QED BY <1>3, <1>6, <1>7, <1>8 DEF IInv

LEMMA EnableKeeps ==
  ASSUME IInv, NEW t \in Type, NEW on \in BOOLEAN, Enable(t, on)
  PROVE  IInv'
<1>1. toggles' \in 0..MaxToggles
  BY SysinfoAssumption DEF IInv, TypeOK, Enable
<1>2. enabled' \subseteq Type /\ everOff' \subseteq Type
  BY DEF IInv, TypeOK, Enable
<1>3. TypeOK'
  BY <1>1, <1>2 DEF IInv, TypeOK, Enable, data
<1>4. everOff' = {} => on /\ everOff = {}
  BY DEF Enable
<1>5. AllAsked'
  BY <1>4 DEF IInv, AllAsked, Enable
<1>6. Renewed' /\ SeenReported'
  BY <1>4 DEF IInv, Renewed, SeenReported, Kept, Cache, Enable, data
<1> QED BY <1>3, <1>5, <1>6 DEF IInv

LEMMA OlderType ==
  ASSUME NEW age
  PROVE  /\ age \in Age => Older(age) \in Age /\ Older(age) >= age /\ Older(age) <= age + 1
         /\ age \notin Age => Older(age) = age
         /\ Older(Interval) = Interval
BY SysinfoAssumption DEF Older, Age

LEMMA TickKeeps ==
  ASSUME IInv, Tick
  PROVE  IInv'
<1>1. memory' = Older(memory) /\ disk' = Older(disk) /\ reportAge' = Older(reportAge)
  BY DEF Tick
<1>2. {memory', disk'} \subseteq Age \cup {None, Torn} /\ reportAge' \in Age
  BY <1>1, OlderType DEF IInv, TypeOK
<1>3. TypeOK'
  BY <1>2 DEF IInv, TypeOK, Tick, history
<1>4. AllAsked' /\ SeenReported'
  BY DEF IInv, AllAsked, SeenReported, Kept, Cache, Tick, history
<1>5. Renewed'
  <2> SUFFICES ASSUME ~crashed, memory' \in Age PROVE memory' <= reportAge'
    BY DEF Renewed, Tick, history
  <2>1. memory \in Age /\ reportAge \in Age
    BY <1>1, OlderType DEF IInv, TypeOK
  <2>2. memory <= reportAge
    BY <2>1 DEF IInv, Renewed
  <2> QED BY <1>1, <2>1, <2>2, SysinfoAssumption DEF Older, Age
<1> QED BY <1>3, <1>4, <1>5 DEF IInv

\* A process that dies leaves its files, and no collection.
LEMMA DiesKeeps ==
  ASSUME IInv, Dies, UNCHANGED <<enabled, everOff, toggles>>,
         cache' \in Section \cup {None, Torn}, report' \in Section, reportAge' \in Age,
         seen' \subseteq Device, lost' \subseteq Device, everOff = {} => SeenReported',
         Data!Crash \/ Data!CrashInWrite
  PROVE  IInv'
<1>1. faults' \in 0..MaxFaults /\ crashed' = TRUE
  BY FaultType DEF IInv, TypeOK, Dies
<1>2. /\ pc' = [d \in Collector |-> "idle"] /\ asked' = [d \in Collector |-> {}]
      /\ pc' \in [Collector -> {"idle", "listing"}] /\ asked' \in [Collector -> SUBSET Type]
  BY DEF Dies
<1>3. {memory', disk'} \subseteq {disk, Torn} /\ dirty' = FALSE
  BY DEF Data!Crash, Data!CrashInWrite
<1>4. TypeOK'
  BY <1>1, <1>2, <1>3 DEF IInv, TypeOK
<1>5. AllAsked' /\ Renewed'
  BY <1>1, <1>2 DEF IInv, AllAsked, Renewed
<1>6. SeenReported'
  BY DEF SeenReported
<1> QED BY <1>4, <1>5, <1>6 DEF IInv

LEMMA CrashKeeps ==
  ASSUME IInv, Crash
  PROVE  IInv'
<1>1. UNCHANGED <<enabled, cache, report, reportAge, seen, lost, everOff, toggles>>
  BY DEF Crash
<1>2. SeenReported'
  BY <1>1 DEF IInv, SeenReported, Kept, Cache
<1> QED BY <1>1, <1>2, DiesKeeps DEF Crash, IInv, TypeOK

LEMMA CrashInCollectKeeps ==
  ASSUME IInv, NEW c \in Collector, CrashInCollect(c)
  PROVE  IInv'
<1>1. PICK listed \in Listings(c) :
        /\ Dies
        /\ \/ /\ Listed(c, Nothing) /\ Interrupted(Known(c, listed))
              /\ Data!Crash
           \/ /\ Listed(c, listed) /\ cache' = Known(c, listed) /\ UNCHANGED <<report, reportAge, lost>>
              /\ Data!Crash \/ (memory = None /\ Data!CrashInWrite)
           \/ /\ Due /\ Listed(c, listed) /\ Reports(Known(c, listed)) /\ UNCHANGED lost
              /\ Data!Crash \/ Data!CrashInWrite
  BY DEF CrashInCollect
<1>2. All(listed) \subseteq Device /\ Known(c, listed) \in Section /\ 0 \in Age
  BY ListingsType, KnownType, SysinfoAssumption DEF IInv, Age
<1>3. CASE Listed(c, Nothing) /\ Interrupted(Known(c, listed)) /\ Data!Crash
  <2>1. pc[c] = "listing" /\ seen' = seen /\ UNCHANGED <<enabled, everOff, toggles>>
    BY <1>3, NothingType DEF Listed
  <2>2. everOff = {} => SeenReported'
    BY <1>3, <2>1, KeptByInterrupted DEF IInv
  <2>3. /\ cache' \in Section \cup {None, Torn} /\ report' \in Section
        /\ reportAge' \in Age /\ lost' \subseteq Device
    BY <1>3, InterruptedType DEF IInv
  <2> QED BY <1>1, <1>3, <2>1, <2>2, <2>3, DiesKeeps DEF IInv, TypeOK
<1>4. CASE /\ Listed(c, listed) /\ cache' = Known(c, listed) /\ UNCHANGED <<report, reportAge, lost>>
           /\ Data!Crash \/ (memory = None /\ Data!CrashInWrite)
  <2>1. pc[c] = "listing" /\ seen' = seen \cup All(listed) /\ UNCHANGED <<enabled, everOff, toggles>>
    BY <1>4 DEF Listed
  <2>2. everOff = {} => SeenReported'
    BY <1>4, <2>1, KeptByCache DEF IInv
  <2> QED BY <1>1, <1>2, <1>4, <2>1, <2>2, DiesKeeps DEF IInv, TypeOK
<1>5. CASE /\ Due /\ Listed(c, listed) /\ Reports(Known(c, listed)) /\ UNCHANGED lost
           /\ Data!Crash \/ Data!CrashInWrite
  <2>1. pc[c] = "listing" /\ seen' = seen \cup All(listed) /\ UNCHANGED <<enabled, everOff, toggles>>
    BY <1>5 DEF Listed
  <2>2. everOff = {} => SeenReported'
    BY <1>5, <2>1, KeptByReport DEF IInv
  <2>3. cache' = None /\ report' \in Section /\ reportAge' = 0
    BY <1>5, ReportsType DEF IInv
  <2> QED BY <1>1, <1>2, <1>5, <2>1, <2>2, <2>3, DiesKeeps DEF IInv, TypeOK
<1> QED BY <1>1, <1>3, <1>4, <1>5

-----------------------------------------------------------------------------
(* The invariance *)

LEMMA NextInv == IInv /\ [Next]_vars => IInv'
<1> SUFFICES ASSUME IInv, [Next]_vars PROVE IInv'
  OBVIOUS
<1>1. CASE UNCHANGED vars
  BY <1>1 DEF IInv, TypeOK, AllAsked, Renewed, SeenReported, Kept, Cache, vars, data, history
<1>2. CASE \E c \in Collector : Collect(c) \/ Collected(c) \/ CollectRaises(c) \/ CrashInCollect(c)
  BY <1>2, CollectKeeps, CollectedKeeps, CollectRaisesKeeps, CrashInCollectKeeps
<1>3. CASE \E t \in Type, on \in BOOLEAN : Enable(t, on)
  BY <1>3, EnableKeeps
<1>4. CASE Tick \/ Crash
  BY <1>4, TickKeeps, CrashKeeps
<1> QED BY <1>1, <1>2, <1>3, <1>4 DEF Next

LEMMA Invariance == Spec => []IInv
BY InitInv, NextInv, PTL DEF Spec

\* Every variable has its type in each of the behaviours of the helper: the
\* sections of the cache and of the reports hold devices.
THEOREM TypeCorrect == Spec => []TypeOK
<1>1. IInv => TypeOK
  BY DEF IInv
<1> QED BY <1>1, Invariance, PTL

\* A device that was listed is in the cache or in a report, or was in a file
\* that was lost, whatever the number of types, as long as none is off: the
\* results of the listings are paired with their own types, and no write of a
\* collection leaves out what another one wrote.
THEOREM SeenCorrect == Spec => []SeenReported
<1>1. IInv => SeenReported
  BY DEF IInv
<1> QED BY <1>1, Invariance, PTL

\* A report is created only when an interval has passed since the last one,
\* as long as the daemon has not died.
LEMMA StepApart ==
  ASSUME IInv, [Next]_vars, NEW c \in Collector, pc[c] = "listing", pc'[c] = "idle",
         cache' = None, reportAge' = 0, ~crashed'
  PROVE  reportAge = Interval
<1>1. reportAge \in Nat /\ reportAge <= Interval /\ Interval \in Nat \ {0}
  BY SysinfoAssumption DEF IInv, TypeOK, Age
<1>2. Interval \in Age
  BY <1>1 DEF Age
<1>3. Due /\ ~crashed => reportAge = Interval
  BY <1>1, <1>2 DEF IInv, Renewed, Due
<1>4. ~ UNCHANGED vars /\ ~ Tick /\ ~ \E t \in Type, on \in BOOLEAN : Enable(t, on)
  BY DEF vars, Tick, Enable
<1>5. ~ Crash /\ \A d \in Collector : ~ CrashInCollect(d)
  BY DEF Crash, CrashInCollect, Dies
<1>6. \A d \in Collector : ~ Collect(d)
  BY DEF Collect, IInv, TypeOK
<1>7. ASSUME NEW d \in Collector, Collected(d) PROVE Due /\ ~crashed
  <2>1. PICK listed \in Listings(d) : ~Due => cache' = Known(d, listed)
    BY <1>7 DEF Collected
  <2>2. Known(d, listed) \in Section
    BY ListingsType, KnownType DEF IInv
  <2> QED BY <1>7, <2>1, <2>2, SysinfoAssumption DEF Collected
<1>8. ASSUME NEW d \in Collector, CollectRaises(d) PROVE Due /\ ~crashed
  <2>1. PICK listed \in Listings(d) : Interrupted(Known(d, listed))
    BY <1>8 DEF CollectRaises
  <2> QED BY <1>8, <2>1, SysinfoAssumption DEF CollectRaises, Interrupted
<1> QED BY <1>3, <1>4, <1>5, <1>6, <1>7, <1>8 DEF Next

THEOREM ReportsApartCorrect == Spec => ReportsApart
<1>1. IInv /\ [Next]_vars =>
        [(\E c \in Collector : pc[c] = "listing" /\ pc'[c] = "idle") /\ cache' = None /\ reportAge' = 0
          => (reportAge = Interval \/ crashed')]_vars
  BY StepApart
<1> QED BY <1>1, Invariance, PTL DEF Spec, ReportsApart
=============================================================================
