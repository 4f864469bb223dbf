---------------------------- MODULE LockfileProofs ----------------------------
(***************************************************************************)
(* What holds of the lock file: its type invariant, and for two processes   *)
(* that lock once each, with any number of attempts and inodes, that one    *)
(* has the lock at a time, that it is the owner's, and that the lock file   *)
(* implements Mutex.                                                        *)
(***************************************************************************)
EXTENDS Lockfile, TLAPS

\* What the fields of p hold, by where it is
Fields(p) == /\ fd[p] # None <=> pc[p] \in {"write", "locked", "release"}
             /\ pc[p] = "read" => peek[p] # None
             /\ pc[p] \in {"stat", "compare"} => info[p] # None
             /\ pc[p] = "compare" => seen[p] # None
             /\ pc[p] = "delay" => attempt[p] < Attempts

TypeInv == TypeOK /\ \A p \in Process : Fields(p)

-----------------------------------------------------------------------------
(* Types *)

LEMMA LeaveType ==
  ASSUME TypeOK, NEW p \in Process, NEW l, l \in Trying \cup {"idle", "locked", "release", "done", "dead"},
         Leave(p, l)
  PROVE  /\ pc' \in [Process -> Trying \cup {"idle", "locked", "release", "done", "dead"}]
         /\ peek' \in [Process -> Inode \cup {None}]
         /\ seen' \in [Process -> Inode \cup {None}]
         /\ info' \in [Process -> Process \cup {None}]
         /\ reads' \in [Process -> 0..(Reads - 1)]
BY DEF TypeOK, Leave, Goto, Reads

LEMMA NewFileType ==
  ASSUME TypeOK, NEW p \in Process, NewFile(p)
  PROVE  /\ path' \in Inode /\ content' \in [Inode -> Process \cup {None}]
         /\ fd' \in [Process -> Inode \cup {None}] /\ fd'[p] # None
BY LockfileAssumption DEF TypeOK, NewFile

LEMMA InitType == Init => TypeInv
BY LockfileAssumption DEF Init, TypeInv, TypeOK, Fields, Reads

LEMMA StepType ==
  ASSUME TypeInv, NEW p \in Process, Lock(p) \/ Step(p) \/ Crash(p)
  PROVE  TypeInv'
<1> USE LockfileAssumption DEF TypeInv, TypeOK, Fields, Goto, At, Trying
<1>1. CASE Lock(p)
  BY <1>1 DEF Lock
<1>2. CASE Create(p)
  <2>1. CASE NewFile(p) /\ Goto(p, "write")
    BY <1>2, <2>1, NewFileType DEF Create, NewFile
  <2>2. CASE Goto(p, "open") /\ UNCHANGED <<path, content, fd>>
    BY <1>2, <2>2 DEF Create
  <2> QED BY <1>2, <2>1, <2>2 DEF Create
<1>3. CASE OpenRead(p)
  BY <1>3 DEF OpenRead, Reads
<1>4. CASE ReadInfo(p)
  BY <1>4 DEF ReadInfo, Reads, Leave
<1>5. CASE StatPath(p)
  BY <1>5 DEF StatPath, Reads, Leave
<1>6. CASE Compare(p)
  BY <1>6 DEF Compare, HeldByOther, Reads, Leave
<1>7. CASE Retry(p)
  BY <1>7 DEF Retry
<1>8. CASE Take(p)
  <2>1. CASE NewFile(p)
    BY <1>8, <2>1, NewFileType DEF Take, NewFile
  <2>2. CASE path # None /\ content' = [content EXCEPT ![path] = None]
             /\ fd' = [fd EXCEPT ![p] = path] /\ UNCHANGED path
    BY <1>8, <2>2 DEF Take
  <2> QED BY <1>8, <2>1, <2>2 DEF Take
<1>9. CASE WriteInfo(p)
  BY <1>9 DEF WriteInfo
<1>10. CASE Unlock(p)
  BY <1>10 DEF Unlock, Unlocked, CloseFile
<1>11. CASE Crash(p)
  BY <1>11 DEF Crash, CloseFile, Leave, Reads
<1> QED BY <1>1, <1>2, <1>3, <1>4, <1>5, <1>6, <1>7, <1>8, <1>9, <1>10, <1>11 DEF Step

LEMMA NextType == TypeInv /\ [Next]_vars => TypeInv'
<1> SUFFICES ASSUME TypeInv, [Next]_vars PROVE TypeInv'
  OBVIOUS
<1>1. CASE Next
  BY <1>1, StepType DEF Next
<1>2. CASE UNCHANGED vars
  BY <1>2 DEF TypeInv, TypeOK, Fields, vars
<1> QED BY <1>1, <1>2

\* Every variable has its type: no descriptor but of an inode, and LockRetry
\* counts no further than its attempts.
THEOREM TypeCorrect == Spec => []TypeOK
<1>1. TypeInv => TypeOK
  BY DEF TypeInv
<1> QED BY <1>1, InitType, NextType, PTL DEF Spec
-----------------------------------------------------------------------------
(* Two processes that lock once each *)

\* Three processes, or one that locks again, can hold the lock with another:
\* one that has found a file stale deletes whichever has the name by then.
OnceEach == /\ Timely /\ ~Relocks
            /\ \A p, q, r \in Process : p = q \/ q = r \/ p = r

\* The file with the lock's name is open in a process that is about to have the
\* lock, or has it.
Own(p) == /\ pc[p] \in {"write", "locked"} => path = fd[p]
          /\ pc[p] = "write" => content[fd[p]] = None
          /\ pc[p] \in {"locked", "release"} => content[fd[p]] = p

\* Else, it is one that a process left when it died.
Left(p) == /\ pc[p] = "dead" \/ (pc[p] \in {"write", "locked"} /\ fd[p] = path)
           /\ content[path] \in {None, p}
Named == path # None => \E p \in Process : Left(p)

\* What q can have found of another process p: a file that it reads is that
\* of p, and a lock that it takes over is that of a p that is done or dead.
Found(p, q) ==
  /\ pc[p] \in {"write", "locked"} => pc[q] \notin {"write", "locked"}
  /\ pc[q] = "read" =>
       \/ /\ content[peek[q]] = None
          /\ pc[p] = "dead" \/ (pc[p] = "write" /\ fd[p] = peek[q])
       \/ /\ content[peek[q]] = p
          /\ pc[p] \in {"done", "dead"} \/ (pc[p] \in {"locked", "release"} /\ fd[p] = peek[q])
  /\ pc[q] \in {"stat", "compare"} =>
       /\ info[q] = p
       /\ pc[p] \in {"locked", "release", "done", "dead"}
  /\ pc[q] = "compare" /\ pc[p] \in {"locked", "release"} => fd[p] = seen[q]
  /\ pc[q] = "take" => pc[p] \in {"done", "dead"}

\* The inductive invariant
IInv == /\ TypeInv
        /\ \A p \in Process : Own(p)
        /\ Named
        /\ \A p, q \in Process : p # q => Found(p, q)

\* A step of p keeps it when it keeps what is said of p and of another process.
LEMMA PairKeeps ==
  ASSUME OnceEach, NEW p \in Process, TypeInv', Own(p)', Named',
         \A q \in Process \ {p} : Own(q)' /\ Found(p, q)' /\ Found(q, p)'
  PROVE  IInv'
<1>1. \A q \in Process : Own(q)'
  OBVIOUS
<1>2. ASSUME NEW q \in Process, NEW r \in Process, q # r PROVE Found(q, r)'
  <2>1. q = p \/ r = p
    BY <1>2 DEF OnceEach
  <2> QED BY <1>2, <2>1
<1> QED BY <1>1, <1>2 DEF IInv

\* A process that leaves the lock file alone
LEMMA QuietKeeps ==
  ASSUME OnceEach, IInv, TypeInv', NEW p \in Process,
         UNCHANGED <<path, content, fd>>,
         pc[p] \notin {"write", "locked", "release", "done", "dead"},
         \A q \in Process \ {p} : /\ pc'[q] = pc[q] /\ peek'[q] = peek[q]
                                  /\ seen'[q] = seen[q] /\ info'[q] = info[q],
         pc'[p] \notin {"write", "locked", "release", "done", "dead"},
         \A q \in Process \ {p} : Found(q, p)'
  PROVE  IInv'
<1>1. Own(p)'
  BY DEF Own
<1>2. ASSUME NEW q \in Process \ {p} PROVE Own(q)' /\ Found(p, q)'
  <2>1. Own(q) /\ Found(p, q)
    BY DEF IInv
  <2>2. Own(q)'
    BY <2>1 DEF Own
  <2>3. Found(p, q)'
    BY <2>1 DEF Found
  <2> QED BY <2>2, <2>3
<1>3. Named'
  <2> SUFFICES ASSUME path # None PROVE \E r \in Process : Left(r)'
    BY DEF Named
  <2>1. PICK r \in Process : Left(r)
    BY DEF IInv, Named
  <2>2. r # p
    BY <2>1 DEF Left
  <2> QED BY <2>1, <2>2 DEF Left
<1> QED BY <1>1, <1>2, <1>3, PairKeeps

LEMMA LockKeeps ==
  ASSUME OnceEach, IInv, NEW p \in Process, Lock(p) \/ Retry(p)
  PROVE  IInv'
<1>1. TypeInv'
  BY StepType DEF IInv, Step
<1>2. /\ pc[p] \in {"idle", "delay"} /\ pc' = [pc EXCEPT ![p] = "create"]
      /\ UNCHANGED <<path, content, fd, peek, seen, info>>
  BY DEF Lock, Retry, At, Goto
<1>3. pc'[p] = "create" /\ \A q \in Process \ {p} : pc'[q] = pc[q]
  BY <1>2 DEF IInv, TypeInv, TypeOK
<1>4. \A q \in Process \ {p} : Found(q, p)'
  BY <1>2, <1>3 DEF IInv, Found
<1> QED BY <1>1, <1>2, <1>3, <1>4, QuietKeeps

LEMMA OpenReadKeeps ==
  ASSUME OnceEach, IInv, NEW p \in Process, OpenRead(p)
  PROVE  IInv'
<1>1. TypeInv'
  BY StepType DEF IInv, Step
<1>2. /\ pc[p] = "open" /\ UNCHANGED <<path, content, fd, seen, info>>
      /\ \/ path = None /\ pc' = [pc EXCEPT ![p] = "create"] /\ peek' = peek
         \/ path # None /\ pc' = [pc EXCEPT ![p] = "read"] /\ peek' = [peek EXCEPT ![p] = path]
  BY DEF OpenRead, At, Goto
<1>3. /\ \A q \in Process \ {p} : pc'[q] = pc[q] /\ peek'[q] = peek[q]
      /\ \/ pc'[p] = "create"
         \/ path # None /\ pc'[p] = "read" /\ peek'[p] = path
  BY <1>2 DEF IInv, TypeInv, TypeOK
<1>4. ASSUME NEW q \in Process \ {p} PROVE Found(q, p)'
  <2>1. CASE pc'[p] = "create"
    BY <1>2, <1>3, <2>1 DEF IInv, Found
  <2>2. CASE path # None /\ pc'[p] = "read" /\ peek'[p] = path
    <3>1. PICK r \in Process : Left(r)
      BY <2>2 DEF IInv, Named
    <3>2. r = q
      BY <1>2, <3>1 DEF Left, OnceEach
    <3>3. Own(q) /\ Left(q)
      BY <3>1, <3>2 DEF IInv
    <3> QED BY <1>2, <1>3, <2>2, <3>3 DEF Found, Own, Left
  <2> QED BY <1>3, <2>1, <2>2
<1> QED BY <1>1, <1>2, <1>3, <1>4, QuietKeeps

\* A file is found stale only when its process is done or dead.
LEMMA ReadInfoKeeps ==
  ASSUME OnceEach, IInv, NEW p \in Process, ReadInfo(p)
  PROVE  IInv'
<1>1. TypeInv'
  BY StepType DEF IInv, Step
<1>2. /\ pc[p] = "read" /\ UNCHANGED <<path, content, fd>>
      /\ \A q \in Process \ {p} : /\ pc'[q] = pc[q] /\ peek'[q] = peek[q]
                                  /\ seen'[q] = seen[q] /\ info'[q] = info[q]
  BY DEF ReadInfo, Leave, At, Goto, IInv, TypeInv, TypeOK
<1>3. \/ content[peek[p]] # None /\ pc'[p] = "stat" /\ info'[p] = content[peek[p]]
      \/ pc'[p] = "read" /\ peek'[p] = peek[p]
      \/ content[peek[p]] = None /\ pc'[p] = "take" /\ GivesUp(p)
  BY DEF ReadInfo, Leave, At, Goto, IInv, TypeInv, TypeOK
<1>4. ASSUME NEW q \in Process \ {p} PROVE Found(q, p)'
  <2>1. Found(q, p) /\ q # None
    BY LockfileAssumption DEF IInv
  <2>2. CASE content[peek[p]] # None /\ pc'[p] = "stat" /\ info'[p] = content[peek[p]]
    BY <1>2, <2>1, <2>2 DEF Found
  <2>3. CASE pc'[p] = "read" /\ peek'[p] = peek[p]
    BY <1>2, <2>1, <2>3 DEF Found
  <2>4. CASE content[peek[p]] = None /\ pc'[p] = "take" /\ GivesUp(p)
    <3>1. pc[q] = "dead"
      BY <1>2, <2>1, <2>4 DEF Found, GivesUp, At, OnceEach
    <3> QED BY <1>2, <2>4, <3>1 DEF Found
  <2> QED BY <1>3, <2>2, <2>3, <2>4
<1>5. pc'[p] \notin {"write", "locked", "release", "done", "dead"}
  BY <1>3
<1> QED BY <1>1, <1>2, <1>4, <1>5, QuietKeeps

LEMMA StatPathKeeps ==
  ASSUME OnceEach, IInv, NEW p \in Process, StatPath(p)
  PROVE  IInv'
<1>1. TypeInv'
  BY StepType DEF IInv, Step
<1>2. /\ pc[p] = "stat" /\ UNCHANGED <<path, content, fd>>
      /\ \A q \in Process \ {p} : /\ pc'[q] = pc[q] /\ peek'[q] = peek[q]
                                  /\ seen'[q] = seen[q] /\ info'[q] = info[q]
  BY DEF StatPath, Leave, At, Goto, IInv, TypeInv, TypeOK
<1>3. \/ pc'[p] = "idle"
      \/ path # None /\ pc'[p] = "compare" /\ seen'[p] = path /\ info'[p] = info[p]
  BY DEF StatPath, Leave, At, Goto, IInv, TypeInv, TypeOK
<1>4. ASSUME NEW q \in Process \ {p} PROVE Found(q, p)'
  <2>1. CASE pc'[p] = "idle"
    BY <1>2, <2>1 DEF IInv, Found
  <2>2. CASE path # None /\ pc'[p] = "compare" /\ seen'[p] = path /\ info'[p] = info[p]
    <3>1. PICK r \in Process : Left(r)
      BY <2>2 DEF IInv, Named
    <3>2. r = q
      BY <1>2, <3>1 DEF Left, OnceEach
    <3>3. Found(q, p) /\ Left(q)
      BY <3>1, <3>2 DEF IInv
    <3> QED BY <1>2, <2>2, <3>3 DEF Found, Left
  <2> QED BY <1>3, <2>1, <2>2
<1>5. pc'[p] \notin {"write", "locked", "release", "done", "dead"}
  BY <1>3
<1> QED BY <1>1, <1>2, <1>4, <1>5, QuietKeeps

LEMMA CompareKeeps ==
  ASSUME OnceEach, IInv, NEW p \in Process, Compare(p)
  PROVE  IInv'
<1>1. TypeInv'
  BY StepType DEF IInv, Step
<1>2. /\ pc[p] = "compare" /\ UNCHANGED <<path, content, fd>>
      /\ \A q \in Process \ {p} : /\ pc'[q] = pc[q] /\ peek'[q] = peek[q]
                                  /\ seen'[q] = seen[q] /\ info'[q] = info[q]
  BY DEF Compare, HeldByOther, Leave, At, Goto, IInv, TypeInv, TypeOK
<1>3. \/ pc'[p] \in {"idle", "delay"}
      \/ fd[info[p]] # seen[p] /\ pc'[p] = "take"
  BY DEF Compare, HeldByOther, Leave, At, Goto, IInv, TypeInv, TypeOK
<1>4. \A q \in Process \ {p} : Found(q, p)'
  BY <1>2, <1>3 DEF IInv, Found
<1>5. pc'[p] \notin {"write", "locked", "release", "done", "dead"}
  BY <1>3
<1> QED BY <1>1, <1>2, <1>4, <1>5, QuietKeeps

\* What p leaves as it is of another process
Others(p) == \A q \in Process \ {p} : /\ pc'[q] = pc[q] /\ fd'[q] = fd[q] /\ peek'[q] = peek[q]
                                      /\ seen'[q] = seen[q] /\ info'[q] = info[q]

\* p has just opened an empty file that has the name.
LEMMA OpensKeeps ==
  ASSUME OnceEach, IInv, TypeInv', NEW p \in Process, Others(p),
         pc[p] \in {"create", "take"}, pc'[p] = "write",
         path' \in Inode, fd'[p] = path', content'[path'] = None,
         \A q \in Process \ {p} : /\ fd[q] # None => content'[fd[q]] = content[fd[q]]
                                  /\ pc[q] \notin {"write", "locked", "read", "stat", "compare", "take"}
  PROVE  IInv'
<1>1. Own(p)'
  BY DEF Own
<1>2. Named'
  BY DEF Named, Left
<1>3. ASSUME NEW q \in Process \ {p} PROVE Own(q)' /\ Found(p, q)' /\ Found(q, p)'
  <2>1. Own(q) /\ (fd[q] # None <=> pc[q] \in {"write", "locked", "release"})
    BY DEF IInv, TypeInv, Fields
  <2>2. pc'[q] = pc[q] /\ fd'[q] = fd[q]
    BY DEF Others
  <2>3. Own(q)'
    BY <2>1, <2>2 DEF Own
  <2> QED BY <2>2, <2>3 DEF Found
<1> QED BY <1>1, <1>2, <1>3, PairKeeps

\* A process that is to create its file while another has the lock does not.
LEMMA CreateKeeps ==
  ASSUME OnceEach, IInv, NEW p \in Process, Create(p)
  PROVE  IInv'
<1>1. TypeInv'
  BY StepType DEF IInv, Step
<1>2. pc[p] = "create" /\ UNCHANGED <<peek, seen, info>>
  BY DEF Create, At
<1>3. CASE path = None /\ NewFile(p) /\ Goto(p, "write")
  <2>1. PICK i \in Inode : /\ Free(i) /\ path' = i
                           /\ content' = [content EXCEPT ![i] = None]
                           /\ fd' = [fd EXCEPT ![p] = i]
    BY <1>3 DEF NewFile
  <2>2. pc' = [pc EXCEPT ![p] = "write"]
    BY <1>3 DEF Goto
  <2>3. /\ pc'[p] = "write" /\ fd'[p] = path' /\ content'[path'] = None /\ Others(p)
        /\ \A q \in Process : content'[fd[q]] = content[fd[q]] \/ fd[q] = None
    BY <1>2, <2>1, <2>2 DEF IInv, TypeInv, TypeOK, Others, Free
  <2>4. ASSUME NEW q \in Process \ {p}
        PROVE  pc[q] \notin {"write", "locked", "read", "stat", "compare", "take"}
    <3>1. Own(q) /\ Found(p, q) /\ Fields(q)
      BY DEF IInv, TypeInv
    <3> QED BY <1>2, <1>3, <3>1 DEF Own, Found, Fields
  <2> QED BY <1>1, <1>2, <2>1, <2>3, <2>4, OpensKeeps
<1>4. CASE path # None /\ Goto(p, "open") /\ UNCHANGED <<path, content, fd>>
  <2>1. pc'[p] = "open" /\ \A q \in Process \ {p} : pc'[q] = pc[q]
    BY <1>4 DEF Goto, IInv, TypeInv, TypeOK
  <2>2. \A q \in Process \ {p} : Found(q, p)'
    BY <1>2, <1>4, <2>1 DEF IInv, Found
  <2> QED BY <1>1, <1>2, <1>4, <2>1, <2>2, QuietKeeps
<1> QED BY <1>3, <1>4 DEF Create

LEMMA TakeKeeps ==
  ASSUME OnceEach, IInv, NEW p \in Process, Take(p)
  PROVE  IInv'
<1>1. TypeInv'
  BY StepType DEF IInv, Step
<1>2. pc[p] = "take" /\ pc' = [pc EXCEPT ![p] = "write"] /\ UNCHANGED <<peek, seen, info>>
  BY DEF Take, At, Goto
<1>3. PICK i \in Inode : /\ path' = i
                         /\ content' = [content EXCEPT ![i] = None]
                         /\ fd' = [fd EXCEPT ![p] = i]
  BY DEF Take, NewFile, IInv, TypeInv, TypeOK
<1>4. pc'[p] = "write" /\ fd'[p] = path' /\ content'[path'] = None /\ Others(p)
  BY <1>2, <1>3 DEF IInv, TypeInv, TypeOK, Others
<1>5. \A q \in Process \ {p} : pc[q] \in {"done", "dead"} /\ fd[q] = None
  BY <1>2 DEF IInv, TypeInv, Found, Fields
<1> QED BY <1>1, <1>2, <1>3, <1>4, <1>5, OpensKeeps

LEMMA WriteInfoKeeps ==
  ASSUME OnceEach, IInv, NEW p \in Process, WriteInfo(p)
  PROVE  IInv'
<1>1. TypeInv'
  BY StepType DEF IInv, Step
<1>2. /\ pc[p] = "write" /\ pc' = [pc EXCEPT ![p] = "locked"]
      /\ content' = [content EXCEPT ![fd[p]] = p]
      /\ UNCHANGED <<path, fd, peek, seen, info>>
  BY DEF WriteInfo, At, Goto
<1>3. /\ pc'[p] = "locked" /\ Others(p) /\ fd[p] \in Inode /\ content'[fd[p]] = p
      /\ \A i \in Inode \ {fd[p]} : content'[i] = content[i]
  BY <1>2 DEF IInv, TypeInv, TypeOK, Fields, Others
<1>4. Own(p)'
  BY <1>2, <1>3 DEF IInv, Own
<1>5. path = fd[p]
  BY <1>2 DEF IInv, Own
<1>6. Named'
  BY <1>2, <1>3, <1>5 DEF Named, Left
<1>7. ASSUME NEW q \in Process \ {p} PROVE Own(q)' /\ Found(p, q)' /\ Found(q, p)'
  <2>1. Own(q) /\ Found(p, q) /\ Found(q, p) /\ Fields(q)
    BY DEF IInv, TypeInv
  <2>2. peek[q] \in Inode \cup {None} /\ fd[q] \in Inode \cup {None}
    BY DEF IInv, TypeInv, TypeOK
  <2>3. pc'[q] = pc[q] /\ fd'[q] = fd[q] /\ peek'[q] = peek[q] /\ seen'[q] = seen[q] /\ info'[q] = info[q]
    BY <1>3 DEF Others
  <2>4. fd[q] # fd[p] \/ fd[q] = None
    <3>1. CASE pc[q] \in {"write", "locked"}
      BY <1>2, <2>1, <3>1 DEF Found
    <3>2. CASE pc[q] = "release"
      BY <1>2, <2>1, <3>2, LockfileAssumption DEF IInv, Own
    <3> QED BY <2>1, <3>1, <3>2 DEF Fields
  <2>5. Own(q)'
    BY <1>2, <1>3, <2>1, <2>2, <2>3, <2>4 DEF Own, Fields
  <2>6. Found(q, p)'
    BY <1>2, <1>3, <2>1, <2>3 DEF Found
  <2>7. Found(p, q)'
    <3>1. CASE pc[q] = "read"
      <4>1. p # None /\ peek[q] \in Inode
        BY <2>1, <2>2, <3>1, LockfileAssumption DEF Fields
      <4> QED BY <1>2, <1>3, <2>1, <2>3, <3>1, <4>1 DEF Found
    <3>2. CASE pc[q] # "read"
      BY <1>2, <1>3, <2>1, <2>3, <3>2 DEF Found
    <3> QED BY <3>1, <3>2
  <2> QED BY <2>5, <2>6, <2>7
<1> QED BY <1>1, <1>4, <1>6, <1>7, PairKeeps

\* The file goes before the descriptor does.
LEMMA UnlockKeeps ==
  ASSUME OnceEach, IInv, NEW p \in Process, Unlock(p)
  PROVE  IInv'
<1>1. TypeInv'
  BY StepType DEF IInv, Step
<1>2. UNCHANGED <<content, peek, seen, info>> /\ Own(p) /\ Fields(p)
  BY DEF Unlock, IInv, TypeInv
<1>3. CASE pc[p] = "locked"
  <2>1. path # None
    BY <1>2, <1>3 DEF Own, Fields
  <2>2. path' = None /\ pc' = [pc EXCEPT ![p] = "release"] /\ fd' = fd
    BY <1>3, <2>1 DEF Unlock, At, Goto
  <2>3. pc'[p] = "release" /\ Others(p)
    BY <1>2, <2>2 DEF IInv, TypeInv, TypeOK, Others
  <2>4. Own(p)' /\ Named'
    BY <1>2, <1>3, <2>2, <2>3 DEF Own, Named
  <2>5. ASSUME NEW q \in Process \ {p} PROVE Own(q)' /\ Found(p, q)' /\ Found(q, p)'
    <3>1. Own(q) /\ Found(p, q) /\ Found(q, p)
      BY DEF IInv
    <3>2. pc'[q] = pc[q] /\ pc[q] \notin {"write", "locked"}
      BY <1>3, <2>3, <3>1 DEF Found, Others
    <3>3. Own(q)'
      BY <1>2, <2>2, <3>1, <3>2 DEF Own
    <3>4. Found(p, q)' /\ Found(q, p)'
      BY <1>2, <1>3, <2>2, <2>3, <3>1, <3>2 DEF Found
    <3> QED BY <3>3, <3>4
  <2> QED BY <1>1, <2>4, <2>5, PairKeeps
<1>4. CASE pc[p] = "release"
  <2>1. path' = path /\ pc' = [pc EXCEPT ![p] = "done"] /\ fd' = [fd EXCEPT ![p] = None]
    BY <1>4 DEF Unlock, Unlocked, CloseFile, At, Goto, OnceEach
  <2>2. pc'[p] = "done" /\ Others(p)
    BY <1>2, <2>1 DEF IInv, TypeInv, TypeOK, Others
  <2>3. Own(p)'
    BY <2>2 DEF Own
  <2>4. Named'
    <3> SUFFICES ASSUME path # None PROVE \E r \in Process : Left(r)'
      BY <2>1 DEF Named
    <3>1. PICK r \in Process : Left(r)
      BY DEF IInv, Named
    <3>2. r # p
      BY <1>4, <3>1 DEF Left
    <3> QED BY <1>2, <2>1, <2>2, <3>1, <3>2 DEF Left, Others
  <2>5. ASSUME NEW q \in Process \ {p} PROVE Own(q)' /\ Found(p, q)' /\ Found(q, p)'
    <3>1. Own(q) /\ Found(p, q)
      BY DEF IInv
    <3>2. /\ pc'[q] = pc[q] /\ fd'[q] = fd[q] /\ peek'[q] = peek[q]
          /\ seen'[q] = seen[q] /\ info'[q] = info[q]
      BY <2>2 DEF Others
    <3>3. Own(q)'
      BY <1>2, <2>1, <3>1, <3>2 DEF Own
    <3>4. Found(p, q)'
      BY <1>2, <1>4, <2>2, <3>1, <3>2 DEF Found
    <3>5. Found(q, p)'
      BY <2>2 DEF Found
    <3> QED BY <3>3, <3>4, <3>5
  <2> QED BY <1>1, <2>3, <2>4, <2>5, PairKeeps
<1> QED BY <1>3, <1>4 DEF Unlock, At

\* What a process has written stays when it dies.
LEMMA CrashKeeps ==
  ASSUME OnceEach, IInv, NEW p \in Process, Crash(p)
  PROVE  IInv'
<1>1. TypeInv'
  BY StepType DEF IInv
<1>2. /\ pc[p] \notin {"done", "dead"} /\ pc'[p] = "dead" /\ Others(p)
      /\ UNCHANGED <<path, content>>
  BY DEF Crash, CloseFile, Leave, Goto, IInv, TypeInv, TypeOK, Others
<1>3. Own(p)'
  BY <1>2 DEF Own
<1>4. Named'
  <2> SUFFICES ASSUME path # None PROVE \E r \in Process : Left(r)'
    BY <1>2 DEF Named
  <2>1. PICK r \in Process : Left(r)
    BY DEF IInv, Named
  <2>2. CASE r = p
    BY <1>2, <2>1, <2>2 DEF Left
  <2>3. CASE r # p
    BY <1>2, <2>1, <2>3 DEF Left, Others
  <2> QED BY <2>2, <2>3
<1>5. ASSUME NEW q \in Process \ {p} PROVE Own(q)' /\ Found(p, q)' /\ Found(q, p)'
  <2>1. Own(q) /\ Found(p, q)
    BY DEF IInv
  <2>2. /\ pc'[q] = pc[q] /\ fd'[q] = fd[q] /\ peek'[q] = peek[q]
        /\ seen'[q] = seen[q] /\ info'[q] = info[q]
    BY <1>2 DEF Others
  <2>3. Own(q)'
    BY <1>2, <2>1, <2>2 DEF Own
  <2>4. Found(p, q)' /\ Found(q, p)'
    BY <1>2, <2>1, <2>2 DEF Found
  <2> QED BY <2>3, <2>4
<1> QED BY <1>1, <1>3, <1>4, <1>5, PairKeeps

-----------------------------------------------------------------------------
(* The invariance *)

LEMMA InitInv == Init => IInv
BY InitType DEF Init, IInv, Own, Named, Found

LEMMA NextInv ==
  ASSUME OnceEach
  PROVE  IInv /\ [Next]_vars => IInv'
<1> SUFFICES ASSUME IInv, [Next]_vars PROVE IInv'
  OBVIOUS
<1>1. CASE Next
  BY <1>1, LockKeeps, OpenReadKeeps, ReadInfoKeeps, StatPathKeeps, CompareKeeps, CreateKeeps,
     TakeKeeps, WriteInfoKeeps, UnlockKeeps, CrashKeeps DEF Next, Step
<1>2. CASE UNCHANGED vars
  <2>1. TypeInv'
    BY <1>2, NextType DEF IInv
  <2> QED BY <1>2, <2>1 DEF IInv, Own, Named, Left, Found, vars
<1> QED BY <1>1, <1>2

LEMMA Invariance ==
  ASSUME OnceEach
  PROVE  Spec => []IInv
BY InitInv, NextInv, PTL DEF Spec

\* Two processes that lock once each, and write their line in time, do not both
\* have the lock, however often they try and whenever one of them dies.
THEOREM ExclusionCorrect == OnceEach => (Spec => []MutualExclusion)
<1> SUFFICES ASSUME OnceEach PROVE Spec => []MutualExclusion
  OBVIOUS
<1>1. IInv => MutualExclusion
  BY DEF IInv, Found, MutualExclusion, At
<1> QED BY <1>1, Invariance, PTL

\* The file that has the lock's name is that of the process that has the lock.
THEOREM OwnLockCorrect == OnceEach => (Spec => []OwnLock)
<1> SUFFICES ASSUME OnceEach PROVE Spec => []OwnLock
  OBVIOUS
<1>1. IInv => OwnLock
  BY DEF IInv, Own, OwnLock, At
<1> QED BY <1>1, Invariance, PTL

-----------------------------------------------------------------------------
(* The lock file implements Mutex *)

Stages == [q \in Process |-> Stage(q)]

\* The other process stays where it is.
Alone(p) == \A q \in Process \ {p} : pc'[q] = pc[q]

LEMMA StepAlone ==
  ASSUME TypeInv, NEW p \in Process, Lock(p) \/ Step(p) \/ Crash(p)
  PROVE  Alone(p) /\ pc[p] \notin {"done", "dead"}
<1> USE DEF Alone, TypeInv, TypeOK, At, Goto, Leave
<1>1. CASE Lock(p) \/ Create(p) \/ OpenRead(p) \/ Retry(p) \/ Take(p) \/ WriteInfo(p)
  BY <1>1 DEF Lock, Create, OpenRead, Retry, Take, WriteInfo
<1>2. CASE ReadInfo(p) \/ StatPath(p) \/ Compare(p)
  BY <1>2 DEF ReadInfo, StatPath, Compare, HeldByOther
<1>3. CASE Unlock(p) \/ Crash(p)
  BY <1>3 DEF Unlock, Unlocked, Crash
<1> QED BY <1>1, <1>2, <1>3 DEF Step

\* Who reads a lock file is not alone: another process has left it.
Company == \A p \in Process : pc[p] \in {"read", "stat", "compare", "take"} => Process # {p}

LEMMA CompanyKept == IInv /\ Company /\ [Next]_vars => Company'
<1> SUFFICES ASSUME IInv, Company, [Next]_vars PROVE Company'
  OBVIOUS
<1>1. ASSUME NEW p \in Process, Lock(p) \/ Step(p) \/ Crash(p) PROVE Company'
  <2>1. \/ pc'[p] \notin {"read", "stat", "compare", "take"}
        \/ pc[p] \in {"read", "stat", "compare", "take"}
        \/ pc[p] = "open" /\ path # None
    BY <1>1 DEF Lock, Step, Create, OpenRead, ReadInfo, StatPath, Compare, HeldByOther, Retry, Take,
                WriteInfo, Unlock, Unlocked, Crash, Leave, Goto, At, IInv, TypeInv, TypeOK
  <2>2. pc[p] = "open" /\ path # None => Process # {p}
    BY DEF IInv, Named, Left
  <2>3. \A q \in Process \ {p} : pc'[q] = pc[q]
    BY <1>1, StepAlone DEF IInv, Alone
  <2> QED BY <2>1, <2>2, <2>3 DEF Company
<1>2. CASE UNCHANGED vars
  BY <1>2 DEF Company, vars
<1> QED BY <1>1, <1>2 DEF Next

LEMMA Moves ==
  ASSUME NEW p \in Process, Alone(p), NEW from, NEW to, Stage(p) \in from, Stage(p)' = to
  PROVE  M!Move(p, from, to)
<1>1. \A q \in Process \ {p} : Stage(q)' = Stage(q)
  BY DEF Alone, Stage, At
<1>2. Stages' = [Stages EXCEPT ![p] = to]
  BY <1>1 DEF Stages
<1> QED BY <1>2 DEF M!Move, Stages

\* What p goes through between two moves is nobody else's business.
LEMMA Stays ==
  ASSUME NEW p \in Process, Alone(p), Stage(p)' = Stage(p)
  PROVE  Stages' = Stages
BY DEF Alone, Stage, At, Stages

\* The abstract step of p: it moves, or nothing is to be seen of its step.
Moved(p) == \/ M!Asks(p) \/ M!Gets(p) \/ M!Refused(p) \/ M!Fails(p)
            \/ M!Frees(p) \/ M!Ends(p) \/ M!Dies(p)
            \/ Stages' = Stages /\ (path' # None <=> path # None)

LEMMA AskStep ==
  ASSUME IInv, NEW p \in Process, Lock(p) \/ Retry(p)
  PROVE  Moved(p)
<1>1. Alone(p)
  BY StepAlone DEF IInv, Step
<1>2. Stage(p) \in {"out", "refused"} /\ Stage(p)' = "wants" /\ path' = path
  BY DEF Lock, Retry, Goto, At, Stage, IInv, TypeInv, TypeOK
<1> QED BY <1>1, <1>2, Moves DEF Moved, M!Asks

\* When a file is created or taken over, nobody has the lock.
LEMMA GetStep ==
  ASSUME OnceEach, IInv, NEW p \in Process, Create(p) \/ Take(p)
  PROVE  Moved(p)
<1>1. Alone(p) /\ Stage(p) = "wants"
  BY StepAlone DEF IInv, Step, Create, Take, At, Stage
<1>2. CASE pc'[p] = "write"
  <2>1. Stage(p)' = "has"
    BY <1>2 DEF Stage, At
  <2>2. path' # None
    BY <1>2, LockfileAssumption
       DEF Create, Take, NewFile, Goto, IInv, TypeInv, TypeOK
  <2>3. ASSUME NEW q \in Process \ {p} PROVE Stage(q) # "has"
    <3>1. pc[q] \notin {"write", "locked"}
      <4>1. CASE Create(p)
        <5>1. path = None
          BY <1>2, <4>1 DEF Create, Goto, At, IInv, TypeInv, TypeOK
        <5> QED BY <5>1 DEF IInv, TypeInv, Own, Fields
      <4>2. CASE Take(p)
        BY <4>2 DEF Take, At, IInv, Found
      <4> QED BY <4>1, <4>2
    <3> QED BY <3>1 DEF Stage, At
  <2>4. ~M!Another(p, {"has"})
    BY <2>3 DEF M!Another
  <2> QED BY <1>1, <2>1, <2>2, <2>4, Moves DEF Moved, M!Gets
<1>3. CASE pc'[p] # "write"
  <2>1. pc'[p] = "open" /\ path' = path
    BY <1>3 DEF Create, Take, Goto, IInv, TypeInv, TypeOK
  <2> QED BY <1>1, <2>1, Stays DEF Moved, Stage, At
<1> QED BY <1>2, <1>3

LEMMA LookStep ==
  ASSUME IInv, NEW p \in Process, OpenRead(p) \/ ReadInfo(p) \/ WriteInfo(p)
  PROVE  Moved(p)
<1>1. Alone(p)
  BY StepAlone DEF IInv, Step
<1>2. Stage(p)' = Stage(p) /\ path' = path
  BY DEF OpenRead, ReadInfo, WriteInfo, Leave, Goto, At, Stage, IInv, TypeInv, TypeOK
<1> QED BY <1>1, <1>2, Stays DEF Moved

\* The process that info names is the other one; when it has the file open that
\* had the name, it has not unlocked it, or is just about to close it.
LEMMA CompareStep ==
  ASSUME OnceEach, IInv, NEW p \in Process, Compare(p)
  PROVE  Moved(p)
<1>1. Alone(p) /\ Stage(p) = "wants" /\ path' = path
  BY StepAlone DEF IInv, Step, Compare, At, Stage
<1>2. CASE fd[info[p]] = seen[p] /\ HeldByOther(p)
  <2>1. Stage(p)' \in {"refused", "out"}
    BY <1>2 DEF HeldByOther, Leave, Goto, Stage, At, IInv, TypeInv, TypeOK
  <2>2. PICK q \in Process \ {p} : info[p] = q
    <3>1. info[p] \in Process
      BY DEF Compare, At, IInv, TypeInv, TypeOK, Fields
    <3>2. info[p] # p
      <4>1. fd[p] = None /\ seen[p] # None
        BY DEF Compare, At, IInv, TypeInv, Fields
      <4> QED BY <1>2, <4>1
    <3> QED BY <3>1, <3>2
  <2>3. fd[q] # None
    BY <1>2, <2>2 DEF Compare, At, IInv, TypeInv, Fields
  <2>4. pc[q] \in {"locked", "release"}
    BY <2>2, <2>3 DEF Compare, At, IInv, TypeInv, Fields, Found
  <2>5. M!Another(p, {"has", "leaves"})
    BY <2>4 DEF M!Another, Stage, At
  <2> QED BY <1>1, <2>1, <2>5, Moves DEF Moved, M!Refused
<1>3. CASE fd[info[p]] # seen[p] /\ Leave(p, "take")
  <2>1. Stage(p)' = "wants"
    BY <1>3 DEF Leave, Goto, Stage, At, IInv, TypeInv, TypeOK
  <2> QED BY <1>1, <2>1, Stays DEF Moved
<1> QED BY <1>2, <1>3 DEF Compare

\* The name is gone only when the process whose line was read has unlocked.
LEMMA StatStep ==
  ASSUME OnceEach, IInv, Company, NEW p \in Process, StatPath(p)
  PROVE  Moved(p)
<1>1. Alone(p) /\ Stage(p) = "wants" /\ path' = path
  BY StepAlone DEF IInv, Step, StatPath, At, Stage
<1>2. CASE path = None /\ Leave(p, "idle")
  <2>1. Stage(p)' = "out"
    BY <1>2 DEF Leave, Goto, Stage, At, IInv, TypeInv, TypeOK
  <2>2. PICK q \in Process \ {p} : pc[q] \in {"release", "done", "dead"}
    <3>1. PICK q \in Process : q # p
      BY DEF StatPath, At, Company
    <3>2. pc[q] \in {"locked", "release", "done", "dead"}
      BY <3>1 DEF StatPath, At, IInv, Found
    <3>3. pc[q] # "locked"
      BY <1>2 DEF IInv, TypeInv, Own, Fields
    <3> QED BY <3>1, <3>2, <3>3
  <2>3. M!Another(p, {"leaves", "gone"})
    BY <2>2 DEF M!Another, Stage, At
  <2> QED BY <1>1, <1>2, <2>1, <2>3, Moves DEF Moved, M!Fails
<1>3. CASE path # None /\ Goto(p, "compare")
  BY <1>1, <1>3, Stays DEF Moved, Stage, At, Goto, IInv, TypeInv, TypeOK
<1> QED BY <1>2, <1>3 DEF StatPath

LEMMA UnlockStep ==
  ASSUME OnceEach, IInv, NEW p \in Process, Unlock(p)
  PROVE  Moved(p)
<1>1. Alone(p)
  BY StepAlone DEF IInv, Step
<1>2. CASE pc[p] = "locked"
  <2>1. path # None
    BY <1>2 DEF IInv, TypeInv, Own, Fields
  <2>2. Stage(p) = "has" /\ Stage(p)' = "leaves" /\ path' = None
    BY <1>2, <2>1 DEF Unlock, Goto, Stage, At, IInv, TypeInv, TypeOK
  <2> QED BY <1>1, <2>1, <2>2, Moves DEF Moved, M!Frees
<1>3. CASE pc[p] = "release"
  <2>1. Stage(p) = "leaves" /\ Stage(p)' = "gone" /\ path' = path
    BY <1>3 DEF OnceEach, Unlock, Unlocked, Goto, Stage, At, IInv, TypeInv, TypeOK
  <2> QED BY <1>1, <2>1, Moves DEF Moved, M!Ends
<1> QED BY <1>2, <1>3 DEF Unlock, At

LEMMA CrashStep ==
  ASSUME IInv, NEW p \in Process, Crash(p)
  PROVE  Moved(p)
<1>1. Alone(p) /\ pc[p] \notin {"done", "dead"}
  BY StepAlone DEF IInv
<1>2. Stage(p) \in {"out", "wants", "refused", "has", "leaves"}
  BY <1>1 DEF Stage, At
<1>3. Stage(p)' = "gone" /\ path' = path
  BY DEF Crash, Leave, Goto, Stage, At, IInv, TypeInv, TypeOK
<1> QED BY <1>1, <1>2, <1>3, Moves DEF Moved, M!Dies

\* Two processes that lock once each see of each other what Mutex says: a lock
\* is got when nobody has it, and refused because another has it.
THEOREM ImplementsMutex == OnceEach => (Spec => Excludes)
<1> SUFFICES ASSUME OnceEach PROVE Spec => Excludes
  OBVIOUS
<1>1. Init => M!Init
  BY DEF Init, M!Init, Stage, At
<1>2. IInv /\ Company /\ [Next]_vars => [M!Next]_<<[p \in Process |-> Stage(p)], path # None>>
  <2>1. ASSUME IInv, Company, NEW p \in Process, Lock(p) \/ Step(p) \/ Crash(p) PROVE Moved(p)
    BY <2>1, AskStep, GetStep, LookStep, CompareStep, StatStep, UnlockStep, CrashStep DEF Step
  <2>2. IInv /\ Company /\ Next => M!Next \/ (Stages' = Stages /\ (path' # None <=> path # None))
    BY <2>1 DEF Next, Moved, M!Next
  <2>3. UNCHANGED vars => Stages' = Stages /\ (path' # None <=> path # None)
    BY DEF vars, Stages, Stage, At
  <2> QED BY <2>2, <2>3 DEF Stages
<1>3. Init => Company
  BY DEF Init, Company
<1> QED BY <1>1, <1>2, <1>3, CompanyKept, Invariance, PTL DEF Spec, Excludes, M!Spec
=============================================================================
