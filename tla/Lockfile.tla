------------------------------ MODULE Lockfile ------------------------------
(***************************************************************************)
(* The lock file that guards a helper's directory of pending logs           *)
(* (steamos_log_submitter/lockfile.py), as used by processes that run       *)
(* concurrently.  Each action is one system call of lock() or unlock(), and *)
(* processes interleave between them.  A file is its inode: a name can be   *)
(* unlinked and created again while descriptors to the old file stay open,  *)
(* and the inode number of a file that is gone is used again.  A process    *)
(* gets the same descriptor number for each lock file that it opens.        *)
(***************************************************************************)
EXTENDS Naturals, FiniteSets

CONSTANTS Process,   \* the processes that use the lock
          Inode,     \* inode numbers
          None,      \* no file, and no content
          Attempts,  \* of LockRetry; 1 for Lockfile.lock alone
          Timely,    \* a creator writes its line before a reader gives up
          Crashes,   \* processes may be killed
          Relocks    \* a process may take the lock again after it unlocked

ASSUME LockfileAssumption == /\ None \notin Process \cup Inode
                             /\ Cardinality(Inode) > 2 * Cardinality(Process)
                             /\ Attempts \in Nat \ {0}
                             /\ {Timely, Crashes, Relocks} \subseteq BOOLEAN

\* for _ in range(3)
Reads == 3

VARIABLES
  path,     \* the file that has the lock's name
  content,  \* the process named in each file: its /proc/<pid>/fd/<fd>
  fd,       \* self.lockfile of each process
  peek,     \* the file it has opened to read
  seen,     \* pathstat of its staleness test
  info,     \* lockinfo
  reads,    \* how often it has read
  attempt,  \* of LockRetry
  pc

vars == <<path, content, fd, peek, seen, info, reads, attempt, pc>>

Trying == {"create", "open", "read", "stat", "compare", "take", "write", "delay"}

TypeOK == /\ path \in Inode \cup {None}
          /\ content \in [Inode -> Process \cup {None}]
          /\ fd \in [Process -> Inode \cup {None}]
          /\ peek \in [Process -> Inode \cup {None}]
          /\ seen \in [Process -> Inode \cup {None}]
          /\ info \in [Process -> Process \cup {None}]
          /\ reads \in [Process -> 0..(Reads - 1)]
          /\ attempt \in [Process -> 0..Attempts]
          /\ pc \in [Process -> Trying \cup {"idle", "locked", "release", "done", "dead"}]

\* Inode i is not in use.
Free(i) == i # path /\ \A p \in Process : i \notin {fd[p], peek[p]}

Goto(p, l) == pc' = [pc EXCEPT ![p] = l]
At(p, l) == pc[p] = l

Init == /\ path = None
        /\ content = [i \in Inode |-> None]
        /\ fd = [p \in Process |-> None]
        /\ peek = [p \in Process |-> None]
        /\ seen = [p \in Process |-> None]
        /\ info = [p \in Process |-> None]
        /\ reads = [p \in Process |-> 0]
        /\ attempt = [p \in Process |-> 0]
        /\ pc = [p \in Process |-> "idle"]

\* lock() is left, and its local variables with it.
Leave(p, l) == /\ Goto(p, l)
               /\ peek' = [peek EXCEPT ![p] = None]
               /\ seen' = [seen EXCEPT ![p] = None]
               /\ info' = [info EXCEPT ![p] = None]
               /\ reads' = [reads EXCEPT ![p] = 0]

-----------------------------------------------------------------------------
(* lock *)

Lock(p) == /\ At(p, "idle")
           /\ Goto(p, "create")
           /\ attempt' = [attempt EXCEPT ![p] = 1]
           /\ UNCHANGED <<path, content, fd, peek, seen, info, reads>>

\* A new empty file under the lock's name, opened by p
NewFile(p) == \E i \in Inode : /\ Free(i)
                               /\ path' = i
                               /\ content' = [content EXCEPT ![i] = None]
                               /\ fd' = [fd EXCEPT ![p] = i]

\* open(path, 'x')
Create(p) == /\ At(p, "create")
             /\ \/ path = None /\ NewFile(p) /\ Goto(p, "write")
                \/ path # None /\ Goto(p, "open") /\ UNCHANGED <<path, content, fd>>
             /\ UNCHANGED <<peek, seen, info, reads, attempt>>

\* open(path, 'r'); the lock may just have been deleted
OpenRead(p) == /\ At(p, "open")
               /\ \/ path = None /\ Goto(p, "create") /\ UNCHANGED peek
                  \/ path # None /\ Goto(p, "read") /\ peek' = [peek EXCEPT ![p] = path]
               /\ reads' = [reads EXCEPT ![p] = 0]
               /\ UNCHANGED <<path, content, fd, seen, info, attempt>>

\* A writer is slow when a reader can give up before the line is there.
GivesUp(p) == Timely => \A q \in Process : ~(At(q, "write") /\ fd[q] = peek[p])

\* An empty file is read again after 10 ms, three times in all.  What is read
\* is never None, so an empty file counts as stale.  (Mutant: as held.)
ReadInfoHeld(p) ==
  /\ At(p, "read")
  /\ LET found == content[peek[p]]
         last  == reads[p] + 1 = Reads
     IN \/ /\ found # None
           /\ Goto(p, "stat")
           /\ info' = [info EXCEPT ![p] = found]
           /\ peek' = [peek EXCEPT ![p] = None]
           /\ UNCHANGED <<seen, reads>>
        \/ /\ found = None /\ ~last
           /\ reads' = [reads EXCEPT ![p] = @ + 1]
           /\ UNCHANGED <<info, peek, seen, pc>>
        \/ found = None /\ last /\ GivesUp(p) /\ Leave(p, "idle")
  /\ UNCHANGED <<path, content, fd, attempt>>

ReadInfo(p) ==
  /\ At(p, "read")
  /\ LET found == content[peek[p]]
         last  == reads[p] + 1 = Reads
     IN \/ /\ found # None
           /\ Goto(p, "stat")
           /\ info' = [info EXCEPT ![p] = found]
           /\ peek' = [peek EXCEPT ![p] = None]
           /\ UNCHANGED <<seen, reads>>
        \/ /\ found = None /\ ~last
           /\ reads' = [reads EXCEPT ![p] = @ + 1]
           /\ UNCHANGED <<info, peek, seen, pc>>
        \/ found = None /\ last /\ GivesUp(p) /\ Leave(p, "take")
  /\ UNCHANGED <<path, content, fd, attempt>>

\* os.stat(path), which raises if the lock has just been deleted
StatPath(p) ==
  /\ At(p, "stat")
  /\ \/ path = None /\ Leave(p, "idle")
     \/ /\ path # None
        /\ Goto(p, "compare")
        /\ seen' = [seen EXCEPT ![p] = path]
        /\ UNCHANGED <<peek, info, reads>>
  /\ UNCHANGED <<path, content, fd, attempt>>

\* LockHeldError: LockRetry sleeps and tries again, a given number of times.
\* (Mutant: it counts its attempts from zero.)
HeldByOtherZero(p) == Leave(p, IF attempt[p] = Attempts + 1 THEN "idle" ELSE "delay")

HeldByOther(p) == Leave(p, IF attempt[p] = Attempts THEN "idle" ELSE "delay")

\* os.stat('/proc/<pid>/fd/<fd>'): the lock is held when it is this very file.
Compare(p) ==
  /\ At(p, "compare")
  /\ \/ fd[info[p]] = seen[p] /\ HeldByOther(p)
     \/ fd[info[p]] # seen[p] /\ Leave(p, "take")
  /\ UNCHANGED <<path, content, fd, attempt>>

\* LockRetry's delay has passed.
Retry(p) == /\ At(p, "delay")
            /\ Goto(p, "create")
            /\ attempt' = [attempt EXCEPT ![p] = @ + 1]
            /\ UNCHANGED <<path, content, fd, peek, seen, info, reads>>

\* open(path, 'w') truncates the file that has the name now, or creates one.
Take(p) == /\ At(p, "take")
           /\ Goto(p, "write")
           /\ \/ path = None /\ NewFile(p)
              \/ /\ path # None
                 /\ content' = [content EXCEPT ![path] = None]
                 /\ fd' = [fd EXCEPT ![p] = path]
                 /\ UNCHANGED path
           /\ UNCHANGED <<peek, seen, info, reads, attempt>>

\* (Mutant: the line stays in the buffer of the file object.)
WriteInfoUnflushed(p) == /\ At(p, "write")
                         /\ Goto(p, "locked")
                         /\ UNCHANGED <<path, content, fd, peek, seen, info, reads, attempt>>

WriteInfo(p) == /\ At(p, "write")
                /\ Goto(p, "locked")
                /\ content' = [content EXCEPT ![fd[p]] = p]
                /\ UNCHANGED <<path, fd, peek, seen, info, reads, attempt>>

-----------------------------------------------------------------------------
(* unlock *)

Unlocked(p) == Goto(p, IF Relocks THEN "idle" ELSE "done")
CloseFile(p) == fd' = [fd EXCEPT ![p] = None]

\* os.unlink(path), then close.  When the name is gone, unlink raises and the
\* file object is dropped.  (Mutant: the other way round.)
UnlockSwapped(p) ==
  /\ \/ At(p, "locked") /\ CloseFile(p) /\ Goto(p, "release") /\ UNCHANGED path
     \/ At(p, "release") /\ path' = None /\ Unlocked(p) /\ UNCHANGED fd
  /\ UNCHANGED <<content, peek, seen, info, reads, attempt>>

Unlock(p) ==
  /\ \/ /\ At(p, "locked")
        /\ path' = None
        /\ IF path # None THEN Goto(p, "release") /\ UNCHANGED fd
                          ELSE CloseFile(p) /\ Unlocked(p)
     \/ At(p, "release") /\ CloseFile(p) /\ Unlocked(p) /\ UNCHANGED path
  /\ UNCHANGED <<content, peek, seen, info, reads, attempt>>

-----------------------------------------------------------------------------

\* The process is killed: the kernel closes its files and the name stays.
Crash(p) == /\ Crashes /\ pc[p] \notin {"done", "dead"}
            /\ Leave(p, "dead")
            /\ CloseFile(p)
            /\ UNCHANGED <<path, content, attempt>>

Step(p) == \/ Create(p) \/ OpenRead(p) \/ ReadInfo(p) \/ StatPath(p) \/ Compare(p)
           \/ Retry(p) \/ Take(p) \/ WriteInfo(p) \/ Unlock(p)

Next == \E p \in Process : Lock(p) \/ Step(p) \/ Crash(p)

Spec == Init /\ [][Next]_vars

\* A process goes on with what it has begun; nobody has to lock or crash.
FairSpec == Spec /\ \A p \in Process : WF_vars(Step(p))

-----------------------------------------------------------------------------
(* Properties *)

\* The lock keeps two processes from working on the same directory.
MutualExclusion == \A p, q \in Process : At(p, "locked") /\ At(q, "locked") => p = q

\* While a process has the lock, the name stands for the file it has open and
\* that file names it: nobody deletes, truncates or replaces it, and whoever
\* comes can see that the lock is held.
OwnLock == \A p \in Process : At(p, "locked") => path = fd[p] /\ content[path] = p

\* A process that died, at whatever point of lock or unlock, leaves nothing
\* behind that keeps another from getting the lock.
CrashNeverBlocks ==
  \A p, q \in Process : (p # q /\ At(q, "dead") /\ At(p, "create")) ~> (At(p, "locked") \/ At(p, "dead"))

\* Whether p has the lock, and what keeps it from it
Stage(p) == CASE At(p, "idle") -> "out"
              [] At(p, "delay") -> "refused"
              [] pc[p] \in {"write", "locked"} -> "has"
              [] At(p, "release") -> "leaves"
              [] pc[p] \in {"done", "dead"} -> "gone"
              [] OTHER -> "wants"

\* The lock file does what Mutex says: from its name, its line and the inode
\* that the line leads to, read one after the other while the holder writes,
\* unlocks or dies, a process concludes that another holds the lock only when
\* one does, and takes it only when nobody does.
M == INSTANCE Mutex WITH stage <- [p \in Process |-> Stage(p)], exists <- path # None
Excludes == M!Spec
=============================================================================
