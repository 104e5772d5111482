------------------------- MODULE OffsetStoreProofs -------------------------
(***************************************************************************)
(* Proofs about OffsetStore, for any number of tasks and paths and any way *)
(* the tasks share the paths.  IInv is inductive: the safety properties    *)
(* and the refinement of DurableOffsets follow from it.                    *)
(***************************************************************************)
EXTENDS OffsetStore, TLAPS

(* The contract of the store, with what is proved from it alone.           *)
Proved == INSTANCE SavedMapProofs
  WITH at <- [t \in Tasks |-> Place(t)],
       copy <- [t \in Tasks |-> IF pc[t] \in InFile THEN snap[t] ELSE NoEntries],
       disk <- file

(* Every state the store can reach satisfies IInv at the start: nothing is *)
(* saved and no task is in `save`.                                         *)
LEMMA InitIInv == Init => IInv
<1> SUFFICES ASSUME Init PROVE IInv
  OBVIOUS
<1> USE StoreAssumption DEF Init, Contents, NoEntries, PC, Holding, InFile
<1>1. TypeOK
  BY DEF TypeOK
<1>2. LockInv /\ AbortInv /\ DownInv
  BY DEF LockInv, AbortInv, DownInv
<1>3. FileInv
  BY DEF FileInv, Below
<1>4. VersionInv /\ SnapInv /\ TmpInv /\ ReturnInv
  BY DEF VersionInv, SnapInv, TmpInv, ReturnInv
<1> QED
  BY <1>1, <1>2, <1>3, <1>4 DEF IInv

(* Each step of a save preserves IInv.                                     *)
LEMMA SaveIInv ==
  ASSUME NEW t \in Tasks, IInv, Save(t)
  PROVE  IInv'
<1> USE StoreAssumption
    DEF IInv, TypeOK, LockInv, AbortInv, DownInv, FileInv, VersionInv, SnapInv, TmpInv,
        ReturnInv, Contents, PC, Holding, InFile, Below, Step, Unlock
<1>1. CASE Insert(t)
  BY <1>1 DEF Insert
<1>2. CASE CreateDir(t)
  BY <1>2 DEF CreateDir
<1>3. CASE CreateDirFails(t)
  BY <1>3 DEF CreateDirFails
<1>4. CASE LockWriter(t)
  BY <1>4 DEF LockWriter
<1>5. CASE Serialize(t)
  BY <1>5 DEF Serialize
<1>6. CASE OpenTemp(t)
  BY <1>6 DEF OpenTemp
<1>7. CASE FillTemp(t)
  BY <1>7 DEF FillTemp
<1>8. CASE WriteFails(t)
  BY <1>8 DEF WriteFails
<1>9. CASE Rename(t)
  BY <1>9 DEF Rename
<1>10. CASE RenameFails(t)
  BY <1>10 DEF RenameFails
<1>11. CASE Return(t)
  BY <1>11 DEF Return
<1> QED
  BY <1>1, <1>2, <1>3, <1>4, <1>5, <1>6, <1>7, <1>8, <1>9, <1>10, <1>11
  DEF Save

(* A stop at any point of any save, in order or not, and the restart that  *)
(* reads the file.                                                         *)
LEMMA RestartIInv ==
  ASSUME IInv, Abort \/ Crash \/ Open
  PROVE  IInv'
<1> USE StoreAssumption
    DEF IInv, TypeOK, LockInv, AbortInv, DownInv, FileInv, VersionInv, SnapInv, TmpInv,
        ReturnInv, Contents, NoEntries, PC, Holding, InFile, Below
<1>1. CASE Crash
  <2>1. ~up' /\ aborted' = {} /\ writer' = NoTask /\ \A t \in Tasks : pc'[t] = "idle"
    BY <1>1 DEF Crash
  <2>2. TypeOK' /\ FileInv'
    BY <1>1 DEF Crash
  <2>3. LockInv' /\ AbortInv' /\ DownInv'
    BY <2>1
  <2>4. VersionInv' /\ SnapInv' /\ TmpInv' /\ ReturnInv'
    BY <2>1
  <2> QED
    BY <2>2, <2>3, <2>4
<1>2. CASE Open
  BY <1>2 DEF Open
<1>3. CASE Abort
  <2>1. \A t \in Tasks : pc'[t] = IF pc[t] \in InFile THEN pc[t] ELSE "idle"
    BY <1>3 DEF Abort
  <2>2. aborted' = Tasks /\ writer' = NoTask
    BY <1>3 DEF Abort
  <2>3. TypeOK' /\ FileInv' /\ DownInv'
    BY <1>3 DEF Abort
  <2>4. LockInv' /\ AbortInv'
    BY <2>1, <2>2
  <2>5. VersionInv' /\ SnapInv' /\ TmpInv' /\ ReturnInv'
    BY <1>3, <2>1 DEF Abort
  <2> QED
    BY <2>3, <2>4, <2>5
<1> QED
  BY <1>1, <1>2, <1>3

LEMMA NextIInv == IInv /\ [Next]_vars => IInv'
<1> SUFFICES ASSUME IInv, [Next]_vars PROVE IInv'
  OBVIOUS
<1>1. CASE \E t \in Tasks : Save(t)
  BY <1>1, SaveIInv
<1>2. CASE Abort \/ Crash \/ Open
  BY <1>2, RestartIInv
<1>3. CASE UNCHANGED vars
  BY <1>3
  DEF vars, IInv, TypeOK, LockInv, AbortInv, DownInv, FileInv, VersionInv, SnapInv,
      TmpInv, ReturnInv, Below
<1> QED
  BY <1>1, <1>2, <1>3 DEF Next

(* IInv holds in every state of every behaviour of the store.              *)
THEOREM Invariance == Spec => []IInv
  BY InitIInv, NextIInv, PTL DEF Spec

-----------------------------------------------------------------------------
(* The variables keep their types.                                         *)
THEOREM TypeCorrect == Spec => []TypeOK
<1>1. IInv => TypeOK
  BY DEF IInv
<1> QED
  BY <1>1, Invariance, PTL

(* A save that returned Ok survives every crash, for any number of tasks.  *)
THEOREM AckedSurvives == Spec => []AckedIsDurable
<1>1. IInv => AckedIsDurable
  BY DEF IInv, FileInv, AckedIsDurable, Below
<1> QED
  BY <1>1, Invariance, PTL

(* The offset file parses at every moment, so every restart can open it.   *)
THEOREM NeverTorn == Spec => []FileNeverTorn
<1>1. IInv => FileNeverTorn
  BY StoreAssumption DEF IInv, FileInv, FileNeverTorn
<1> QED
  BY <1>1, Invariance, PTL

(* Nobody waits for a writer lock that is not given back: while a task     *)
(* waits, the lock is free or its holder is inside the section that every  *)
(* Ok, every error and every shutdown leaves by dropping the guard.  This  *)
(* is the part of SaveEnds that does not need fairness.                    *)
THEOREM LockIsGivenBack ==
  Spec => [](\A t \in Tasks : pc[t] = "lock" =>
               writer = NoTask \/ (writer \in Tasks \ aborted /\ pc[writer] \in Holding))
<1>1. IInv => \A t \in Tasks : pc[t] = "lock" =>
                writer = NoTask \/ (writer \in Tasks \ aborted /\ pc[writer] \in Holding)
  BY DEF IInv, TypeOK, LockInv, AbortInv
<1> QED
  BY <1>1, Invariance, PTL

(* Only the rename changes the offset file, and it never takes a path back *)
(* to an earlier save.                                                     *)
LEMMA StepForward ==
  ASSUME IInv, [Next]_vars
  PROVE  Below(file, file')
<1>1. ASSUME NEW t \in Tasks, Rename(t) PROVE Below(file, file')
  BY <1>1 DEF Rename, Step, IInv, SnapInv, TmpInv
<1>2. ASSUME file' = file PROVE Below(file, file')
  BY <1>2 DEF IInv, FileInv, Contents, Below
<1>3. (\E t \in Tasks : Rename(t)) \/ file' = file
  BY DEF Next, Save, Insert, CreateDir, CreateDirFails, LockWriter, Serialize,
         OpenTemp, FillTemp, WriteFails, Rename, RenameFails, Return, Abort,
         Crash, Open, vars
<1> QED
  BY <1>1, <1>2, <1>3

(* No save overwrites a newer entry of another task with an older copy.    *)
THEOREM NeverGoesBack == Spec => FileNeverGoesBack
<1>1. IInv /\ [Next]_vars =>
        [file # Torn /\ file' # Torn => \A p \in Paths : file[p] <= file'[p]]_file
  BY StepForward DEF Below
<1> QED
  BY <1>1, Invariance, PTL DEF Spec, FileNeverGoesBack

-----------------------------------------------------------------------------
(* Each step of a save is a step of the durable counters, or a stutter.    *)
LEMMA SaveRefines ==
  ASSUME IInv, NEW t \in Tasks, Save(t)
  PROVE  [Abstract!Next]_(Abstract!vars)
<1> DEFINE p == PathOf[t]
<1>0. p \in Paths
  BY StoreAssumption
<1>1. CASE Insert(t)
  <2>1. Abstract!Write(p)
    BY <1>0, <1>1 DEF Insert, Abstract!Write
  <2> QED
    BY <1>0, <2>1 DEF Abstract!Next
<1>2. CASE Rename(t)
  <2>1. file' \in Contents /\ Below(file, file') /\ Below(file', mem)
    BY <1>2 DEF Rename, Step, IInv, TypeOK, SnapInv, TmpInv
  <2>2. Abstract!Persist
    BY <1>2, <2>1 DEF Rename, Abstract!Persist, Below, Contents
  <2> QED
    BY <2>2 DEF Abstract!Next
<1>3. CASE Return(t)
  <2>1. CASE version[t] > acked[p]
    <3>1. acked' = [acked EXCEPT ![p] = version[t]]
      BY <1>3, <2>1 DEF Return
    <3>2. version[t] <= file[p] /\ version[t] \in Nat
      BY <1>3 DEF Return, Step, IInv, TypeOK, ReturnInv
    <3>3. Abstract!Acknowledge(p)
      BY <1>0, <1>3, <2>1, <3>1, <3>2
      DEF Return, Abstract!Acknowledge, IInv, TypeOK, Contents
    <3> QED
      BY <1>0, <3>3 DEF Abstract!Next
  <2>2. CASE ~(version[t] > acked[p])
    <3>1. acked' = acked
      BY <1>3, <2>2 DEF Return, IInv, TypeOK, Contents
    <3> QED
      BY <1>3, <3>1 DEF Return, Abstract!vars
  <2> QED
    BY <2>1, <2>2
<1>4. CASE ~(Insert(t) \/ Rename(t) \/ Return(t))
  BY <1>4
  DEF Save, CreateDir, CreateDirFails, LockWriter, Serialize, OpenTemp,
      FillTemp, WriteFails, RenameFails, Abstract!vars
<1> QED
  BY <1>1, <1>2, <1>3, <1>4

LEMMA NextRefines == IInv /\ [Next]_vars => [Abstract!Next]_(Abstract!vars)
<1> SUFFICES ASSUME IInv, [Next]_vars PROVE [Abstract!Next]_(Abstract!vars)
  OBVIOUS
<1>1. CASE \E t \in Tasks : Save(t)
  BY <1>1, SaveRefines
<1>2. CASE Abort \/ Crash
  BY <1>2 DEF Abort, Crash, Abstract!vars
<1>3. CASE Open
  <2>1. Abstract!Recover
    BY <1>3 DEF Open, Abstract!Recover
  <2> QED
    BY <2>1 DEF Abstract!Next
<1>4. CASE UNCHANGED vars
  BY <1>4 DEF vars, Abstract!vars
<1> QED
  BY <1>1, <1>2, <1>3, <1>4 DEF Next

(* The store implements the array of durable counters: seen from outside,  *)
(* a save is one write, one flush of everything, one acknowledgement.      *)
THEOREM StoreImplementsCounters == Spec => ImplementsDurableOffsets
<1>1. Init => Abstract!Init
  BY DEF Init, NoEntries, Abstract!Init
<1> QED
  BY <1>1, NextRefines, Invariance, PTL DEF Spec, ImplementsDurableOffsets, Abstract!Spec

-----------------------------------------------------------------------------
(* Each step of a save is a step of the contract, or a stutter of it.      *)
LEMMA SaveKeepsContract ==
  ASSUME IInv, NEW t \in Tasks, Save(t)
  PROVE  [Contract!Next]_(Contract!vars)
<1> DEFINE Copied(u) == IF pc[u] \in InFile THEN snap[u] ELSE NoEntries
<1> USE DEF InFile, Place
<1>0. /\ up /\ pc \in [Tasks -> PC] /\ snap \in [Tasks -> Contents]
      /\ \A u \in Tasks \ {t} : pc'[u] = pc[u] /\ snap'[u] = snap[u]
      /\ UNCHANGED <<up, aborted>>
  BY DEF IInv, TypeOK, Save, Step, Insert, CreateDir, CreateDirFails, LockWriter, Serialize,
         OpenTemp, FillTemp, WriteFails, Rename, RenameFails, Return
<1>1. \A u \in Tasks \ {t} : Place(u)' = Place(u) /\ Copied(u)' = Copied(u)
  BY <1>0
<1>2. t \in aborted => pc[t] \in {"idle", "open", "write", "rename"}
  BY DEF IInv, AbortInv
<1>3. CASE Insert(t)
  <2>1. Place(t) = "idle" /\ Place(t)' = "inserted" /\ Copied(t)' = Copied(t)
    BY <1>0, <1>3 DEF Insert, Step
  <2>2. mem' \in Contents
    <3>1. mem \in Contents /\ mem' = [mem EXCEPT ![PathOf[t]] = @ + 1]
      BY <1>3 DEF Insert, IInv, TypeOK
    <3> QED
      BY <3>1, StoreAssumption DEF Contents
  <2>3. Contract!Insert(t)
    BY <1>1, <1>3, <2>1, <2>2
    DEF Insert, IInv, TypeOK, Contents, Contract!Insert, Contract!Contents
  <2> QED
    BY <2>3 DEF Contract!Next
<1>4. CASE CreateDir(t) \/ LockWriter(t)
  <2>1. /\ Place(t)' = Place(t) /\ Copied(t)' = Copied(t)
        /\ UNCHANGED <<mem, file>>
    BY <1>0, <1>2, <1>4 DEF CreateDir, LockWriter, Step
  <2> QED
    BY <1>1, <2>1 DEF Contract!vars
<1>5. CASE Serialize(t)
  <2>1. /\ Place(t) = "inserted" /\ Place(t)' = "writing"
        /\ Copied(t)' = mem /\ UNCHANGED <<mem, file>>
    BY <1>0, <1>2, <1>5 DEF Serialize, Step
  <2>2. \A u \in Tasks : Place(u) # "writing"
    BY <1>5 DEF Serialize, Step, IInv, LockInv, Holding
  <2>3. Contract!Serialize(t)
    BY <1>1, <2>1, <2>2 DEF Contract!Serialize
  <2> QED
    BY <2>3 DEF Contract!Next
<1>6. CASE OpenTemp(t)
  <2>1. Place(t)' = Place(t) /\ Copied(t)' = Copied(t) /\ UNCHANGED <<mem, file>>
    BY <1>0, <1>6 DEF OpenTemp
  <2> QED
    BY <1>1, <2>1 DEF Contract!vars
<1>7. CASE FillTemp(t) /\ t \notin aborted
  <2>1. Place(t)' = Place(t) /\ Copied(t)' = Copied(t) /\ UNCHANGED <<mem, file>>
    BY <1>0, <1>7 DEF FillTemp, Step
  <2> QED
    BY <1>1, <2>1 DEF Contract!vars
<1>8. CASE Rename(t)
  <2>1. /\ Place(t) = "writing" /\ Copied(t) = snap[t] /\ Copied(t)' = NoEntries
        /\ Place(t)' = IF t \in aborted THEN "ended" ELSE "idle"
        /\ mem' = mem
    BY <1>0, <1>8 DEF Rename, Step
  <2>2. file' = snap[t]
    BY <1>8 DEF Rename, Step, IInv, TmpInv
  <2>3. CASE t \in aborted
    <3>1. Contract!End({t})
      BY <1>1, <2>1, <2>2, <2>3 DEF NoEntries, Contract!End, Contract!NoEntries
    <3> QED
      BY <3>1 DEF Contract!Next
  <2>4. CASE t \notin aborted
    <3>1. Contract!Replace(t)
      BY <1>1, <2>1, <2>2, <2>4 DEF NoEntries, Contract!Replace, Contract!NoEntries
    <3> QED
      BY <3>1 DEF Contract!Next
  <2> QED
    BY <2>3, <2>4
<1>9. CASE \/ CreateDirFails(t) \/ WriteFails(t) \/ RenameFails(t)
           \/ FillTemp(t) /\ t \in aborted
  <2>1. /\ Place(t)' = "ended" /\ Copied(t)' = NoEntries
        /\ UNCHANGED <<mem, file>>
    BY <1>0, <1>2, <1>9 DEF CreateDirFails, WriteFails, RenameFails, FillTemp, Step
  <2>2. Contract!End({t})
    BY <1>1, <2>1 DEF NoEntries, Contract!End, Contract!NoEntries
  <2> QED
    BY <2>2 DEF Contract!Next
<1>10. CASE Return(t)
  <2>1. /\ Place(t)' = Place(t) /\ Copied(t)' = Copied(t)
        /\ UNCHANGED <<mem, file>>
    BY <1>0, <1>2, <1>10 DEF Return, Step
  <2> QED
    BY <1>1, <2>1 DEF Contract!vars
<1> QED
  BY <1>3, <1>4, <1>5, <1>6, <1>7, <1>8, <1>9, <1>10 DEF Save

LEMMA NextKeepsContract == IInv /\ [Next]_vars => [Contract!Next]_(Contract!vars)
<1> SUFFICES ASSUME IInv, [Next]_vars PROVE [Contract!Next]_(Contract!vars)
  OBVIOUS
<1> USE DEF InFile, Place
<1>1. CASE \E t \in Tasks : Save(t)
  BY <1>1, SaveKeepsContract
<1>2. CASE Abort
  <2>0. PICK S \in SUBSET Tasks : S = {t \in Tasks : pc[t] \notin InFile}
    OBVIOUS
  <2>1. /\ up /\ UNCHANGED <<up, snap, mem, file>> /\ aborted = {} /\ aborted' = Tasks
        /\ pc' = [t \in Tasks |-> IF pc[t] \in InFile THEN pc[t] ELSE "idle"]
    BY <1>2 DEF Abort
  <2>2. Contract!End(S)
    BY <2>0, <2>1 DEF NoEntries, Contract!End, Contract!NoEntries
  <2> QED
    BY <2>2 DEF Contract!Next
<1>3. CASE Crash
  <2>1. ~up' /\ UNCHANGED <<mem, file>> /\ \A t \in Tasks : pc'[t] = "idle"
    BY <1>3 DEF Crash
  <2>2. Contract!End(Tasks)
    BY <2>1 DEF NoEntries, Contract!End, Contract!NoEntries
  <2> QED
    BY <2>2 DEF Contract!Next
<1>4. CASE Open
  <2>1. /\ ~up /\ up' /\ mem' = file /\ UNCHANGED <<pc, aborted, snap, file>>
    BY <1>4 DEF Open
  <2>2. aborted = {} /\ \A t \in Tasks : pc[t] = "idle"
    BY <2>1 DEF IInv, DownInv
  <2>3. Contract!Recover
    BY <2>1, <2>2 DEF Contract!Recover
  <2> QED
    BY <2>3 DEF Contract!Next
<1>5. CASE UNCHANGED vars
  BY <1>5 DEF vars, Contract!vars
<1> QED
  BY <1>1, <1>2, <1>3, <1>4, <1>5 DEF Next

(* The store keeps the contract that the tasks rely on, with its locks,    *)
(* its temporary file, errors and shutdown in it.                          *)
THEOREM StoreKeepsContract == Spec => KeepsContract
<1>1. Init => Contract!Init
  BY DEF Init, NoEntries, Place, InFile, Contract!Init, Contract!NoEntries
<1> QED
  BY <1>1, NextKeepsContract, Invariance, PTL DEF Spec, KeepsContract, Contract!Spec

(* Whatever the other tasks save, fail to save or leave half written: for  *)
(* a task that is alone on its path the file has its entry when save has   *)
(* returned Ok, and never gets any but the one in memory.  This is the     *)
(* store of Forwarder (its Save, Persist and SaveReturns).                 *)
THEOREM LoneEntryIsSafe == Spec => []Proved!SavedIsOnDisk /\ Proved!FileFollowsEntry
<1>1. Contract!Init <=> Proved!Init
  BY DEF Contract!Init, Contract!NoEntries, Proved!Init, Proved!NoEntries
<1>2. [Contract!Next]_(Contract!vars) <=> [Proved!Next]_(Proved!vars)
  BY DEF Contract!Next, Contract!Insert, Contract!Serialize, Contract!Replace, Contract!End,
         Contract!Recover, Contract!Contents, Contract!NoEntries, Contract!vars,
         Proved!Next, Proved!Insert, Proved!Serialize, Proved!Replace, Proved!End,
         Proved!Recover, Proved!Contents, Proved!NoEntries, Proved!vars
<1>3. Spec => Proved!Spec
  BY <1>1, <1>2, StoreKeepsContract, PTL DEF KeepsContract, Contract!Spec, Proved!Spec
<1>4. Proved!Spec => []Proved!SavedIsOnDisk /\ Proved!FileFollowsEntry
  BY StoreAssumption, Proved!SavedEntryIsOnDisk, Proved!EntryReachesFile
<1> QED
  BY <1>3, <1>4, PTL
=============================================================================
