--------------------------- MODULE SavedMapProofs ---------------------------
(***************************************************************************)
(* What follows from the contract of the store alone, for any tasks and    *)
(* paths: whoever keeps the contract has these results too.                *)
(***************************************************************************)
EXTENDS SavedMap, TLAPS

(* A task that is alone on its path is the only one that changes its       *)
(* entry.                                                                  *)
LEMMA EntryStep ==
  ASSUME PathOf \in [Tasks -> Paths], EntryInv, [Next]_vars
  PROVE  EntryInv'
<1> USE DEF EntryInv, TypeOK, OneWriter, CopyInv, SavedIsOnDisk, Places, Contents, NoEntries
<1>a. \A t \in Tasks : Alone(t)' = Alone(t)
  BY DEF Alone
<1>b. \A t, u \in Tasks : Alone(t) /\ PathOf[u] = PathOf[t] => u = t
  BY DEF Alone
<1>1. ASSUME NEW t \in Tasks, Insert(t)
      PROVE  EntryInv'
  BY <1>1, <1>a, <1>b DEF Insert
<1>2. ASSUME NEW t \in Tasks, Serialize(t)
      PROVE  EntryInv'
  BY <1>2, <1>a DEF Serialize
<1>3. ASSUME NEW t \in Tasks, Replace(t)
      PROVE  EntryInv'
  BY <1>3, <1>a DEF Replace
<1>4. ASSUME NEW S \in SUBSET Tasks, End(S)
      PROVE  EntryInv'
  BY <1>4, <1>a DEF End
<1>5. CASE Recover
  BY <1>5, <1>a DEF Recover
<1>6. CASE UNCHANGED vars
  BY <1>6, <1>a DEF vars
<1> QED
  BY <1>1, <1>2, <1>3, <1>4, <1>5, <1>6 DEF Next

(* What is written is a writer's copy, and that has the entry of a lone    *)
(* task as it is in memory or in the file already.                         *)
LEMMA FollowStep ==
  ASSUME PathOf \in [Tasks -> Paths], EntryInv, [Next]_vars, NEW t \in Tasks, Alone(t)
  PROVE  disk'[PathOf[t]] \in {disk[PathOf[t]], mem[PathOf[t]]}
<1>1. disk' = disk \/ \E u \in Tasks : at[u] = "writing" /\ disk' = copy[u]
  BY DEF Next, vars, Insert, Serialize, Replace, End, Recover
<1> QED
  BY <1>1 DEF EntryInv, CopyInv

LEMMA InitEntryInv == Init => EntryInv
  BY DEF Init, EntryInv, TypeOK, OneWriter, CopyInv, SavedIsOnDisk, Places, Contents, NoEntries

-----------------------------------------------------------------------------
(* One task has a copy to write, and each copy agrees with the file or     *)
(* with memory on the entry of a lone task.                                *)
THEOREM Invariance == PathOf \in [Tasks -> Paths] => (Spec => []EntryInv)
<1> SUFFICES ASSUME PathOf \in [Tasks -> Paths]
             PROVE  Spec => []EntryInv
  OBVIOUS
<1>1. EntryInv /\ [Next]_vars => EntryInv'
  BY EntryStep
<1> QED
  BY <1>1, InitEntryInv, PTL DEF Spec

(* When save returns Ok to a lone task its entry is in the file, although  *)
(* other tasks write the file too, from copies of theirs                   *)
(* (offset_store.rs:53-77).                                                *)
THEOREM SavedEntryIsOnDisk == PathOf \in [Tasks -> Paths] => (Spec => []SavedIsOnDisk)
<1> SUFFICES ASSUME PathOf \in [Tasks -> Paths]
             PROVE  Spec => []SavedIsOnDisk
  OBVIOUS
<1>1. EntryInv => SavedIsOnDisk
  BY DEF EntryInv
<1>2. Spec => []EntryInv
  BY Invariance
<1> QED
  BY <1>1, <1>2, PTL

(* For a lone task the file only ever gets the entry in memory, whoever    *)
(* writes it and wherever the process stops: the store that Forwarder is   *)
(* modelled with (bridge.rs:49-109 over offset_store.rs:53-77).            *)
THEOREM EntryReachesFile == PathOf \in [Tasks -> Paths] => (Spec => FileFollowsEntry)
<1> SUFFICES ASSUME PathOf \in [Tasks -> Paths]
             PROVE  Spec => FileFollowsEntry
  OBVIOUS
<1>1. EntryInv /\ [Next]_vars =>
        [\A t \in Tasks : Alone(t) =>
           disk'[PathOf[t]] \in {disk[PathOf[t]], mem[PathOf[t]]}]_vars
  BY FollowStep
<1>2. Spec => []EntryInv
  BY Invariance
<1> QED
  BY <1>1, <1>2, PTL DEF Spec, FileFollowsEntry
=============================================================================
