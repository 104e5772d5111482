------------------------------ MODULE SavedMap ------------------------------
(***************************************************************************)
(* The contract between the offset store and the tasks that save in it:    *)
(* what SharedStore, and Forwarder for one task, build upon, and what      *)
(* OffsetStore does await by await.                                        *)
(*                                                                         *)
(* A save sets one entry of a map in memory, later takes a copy of the     *)
(* whole map, and later replaces the file by that copy.  Between copy and  *)
(* file no other task takes one.  A task whose save has failed makes no    *)
(* other one, and the process may stop anywhere.                           *)
(***************************************************************************)
EXTENDS Naturals

CONSTANTS Tasks, Paths, PathOf      \* as in SharedStore

VARIABLES
  at,     \* where each task stands with its save
  mem,    \* the map in memory
  copy,   \* the copy each task is about to write
  disk    \* the map in the file

vars == <<at, mem, copy, disk>>

Places == {"idle", "inserted", "writing", "ended"}

Contents == [Paths -> Nat]
NoEntries == [p \in Paths |-> 0]

Init ==
  /\ at = [t \in Tasks |-> "ended"]
  /\ mem = NoEntries /\ disk = NoEntries
  /\ copy = [t \in Tasks |-> NoEntries]

Insert(t) ==
  /\ at[t] = "idle"
  /\ at' = [at EXCEPT ![t] = "inserted"]
  /\ mem' \in Contents
  /\ \A p \in Paths \ {PathOf[t]} : mem'[p] = mem[p]
  /\ UNCHANGED <<copy, disk>>

Serialize(t) ==
  /\ at[t] = "inserted"
  /\ \A u \in Tasks : at[u] # "writing"
  /\ at' = [at EXCEPT ![t] = "writing"]
  /\ copy' = [copy EXCEPT ![t] = mem]
  /\ UNCHANGED <<mem, disk>>

Replace(t) ==
  /\ at[t] = "writing"
  /\ at' = [at EXCEPT ![t] = "idle"]
  /\ disk' = copy[t]
  /\ copy' = [copy EXCEPT ![t] = NoEntries]
  /\ UNCHANGED mem

(* Tasks are ended by an error or with the process.  One that was writing  *)
(* may have replaced the file, or may not.                                 *)
End(S) ==
  /\ at' = [t \in Tasks |-> IF t \in S THEN "ended" ELSE at[t]]
  /\ copy' = [t \in Tasks |-> IF t \in S THEN NoEntries ELSE copy[t]]
  /\ disk' \in {disk} \cup {copy[t] : t \in {u \in S : at[u] = "writing"}}
  /\ UNCHANGED mem

(* The next process opens the file.                                        *)
Recover ==
  /\ \A t \in Tasks : at[t] = "ended"
  /\ at' = [t \in Tasks |-> "idle"]
  /\ mem' = disk
  /\ UNCHANGED <<copy, disk>>

Next ==
  \/ \E t \in Tasks : Insert(t) \/ Serialize(t) \/ Replace(t)
  \/ \E S \in SUBSET Tasks : End(S)
  \/ Recover

Spec == Init /\ [][Next]_vars

-----------------------------------------------------------------------------
(* What a task may rely on when no other one saves under its path, however *)
(* many save under others and write its entry with theirs.                 *)
Alone(t) == {u \in Tasks : PathOf[u] = PathOf[t]} = {t}

(* Its save has returned Ok, and the file has the entry in memory.         *)
SavedIsOnDisk ==
  \A t \in Tasks : Alone(t) /\ at[t] = "idle" => disk[PathOf[t]] = mem[PathOf[t]]

(* The file never gets an entry of this path but the one in memory: a copy *)
(* taken before a later save never ends up in the file after it.           *)
FileFollowsEntry ==
  [][\A t \in Tasks : Alone(t) =>
       disk'[PathOf[t]] \in {disk[PathOf[t]], mem[PathOf[t]]}]_vars

(* The inductive invariant behind both.                                    *)
TypeOK ==
  /\ at \in [Tasks -> Places]
  /\ mem \in Contents /\ disk \in Contents
  /\ copy \in [Tasks -> Contents]

OneWriter == \A t, u \in Tasks : at[t] = "writing" /\ at[u] = "writing" => t = u

CopyInv ==
  \A t, u \in Tasks :
    LET p == PathOf[t] IN
    Alone(t) /\ at[u] = "writing" =>
      /\ copy[u][p] \in {disk[p], mem[p]}
      /\ u = t => copy[u][p] = mem[p]

EntryInv == TypeOK /\ OneWriter /\ CopyInv /\ SavedIsOnDisk
=============================================================================
