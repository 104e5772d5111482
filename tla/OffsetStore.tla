----------------------------- MODULE OffsetStore -----------------------------
(***************************************************************************)
(* The file-backed offset store (offset_store.rs), shared by every         *)
(* forwarder and discovery task of the bridge.                             *)
(*                                                                         *)
(* `save` inserts into a map kept in memory, takes the writer lock,        *)
(* serializes the whole map and replaces the offset file through a         *)
(* temporary file and a rename.  A task can be overtaken by another one at *)
(* every await, so every await is a step of its own here; the two sections *)
(* under the state lock hold no await and are atomic.                      *)
(*                                                                         *)
(* Offsets are opaque to the store.  The n-th save to a path is written as *)
(* the number n, and 0 stands for a path without an entry.  A file that    *)
(* does not exist reads as a file with no entry (open, the NotFound arm),  *)
(* so the file's contents are just a map.                                  *)
(***************************************************************************)
EXTENDS Naturals

CONSTANTS
  Tasks,      \* the tasks that share the store
  Paths,      \* the stream paths they save offsets for
  PathOf,     \* the path each task saves; two tasks may share one
  MaxSaves,   \* bound: saves per path that are in memory
  NoTask,     \* the writer lock is free
  Torn,       \* contents of a file whose write has begun and not ended
  NoFile      \* there is no temporary file

Contents == [Paths -> Nat]

ASSUME StoreAssumption ==
  /\ PathOf \in [Tasks -> Paths]
  /\ MaxSaves \in Nat
  /\ NoTask \notin Tasks
  /\ Torn \notin Contents
  /\ NoFile \notin Contents \cup {Torn}

VARIABLES
  up,         \* the process runs and has opened the store
  pc,         \* where each task stands in `save`
  aborted,    \* the tasks that abort_all has cancelled
  version,    \* which save of its path a task is making
  snap,       \* the serialized map of the task that holds the writer lock
  mem,        \* StoredOffsets, the map behind the state lock
  writer,     \* holder of the writer lock
  tmp,        \* contents of the temporary file
  file,       \* contents of the offset file
  acked       \* history: the highest save of a path that returned Ok

vars == <<up, pc, aborted, version, snap, mem, writer, tmp, file, acked>>

(* The program counter names the await a task is suspended at.             *)
InFile  == {"open", "write", "rename"}
Holding == {"serialize", "return"} \cup InFile
PC      == {"idle", "mkdir", "lock", "failed"} \cup Holding

NoEntries == [p \in Paths |-> 0]

TypeOK ==
  /\ up \in BOOLEAN
  /\ pc \in [Tasks -> PC]
  /\ aborted \in SUBSET Tasks
  /\ version \in [Tasks -> Nat]
  /\ snap \in [Tasks -> Contents]
  /\ mem \in Contents
  /\ writer \in Tasks \cup {NoTask}
  /\ tmp \in Contents \cup {Torn, NoFile}
  /\ file \in Contents \cup {Torn}
  /\ acked \in Contents

Init ==
  /\ up = FALSE
  /\ pc = [t \in Tasks |-> "idle"]
  /\ aborted = {}
  /\ version = [t \in Tasks |-> 0]
  /\ snap = [t \in Tasks |-> NoEntries]
  /\ mem = NoEntries
  /\ writer = NoTask
  /\ tmp = NoFile
  /\ file = NoEntries
  /\ acked = NoEntries

-----------------------------------------------------------------------------
(* A task moves from one await to the next.  A file operation runs on a    *)
(* thread of the blocking pool and goes on to its end when the task that   *)
(* awaits it is cancelled, but there is nothing after it.                  *)
Step(t, from, to) ==
  /\ up
  /\ pc[t] = from
  /\ pc' = [pc EXCEPT ![t] = IF t \in aborted THEN "idle" ELSE to]

(* The guard of the writer lock is dropped, if there is one.               *)
Unlock(t) == writer' = IF writer = t THEN NoTask ELSE writer

(* `save` begins: insert the offset under the state lock.                  *)
Insert(t) ==
  /\ t \notin aborted
  /\ Step(t, "idle", "mkdir")
  /\ mem[PathOf[t]] < MaxSaves
  /\ mem' = [mem EXCEPT ![PathOf[t]] = @ + 1]
  /\ version' = [version EXCEPT ![t] = mem[PathOf[t]] + 1]
  /\ UNCHANGED <<up, aborted, snap, writer, tmp, file, acked>>

(* create_dir_all on the parent directory.                                 *)
CreateDir(t) ==
  /\ Step(t, "mkdir", "lock")
  /\ UNCHANGED <<up, aborted, version, snap, mem, writer, tmp, file, acked>>

(* ... and its error: the insert above stays in memory.                    *)
CreateDirFails(t) ==
  /\ Step(t, "mkdir", "failed")
  /\ UNCHANGED <<up, aborted, version, snap, mem, writer, tmp, file, acked>>

(* Mutant: no writer lock, as if each save wrote the file by itself.        *)
LockNothing(t) ==
  /\ Step(t, "lock", "serialize")
  /\ writer' = t
  /\ UNCHANGED <<up, aborted, version, snap, mem, tmp, file, acked>>

LockWriter(t) ==
  /\ Step(t, "lock", "serialize")
  /\ writer = NoTask
  /\ writer' = t
  /\ UNCHANGED <<up, aborted, version, snap, mem, tmp, file, acked>>

(* The map is serialized under the state lock, while the writer lock is    *)
(* held: the copy is newer than any copy written before.                   *)
Serialize(t) ==
  /\ Step(t, "serialize", "open")
  /\ snap' = [snap EXCEPT ![t] = mem]
  /\ UNCHANGED <<up, aborted, version, mem, writer, tmp, file, acked>>

(* write_atomic: fs::write truncates the temporary file, then fills it.    *)
OpenTemp(t) ==
  /\ up /\ pc[t] = "open"
  /\ pc' = [pc EXCEPT ![t] = "write"]
  /\ tmp' = Torn
  /\ UNCHANGED <<up, aborted, version, snap, mem, writer, file, acked>>

FillTemp(t) ==
  /\ Step(t, "write", "rename")
  /\ tmp' = snap[t]
  /\ UNCHANGED <<up, aborted, version, snap, mem, writer, file, acked>>

(* Mutant: the error path leaks the writer lock.                           *)
WriteFailsLocked(t) ==
  /\ \E at \in {"open", "write"} : Step(t, at, "failed")
  /\ UNCHANGED <<up, aborted, version, snap, mem, writer, tmp, file, acked>>

(* Mutant: the error path cleans up, and removes the wrong file.           *)
WriteFailsCleanup(t) ==
  /\ \E at \in {"open", "write"} : Step(t, at, "failed")
  /\ Unlock(t)
  /\ file' = NoFile
  /\ UNCHANGED <<up, aborted, version, snap, mem, tmp, acked>>

(* Either half of fs::write fails.  The `?` drops the writer lock's guard. *)
WriteFails(t) ==
  /\ \E at \in {"open", "write"} : Step(t, at, "failed")
  /\ Unlock(t)
  /\ UNCHANGED <<up, aborted, version, snap, mem, tmp, file, acked>>

(* The rename replaces the offset file by whatever the temporary file holds. *)
Rename(t) ==
  /\ Step(t, "rename", "return")
  /\ tmp # NoFile
  /\ file' = tmp
  /\ tmp' = NoFile
  /\ UNCHANGED <<up, aborted, version, snap, mem, writer, acked>>

(* Mutant: the result of the rename is dropped.                            *)
RenameIgnored(t) ==
  /\ Step(t, "rename", "return")
  /\ UNCHANGED <<up, aborted, version, snap, mem, writer, tmp, file, acked>>

RenameFails(t) ==
  /\ Step(t, "rename", "failed")
  /\ Unlock(t)
  /\ UNCHANGED <<up, aborted, version, snap, mem, tmp, file, acked>>

(* `save` returns Ok and the guard of the writer lock is dropped.          *)
Return(t) ==
  /\ Step(t, "return", "idle")
  /\ Unlock(t)
  /\ acked' = [acked EXCEPT ![PathOf[t]] = IF version[t] > @ THEN version[t] ELSE @]
  /\ UNCHANGED <<up, aborted, version, snap, mem, tmp, file>>

-----------------------------------------------------------------------------
(* The bridge ends, by a signal or by the error of a task: abort_all, or   *)
(* the drop of the JoinSet, cancels all tasks, and the writer lock is      *)
(* dropped even while the pool still writes for its holder.  The tasks are *)
(* cancelled in one step: a task that a worker thread polls between the    *)
(* cancellation of another and its own is left out.                        *)
Abort ==
  /\ up /\ aborted = {}
  /\ aborted' = Tasks
  /\ pc' = [t \in Tasks |-> IF pc[t] \in InFile THEN pc[t] ELSE "idle"]
  /\ writer' = NoTask
  /\ UNCHANGED <<up, version, snap, mem, tmp, file, acked>>

(* The process stops, between any two steps: it is killed, or it ends      *)
(* after run has returned.  Files stay, memory and locks do not.           *)
Crash ==
  /\ up
  /\ up' = FALSE
  /\ aborted' = {}
  /\ pc' = [t \in Tasks |-> "idle"]
  /\ version' = [t \in Tasks |-> 0]
  /\ snap' = [t \in Tasks |-> NoEntries]
  /\ writer' = NoTask
  /\ UNCHANGED <<mem, tmp, file, acked>>

(* Mutant: open starts from an empty map, whatever the file holds.         *)
OpenEmpty ==
  /\ ~up
  /\ up' = TRUE
  /\ mem' = NoEntries
  /\ UNCHANGED <<pc, aborted, version, snap, writer, tmp, file, acked>>

(* OffsetStore::open: the map in memory is the one parsed from the file.   *)
(* A file that does not parse makes open, and with it the bridge, fail.    *)
Open ==
  /\ ~up
  /\ file # Torn
  /\ up' = TRUE
  /\ mem' = file
  /\ UNCHANGED <<pc, aborted, version, snap, writer, tmp, file, acked>>

Save(t) ==
  \/ Insert(t)
  \/ CreateDir(t) \/ CreateDirFails(t)
  \/ LockWriter(t) \/ Serialize(t)
  \/ OpenTemp(t) \/ FillTemp(t) \/ WriteFails(t)
  \/ Rename(t) \/ RenameFails(t)
  \/ Return(t)

Next == (\E t \in Tasks : Save(t)) \/ Abort \/ Crash \/ Open

Spec == Init /\ [][Next]_vars

(* A task that has begun a save goes on with it: the runtime polls it and  *)
(* the blocking pool answers every file operation.  The writer lock is     *)
(* tokio's, which serves its waiters first in, first out, so a task that   *)
(* waits for it is not passed over for ever: strong fairness.  Nothing is  *)
(* assumed of failures, of crashes, or of when a task next saves.          *)
Progress(t) ==
  \/ CreateDir(t) \/ CreateDirFails(t)
  \/ Serialize(t) \/ OpenTemp(t) \/ FillTemp(t) \/ WriteFails(t)
  \/ Rename(t) \/ RenameFails(t) \/ Return(t)

FairSpec ==
  /\ Spec
  /\ \A t \in Tasks : WF_vars(Progress(t)) /\ SF_vars(LockWriter(t))

-----------------------------------------------------------------------------
(* A save that returned Ok survives every later crash, whatever the other  *)
(* tasks were doing: what a restart would load is at least as new.  This   *)
(* is what `save` promises bridge.rs, which sends the next record on it.   *)
AckedIsDurable ==
  file # Torn => \A p \in Paths : acked[p] <= file[p]

(* README, "a partial write does not become the persisted checkpoint       *)
(* state": the offset file always parses, so the bridge can restart after  *)
(* a stop at any point of any save.                                        *)
FileNeverTorn == file # Torn

(* The offset file never goes back for any path, although every save       *)
(* rewrites the entries of all the paths: no save overwrites a newer one   *)
(* of another task with the copy it took earlier.                          *)
FileNeverGoesBack ==
  [][file # Torn /\ file' # Torn => \A p \in Paths : file[p] <= file'[p]]_file

(* A save in progress ends, in Ok or in an error, unless the process       *)
(* stops: no failure leaves the writer lock held.                          *)
SaveEnds ==
  \A t \in Tasks : (pc[t] = "mkdir") ~> (pc[t] \in {"idle", "failed"} \/ ~up)

-----------------------------------------------------------------------------
(* The inductive invariant behind the properties above, in named parts.    *)

Below(f, g) == \A p \in Paths : f[p] <= g[p]

(* The writer lock is held by exactly the task that stands inside it, or   *)
(* stood there when it was cancelled: even then nobody else is in there.   *)
LockInv ==
  /\ \A t \in Tasks \ aborted : writer = t <=> pc[t] \in Holding
  /\ \A t, u \in Tasks : pc[t] \in Holding /\ pc[u] \in Holding => t = u

(* Tasks are cancelled together, and only file operations go on.           *)
AbortInv ==
  /\ aborted \in {{}, Tasks}
  /\ \A t \in aborted : pc[t] \in {"idle"} \cup InFile /\ writer # t

(* After a crash nothing of a save is left but its files.                  *)
DownInv == ~up => aborted = {} /\ \A t \in Tasks : pc[t] = "idle"

(* Disk follows memory, and callers hear of what is on disk.               *)
FileInv ==
  /\ file \in Contents
  /\ up => Below(file, mem)
  /\ Below(acked, file)

(* A save's own offset is in memory until the save ends.                   *)
VersionInv ==
  \A t \in Tasks :
    pc[t] \notin {"idle", "failed"} => version[t] <= mem[PathOf[t]]

(* The copy about to be written lies between the file and memory: no other *)
(* task can replace the file meanwhile.                                    *)
SnapInv ==
  \A t \in Tasks :
    pc[t] \in {"open", "write", "rename"} =>
      /\ Below(file, snap[t]) /\ Below(snap[t], mem)
      /\ version[t] <= snap[t][PathOf[t]]

(* What is renamed is the holder's own copy, complete.                     *)
TmpInv == \A t \in Tasks : pc[t] = "rename" => tmp = snap[t]

ReturnInv == \A t \in Tasks : pc[t] = "return" => version[t] <= file[PathOf[t]]

IInv ==
  /\ TypeOK /\ LockInv /\ AbortInv /\ DownInv /\ FileInv
  /\ VersionInv /\ SnapInv /\ TmpInv /\ ReturnInv

(* The store implements the array of durable counters.                     *)
Abstract == INSTANCE DurableOffsets WITH latest <- mem, durable <- file

ImplementsDurableOffsets == Abstract!Spec

(* ... and keeps the contract that SharedStore and Forwarder build upon:   *)
(* what is done before the copy is one step, and so is what the copy goes  *)
(* through until it is in the file.                                        *)
Place(t) ==
  IF ~up \/ pc[t] = "failed" \/ (t \in aborted /\ pc[t] \notin InFile) THEN "ended"
  ELSE IF pc[t] \in {"mkdir", "lock", "serialize"} THEN "inserted"
  ELSE IF pc[t] \in InFile THEN "writing" ELSE "idle"

Contract == INSTANCE SavedMap
  WITH at <- [t \in Tasks |-> Place(t)],
       copy <- [t \in Tasks |-> IF pc[t] \in InFile THEN snap[t] ELSE NoEntries],
       disk <- file

KeepsContract == Contract!Spec
=============================================================================
