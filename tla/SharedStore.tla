----------------------------- MODULE SharedStore -----------------------------
(***************************************************************************)
(* All the tasks of one process over one offset store: forwarders, static  *)
(* and discovered, and discovery tasks.  Each reads a stream, handles its  *)
(* messages and saves how far it came under the path of the stream.  The   *)
(* store has one entry for a path, whatever tasks use it, and the whole    *)
(* map goes to the file with every save.                                   *)
(*                                                                         *)
(* One task per path is what README.md has in mind, but it is not what the *)
(* code enforces: two [[streams]] may name one path (config.rs), and a     *)
(* control stream may also be a static or a discovered stream (app.rs).    *)
(*                                                                         *)
(* Without an entry a task begins where the configuration says, and the    *)
(* tasks of one path need not agree on that: an offset of a [[streams]]    *)
(* entry, the default_offset of a [[discovery]] block, "now".              *)
(*                                                                         *)
(* What a task does between two offsets is one step here (Forwarder and    *)
(* App have the details): a forwarder has its messages acknowledged by     *)
(* Kafka, a discovery task has processed its events.                       *)
(*                                                                         *)
(* An offset is the number of messages it is behind.  An entry of the      *)
(* store is 0 if there is none, and n + 1 if it is the offset n.           *)
(***************************************************************************)
EXTENDS Naturals

CONSTANTS
  Tasks,      \* the tasks of the process
  Watchers,   \* those that are discovery tasks
  Paths,      \* the stream paths they read
  PathOf,     \* the path each task reads
  Now,        \* the offset "now"
  From,       \* the offset each task is configured to begin at
  MaxLen,     \* bound: messages of a stream
  MaxStarts   \* bound: starts of the process

ASSUME SharedAssumption ==
  /\ Watchers \subseteq Tasks
  /\ PathOf \in [Tasks -> Paths]
  /\ Now \notin Nat /\ From \in [Tasks -> Nat \cup {Now}]
  /\ MaxLen \in Nat /\ MaxStarts \in Nat

VARIABLES
  up,       \* the process runs and has opened the store
  starts,   \* how often it was started
  tail,     \* server: messages of each stream
  pc,       \* where each task stands
  offset,   \* the offset a task has come to
  mem,      \* the entries of the store, in memory
  copy,     \* those each task has serialized and is about to write
  disk,     \* and those in the offset file
  done,     \* history: the messages each task has handled, in any run
  passed    \* history: those it has passed by subscribing at "now"

vars == <<up, starts, tail, pc, offset, mem, copy, disk, done, passed>>

PC == {"off", "now", "read", "save", "persist", "write", "failed"}

Behind(entry) == IF entry = 0 THEN 0 ELSE entry - 1

NoEntries == [p \in Paths |-> 0]
NoCopies  == [t \in Tasks |-> NoEntries]

TypeOK ==
  /\ up \in BOOLEAN
  /\ starts \in Nat
  /\ tail \in [Paths -> Nat]
  /\ pc \in [Tasks -> PC]
  /\ offset \in [Tasks -> Nat]
  /\ mem \in [Paths -> Nat] /\ disk \in [Paths -> Nat]
  /\ copy \in [Tasks -> [Paths -> Nat]]
  /\ done \in [Tasks -> SUBSET Nat] /\ passed \in [Tasks -> SUBSET Nat]

Init ==
  /\ up = FALSE /\ starts = 0
  /\ tail \in [Paths -> 0..MaxLen]
  /\ \A t \in Tasks : From[t] # Now => From[t] <= tail[PathOf[t]]
  /\ pc = [t \in Tasks |-> "off"]
  /\ offset = [t \in Tasks |-> 0]
  /\ mem = NoEntries /\ disk = NoEntries /\ copy = NoCopies
  /\ done = [t \in Tasks |-> {}] /\ passed = [t \in Tasks |-> {}]

-----------------------------------------------------------------------------
NewMessage(p) ==
  /\ tail[p] < MaxLen
  /\ tail' = [tail EXCEPT ![p] = @ + 1]
  /\ UNCHANGED <<up, starts, pc, offset, mem, copy, disk, done, passed>>

(* The process starts and opens the store.                                 *)
Start ==
  /\ ~up /\ starts < MaxStarts
  /\ up' = TRUE
  /\ starts' = starts + 1
  /\ mem' = disk
  /\ UNCHANGED <<tail, pc, offset, copy, disk, done, passed>>

(* It is killed, or a task has returned an error, one of save included.   *)
(* A write under way is completed or not.                                  *)
Stop ==
  /\ up
  /\ up' = FALSE
  /\ pc' = [t \in Tasks |-> "off"]
  /\ offset' = [t \in Tasks |-> 0]
  /\ disk' \in {disk} \cup {copy[t] : t \in {u \in Tasks : pc[u] = "write"}}
  /\ copy' = NoCopies
  /\ UNCHANGED <<starts, tail, mem, done, passed>>

(* Mutant: the stored offset is taken for the last message to pass over.   *)
BeginAfter(t) ==
  LET entry == mem[PathOf[t]] IN
  /\ up /\ pc[t] = "off"
  /\ \/ /\ entry # 0
        /\ pc' = [pc EXCEPT ![t] = "read"]
        /\ offset' = [offset EXCEPT ![t] = Behind(entry) + 1]
     \/ /\ entry = 0 /\ From[t] # Now
        /\ pc' = [pc EXCEPT ![t] = "read"]
        /\ offset' = [offset EXCEPT ![t] = From[t]]
     \/ /\ entry = 0 /\ From[t] = Now
        /\ pc' = [pc EXCEPT ![t] = "now"]
        /\ UNCHANGED offset
  /\ UNCHANGED <<up, starts, tail, mem, copy, disk, done, passed>>

(* The task is polled for the first time, at the start or whenever it was  *)
(* spawned, and looks its entry up: in memory, where other tasks may have  *)
(* saved since the start.  If there is none it takes the configured offset.*)
Begin(t) ==
  LET entry == mem[PathOf[t]] IN
  /\ up /\ pc[t] = "off"
  /\ \/ /\ entry # 0
        /\ pc' = [pc EXCEPT ![t] = "read"]
        /\ offset' = [offset EXCEPT ![t] = Behind(entry)]
     \/ /\ entry = 0 /\ From[t] # Now
        /\ pc' = [pc EXCEPT ![t] = "read"]
        /\ offset' = [offset EXCEPT ![t] = From[t]]
     \/ /\ entry = 0 /\ From[t] = Now
        /\ pc' = [pc EXCEPT ![t] = "now"]
        /\ UNCHANGED offset
  /\ UNCHANGED <<up, starts, tail, mem, copy, disk, done, passed>>

(* The subscription at "now" that brings the task its first checkpoint:    *)
(* the one that counts, as each one before begins at the end again.        *)
Subscribe(t) ==
  LET n == tail[PathOf[t]] IN
  /\ pc[t] = "now"
  /\ pc' = [pc EXCEPT ![t] = "read"]
  /\ offset' = [offset EXCEPT ![t] = n]
  /\ passed' = [passed EXCEPT ![t] = @ \cup 1..n]
  /\ UNCHANGED <<up, starts, tail, mem, copy, disk, done>>

(* A checkpoint, and what comes before the save it leads to.  A forwarder  *)
(* passes over a checkpoint without data, a discovery task saves it.       *)
Handle(t, n) ==
  /\ pc[t] = "read"
  /\ offset[t] <= n /\ n <= tail[PathOf[t]]
  /\ t \notin Watchers => offset[t] < n
  /\ done' = [done EXCEPT ![t] = @ \cup (offset[t] + 1)..n]
  /\ offset' = [offset EXCEPT ![t] = n]
  /\ pc' = [pc EXCEPT ![t] = "save"]
  /\ UNCHANGED <<up, starts, tail, mem, copy, disk, passed>>

(* save: the insert under the state lock.                                  *)
Save(t) ==
  /\ pc[t] = "save"
  /\ mem' = [mem EXCEPT ![PathOf[t]] = offset[t] + 1]
  /\ pc' = [pc EXCEPT ![t] = "persist"]
  /\ UNCHANGED <<up, starts, tail, offset, copy, disk, done, passed>>

(* Mutant: the map is serialized before the writer lock is taken.          *)
SerializeUnlocked(t) ==
  /\ pc[t] = "persist"
  /\ pc' = [pc EXCEPT ![t] = "write"]
  /\ copy' = [copy EXCEPT ![t] = mem]
  /\ UNCHANGED <<up, starts, tail, offset, mem, disk, done, passed>>

(* save: the writer lock is taken and all the entries are serialized.      *)
Serialize(t) ==
  /\ pc[t] = "persist"
  /\ \A u \in Tasks : pc[u] # "write"
  /\ pc' = [pc EXCEPT ![t] = "write"]
  /\ copy' = [copy EXCEPT ![t] = mem]
  /\ UNCHANGED <<up, starts, tail, offset, mem, disk, done, passed>>

(* save: the file is replaced, and Ok.  Other tasks may have saved since   *)
(* the copy was taken.                                                     *)
Persist(t) ==
  /\ pc[t] = "write"
  /\ disk' = copy[t]
  /\ copy' = [copy EXCEPT ![t] = NoEntries]
  /\ pc' = [pc EXCEPT ![t] = "read"]
  /\ UNCHANGED <<up, starts, tail, offset, mem, done, passed>>

(* save returns an error, and the task does.  The lock is free, the entry  *)
(* stays in memory, and the other tasks go on until the main loop has      *)
(* joined this one: a save of theirs may write the entry.                  *)
SaveFails(t) ==
  /\ pc[t] \in {"persist", "write"}
  /\ pc' = [pc EXCEPT ![t] = "failed"]
  /\ copy' = [copy EXCEPT ![t] = NoEntries]
  /\ UNCHANGED <<up, starts, tail, offset, mem, disk, done, passed>>

Next ==
  \/ Start \/ Stop
  \/ \E p \in Paths : NewMessage(p)
  \/ \E t \in Tasks :
       \/ Begin(t) \/ Subscribe(t) \/ Save(t) \/ Serialize(t) \/ Persist(t) \/ SaveFails(t)
       \/ \E n \in 0..tail[PathOf[t]] : Handle(t, n)

Spec == Init /\ [][Next]_vars

-----------------------------------------------------------------------------
Readers(p) == {t \in Tasks : PathOf[t] = p}

DoneOn(p) == UNION {done[t] : t \in Readers(p)}

(* What a task is configured to begin behind.                              *)
Passed(t) == IF From[t] = Now THEN passed[t] ELSE 1..From[t]

PassedOn(p) == UNION {Passed(t) : t \in Readers(p)}

(* Nothing is lost for a path as a whole: what a restart passes over, some *)
(* task of this path has handled, or was configured to begin behind, even  *)
(* when several tasks fight over its entry and move it forwards and        *)
(* backwards.  If all of them begin at the start of the stream, some task  *)
(* has handled it: two forwarders are as good as one in this respect.  But *)
(* what a discovery task passes at "now" no other task reads after a       *)
(* restart, wherever that one was to begin.                                *)
NothingSkipped ==
  \A p \in Paths : 1..Behind(disk[p]) \subseteq DoneOn(p) \cup PassedOn(p)

(* A task whose path no other task reads delivers at least once, although  *)
(* every other task writes its entry too, from whatever copy it has.  What *)
(* it is configured to begin behind counts as delivered.  It is not so for *)
(* a task that shares its path: after a restart it goes on from where the  *)
(* other one has been.                                                     *)
Alone(t) == Readers(PathOf[t]) = {t}

Stream(t) == INSTANCE AtLeastOnce
  WITH published <- tail[PathOf[t]], delivered <- done[t] \cup Passed(t),
       committed <- Behind(disk[PathOf[t]])

AloneAtLeastOnce ==
  /\ \A t \in Tasks : Alone(t) => Stream(t)!Init
  /\ [][\A t \in Tasks : Alone(t) => [Stream(t)!Next]_(Stream(t)!vars)]_vars

-----------------------------------------------------------------------------
(* The inductive invariant behind them.                                    *)
Covered(p, n) == n <= tail[p] /\ 1..n \subseteq DoneOn(p) \cup PassedOn(p)

CoveredInv ==
  /\ \A p \in Paths : Covered(p, Behind(mem[p])) /\ Covered(p, Behind(disk[p]))
  /\ \A t \in Tasks : Covered(PathOf[t], offset[t])
  /\ \A t \in Tasks, p \in Paths : Covered(p, Behind(copy[t][p]))

(* The stream has what a task is configured to begin behind, and a task    *)
(* that is about to subscribe at "now" is configured to.                   *)
FromInv ==
  \A t \in Tasks :
    /\ From[t] # Now => From[t] <= tail[PathOf[t]]
    /\ pc[t] = "now" => From[t] = Now

DownInv == ~up => \A t \in Tasks : pc[t] = "off"

(* The entry of a task that is alone follows the task, and the file the    *)
(* entry.                                                                  *)
AloneInv ==
  up => \A t \in Tasks : Alone(t) =>
    /\ disk[PathOf[t]] <= mem[PathOf[t]]
    /\ pc[t] \notin {"off", "now"} => mem[PathOf[t]] <= offset[t] + 1

(* The tasks keep to the contract of the store, and the store to what it   *)
(* says of the entry of a task that is alone: in the file once save has    *)
(* returned, and never replaced by an older one.                           *)
Place(t) ==
  IF ~up \/ pc[t] = "failed" THEN "ended"
  ELSE IF pc[t] = "persist" THEN "inserted"
  ELSE IF pc[t] = "write" THEN "writing" ELSE "idle"

Store == INSTANCE SavedMap WITH at <- [t \in Tasks |-> Place(t)]

KeepsContract == Store!Spec

IInv == TypeOK /\ CoveredInv /\ FromInv /\ DownInv /\ AloneInv /\ Store!EntryInv
=============================================================================
