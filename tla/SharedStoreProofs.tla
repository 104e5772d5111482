-------------------------- MODULE SharedStoreProofs --------------------------
(***************************************************************************)
(* Proofs about SharedStore, for any tasks, any paths, any assignment of   *)
(* one to the other, and any configured offsets, "now" included.           *)
(***************************************************************************)
EXTENDS SharedStore, TLAPS

(* The contract of the store, with what is proved from it alone.           *)
Proved == INSTANCE SavedMapProofs WITH at <- [t \in Tasks |-> Place(t)]

(* What a restart may pass over on a path.                                 *)
Settled(p) == DoneOn(p) \cup PassedOn(p)

(* The streams only grow, and so does what the tasks of a path have handled *)
(* or passed.                                                              *)
LEMMA SettledGrows ==
  ASSUME TypeOK, TypeOK', [Next]_vars, NEW p \in Paths
  PROVE  tail[p] <= tail'[p] /\ Settled(p) \subseteq Settled(p)'
<1> USE DEF TypeOK
<1>1. tail[p] \in Nat /\ tail'[p] \in Nat /\ tail[p] <= tail'[p]
  BY DEF Next, vars, Start, Stop, NewMessage, Begin, Subscribe, Save, Serialize,
         Persist, SaveFails, Handle
<1>2. \A t \in Tasks : done[t] \subseteq done'[t] /\ passed[t] \subseteq passed'[t]
  <2>1. ASSUME NEW u \in Tasks, Subscribe(u)
        PROVE  done' = done /\ \A t \in Tasks : passed[t] \subseteq passed'[t]
    BY <2>1 DEF Subscribe
  <2>2. ASSUME NEW u \in Tasks, NEW n \in 0..tail[PathOf[u]], Handle(u, n)
        PROVE  passed' = passed /\ \A t \in Tasks : done[t] \subseteq done'[t]
    BY <2>2 DEF Handle
  <2>3. \/ UNCHANGED <<done, passed>>
        \/ \E u \in Tasks : Subscribe(u) \/ \E n \in 0..tail[PathOf[u]] : Handle(u, n)
    BY DEF Next, vars, Start, Stop, NewMessage, Begin, Save, Serialize, Persist, SaveFails
  <2> QED
    BY <2>1, <2>2, <2>3
<1> QED
  BY <1>1, <1>2 DEF Settled, DoneOn, PassedOn, Passed, Readers

LEMMA BehindNat == \A e \in Nat : Behind(e) \in Nat /\ Behind(e + 1) = e
  BY DEF Behind

(* Type correctness is inductive by itself.                                *)
LEMMA TypeStep ==
  ASSUME TypeOK, [Next]_vars
  PROVE  TypeOK'
<1> USE DEF TypeOK, PC
<1>0. PathOf \in [Tasks -> Paths] /\ \A t \in Tasks : From[t] # Now => From[t] \in Nat
  BY SharedAssumption
<1>1. CASE Start
  BY <1>1 DEF Start
<1>2. CASE Stop
  BY <1>2 DEF Stop, NoEntries, NoCopies
<1>3. ASSUME NEW p \in Paths, NewMessage(p)
      PROVE  TypeOK'
  BY <1>3 DEF NewMessage
<1>4. ASSUME NEW t \in Tasks, Begin(t)
      PROVE  TypeOK'
  <2>1. Behind(mem[PathOf[t]]) \in Nat /\ (From[t] # Now => From[t] \in Nat)
    BY <1>0, BehindNat
  <2>2. pc' \in [Tasks -> PC] /\ offset' \in [Tasks -> Nat]
    BY <1>4, <2>1 DEF Begin
  <2> QED
    BY <1>4, <2>2 DEF Begin
<1>4a. ASSUME NEW t \in Tasks, Subscribe(t)
       PROVE  TypeOK'
  <2>1. tail[PathOf[t]] \in Nat
    BY <1>0
  <2>2. 1..tail[PathOf[t]] \subseteq Nat
    BY <2>1
  <2>3. passed' \in [Tasks -> SUBSET Nat]
    BY <1>4a, <2>2 DEF Subscribe
  <2> QED
    BY <1>4a, <2>1, <2>3 DEF Subscribe
<1>5. ASSUME NEW t \in Tasks, Save(t)
      PROVE  TypeOK'
  <2>1. offset[t] + 1 \in Nat /\ PathOf[t] \in Paths
    BY <1>0
  <2>2. mem' \in [Paths -> Nat] /\ pc' \in [Tasks -> PC]
    BY <1>5, <2>1 DEF Save
  <2> QED
    BY <1>5, <2>2 DEF Save
<1>6. ASSUME NEW t \in Tasks, Serialize(t)
      PROVE  TypeOK'
  BY <1>6, <1>0 DEF Serialize
<1>7. ASSUME NEW t \in Tasks, Persist(t)
      PROVE  TypeOK'
  BY <1>7 DEF Persist, NoEntries
<1>8. ASSUME NEW t \in Tasks, SaveFails(t)
      PROVE  TypeOK'
  BY <1>8 DEF SaveFails, NoEntries
<1>9. ASSUME NEW t \in Tasks, NEW n \in 0..tail[PathOf[t]], Handle(t, n)
      PROVE  TypeOK'
  <2>1. n \in Nat /\ offset[t] \in Nat /\ tail[PathOf[t]] \in Nat
    BY <1>0
  <2>2. (offset[t] + 1)..n \subseteq Nat
    BY <2>1
  <2>3. done' \in [Tasks -> SUBSET Nat]
    BY <1>9, <2>2 DEF Handle
  <2> QED
    BY <1>9, <2>1, <2>3 DEF Handle
<1>10. CASE UNCHANGED vars
  BY <1>10 DEF vars
<1> QED
  BY <1>1, <1>2, <1>3, <1>4, <1>4a, <1>5, <1>6, <1>7, <1>8, <1>9, <1>10 DEF Next

(* What memory, the file, the copies and the tasks point at has been       *)
(* handled by the tasks of the path, or passed.  The entries go from one   *)
(* place to another; a save brings the offset of its task.                 *)
CoveredEntry(p, e) == Behind(e) <= tail[p] /\ 1..Behind(e) \subseteq Settled(p)

LEMMA CoveredStep ==
  ASSUME TypeOK, CoveredInv, FromInv, TypeOK', [Next]_vars
  PROVE  CoveredInv'
<1> USE SharedAssumption
<1>0. /\ mem \in [Paths -> Nat] /\ disk \in [Paths -> Nat] /\ tail \in [Paths -> Nat]
      /\ copy \in [Tasks -> [Paths -> Nat]] /\ offset \in [Tasks -> Nat]
      /\ mem' \in [Paths -> Nat] /\ disk' \in [Paths -> Nat] /\ tail' \in [Paths -> Nat]
      /\ copy' \in [Tasks -> [Paths -> Nat]] /\ offset' \in [Tasks -> Nat]
  BY DEF TypeOK
<1>a. \A p \in Paths : tail[p] <= tail'[p] /\ Settled(p) \subseteq Settled(p)'
  BY SettledGrows
<1>b. \A p \in Paths, n \in Nat :
        n <= tail[p] /\ 1..n \subseteq Settled(p) => n <= tail'[p] /\ 1..n \subseteq Settled(p)'
  BY <1>0, <1>a
<1>c. \A p \in Paths : /\ CoveredEntry(p, 0) /\ CoveredEntry(p, mem[p]) /\ CoveredEntry(p, disk[p])
                       /\ \A t \in Tasks : CoveredEntry(p, copy[t][p])
  <2>1. 1..0 = {} /\ Behind(0) = 0
    BY DEF Behind
  <2> QED
    BY <1>0, <2>1 DEF CoveredInv, Covered, CoveredEntry, Settled
<1>d. \A t \in Tasks : offset[t] <= tail[PathOf[t]] /\ 1..offset[t] \subseteq Settled(PathOf[t])
  BY DEF CoveredInv, Covered, Settled
<1>e. \A t \in Tasks : offset'[t] = offset[t] =>
        offset'[t] <= tail'[PathOf[t]] /\ 1..offset'[t] \subseteq Settled(PathOf[t])'
  BY <1>0, <1>b, <1>d
<1>f. SUFFICES
        /\ \A p \in Paths : CoveredEntry(p, mem'[p]) /\ CoveredEntry(p, disk'[p])
        /\ \A t \in Tasks, p \in Paths : CoveredEntry(p, copy'[t][p])
        /\ \A t \in Tasks :
             offset'[t] <= tail'[PathOf[t]] /\ 1..offset'[t] \subseteq Settled(PathOf[t])'
  <2>1. \A e \in Nat : Behind(e) \in Nat
    BY BehindNat
  <2>2. \A p \in Paths, e \in Nat : CoveredEntry(p, e) =>
          Behind(e) <= tail'[p] /\ 1..Behind(e) \subseteq Settled(p)'
    BY <1>b, <2>1 DEF CoveredEntry
  <2> QED
    BY <1>0, <2>2, <1>f DEF CoveredInv, Covered, Settled
<1>1. CASE Start
  BY <1>1, <1>0, <1>b, <1>c, <1>d DEF Start
<1>2. CASE Stop
  <2>1. /\ mem' = mem /\ offset' = [t \in Tasks |-> 0] /\ copy' = NoCopies
        /\ disk' = disk \/ \E u \in Tasks : disk' = copy[u]
    BY <1>2 DEF Stop
  <2>2. \A t \in Tasks, p \in Paths : copy'[t][p] = 0
    BY <2>1 DEF NoCopies, NoEntries
  <2>3. \A t \in Tasks : offset'[t] <= tail'[PathOf[t]] /\ 1..offset'[t] = {}
    BY <1>0, <2>1
  <2> QED
    BY <1>c, <2>1, <2>2, <2>3
<1>3. CASE \E p \in Paths : NewMessage(p)
  <2>1. UNCHANGED <<mem, disk, copy, offset>>
    BY <1>3 DEF NewMessage
  <2> QED
    BY <1>c, <1>e, <2>1
<1>4. CASE \E t \in Tasks : Begin(t)
  <2>1. UNCHANGED <<mem, disk, copy>>
    BY <1>4 DEF Begin
  <2>2. ASSUME NEW u \in Tasks, NEW n, n = offset'[u],
               n = offset[u] \/ n = Behind(mem[PathOf[u]]) \/ (From[u] # Now /\ n = From[u])
        PROVE  n <= tail'[PathOf[u]] /\ 1..n \subseteq Settled(PathOf[u])'
    <3>1. n \in Nat /\ PathOf[u] \in Paths
      BY <1>0, <2>2
    <3>2. CASE From[u] # Now /\ n = From[u]
      <4>1. 1..n \subseteq Settled(PathOf[u])
        BY <3>2 DEF Settled, PassedOn, Passed, Readers
      <4> QED
        BY <1>b, <3>1, <3>2, <4>1 DEF FromInv
    <3> QED
      BY <1>b, <1>c, <1>d, <2>2, <3>1, <3>2 DEF CoveredEntry
  <2>3. ASSUME NEW u \in Tasks
        PROVE  \/ offset'[u] = offset[u] \/ offset'[u] = Behind(mem[PathOf[u]])
               \/ From[u] # Now /\ offset'[u] = From[u]
    BY <1>0, <1>4 DEF Begin
  <2> QED
    BY <1>c, <2>1, <2>2, <2>3
<1>5. CASE \E t \in Tasks : Subscribe(t)
  <2>1. PICK t \in Tasks : Subscribe(t)
    BY <1>5
  <2>2. UNCHANGED <<tail, mem, disk, copy>>
    BY <2>1 DEF Subscribe
  <2>3. /\ \A u \in Tasks \ {t} : offset'[u] = offset[u]
        /\ offset'[t] = tail[PathOf[t]]
    BY <1>0, <2>1 DEF Subscribe
  <2>4. 1..tail[PathOf[t]] \subseteq Settled(PathOf[t])'
    <3>1. From[t] = Now /\ 1..tail[PathOf[t]] \subseteq passed'[t]
      BY <2>1 DEF Subscribe, TypeOK, FromInv
    <3> QED
      BY <3>1 DEF Settled, PassedOn, Passed, Readers
  <2> QED
    <3>1. \A u \in Tasks : offset'[u] <= tail'[PathOf[u]] /\ 1..offset'[u] \subseteq Settled(PathOf[u])'
      BY <1>0, <1>e, <2>2, <2>3, <2>4
    <3> QED
      BY <1>c, <2>2, <3>1
<1>6. CASE \E t \in Tasks : Save(t)
  <2>1. PICK t \in Tasks : Save(t)
    BY <1>6
  <2>2. /\ UNCHANGED <<disk, copy, offset>>
        /\ \A p \in Paths : mem'[p] = mem[p] \/ (p = PathOf[t] /\ mem'[p] = offset[t] + 1)
    BY <1>0, <2>1 DEF Save
  <2>3. CoveredEntry(PathOf[t], offset[t] + 1)
    BY <1>0, <1>d, BehindNat DEF CoveredEntry
  <2>4. \A p \in Paths : CoveredEntry(p, mem'[p])
    BY <1>c, <2>2, <2>3
  <2> QED
    BY <1>c, <1>e, <2>2, <2>4
<1>7. CASE \E t \in Tasks : Serialize(t)
  <2>1. /\ UNCHANGED <<mem, disk, offset>>
        /\ \A u \in Tasks : copy'[u] = copy[u] \/ copy'[u] = mem
    BY <1>0, <1>7 DEF Serialize
  <2>2. \A u \in Tasks, p \in Paths : CoveredEntry(p, copy'[u][p])
    BY <1>c, <2>1
  <2> QED
    BY <1>c, <1>e, <2>1, <2>2
<1>8. CASE \E t \in Tasks : Persist(t) \/ SaveFails(t)
  <2>1. /\ UNCHANGED <<mem, offset>>
        /\ disk' = disk \/ \E t \in Tasks : disk' = copy[t]
        /\ \A u \in Tasks : copy'[u] = copy[u] \/ copy'[u] = NoEntries
    BY <1>0, <1>8 DEF Persist, SaveFails
  <2>2. \A u \in Tasks, p \in Paths : CoveredEntry(p, copy'[u][p])
    BY <1>c, <2>1 DEF NoEntries
  <2>3. \A p \in Paths : CoveredEntry(p, disk'[p])
    BY <1>c, <2>1
  <2> QED
    BY <1>c, <1>e, <2>1, <2>2, <2>3
<1>9. ASSUME NEW t \in Tasks, NEW n \in 0..tail[PathOf[t]], Handle(t, n)
      PROVE  /\ \A p \in Paths : CoveredEntry(p, mem'[p]) /\ CoveredEntry(p, disk'[p])
             /\ \A u \in Tasks, p \in Paths : CoveredEntry(p, copy'[u][p])
             /\ \A u \in Tasks :
                  offset'[u] <= tail'[PathOf[u]] /\ 1..offset'[u] \subseteq Settled(PathOf[u])'
  <2>1. /\ UNCHANGED <<tail, mem, disk, copy>> /\ offset[t] <= n
        /\ offset'[t] = n /\ \A u \in Tasks \ {t} : offset'[u] = offset[u]
    BY <1>0, <1>9 DEF Handle
  <2>2. (offset[t] + 1)..n \subseteq Settled(PathOf[t])'
    <3>1. (offset[t] + 1)..n \subseteq done'[t]
      BY <1>9 DEF Handle, TypeOK
    <3> QED
      BY <3>1 DEF Settled, DoneOn, Readers
  <2>3. 1..n \subseteq 1..offset[t] \cup (offset[t] + 1)..n
    BY <1>0
  <2>4. 1..n \subseteq Settled(PathOf[t])'
    BY <1>a, <1>d, <2>2, <2>3
  <2>5. n \in Nat /\ n <= tail[PathOf[t]]
    BY <1>0
  <2> QED
    <3>1. \A u \in Tasks : offset'[u] <= tail'[PathOf[u]] /\ 1..offset'[u] \subseteq Settled(PathOf[u])'
      BY <1>0, <1>e, <2>1, <2>4, <2>5
    <3> QED
      BY <1>c, <2>1, <3>1
<1>10. CASE UNCHANGED vars
  BY <1>0, <1>10, <1>b, <1>c, <1>d DEF vars
<1> QED
  BY <1>1, <1>2, <1>3, <1>4, <1>5, <1>6, <1>7, <1>8, <1>9, <1>10 DEF Next

LEMMA FromStep ==
  ASSUME TypeOK, FromInv, TypeOK', [Next]_vars
  PROVE  FromInv'
<1>1. \A p \in Paths : tail[p] \in Nat /\ tail'[p] \in Nat /\ tail[p] <= tail'[p]
  BY SettledGrows DEF TypeOK
<1>2. \A t \in Tasks : pc'[t] = "now" => From[t] = Now
  BY DEF TypeOK, FromInv, Next, vars, Start, Stop, NewMessage, Begin, Subscribe, Save, Serialize,
         Persist, SaveFails, Handle
<1> QED
  BY <1>1, <1>2, SharedAssumption DEF FromInv

LEMMA DownStep ==
  ASSUME TypeOK, DownInv, TypeOK', [Next]_vars
  PROVE  DownInv'
BY DEF TypeOK, DownInv, Next, vars, Start, Stop, NewMessage, Begin, Subscribe, Save, Serialize, Persist,
       SaveFails, Handle

-----------------------------------------------------------------------------
(* The tasks keep to the contract of the store, step by step.              *)
LEMMA StepKeepsContract ==
  ASSUME TypeOK, DownInv, [Next]_vars
  PROVE  [Store!Next]_(Store!vars)
<1> USE SharedAssumption DEF TypeOK, Place
<1>1. CASE Start
  <2>1. \A t \in Tasks : Place(t) = "ended" /\ Place(t)' = "idle"
    BY <1>1 DEF Start, DownInv
  <2>2. Store!Recover
    BY <1>1, <2>1 DEF Start, Store!Recover
  <2> QED
    BY <2>2 DEF Store!Next
<1>2. CASE Stop
  <2>1. \A t \in Tasks : Place(t)' = "ended" /\ (pc[t] = "write" => Place(t) = "writing")
    BY <1>2 DEF Stop
  <2>2. Store!End(Tasks)
    BY <1>2, <2>1 DEF Stop, NoCopies, NoEntries, Store!End, Store!NoEntries
  <2> QED
    BY <2>2 DEF Store!Next
<1>3. ASSUME NEW p \in Paths, NewMessage(p)
      PROVE  [Store!Next]_(Store!vars)
  BY <1>3 DEF NewMessage, Store!vars
<1>4. ASSUME NEW t \in Tasks, Begin(t) \/ Subscribe(t)
      PROVE  [Store!Next]_(Store!vars)
  <2>1. \A u \in Tasks : Place(u)' = Place(u)
    BY <1>4 DEF Begin, Subscribe
  <2> QED
    BY <1>4, <2>1 DEF Begin, Subscribe, Store!vars
<1>5. ASSUME NEW t \in Tasks, Save(t)
      PROVE  [Store!Next]_(Store!vars)
  <2>1. /\ Place(t) = "idle" /\ Place(t)' = "inserted"
        /\ \A u \in Tasks \ {t} : Place(u)' = Place(u)
    BY <1>5 DEF Save, DownInv
  <2>2. Store!Insert(t)
    <3>1. offset[t] + 1 \in Nat
      OBVIOUS
    <3> QED
      BY <1>5, <2>1, <3>1 DEF Save, Store!Insert, Store!Contents
  <2> QED
    BY <2>2 DEF Store!Next
<1>6. ASSUME NEW t \in Tasks, Serialize(t)
      PROVE  [Store!Next]_(Store!vars)
  <2>1. /\ Place(t) = "inserted" /\ Place(t)' = "writing"
        /\ \A u \in Tasks : Place(u) # "writing"
        /\ \A u \in Tasks \ {t} : Place(u)' = Place(u)
    BY <1>6 DEF Serialize, DownInv
  <2>2. Store!Serialize(t)
    BY <1>6, <2>1 DEF Serialize, Store!Serialize
  <2> QED
    BY <2>2 DEF Store!Next
<1>7. ASSUME NEW t \in Tasks, Persist(t)
      PROVE  [Store!Next]_(Store!vars)
  <2>1. /\ Place(t) = "writing" /\ Place(t)' = "idle"
        /\ \A u \in Tasks \ {t} : Place(u)' = Place(u)
    BY <1>7 DEF Persist, DownInv
  <2>2. Store!Replace(t)
    BY <1>7, <2>1 DEF Persist, NoEntries, Store!Replace, Store!NoEntries
  <2> QED
    BY <2>2 DEF Store!Next
<1>8. ASSUME NEW t \in Tasks, SaveFails(t)
      PROVE  [Store!Next]_(Store!vars)
  <2>1. Place(t)' = "ended" /\ \A u \in Tasks \ {t} : Place(u)' = Place(u)
    BY <1>8 DEF SaveFails
  <2>2. Store!End({t})
    BY <1>8, <2>1 DEF SaveFails, NoEntries, Store!End, Store!NoEntries
  <2> QED
    BY <2>2 DEF Store!Next
<1>9. ASSUME NEW t \in Tasks, NEW n \in 0..tail[PathOf[t]], Handle(t, n)
      PROVE  [Store!Next]_(Store!vars)
  <2>1. \A u \in Tasks : Place(u)' = Place(u)
    BY <1>9 DEF Handle
  <2> QED
    BY <1>9, <2>1 DEF Handle, Store!vars
<1>10. CASE UNCHANGED vars
  BY <1>10 DEF vars, Store!vars
<1> QED
  BY <1>1, <1>2, <1>3, <1>4, <1>5, <1>6, <1>7, <1>8, <1>9, <1>10 DEF Next

(* So what follows from the contract holds here.                           *)
LEMMA SameContract ==
  /\ Store!EntryInv <=> Proved!EntryInv
  /\ Store!Next <=> Proved!Next
  /\ Store!vars = Proved!vars
<1>1. Store!EntryInv <=> Proved!EntryInv
  BY DEF Store!EntryInv, Store!TypeOK, Store!OneWriter, Store!CopyInv, Store!SavedIsOnDisk,
         Store!Alone, Store!Contents, Store!Places,
         Proved!EntryInv, Proved!TypeOK, Proved!OneWriter, Proved!CopyInv, Proved!SavedIsOnDisk,
         Proved!Alone, Proved!Contents, Proved!Places
<1>2. Store!Next <=> Proved!Next
  BY DEF Store!Next, Store!Insert, Store!Serialize, Store!Replace, Store!End, Store!Recover,
         Store!Contents, Store!NoEntries,
         Proved!Next, Proved!Insert, Proved!Serialize, Proved!Replace, Proved!End,
         Proved!Recover, Proved!Contents, Proved!NoEntries
<1>3. Store!vars = Proved!vars
  BY DEF Store!vars, Proved!vars
<1> QED
  BY <1>1, <1>2, <1>3

LEMMA EntryKept ==
  ASSUME TypeOK, DownInv, Store!EntryInv, [Next]_vars
  PROVE  Store!EntryInv'
<1>1. [Proved!Next]_(Proved!vars)
  BY StepKeepsContract, SameContract DEF Store!vars, Proved!vars
<1>2. Proved!EntryInv
  BY SameContract
<1>3. Proved!EntryInv'
  BY <1>1, <1>2, SharedAssumption, Proved!EntryStep
<1> QED
  BY <1>3, SameContract, PTL

(* A task that is alone on its path is the only one that changes its       *)
(* entry, and the file gets that entry from whoever writes.                *)
LEMMA OnlyReader ==
  ASSUME NEW t \in Tasks, Alone(t), NEW u \in Tasks, PathOf[u] = PathOf[t]
  PROVE  u = t
  BY DEF Alone, Readers

LEMMA OnFile ==
  ASSUME Store!EntryInv, up, NEW t \in Tasks, Alone(t), TypeOK
  PROVE  /\ pc[t] \in {"off", "read", "save"} => disk[PathOf[t]] = mem[PathOf[t]]
         /\ \A u \in Tasks : pc[u] = "write" =>
              copy[u][PathOf[t]] \in {disk[PathOf[t]], mem[PathOf[t]]}
<1>1. Store!Alone(t)
  BY DEF Alone, Readers, Store!Alone
<1>2. pc[t] \in {"off", "read", "save"} => Place(t) = "idle"
  BY DEF Place
<1>3. \A u \in Tasks : pc[u] = "write" => Place(u) = "writing"
  BY DEF Place
<1> QED
  BY <1>1, <1>2, <1>3 DEF Store!EntryInv, Store!SavedIsOnDisk, Store!CopyInv

LEMMA AloneStep ==
  ASSUME TypeOK, DownInv, AloneInv, CoveredInv, Store!EntryInv, TypeOK', [Next]_vars
  PROVE  AloneInv'
<1> USE SharedAssumption DEF TypeOK
<1>a. \A t \in Tasks : Alone(t)' = Alone(t)
  BY DEF Alone, Readers
<1>1. CASE Start
  BY <1>1 DEF Start, DownInv, AloneInv
<1>2. CASE Stop
  BY <1>2 DEF Stop, AloneInv
<1>3. ASSUME NEW p \in Paths, NewMessage(p)
      PROVE  AloneInv'
  BY <1>3, <1>a DEF NewMessage, AloneInv
<1>4. ASSUME NEW t \in Tasks, Begin(t)
      PROVE  AloneInv'
  <2>1. /\ UNCHANGED <<up, mem, disk>> /\ mem[PathOf[t]] \in Nat
        /\ \A u \in Tasks \ {t} : pc'[u] = pc[u] /\ offset'[u] = offset[u]
    BY <1>4 DEF Begin
  <2>2. pc'[t] # "now" => mem[PathOf[t]] <= offset'[t] + 1
    BY <1>4 DEF Begin, Behind
  <2> QED
    BY <1>a, <2>1, <2>2 DEF AloneInv
<1>4a. ASSUME NEW t \in Tasks, Subscribe(t)
       PROVE  AloneInv'
  <2>1. /\ UNCHANGED <<up, mem, disk>>
        /\ \A u \in Tasks \ {t} : pc'[u] = pc[u] /\ offset'[u] = offset[u]
        /\ offset'[t] = tail[PathOf[t]]
    BY <1>4a DEF Subscribe
  <2>2. mem[PathOf[t]] <= tail[PathOf[t]] + 1
    <3>1. /\ mem[PathOf[t]] \in Nat /\ tail[PathOf[t]] \in Nat
          /\ Behind(mem[PathOf[t]]) <= tail[PathOf[t]]
      BY DEF CoveredInv, Covered
    <3> QED
      BY <3>1 DEF Behind
  <2> QED
    BY <1>a, <2>1, <2>2 DEF AloneInv
<1>5. ASSUME NEW t \in Tasks, Save(t)
      PROVE  AloneInv'
  BY <1>5, <1>a, OnlyReader DEF Save, AloneInv
<1>6. ASSUME NEW t \in Tasks, Serialize(t)
      PROVE  AloneInv'
  BY <1>6, <1>a DEF Serialize, AloneInv
<1>7. ASSUME NEW t \in Tasks, Persist(t)
      PROVE  AloneInv'
  <2>1. \A u \in Tasks : Alone(u) /\ up => disk'[PathOf[u]] \in {disk[PathOf[u]], mem[PathOf[u]]}
    BY <1>7, OnFile DEF Persist
  <2> QED
    BY <1>7, <1>a, <2>1 DEF Persist, AloneInv
<1>8. ASSUME NEW t \in Tasks, SaveFails(t)
      PROVE  AloneInv'
  BY <1>8, <1>a DEF SaveFails, AloneInv
<1>9. ASSUME NEW t \in Tasks, NEW n \in 0..tail[PathOf[t]], Handle(t, n)
      PROVE  AloneInv'
  BY <1>9, <1>a DEF Handle, AloneInv
<1>10. CASE UNCHANGED vars
  BY <1>10, <1>a DEF vars, AloneInv
<1> QED
  BY <1>1, <1>2, <1>3, <1>4, <1>4a, <1>5, <1>6, <1>7, <1>8, <1>9, <1>10 DEF Next

-----------------------------------------------------------------------------
(* The inductive invariant: what the store and the tasks point at has been *)
(* handled by the tasks of the path or is what one of them was configured  *)
(* to begin behind, and the entry of a task that is alone on its path lies *)
(* between the file and the task.                                          *)
THEOREM Invariance == Spec => []IInv
<1>1. Init => IInv
  <2> SUFFICES ASSUME Init PROVE IInv
    OBVIOUS
  <2>1. TypeOK
    <3>1. \A p \in Paths : tail[p] \in Nat
      BY SharedAssumption DEF Init
    <3>2. tail \in [Paths -> Nat]
      BY <3>1 DEF Init
    <3> QED
      BY <3>2 DEF Init, TypeOK, PC, NoEntries, NoCopies
  <2>2. CoveredInv
    <3>1. 1..0 = {} /\ Behind(0) = 0
      BY DEF Behind
    <3>2. \A p \in Paths : Covered(p, 0)
      BY <2>1, <3>1 DEF TypeOK, Covered
    <3> QED
      BY <3>1, <3>2, SharedAssumption DEF Init, CoveredInv, NoEntries, NoCopies
  <2>3. Store!EntryInv
    BY DEF Init, NoEntries, NoCopies, Place, Store!EntryInv, Store!TypeOK, Store!OneWriter,
           Store!CopyInv, Store!SavedIsOnDisk, Store!Places, Store!Contents
  <2> QED
    BY <2>1, <2>2, <2>3 DEF Init, TypeOK, IInv, FromInv, DownInv, AloneInv
<1>2. IInv /\ [Next]_vars => IInv'
  BY TypeStep, CoveredStep, FromStep, DownStep, AloneStep, EntryKept DEF IInv
<1> QED
  BY <1>1, <1>2, PTL DEF Spec

(* However many tasks share an entry, wherever each of them begins, and in *)
(* whatever order they save, crash and start again: what the file passes   *)
(* over was handled by one of them, or lies before the offset one of them  *)
(* was configured to begin at, "now" included (offset_store.rs save and    *)
(* load; bridge.rs and discovery.rs, the start offset; the tasks of        *)
(* app.rs).                                                                *)
THEOREM NothingIsSkipped == Spec => []NothingSkipped
<1>1. IInv => NothingSkipped
  BY DEF IInv, CoveredInv, Covered, NothingSkipped
<1> QED
  BY <1>1, Invariance, PTL

(* A task that is alone on its path delivers at least once, beside any     *)
(* number of other tasks that write the same file.                         *)
THEOREM AloneImplementsAtLeastOnce == Spec => AloneAtLeastOnce
<1>1. Init => \A t \in Tasks : Alone(t) => Stream(t)!Init
  <2> SUFFICES ASSUME Init, NEW t \in Tasks
               PROVE  Stream(t)!Init
    OBVIOUS
  <2> DEFINE n == IF From[t] = Now THEN 0 ELSE From[t]
  <2>1. PathOf[t] \in Paths /\ tail[PathOf[t]] \in Nat /\ n \in 0..tail[PathOf[t]]
    BY SharedAssumption DEF Init
  <2>2. done[t] \cup Passed(t) = 1..n
    BY DEF Init, Passed
  <2>3. Behind(disk[PathOf[t]]) = 0
    BY <2>1 DEF Init, NoEntries, Behind
  <2> QED
    BY <2>1, <2>2, <2>3 DEF Stream!Init
<1>2. IInv /\ IInv' /\ [Next]_vars =>
        [\A t \in Tasks : Alone(t) => [Stream(t)!Next]_(Stream(t)!vars)]_vars
  <2> SUFFICES ASSUME IInv, IInv', Next, NEW t \in Tasks, Alone(t)
               PROVE  [Stream(t)!Next]_(Stream(t)!vars)
    OBVIOUS
  <2> USE SharedAssumption DEF IInv, TypeOK
  <2> DEFINE q == PathOf[t]
             have == done[t] \cup Passed(t)
  <2>0. q \in Paths /\ DoneOn(q) \cup PassedOn(q) = have
    BY DEF Alone, DoneOn, PassedOn
  <2>b. UNCHANGED <<tail, done, passed, disk>> => UNCHANGED Stream(t)!vars
    BY DEF Stream!vars, Passed
  <2>1. CASE Start
    BY <2>1, <2>b DEF Start
  <2>a. ASSUME up, UNCHANGED <<tail, done, passed>>, disk'[q] \in {disk[q], mem[q]}
        PROVE  [Stream(t)!Next]_(Stream(t)!vars)
    <3>1. CASE disk'[q] = disk[q]
      BY <2>a, <3>1 DEF Stream!vars, Passed
    <3>2. CASE disk'[q] = mem[q]
      <4>1. disk[q] <= mem[q]
        BY <2>a DEF AloneInv
      <4>2. /\ Behind(mem[q]) <= tail[q] /\ 1..Behind(mem[q]) \subseteq have
            /\ disk[q] \in Nat /\ mem[q] \in Nat /\ tail[q] \in Nat
        BY <2>0 DEF CoveredInv, Covered
      <4>3. Behind(mem[q]) \in Behind(disk[q])..tail[q]
        BY <4>1, <4>2 DEF Behind
      <4>4. Behind(disk'[q]) = Behind(mem[q]) /\ have' = have /\ tail' = tail
        BY <2>a, <3>2 DEF Passed
      <4>5. Stream(t)!Commit
        BY <4>2, <4>3, <4>4 DEF Stream!Commit
      <4> QED
        BY <4>5 DEF Stream!Next
    <3> QED
      BY <2>a, <3>1, <3>2
  <2>2. CASE Stop
    <3>1. disk'[q] \in {disk[q], mem[q]} /\ up /\ UNCHANGED <<tail, done, passed>>
      BY <2>2, <2>0, OnFile DEF Stop
    <3> QED
      BY <2>a, <3>1
  <2>3. ASSUME NEW p \in Paths, NewMessage(p)
        PROVE  [Stream(t)!Next]_(Stream(t)!vars)
    <3>1. CASE p = q
      <4>1. Stream(t)!Publish
        BY <2>3, <3>1 DEF NewMessage, Stream!Publish, Passed
      <4> QED
        BY <4>1 DEF Stream!Next
    <3>2. CASE p # q
      BY <2>3, <3>2, <2>0 DEF NewMessage, Stream!vars, Passed
    <3> QED
      BY <3>1, <3>2
  <2>4. ASSUME NEW u \in Tasks, Begin(u)
        PROVE  [Stream(t)!Next]_(Stream(t)!vars)
    BY <2>4, <2>b DEF Begin
  <2>5. ASSUME NEW u \in Tasks, Save(u)
        PROVE  [Stream(t)!Next]_(Stream(t)!vars)
    BY <2>5, <2>b DEF Save
  <2>6. ASSUME NEW u \in Tasks, Persist(u)
        PROVE  [Stream(t)!Next]_(Stream(t)!vars)
    <3>1. up /\ UNCHANGED <<tail, done, passed>>
      BY <2>6 DEF Persist, DownInv
    <3>2. disk'[q] \in {disk[q], mem[q]}
      BY <2>6, <3>1, <2>0, OnFile DEF Persist
    <3> QED
      BY <2>a, <3>1, <3>2
  <2>7. ASSUME NEW u \in Tasks, Serialize(u) \/ SaveFails(u)
        PROVE  [Stream(t)!Next]_(Stream(t)!vars)
    BY <2>7, <2>b DEF Serialize, SaveFails
  <2>9. ASSUME NEW u \in Tasks, Subscribe(u)
        PROVE  [Stream(t)!Next]_(Stream(t)!vars)
    <3>1. CASE u # t \/ From[t] # Now \/ tail[q] = 0
      <4>1. UNCHANGED <<tail, done, disk>> /\ 1..0 = {}
        BY <2>9 DEF Subscribe
      <4>2. Passed(t)' = Passed(t)
        <5>1. CASE From[t] # Now
          BY <5>1 DEF Passed
        <5>2. CASE u # t
          BY <2>9, <5>2 DEF Subscribe, Passed
        <5>3. CASE u = t /\ tail[q] = 0
          <6>1. passed'[t] = passed[t] \cup 1..0
            BY <2>9, <5>3 DEF Subscribe
          <6> QED
            BY <4>1, <6>1 DEF Passed
        <5> QED
          BY <3>1, <5>1, <5>2, <5>3
      <4> QED
        BY <4>1, <4>2 DEF Stream!vars
    <3>2. CASE u = t /\ From[t] = Now /\ tail[q] # 0
      <4>1. /\ UNCHANGED <<tail, done, disk>>
            /\ Passed(t)' = Passed(t) \cup 1..tail[q]
        BY <2>9, <3>2 DEF Subscribe, Passed
      <4>2. 1 \in 1..tail[q] /\ tail[q] \in 1..tail[q] /\ 1 <= tail[q] /\ 1..(1 - 1) = {}
        BY <2>0, <3>2
      <4>3. have' = have \cup 1..tail[q]
        BY <4>1
      <4>4. Stream(t)!Deliver
        BY <4>1, <4>2, <4>3 DEF Stream!Deliver
      <4> QED
        BY <4>4 DEF Stream!Next
    <3> QED
      BY <3>1, <3>2
  <2>8. ASSUME NEW u \in Tasks, NEW n \in 0..tail[PathOf[u]], Handle(u, n)
        PROVE  [Stream(t)!Next]_(Stream(t)!vars)
    <3>1. CASE u # t
      BY <2>8, <3>1 DEF Handle, Stream!vars, Passed
    <3>2. CASE u = t
      <4>1. /\ have' = have \cup (offset[t] + 1)..n
            /\ UNCHANGED <<tail, disk>>
            /\ offset[t] <= n /\ n <= tail[q]
        BY <2>8, <3>2 DEF Handle, Passed
      <4>2. CASE offset[t] = n
        <5>1. (offset[t] + 1)..n = {}
          BY <4>2
        <5> QED
          BY <4>1, <5>1 DEF Stream!vars
      <4>3. CASE offset[t] < n
        <5>1. 1..offset[t] \subseteq have
          BY <2>0 DEF CoveredInv, Covered
        <5>2. /\ offset[t] + 1 \in 1..tail[q] /\ n \in 1..tail[q]
              /\ offset[t] + 1 <= n /\ (offset[t] + 1) - 1 = offset[t]
          BY <4>1, <4>3, <2>0
        <5>3. Stream(t)!Deliver
          BY <4>1, <5>1, <5>2 DEF Stream!Deliver
        <5> QED
          BY <5>3 DEF Stream!Next
      <4>4. offset[t] = n \/ offset[t] < n
        <5>1. offset[t] \in Nat /\ n \in Nat
          BY <2>8
        <5> HIDE DEF IInv, TypeOK
        <5> QED
          BY <4>1, <5>1
      <4> HIDE DEF IInv, TypeOK
      <4> QED
        BY <4>2, <4>3, <4>4
    <3> QED
      BY <3>1, <3>2
  <2> QED
    BY <2>1, <2>2, <2>3, <2>4, <2>5, <2>6, <2>7, <2>8, <2>9 DEF Next
<1> QED
  BY <1>1, <1>2, Invariance, PTL DEF Spec, AloneAtLeastOnce

-----------------------------------------------------------------------------
(* The tasks use the store in no other way than its contract allows, the   *)
(* one OffsetStore is proved to keep (run_stream, run_discovery and save). *)
THEOREM TasksKeepContract == Spec => KeepsContract
<1>1. Init => Store!Init
  BY DEF Init, NoEntries, NoCopies, Place, Store!Init, Store!NoEntries
<1>2. IInv /\ [Next]_vars => [Store!Next]_(Store!vars)
  BY StepKeepsContract DEF IInv
<1> QED
  BY <1>1, <1>2, Invariance, PTL DEF Spec, KeepsContract, Store!Spec
=============================================================================
