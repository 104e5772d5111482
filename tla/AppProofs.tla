------------------------------ MODULE AppProofs ------------------------------
(***************************************************************************)
(* Proofs about App, for any paths, [[streams]] entries, discovery blocks, *)
(* default offsets and control streams, and any number of restarts:        *)
(* discovery never adds a forwarder to a path that has one, and a path     *)
(* that counts as active gets one.                                         *)
(***************************************************************************)
EXTENDS App, SequenceTheorems, TLAPS

(* The part of IInv about the way of a path to its forwarder.              *)
WayInv == SpawnedInv /\ QueueInv /\ SendingInv /\ ActiveIsForwarded

LEMMA OffType == Off \in DiscState
  BY DEF Off, DiscState, DiscPC

(* One field of a discovery task's state is assigned.                      *)
LEMMA FieldType ==
  ASSUME NEW d \in DiscState
  PROVE  /\ \A v \in DiscPC : [d EXCEPT !.pc = v] \in DiscState
         /\ \A v \in Nat \cup {Now} : [d EXCEPT !.offset = v] \in DiscState
         /\ \A v \in Nat : [d EXCEPT !.cursor = v] \in DiscState
         /\ \A v \in 0..2 : [d EXCEPT !.parts = v] \in DiscState
         /\ \A v \in Seq(Paths \cup {Other}) :
              [d EXCEPT !.todo = v] \in DiscState /\ [d EXCEPT !.pending = v] \in DiscState
         /\ \A v \in Paths \cup {None} : [d EXCEPT !.sending = v] \in DiscState
  BY DEF DiscState

LEMMA InitIInv == Init => IInv
<1> SUFFICES ASSUME Init PROVE IInv
  OBVIOUS
<1> USE AppAssumption DEF Init
<1>0. streams \in [Paths -> Nat]
  OBVIOUS
<1>1. TypeOK
  <2>1. log \in [Blocks -> Seq(Paths \cup {Other})] /\ queue \in Seq(Paths)
    OBVIOUS
  <2> QED
    BY <1>0, <2>1, OffType DEF TypeOK
<1>2. CursorInv /\ DownInv
  <2>1. \A b \in Blocks : Len(log[b]) = 0
    OBVIOUS
  <2>2. Within(Off, 0)
    BY DEF Within, Off
  <2> QED
    BY <2>1, <2>2 DEF CursorInv, DownInv
<1>3. SpawnedInv /\ QueueInv /\ SendingInv /\ ActiveIsForwarded
  BY DEF SpawnedInv, QueueInv, SendingInv, ActiveIsForwarded, Off
<1> QED
  BY <1>1, <1>2, <1>3 DEF IInv

(* A discovery task takes a step that moves no path.                       *)
LEMMA DiscStep ==
  ASSUME IInv, proc = "select", NEW b \in Blocks, NEW d \in DiscState,
         disc' = [disc EXCEPT ![b] = d],
         d.sending = disc[b].sending,
         d.sending # None => d.pc = "process",
         Within(d, Len(log[b])),
         UNCHANGED <<streams, log, active, queue, spawned, proc, disk>>
  PROVE  disc' \in [Blocks -> DiscState] /\ CursorInv' /\ DownInv' /\ WayInv'
<1>1. disc' \in [Blocks -> DiscState]
  BY DEF IInv, TypeOK
<1>2. \A c \in Blocks : disc'[c].sending = disc[c].sending
  BY DEF IInv, TypeOK
<1>3. CursorInv'
  <2>1. \A c \in Blocks : disc'[c] = IF c = b THEN d ELSE disc[c]
    BY DEF IInv, TypeOK
  <2>2. \A c \in Blocks : Within(disc'[c], Len(log[c]))
    BY <2>1 DEF IInv, CursorInv
  <2> QED
    BY <2>2 DEF IInv, CursorInv, Within
<1>4. DownInv'
  BY DEF IInv, DownInv
<1>5. SpawnedInv' /\ QueueInv'
  BY DEF IInv, SpawnedInv, QueueInv, Forwarders, Static
<1>6. \A c \in Blocks : disc'[c].sending # None => disc'[c].pc = "process"
  BY DEF IInv, TypeOK, SendingInv
<1>7. SendingInv'
  BY <1>2, <1>6 DEF IInv, SendingInv
<1>8. ActiveIsForwarded'
  BY <1>2 DEF IInv, ActiveIsForwarded
<1> QED
  BY <1>1, <1>3, <1>4, <1>5, <1>7, <1>8 DEF WayInv

(* TypeOK but for the discovery tasks.                                     *)
LEMMA RestTyped ==
  ASSUME TypeOK, disc' \in [Blocks -> DiscState], closed' \subseteq Blocks,
         UNCHANGED <<streams, log, active, queue, spawned, running, proc, starts>>,
         disk' \in [Blocks -> Nat \cup {None}],
         finished' \in Nat, failed' \in BOOLEAN
  PROVE  TypeOK'
  BY DEF TypeOK

(* The steps of a discovery task on its control stream.                    *)
LEMMA ReadIInv ==
  ASSUME IInv, NEW b \in Blocks,
         Connect(b) \/ (\E n \in 1..Len(log[b]) : Data(b, n)) \/ Checkpoint(b)
           \/ Eof(b) \/ ControlEnds(b) \/ DiscoveryFails(b)
  PROVE  IInv'
<1> USE AppAssumption DEF server, tasks, main, At
<1> DEFINE d == disc[b]
<1>0. /\ TypeOK /\ CursorInv /\ d \in DiscState
      /\ log[b] \in Seq(Paths \cup {Other}) /\ Len(log[b]) \in Nat
      /\ (d.sending # None => d.pc = "process")
      /\ Within(d, Len(log[b]))
  BY LenProperties DEF IInv, TypeOK, SendingInv, CursorInv
<1>1. SUFFICES disc' \in [Blocks -> DiscState] /\ CursorInv' /\ DownInv' /\ WayInv' /\ TypeOK'
  BY DEF IInv, WayInv
<1>2. CASE Connect(b)
  <2> DEFINE n == IF d.offset = Now THEN Len(log[b]) ELSE d.offset
             e == [[d EXCEPT !.pc = "stream"] EXCEPT !.cursor = n]
  <2>1. n \in Nat /\ n <= Len(log[b])
    BY <1>0 DEF Within, DiscState
  <2> HIDE DEF n
  <2>2. [d EXCEPT !.pc = "stream"] \in DiscState
    BY <1>0, FieldType DEF DiscPC
  <2>3. e \in DiscState
    BY <2>1, <2>2, FieldType
  <2>4. disc' = [disc EXCEPT ![b] = e]
    BY <1>0, <1>2 DEF Connect, TypeOK, DiscState, n
  <2>5. /\ e.sending = d.sending /\ e.sending = None /\ e.pc = "stream"
        /\ e.offset = d.offset /\ e.cursor = n
    BY <1>0, <1>2 DEF Connect, DiscState
  <2> HIDE DEF e
  <2>6. Within(e, Len(log[b]))
    BY <1>0, <2>1, <2>5 DEF Within
  <2>7. proc = "select" /\ UNCHANGED <<streams, log, active, queue, spawned, proc, disk>>
    BY <1>2 DEF Connect
  <2>8. disc' \in [Blocks -> DiscState] /\ CursorInv' /\ DownInv' /\ WayInv'
    BY <2>3, <2>4, <2>5, <2>6, <2>7, DiscStep
  <2> QED
    BY <1>0, <1>2, <2>8, RestTyped DEF Connect, TypeOK
<1>3. ASSUME NEW n \in 1..Len(log[b]), Data(b, n)
      PROVE  disc' \in [Blocks -> DiscState] /\ CursorInv' /\ DownInv' /\ WayInv' /\ TypeOK'
  <2> DEFINE m == IF d.parts = 0 THEN 1 ELSE 2
             items == IF d.parts = 0 THEN SubSeq(log[b], d.cursor + 1, n) ELSE <<>>
             e == [[[d EXCEPT !.cursor = n] EXCEPT !.parts = m] EXCEPT !.pending = items]
  <2>0. n \in Nat /\ n <= Len(log[b]) /\ m \in 0..2
    BY <1>0
  <2>1. items \in Seq(Paths \cup {Other})
    <3>0. d.cursor \in Nat /\ d.cursor < n
      BY <1>0, <1>3 DEF Data, DiscState
    <3>1. d.cursor + 1 \in 1..(Len(log[b]) + 1) /\ n \in (d.cursor + 1 - 1)..Len(log[b])
      BY <1>0, <2>0, <3>0
    <3>2. SubSeq(log[b], d.cursor + 1, n) \in Seq(Paths \cup {Other})
      BY <1>0, <3>1, SubSeqProperties
    <3> QED
      BY <3>2
  <2>2. disc' = [disc EXCEPT ![b] = [d EXCEPT !.cursor = n, !.parts = m, !.pending = items]]
    BY <1>3 DEF Data
  <2> HIDE DEF m, items
  <2>3. [d EXCEPT !.cursor = n, !.parts = m, !.pending = items] = e
    BY <1>0 DEF DiscState
  <2>4. e \in DiscState
    <3>1. [d EXCEPT !.cursor = n] \in DiscState
      BY <1>0, <2>0, FieldType
    <3>2. [[d EXCEPT !.cursor = n] EXCEPT !.parts = m] \in DiscState
      BY <2>0, <3>1, FieldType
    <3> QED
      BY <2>1, <3>2, FieldType
  <2>5. /\ e.sending = d.sending /\ e.sending = None /\ e.pc = "stream"
        /\ e.offset = d.offset /\ e.cursor = n
    BY <1>0, <1>3 DEF Data, DiscState
  <2>6. disc' = [disc EXCEPT ![b] = e]
    BY <2>2, <2>3
  <2> HIDE DEF e
  <2>7. Within(e, Len(log[b]))
    BY <1>0, <2>0, <2>5 DEF Within
  <2>8. proc = "select" /\ UNCHANGED <<streams, log, active, queue, spawned, proc, disk>>
    BY <1>3 DEF Data
  <2>9. disc' \in [Blocks -> DiscState] /\ CursorInv' /\ DownInv' /\ WayInv'
    BY <2>4, <2>5, <2>6, <2>7, <2>8, DiscStep
  <2> QED
    BY <1>0, <1>3, <2>9, RestTyped DEF Data, TypeOK
<1>4. CASE Checkpoint(b)
  <2> DEFINE pc == IF d.parts = 0 THEN "save" ELSE "process"
             e1 == [d EXCEPT !.pc = pc]
             e2 == [e1 EXCEPT !.todo = d.pending]
             e3 == [e2 EXCEPT !.pending = <<>>]
             e4 == [e3 EXCEPT !.offset = d.cursor]
             e == [e4 EXCEPT !.parts = 0]
  <2>1. /\ pc \in DiscPC /\ d.cursor \in Nat /\ d.cursor # Now /\ 0 \in 0..2
        /\ d.pending \in Seq(Paths \cup {Other}) /\ <<>> \in Seq(Paths \cup {Other})
    BY <1>0, EmptySeq DEF DiscPC, DiscState
  <2>2. disc' = [disc EXCEPT ![b] = [d EXCEPT !.pc = pc, !.todo = d.pending,
                                      !.pending = <<>>, !.offset = d.cursor, !.parts = 0]]
    BY <1>4 DEF Checkpoint
  <2>3. [d EXCEPT !.pc = pc, !.todo = d.pending,
                  !.pending = <<>>, !.offset = d.cursor, !.parts = 0] = e
    BY <1>0 DEF DiscState
  <2>4. e \in DiscState
    <3> HIDE DEF pc, d
    <3>1. e1 \in DiscState
      BY <1>0, <2>1, FieldType
    <3> HIDE DEF e1
    <3>2. e2 \in DiscState
      BY <2>1, <3>1, FieldType
    <3> HIDE DEF e2
    <3>3. e3 \in DiscState
      BY <2>1, <3>2, FieldType
    <3> HIDE DEF e3
    <3>4. e4 \in DiscState
      BY <2>1, <3>3, FieldType
    <3> HIDE DEF e4
    <3> QED
      BY <2>1, <3>4, FieldType
  <2>5. /\ e.sending = d.sending /\ e.sending = None
        /\ e.offset = d.cursor /\ e.cursor = d.cursor
    BY <1>0, <1>4 DEF Checkpoint, DiscState
  <2>6. disc' = [disc EXCEPT ![b] = e]
    BY <2>2, <2>3
  <2> HIDE DEF e
  <2>7. Within(e, Len(log[b]))
    BY <1>0, <2>1, <2>5 DEF Within
  <2>8. proc = "select" /\ UNCHANGED <<streams, log, active, queue, spawned, proc, disk>>
    BY <1>4 DEF Checkpoint
  <2>9. disc' \in [Blocks -> DiscState] /\ CursorInv' /\ DownInv' /\ WayInv'
    BY <2>4, <2>5, <2>6, <2>7, <2>8, DiscStep
  <2> QED
    BY <1>0, <1>4, <2>9, RestTyped DEF Checkpoint, TypeOK
<1>5. CASE Eof(b)
  <2> DEFINE e == [d EXCEPT !.pc = "connect"]
  <2>1. e \in DiscState /\ disc' = [disc EXCEPT ![b] = e]
    BY <1>0, <1>5, FieldType DEF Eof, DiscPC
  <2>2. /\ e.sending = d.sending /\ e.sending = None /\ e.pc = "connect"
        /\ e.offset = d.offset /\ e.cursor = d.cursor
    BY <1>0, <1>5 DEF Eof, DiscState
  <2> HIDE DEF e
  <2>3. Within(e, Len(log[b])) /\ proc = "select"
    BY <1>0, <1>5, <2>2 DEF Within, Eof
  <2>4. disc' \in [Blocks -> DiscState] /\ CursorInv' /\ DownInv' /\ WayInv'
    BY <1>5, <2>1, <2>2, <2>3, DiscStep DEF Eof
  <2> QED
    BY <1>0, <1>5, <2>4, RestTyped DEF Eof, TypeOK
<1>6. CASE ControlEnds(b) \/ DiscoveryFails(b)
  <2>1. disc' = [disc EXCEPT ![b] = Off] /\ d.sending = None /\ proc = "select"
    BY <1>0, <1>6 DEF ControlEnds, DiscoveryFails, Saving
  <2>2. Off.sending = None /\ Within(Off, Len(log[b]))
    BY <1>0 DEF Off, Within
  <2>3. UNCHANGED <<streams, log, active, queue, spawned, proc, disk>>
    BY <1>6 DEF ControlEnds, DiscoveryFails
  <2>4. disc' \in [Blocks -> DiscState] /\ CursorInv' /\ DownInv' /\ WayInv'
    <3> HIDE DEF d
    <3>1. Off.sending = disc[b].sending
      BY <2>1, <2>2 DEF d
    <3> QED
      BY <2>1, <2>2, <2>3, <3>1, OffType, DiscStep
  <2>5. /\ UNCHANGED <<streams, log, active, queue, spawned, running, proc, starts, disk>>
        /\ closed' \subseteq Blocks
    BY <1>0, <1>6 DEF ControlEnds, DiscoveryFails, TypeOK
  <2>6. finished' \in Nat
    BY <1>0, <1>6 DEF ControlEnds, DiscoveryFails, TypeOK
  <2>7. failed' \in BOOLEAN
    BY ZenonT(30), <1>0, <1>6 DEF ControlEnds, DiscoveryFails, TypeOK
  <2> QED
    BY <1>0, <2>4, <2>5, <2>6, <2>7, RestTyped DEF TypeOK
<1> QED
  BY <1>2, <1>3, <1>4, <1>5, <1>6

(* The event a discovery task looks at.                                    *)
LEMMA HeadEvent ==
  ASSUME TypeOK, NEW b \in Blocks, disc[b].todo # <<>>
  PROVE  /\ Head(disc[b].todo) \in Paths \cup {Other}
         /\ Tail(disc[b].todo) \in Seq(Paths \cup {Other})
<1>1. disc[b].todo \in Seq(Paths \cup {Other})
  BY DEF TypeOK, DiscState
<1> QED
  BY <1>1, HeadTailProperties

(* An event is looked at: it announces nothing new, or a path nobody has   *)
(* asked for is entered into active_paths and about to be sent.            *)
LEMMA EventIInv ==
  ASSUME IInv, NEW b \in Blocks, ProcessEvent(b)
  PROVE  IInv'
<1> USE AppAssumption DEF server, tasks, main, At
<1> DEFINE d == disc[b]
           e == Head(d.todo)
           new == IF e \in active \cup {Other} THEN None ELSE e
           f == [[d EXCEPT !.todo = Tail(d.todo)] EXCEPT !.sending = new]
<1>0. /\ TypeOK /\ CursorInv /\ d \in DiscState /\ proc = "select"
      /\ d.sending = None /\ d.pc = "process" /\ d.todo # <<>>
  BY DEF IInv, TypeOK, ProcessEvent
<1>1. e \in Paths \cup {Other} /\ Tail(d.todo) \in Seq(Paths \cup {Other})
  BY <1>0, HeadEvent
<1>2. new = None \/ (new = e /\ e \in Paths \ active)
  BY <1>1
<1>3. disc' = [disc EXCEPT ![b] = f] /\ active' = active \cup ({new} \ {None})
  BY <1>0 DEF ProcessEvent, TypeOK, DiscState
<1>4. UNCHANGED <<streams, log, closed, disk, queue, spawned, running, finished, failed, proc, starts>>
  BY DEF ProcessEvent
<1>5. f \in DiscState
  <2>1. [d EXCEPT !.todo = Tail(d.todo)] \in DiscState
    BY <1>0, <1>1, FieldType
  <2>2. new \in Paths \cup {None}
    BY <1>2
  <2> QED
    BY <2>1, <2>2, FieldType
<1>6. f.sending = new /\ f.pc = "process" /\ f.offset = d.offset /\ f.cursor = d.cursor
  BY <1>0 DEF DiscState
<1>7. Within(f, Len(log[b]))
  BY <1>0, <1>6 DEF CursorInv, Within
<1> HIDE DEF f, new, e, d
<1>8. active' \subseteq Paths
  BY <1>0, <1>2, <1>3 DEF TypeOK
<1>9. CASE new = None
  <2>1. active' = active
    BY <1>3, <1>9
  <2>2. f.sending = disc[b].sending
    BY <1>0, <1>6, <1>9 DEF d
  <2>3. disc' \in [Blocks -> DiscState] /\ CursorInv' /\ DownInv' /\ WayInv'
    BY <1>0, <1>3, <1>4, <1>5, <1>6, <1>7, <2>1, <2>2, DiscStep
  <2>4. TypeOK'
    BY <1>0, <1>4, <2>1, <2>3, RestTyped DEF TypeOK
  <2> QED
    BY <2>3, <2>4 DEF IInv, WayInv
<1>10. CASE new = e /\ e \in Paths \ active
  <2>0. e # None /\ active' = active \cup {e} /\ e \in Paths /\ e \notin active
    BY <1>3, <1>10
  <2>1. disc' \in [Blocks -> DiscState]
    BY <1>0, <1>3, <1>5 DEF TypeOK
  <2>2. TypeOK'
    BY <1>0, <1>4, <1>8, <2>1 DEF TypeOK
  <2>3. disc'[b] = f /\ \A c \in Blocks \ {b} : disc'[c] = disc[c]
    BY <1>0, <1>3 DEF TypeOK
  <2>4. CursorInv'
    <3>1. \A c \in Blocks : Within(disc'[c], Len(log[c]))
      BY <1>0, <1>7, <2>3 DEF CursorInv
    <3> QED
      BY <1>0, <1>4, <3>1 DEF CursorInv, Within
  <2>5. DownInv'
    BY <1>0, <1>4 DEF DownInv
  <2>6. spawned[e] = 0 /\ \A i \in 1..Len(queue) : queue[i] # e
    BY <2>0 DEF IInv, SpawnedInv, QueueInv
  <2>7. \A c \in Blocks : disc[c].sending # e
    BY <2>0 DEF IInv, SendingInv
  <2>8. SpawnedInv' /\ QueueInv'
    BY <1>4, <2>0 DEF IInv, SpawnedInv, QueueInv, Forwarders, Static
  <2>9. disc'[b].sending = e /\ \A c \in Blocks \ {b} : disc'[c].sending = disc[c].sending
    BY <1>6, <1>10, <2>3
  <2>10. SendingInv'
    <3> SUFFICES ASSUME NEW c \in Blocks, disc'[c].sending # None
                 PROVE  /\ disc'[c].pc = "process"
                        /\ disc'[c].sending \in active' /\ spawned[disc'[c].sending] = 0
                        /\ \A i \in 1..Len(queue) : queue[i] # disc'[c].sending
                        /\ \A g \in Blocks : disc'[g].sending = disc'[c].sending => g = c
      BY <1>4 DEF SendingInv
    <3>1. CASE c = b
      BY <1>6, <2>0, <2>3, <2>6, <2>7, <2>9, <3>1
    <3>2. CASE c # b
      BY <2>0, <2>3, <2>7, <2>9, <3>2 DEF IInv, SendingInv
    <3> QED
      BY <3>1, <3>2
  <2>11. ActiveIsForwarded'
    <3> SUFFICES ASSUME NEW p \in active'
                 PROVE  \/ spawned[p] # 0
                        \/ \E i \in 1..Len(queue) : queue[i] = p
                        \/ \E c \in Blocks : disc'[c].sending = p
      BY <1>4 DEF ActiveIsForwarded
    <3>1. CASE p = e
      BY <2>9, <3>1
    <3>2. CASE p # e
      <4>1. p \in active /\ p # None
        BY <1>0, <2>0, <3>2 DEF TypeOK
      <4> QED
        BY <1>0, <2>9, <4>1 DEF IInv, ActiveIsForwarded, d
    <3> QED
      BY <3>1, <3>2
  <2> QED
    BY <2>2, <2>4, <2>5, <2>8, <2>10, <2>11 DEF IInv
<1> QED
  BY <1>2, <1>9, <1>10

(* The spawn request is sent: the path moves to the channel.               *)
LEMMA RequestIInv ==
  ASSUME IInv, NEW b \in Blocks, RequestSpawn(b)
  PROVE  IInv'
<1> USE AppAssumption DEF server, tasks, main, At
<1> DEFINE d == disc[b]
           p == d.sending
           f == [d EXCEPT !.sending = None]
<1>0. /\ TypeOK /\ CursorInv /\ d \in DiscState /\ proc = "select"
      /\ p # None /\ p \in Paths /\ d.pc = "process"
  BY DEF IInv, TypeOK, RequestSpawn, DiscState
<1>1. disc' = [disc EXCEPT ![b] = f] /\ queue' = Append(queue, p)
  BY <1>0 DEF RequestSpawn
<1>2. UNCHANGED <<streams, log, closed, disk, active, spawned, running, finished, failed, proc, starts>>
  BY DEF RequestSpawn
<1>3. f \in DiscState
  BY <1>0, FieldType
<1>4. f.sending = None /\ f.pc = "process" /\ f.offset = d.offset /\ f.cursor = d.cursor
  BY <1>0 DEF DiscState
<1>5. Within(f, Len(log[b]))
  BY <1>0, <1>4 DEF CursorInv, Within
<1>6. /\ p \in active /\ spawned[p] = 0
      /\ \A i \in 1..Len(queue) : queue[i] # p
      /\ \A c \in Blocks : disc[c].sending = p => c = b
  BY <1>0 DEF IInv, SendingInv
<1>7. /\ queue' \in Seq(Paths) /\ Len(queue') = Len(queue) + 1 /\ Len(queue) \in Nat
      /\ \A i \in 1..Len(queue) : queue'[i] = queue[i]
      /\ queue'[Len(queue) + 1] = p
  BY <1>0, <1>1, AppendProperties, LenProperties DEF TypeOK
<1> HIDE DEF f, p
<1>8. disc' \in [Blocks -> DiscState] /\ disc'[b] = f /\ \A c \in Blocks \ {b} : disc'[c] = disc[c]
  BY <1>0, <1>1, <1>3 DEF TypeOK
<1>9. TypeOK'
  BY <1>0, <1>2, <1>7, <1>8 DEF TypeOK
<1>10. CursorInv'
  <2>1. \A c \in Blocks : Within(disc'[c], Len(log[c]))
    BY <1>0, <1>5, <1>8 DEF CursorInv
  <2> QED
    BY <1>0, <1>2, <2>1 DEF CursorInv, Within
<1>11. DownInv' /\ SpawnedInv'
  BY <1>0, <1>2 DEF IInv, DownInv, SpawnedInv, Forwarders, Static
<1>12. QueueInv'
  <2> SUFFICES ASSUME NEW i \in 1..Len(queue')
               PROVE  /\ queue'[i] \in active /\ spawned[queue'[i]] = 0
                      /\ \A j \in 1..Len(queue') : queue'[i] = queue'[j] => i = j
    BY <1>2 DEF QueueInv
  <2>1. \A j \in 1..Len(queue') : j \in 1..Len(queue) \/ j = Len(queue) + 1
    BY <1>7
  <2>2. CASE i \in 1..Len(queue)
    BY <1>6, <1>7, <2>1, <2>2 DEF IInv, QueueInv
  <2>3. CASE i = Len(queue) + 1
    BY <1>6, <1>7, <2>1, <2>3
  <2> QED
    BY <2>1, <2>2, <2>3
<1>13. SendingInv'
  <2> SUFFICES ASSUME NEW c \in Blocks, disc'[c].sending # None
               PROVE  /\ disc'[c].pc = "process"
                      /\ disc'[c].sending \in active /\ spawned[disc'[c].sending] = 0
                      /\ \A i \in 1..Len(queue') : queue'[i] # disc'[c].sending
                      /\ \A g \in Blocks : disc'[g].sending = disc'[c].sending => g = c
    BY <1>2 DEF SendingInv
  <2>1. c # b /\ disc'[c] = disc[c] /\ disc[c].sending # p
    BY <1>4, <1>6, <1>8
  <2>2. \A i \in 1..Len(queue') : i \in 1..Len(queue) \/ i = Len(queue) + 1
    BY <1>7
  <2>3. \A i \in 1..Len(queue') : queue'[i] # disc[c].sending
    BY <1>7, <2>1, <2>2 DEF IInv, SendingInv
  <2> QED
    BY <1>4, <1>8, <2>1, <2>3 DEF IInv, SendingInv
<1>14. ActiveIsForwarded'
  <2> SUFFICES ASSUME NEW q \in active
               PROVE  \/ spawned[q] # 0
                      \/ \E i \in 1..Len(queue') : queue'[i] = q
                      \/ \E c \in Blocks : disc'[c].sending = q
    BY <1>2 DEF ActiveIsForwarded
  <2>1. CASE q = p
    <3>1. Len(queue) + 1 \in 1..Len(queue')
      BY <1>7
    <3> QED
      BY <1>7, <2>1, <3>1
  <2>2. CASE \E i \in 1..Len(queue) : queue[i] = q
    <3>1. \A i \in 1..Len(queue) : i \in 1..Len(queue')
      BY <1>7
    <3> QED
      BY <1>7, <2>2, <3>1
  <2>3. CASE q # p /\ \E c \in Blocks : disc[c].sending = q
    BY <1>8, <2>3 DEF p
  <2> QED
    BY <2>1, <2>2, <2>3 DEF IInv, ActiveIsForwarded
<1> QED
  BY <1>9, <1>10, <1>11, <1>12, <1>13, <1>14 DEF IInv

(* The main loop takes the request: the path leaves the channel.           *)
LEMMA SpawnIInv ==
  ASSUME IInv, SpawnForwarder
  PROVE  IInv'
<1> USE AppAssumption DEF server, tasks, main
<1> DEFINE p == Head(queue)
<1>0. TypeOK /\ queue \in Seq(Paths) /\ queue # <<>> /\ proc = "select" /\ active \subseteq Paths
  BY DEF IInv, TypeOK, SpawnForwarder
<1>1. /\ p \in Paths /\ queue' \in Seq(Paths) /\ Len(queue') = Len(queue) - 1
      /\ \A i \in 1..Len(queue') : queue'[i] = queue[i + 1]
  BY <1>0, HeadTailProperties DEF SpawnForwarder
<1>2. Len(queue) \in Nat \ {0} /\ p = queue[1]
  BY <1>0, EmptySeq
<1>3. spawned' = [spawned EXCEPT ![p] = @ + 1] /\ running' = [running EXCEPT ![p] = @ + 1]
  BY DEF SpawnForwarder
<1>4. UNCHANGED <<streams, log, closed, disc, disk, active, finished, failed, proc, starts>>
  BY DEF SpawnForwarder
<1> HIDE DEF p
<1>5. 1 \in 1..Len(queue) /\ \A i \in 1..Len(queue') : i + 1 \in 1..Len(queue)
  BY <1>1, <1>2
<1>6. p \in active /\ spawned[p] = 0 /\ Forwarders(p) = 1
  BY <1>0, <1>1, <1>2, <1>5 DEF IInv, QueueInv, SpawnedInv, Forwarders
<1>7. spawned'[p] = 1 /\ \A q \in Paths \ {p} : spawned'[q] = spawned[q]
  BY <1>0, <1>1, <1>3, <1>6 DEF TypeOK
<1>8. \A i \in 1..Len(queue') : queue'[i] # p
  <2> SUFFICES ASSUME NEW i \in 1..Len(queue'), queue[i + 1] = queue[1]
               PROVE  FALSE
    BY <1>1, <1>2
  <2>1. i + 1 = 1
    BY <1>5 DEF IInv, QueueInv
  <2> QED
    BY <2>1
<1>9. \A c \in Blocks : disc[c].sending # None => disc[c].sending # p
  BY <1>2, <1>5 DEF IInv, SendingInv
<1>10. TypeOK'
  <2>1. spawned' \in [Paths -> Nat] /\ running' \in [Paths -> Nat]
    BY <1>0, <1>1, <1>3 DEF TypeOK
  <2> QED
    BY <1>0, <1>1, <1>4, <2>1 DEF TypeOK
<1>11. CursorInv' /\ DownInv'
  BY <1>0, <1>4 DEF IInv, CursorInv, DownInv, Within
<1>12. SpawnedInv'
  BY <1>4, <1>6, <1>7 DEF IInv, SpawnedInv, Forwarders, Static
<1>13. QueueInv'
  <2> SUFFICES ASSUME NEW i \in 1..Len(queue')
               PROVE  /\ queue'[i] \in active /\ spawned'[queue'[i]] = 0
                      /\ \A j \in 1..Len(queue') : queue'[i] = queue'[j] => i = j
    BY <1>4 DEF QueueInv
  <2>1. queue'[i] \in active /\ spawned[queue'[i]] = 0
    BY <1>1, <1>5 DEF IInv, QueueInv
  <2>2. spawned'[queue'[i]] = 0
    BY <1>0, <1>7, <1>8, <2>1
  <2>3. ASSUME NEW j \in 1..Len(queue'), queue'[i] = queue'[j]
        PROVE  i = j
    <3>1. i + 1 = j + 1
      BY <1>1, <1>5, <2>3 DEF IInv, QueueInv
    <3> QED
      BY <3>1
  <2> QED
    BY <2>1, <2>2, <2>3
<1>14. SendingInv'
  <2> SUFFICES ASSUME NEW c \in Blocks, disc[c].sending # None
               PROVE  /\ disc[c].pc = "process"
                      /\ disc[c].sending \in active /\ spawned'[disc[c].sending] = 0
                      /\ \A i \in 1..Len(queue') : queue'[i] # disc[c].sending
                      /\ \A g \in Blocks : disc[g].sending = disc[c].sending => g = c
    BY <1>4 DEF SendingInv
  <2>1. disc[c].sending \in active /\ spawned[disc[c].sending] = 0
    BY DEF IInv, SendingInv
  <2>2. spawned'[disc[c].sending] = 0
    BY <1>0, <1>7, <1>9, <2>1
  <2>3. \A i \in 1..Len(queue') : queue'[i] # disc[c].sending
    BY <1>1, <1>5 DEF IInv, SendingInv
  <2> QED
    BY <2>1, <2>2, <2>3 DEF IInv, SendingInv
<1>15. ActiveIsForwarded'
  <2> SUFFICES ASSUME NEW q \in active, q # p
               PROVE  \/ spawned'[q] # 0
                      \/ \E i \in 1..Len(queue') : queue'[i] = q
                      \/ \E c \in Blocks : disc[c].sending = q
    BY <1>4, <1>7 DEF ActiveIsForwarded
  <2>1. CASE spawned[q] # 0
    BY <1>0, <1>7, <2>1
  <2>2. ASSUME NEW i \in 1..Len(queue), queue[i] = q
        PROVE  \E j \in 1..Len(queue') : queue'[j] = q
    <3>1. i # 1
      BY <1>2, <2>2
    <3>2. i - 1 \in 1..Len(queue') /\ (i - 1) + 1 = i
      BY <1>1, <1>2, <3>1
    <3> QED
      BY <1>1, <2>2, <3>2
  <2> QED
    BY <2>1, <2>2 DEF IInv, ActiveIsForwarded
<1> QED
  BY <1>10, <1>11, <1>12, <1>13, <1>14, <1>15 DEF IInv

(* Nothing changes that the paths' way or the discovery tasks depend on.   *)
LEMMA ElsewhereIInv ==
  ASSUME IInv, UNCHANGED <<streams, log, closed, disc, disk, active, queue, spawned, proc, starts>>,
         running' \in [Paths -> Nat], finished' \in Nat, failed' \in BOOLEAN
  PROVE  IInv'
<1>1. TypeOK'
  BY DEF IInv, TypeOK
<1>2. CursorInv' /\ DownInv'
  BY DEF IInv, CursorInv, DownInv, Within
<1>3. SpawnedInv' /\ QueueInv'
  BY DEF IInv, SpawnedInv, QueueInv, Forwarders, Static
<1>4. SendingInv' /\ ActiveIsForwarded'
  BY DEF IInv, SendingInv, ActiveIsForwarded
<1> QED
  BY <1>1, <1>2, <1>3, <1>4 DEF IInv

(* The server of the control streams: a log only grows.                    *)
LEMMA ServersIInv ==
  ASSUME IInv, Servers
  PROVE  IInv'
<1> USE AppAssumption DEF tasks, main
<1>0. TypeOK /\ CursorInv
  BY DEF IInv
<1>1. PICK b \in Blocks, e \in Paths \cup {Other} : Announce(b, e)
  BY DEF Servers
<1>2. /\ log' = [log EXCEPT ![b] = Append(log[b], e)]
      /\ UNCHANGED <<streams, closed, disc, disk, active, queue, spawned, running, finished, failed, proc, starts>>
  BY <1>1 DEF Announce
<1>3. log[b] \in Seq(Paths \cup {Other})
  BY <1>0 DEF TypeOK
<1>4. Append(log[b], e) \in Seq(Paths \cup {Other}) /\ Len(Append(log[b], e)) = Len(log[b]) + 1
  BY <1>3, AppendProperties
<1>5. log' \in [Blocks -> Seq(Paths \cup {Other})]
  BY <1>0, <1>2, <1>4 DEF TypeOK
<1>6. ASSUME NEW c \in Blocks
      PROVE  Len(log[c]) \in Nat /\ Len(log'[c]) \in Nat /\ Len(log[c]) <= Len(log'[c])
  <2>1. Len(log[c]) \in Nat
    BY <1>0, LenProperties DEF TypeOK
  <2>2. CASE c = b
    BY <1>0, <1>2, <1>4, <2>1, <2>2 DEF TypeOK
  <2>3. CASE c # b
    BY <1>0, <1>2, <2>1, <2>3 DEF TypeOK
  <2> QED
    BY <2>2, <2>3
<1>7. TypeOK'
  BY <1>0, <1>2, <1>5 DEF TypeOK
<1>8. CursorInv'
  <2> SUFFICES ASSUME NEW c \in Blocks
               PROVE  /\ Within(disc[c], Len(log'[c]))
                      /\ disk[c] # None => disk[c] <= Len(log'[c])
    BY <1>2 DEF CursorInv, Within
  <2>1. /\ disc[c].offset \in Nat \cup {Now} /\ disc[c].cursor \in Nat
        /\ disk[c] \in Nat \cup {None}
    BY <1>0 DEF TypeOK, DiscState
  <2> QED
    BY <1>0, <1>6, <2>1 DEF CursorInv, Within
<1>9. DownInv' /\ SpawnedInv' /\ QueueInv'
  BY <1>2 DEF IInv, DownInv, SpawnedInv, QueueInv, Forwarders, Static
<1>10. SendingInv' /\ ActiveIsForwarded'
  BY <1>2 DEF IInv, SendingInv, ActiveIsForwarded
<1> QED
  BY <1>7, <1>8, <1>9, <1>10 DEF IInv

(* A discovery task's offset enters the store.                             *)
LEMMA SaveIInv ==
  ASSUME IInv, NEW b \in Blocks, Save(b)
  PROVE  IInv'
<1> USE AppAssumption DEF server, tasks, main, At
<1> DEFINE d == disc[b]
           f == [d EXCEPT !.pc = "stream"]
<1>0. TypeOK /\ CursorInv /\ d \in DiscState /\ proc = "select"
  BY DEF IInv, TypeOK, Save, Saving
<1>1. d.sending = None /\ d.offset # Now /\ d.offset \in Nat /\ d.offset <= Len(log[b])
  BY <1>0 DEF IInv, SendingInv, CursorInv, Within, Save, Saving, DiscState
<1>2. disc' = [disc EXCEPT ![b] = f] /\ disk' = [disk EXCEPT ![b] = d.offset]
  BY DEF Save
<1>3. UNCHANGED <<streams, log, closed, active, queue, spawned, running, finished, failed, proc, starts>>
  BY DEF Save
<1>4. f \in DiscState
  BY <1>0, FieldType DEF DiscPC
<1>5. f.sending = None /\ f.pc = "stream" /\ f.offset = d.offset /\ f.cursor = d.cursor
  BY <1>0, <1>1 DEF DiscState
<1>6. Within(f, Len(log[b]))
  BY <1>0, <1>5 DEF CursorInv, Within
<1> HIDE DEF f
<1>7. disc' \in [Blocks -> DiscState] /\ disc'[b] = f /\ \A c \in Blocks \ {b} : disc'[c] = disc[c]
  BY <1>0, <1>2, <1>4 DEF TypeOK
<1>8. /\ disk' \in [Blocks -> Nat \cup {None}]
      /\ disk'[b] = d.offset /\ \A c \in Blocks \ {b} : disk'[c] = disk[c]
  BY <1>0, <1>1, <1>2 DEF TypeOK
<1>9. TypeOK'
  BY <1>0, <1>3, <1>7, <1>8 DEF TypeOK
<1>10. CursorInv'
  <2>1. \A c \in Blocks : Within(disc'[c], Len(log[c]))
    BY <1>0, <1>6, <1>7 DEF CursorInv
  <2> QED
    BY <1>0, <1>1, <1>3, <1>8, <2>1 DEF CursorInv, Within
<1>11. DownInv' /\ SpawnedInv' /\ QueueInv'
  BY <1>0, <1>3 DEF IInv, DownInv, SpawnedInv, QueueInv, Forwarders, Static
<1>12. \A c \in Blocks : disc'[c].sending = disc[c].sending
  BY <1>1, <1>5, <1>7
<1>13. \A c \in Blocks : disc'[c].sending # None => disc'[c].pc = "process"
  BY <1>5, <1>7 DEF IInv, SendingInv
<1>14. SendingInv'
  BY <1>3, <1>12, <1>13 DEF IInv, SendingInv
<1>15. ActiveIsForwarded'
  BY <1>3, <1>12 DEF IInv, ActiveIsForwarded
<1> QED
  BY <1>9, <1>10, <1>11, <1>14, <1>15 DEF IInv

(* The process starts: the static streams are active, and each entry has   *)
(* its forwarder.                                                          *)
LEMMA StartIInv ==
  ASSUME IInv, Start
  PROVE  IInv'
<1> USE AppAssumption DEF server
<1> DEFINE g(b) == [[Off EXCEPT !.pc = "connect"] EXCEPT !.offset = StartOffset(b)]
<1>0. TypeOK /\ CursorInv /\ queue = <<>>
  BY DEF IInv, DownInv, Start
<1>1. /\ proc' = "select" /\ starts' = starts + 1
      /\ active' = Static /\ running' = streams /\ spawned' = streams
      /\ disc' = [b \in Blocks |-> g(b)]
      /\ UNCHANGED <<streams, log, closed, disk, queue, finished, failed>>
  BY DEF Start, Off
<1>2. ASSUME NEW b \in Blocks
      PROVE  /\ g(b) \in DiscState /\ g(b).sending = None /\ g(b).pc = "connect"
             /\ Within(g(b), Len(log[b]))
  <2>1. /\ StartOffset(b) \in Nat \cup {Now} /\ "connect" \in DiscPC
        /\ Len(log[b]) \in Nat
        /\ StartOffset(b) # Now => StartOffset(b) <= Len(log[b])
    BY <1>0, LenProperties DEF TypeOK, DiscPC, CursorInv, StartOffset
  <2> HIDE DEF g
  <2>2. [Off EXCEPT !.pc = "connect"] \in DiscState
    BY <2>1, OffType, FieldType
  <2>3. g(b) \in DiscState
    BY <2>1, <2>2, FieldType DEF g
  <2>4. /\ g(b).sending = None /\ g(b).pc = "connect"
        /\ g(b).offset = StartOffset(b) /\ g(b).cursor = 0
    BY DEF g, Off
  <2> QED
    BY <2>1, <2>3, <2>4 DEF Within
<1> HIDE DEF g
<1>3. TypeOK'
  BY <1>0, <1>1, <1>2 DEF TypeOK, Static
<1>4. CursorInv'
  BY <1>0, <1>1, <1>2 DEF CursorInv, Within
<1>5. DownInv' /\ QueueInv'
  BY <1>0, <1>1 DEF DownInv, QueueInv
<1>6. SpawnedInv'
  BY <1>0, <1>1 DEF TypeOK, SpawnedInv, Forwarders, Static
<1>7. SendingInv' /\ ActiveIsForwarded'
  BY <1>0, <1>1, <1>2 DEF TypeOK, SendingInv, ActiveIsForwarded, Static
<1> QED
  BY <1>3, <1>4, <1>5, <1>6, <1>7 DEF IInv

(* The process ends, by a signal, an error or a crash.                     *)
LEMMA DownIInv ==
  ASSUME IInv, Down
  PROVE  IInv'
<1> USE AppAssumption DEF server
<1>0. TypeOK /\ CursorInv
  BY DEF IInv
<1>1. /\ disc' = [b \in Blocks |-> Off] /\ active' = {} /\ queue' = <<>>
      /\ spawned' = [p \in Paths |-> 0] /\ running' = [p \in Paths |-> 0]
      /\ finished' = 0 /\ failed' = FALSE /\ proc' = "down"
      /\ UNCHANGED <<streams, log, closed, disk, starts>>
  BY DEF Down
<1>2. TypeOK'
  BY <1>0, <1>1, OffType, EmptySeq DEF TypeOK
<1>3. CursorInv'
  <2>1. ASSUME NEW b \in Blocks
        PROVE  Within(Off, Len(log[b]))
    BY <1>0, LenProperties DEF TypeOK, Off, Within
  <2> QED
    BY <1>0, <1>1, <2>1 DEF CursorInv, Within
<1>4. DownInv' /\ SpawnedInv' /\ QueueInv'
  BY <1>1 DEF DownInv, SpawnedInv, QueueInv
<1>5. SendingInv' /\ ActiveIsForwarded'
  BY <1>1 DEF SendingInv, ActiveIsForwarded, Off
<1> QED
  BY <1>2, <1>3, <1>4, <1>5 DEF IInv

LEMMA MainIInv ==
  ASSUME IInv, Main
  PROVE  IInv'
<1>0. TypeOK
  BY DEF IInv
<1>1. CASE Start
  BY <1>1, StartIInv
<1>2. CASE Kill \/ JoinError \/ CtrlC
  BY <1>2, DownIInv DEF Kill, JoinError, CtrlC
<1>3. CASE SpawnForwarder
  BY <1>3, SpawnIInv
<1>4. CASE JoinOk
  <2>1. finished' \in Nat
    BY <1>0, <1>4 DEF JoinOk, TypeOK
  <2> QED
    BY <1>0, <1>4, <2>1, ElsewhereIInv DEF JoinOk, TypeOK, server, main
<1> QED
  BY <1>1, <1>2, <1>3, <1>4 DEF Main

LEMMA NextIInv == IInv /\ [Next]_vars => IInv'
<1> SUFFICES ASSUME IInv, [Next]_vars PROVE IInv'
  OBVIOUS
<1>0. TypeOK
  BY DEF IInv
<1>1. CASE Servers
  BY <1>1, ServersIInv
<1>2. CASE Main
  BY <1>2, MainIInv
<1>3. ASSUME NEW b \in Blocks, Discovery(b)
      PROVE  IInv'
  BY <1>3, ReadIInv, EventIInv, RequestIInv, SaveIInv DEF Discovery
<1>4. ASSUME NEW p \in Paths, ForwarderEnds(p)
      PROVE  IInv'
  <2>1. UNCHANGED <<streams, log, closed, disc, disk, active, queue, spawned, proc, starts>>
    BY <1>4 DEF ForwarderEnds, server, main
  <2>2. running' \in [Paths -> Nat] /\ finished' \in Nat
    BY <1>0, <1>4 DEF ForwarderEnds, TypeOK
  <2>3. failed' \in BOOLEAN
    BY Zenon, <1>0, <1>4 DEF ForwarderEnds, TypeOK
  <2> QED
    BY <2>1, <2>2, <2>3, ElsewhereIInv
<1>5. CASE UNCHANGED vars
  BY <1>0, <1>5, ElsewhereIInv DEF vars, server, tasks, main, TypeOK
<1> QED
  BY <1>1, <1>2, <1>3, <1>4, <1>5 DEF Next

-----------------------------------------------------------------------------
(* The inductive invariant: on its way from active_paths to a forwarder a  *)
(* path is in one place only, at a task, in the channel, or spawned, and   *)
(* what is spawned for it is one forwarder per [[streams]] entry that      *)
(* names it, or a single one if none does.                                 *)
THEOREM Invariance == Spec => []IInv
<1> QED
  BY InitIInv, NextIInv, PTL DEF Spec

(* Every variable of the bridge process has its type, whatever the paths,  *)
(* blocks and control streams.                                             *)
THEOREM TypeCorrect == Spec => []TypeOK
<1>1. IInv => TypeOK
  BY DEF IInv
<1> QED
  BY <1>1, Invariance, PTL

(* Discovery never adds a forwarder to a path that has one in this run of  *)
(* the bridge, however many tasks announce it: a static path keeps the one *)
(* forwarder per [[streams]] entry it started with (two entries, two       *)
(* forwarders), and any other path gets one (discovery.rs, the check and   *)
(* insert under one lock; app.rs, the spawns).                             *)
THEOREM DiscoveryAddsNoSecond == Spec => []NoSecondForwarder
<1>1. IInv => NoSecondForwarder
  <2> SUFFICES ASSUME IInv, NEW p \in Paths PROVE spawned[p] <= Forwarders(p)
    BY DEF NoSecondForwarder
  <2>1. /\ spawned[p] \in Nat /\ (spawned[p] # 0 => spawned[p] = Forwarders(p))
        /\ Forwarders(p) \in Nat
    BY DEF IInv, TypeOK, SpawnedInv, Forwarders
  <2> QED
    BY <2>1
<1> QED
  BY <1>1, Invariance, PTL

(* A path that counts as active, and whose later announcements are skipped *)
(* for that, has its forwarder or a request for it that is not lost.       *)
THEOREM NoneForgotten == Spec => []ActiveIsForwarded
<1>1. IInv => ActiveIsForwarded
  BY DEF IInv
<1> QED
  BY <1>1, Invariance, PTL
=============================================================================
