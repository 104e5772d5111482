--------------------------- MODULE ForwarderProofs ---------------------------
(***************************************************************************)
(* Proofs about Forwarder, for streams and topics of any length, any       *)
(* number of restarts and any batching, whether the stream is read from    *)
(* its start or from "now", and wherever responses end.                    *)
(***************************************************************************)
EXTENDS Forwarder, Integers, TLAPS

-----------------------------------------------------------------------------
(* Payloads.                                                               *)

LEMMA RunType ==
  ASSUME NEW a \in Nat, NEW b \in Nat, a <= b
  PROVE  /\ Run(a, b) \in Seq(Nat)
         /\ Len(Run(a, b)) = b - a
         /\ Messages(Run(a, b)) = (a + 1)..b
<1>1. b - a \in Nat
  OBVIOUS
<1>2. Run(a, b) \in Seq(Nat) /\ Len(Run(a, b)) = b - a
  BY <1>1 DEF Run
<1>3. \A n \in (a + 1)..b : n - a \in 1..(b - a) /\ Run(a, b)[n - a] = n
  BY DEF Run
<1>4. \A i \in 1..(b - a) : Run(a, b)[i] \in (a + 1)..b
  BY DEF Run
<1> QED
  BY <1>1, <1>2, <1>3, <1>4 DEF Messages

LEMMA ConcatMessages ==
  ASSUME NEW s \in Seq(Nat), NEW t \in Seq(Nat)
  PROVE  Messages(s \o t) = Messages(s) \cup Messages(t)
<1>1. Len(s \o t) = Len(s) + Len(t)
  OBVIOUS
<1>2. \A i \in 1..Len(s) : i \in 1..Len(s \o t) /\ (s \o t)[i] = s[i]
  BY <1>1
<1>3. \A i \in 1..Len(t) :
        Len(s) + i \in 1..Len(s \o t) /\ (s \o t)[Len(s) + i] = t[i]
  BY <1>1
<1>4. \A i \in 1..Len(s \o t) : i \in 1..Len(s) \/ i - Len(s) \in 1..Len(t)
  BY <1>1
<1>5. Messages(s) \cup Messages(t) \subseteq Messages(s \o t)
  BY <1>2, <1>3 DEF Messages
<1>6. ASSUME NEW i \in 1..Len(s \o t)
      PROVE  (s \o t)[i] \in Messages(s) \cup Messages(t)
  <2>1. CASE i \in 1..Len(s)
    BY <1>2, <2>1 DEF Messages
  <2>2. CASE i - Len(s) \in 1..Len(t)
    <3>1. (s \o t)[Len(s) + (i - Len(s))] = t[i - Len(s)]
      BY <1>3, <2>2
    <3>2. Len(s) + (i - Len(s)) = i
      OBVIOUS
    <3> QED
      BY <2>2, <3>1, <3>2 DEF Messages
  <2> QED
    BY <1>4, <2>1, <2>2
<1> QED
  BY <1>5, <1>6 DEF Messages

(* An interval that ends before it begins.                                 *)
LEMMA EmptyInterval == \A a \in Nat : (a + 1)..a = {}
<1> SUFFICES ASSUME NEW a \in Nat, NEW x \in (a + 1)..a PROVE FALSE
  OBVIOUS
<1> QED
  OBVIOUS

LEMMA LaterInterval ==
  \A a, b, m \in Nat : a <= b => ((b + 1)..(m - 1)) \subseteq (a + 1)..(m - 1)
  OBVIOUS

LEMMA EmptyMessages == Messages(<<>>) = {}
  BY DEF Messages

LEMMA SomeMessage ==
  ASSUME NEW s \in Seq(Nat), s # <<>>
  PROVE  Messages(s) # {}
<1>1. Len(s) # 0
  OBVIOUS
<1>2. 1 \in 1..Len(s)
  BY <1>1
<1> QED
  BY <1>2 DEF Messages

LEMMA SequenceEquality ==
  ASSUME NEW s \in Seq(Nat), NEW t \in Seq(Nat), Len(s) = Len(t),
         \A i \in 1..Len(s) : s[i] = t[i]
  PROVE  s = t
  OBVIOUS

LEMMA RunConcat ==
  ASSUME NEW a \in Nat, NEW b \in Nat, NEW c \in Nat, a <= b, b <= c
  PROVE  Run(a, b) \o Run(b, c) = Run(a, c)
<1> DEFINE s == Run(a, b)
           t == Run(b, c)
           u == Run(a, c)
<1>0. a <= c
  OBVIOUS
<1>1. s \in Seq(Nat) /\ t \in Seq(Nat) /\ u \in Seq(Nat)
  BY <1>0, RunType
<1>2. Len(s) = b - a /\ Len(t) = c - b /\ Len(u) = c - a
  BY <1>0, RunType
<1>3. /\ \A i \in 1..(b - a) : s[i] = a + i
      /\ \A i \in 1..(c - b) : t[i] = b + i
      /\ \A i \in 1..(c - a) : u[i] = a + i
  BY DEF Run
<1> HIDE DEF s, t, u
<1>4. s \o t \in Seq(Nat) /\ Len(s \o t) = c - a
  BY <1>1, <1>2
<1>5. ASSUME NEW i \in 1..(c - a)
      PROVE  (s \o t)[i] = u[i]
  <2> DEFINE k == b - a
  <2>0. i \in Int /\ k \in Int
    OBVIOUS
  <2>1. CASE i <= k
    BY <1>1, <1>2, <1>3, <2>1
  <2>2. CASE ~(i <= k)
    <3>1. i - k \in 1..(c - b)
      BY <2>2
    <3>2. i \in (Len(s) + 1)..(Len(s) + Len(t))
      BY <1>2, <2>2
    <3>3. (s \o t)[i] = t[i - Len(s)]
      BY <1>1, <3>2
    <3>4. t[i - k] = b + (i - k) /\ b + (i - k) = a + i /\ u[i] = a + i
      BY <1>3, <3>1
    <3> QED
      BY <1>2, <3>3, <3>4
  <2> QED
    BY <2>1, <2>2
<1>6. s \o t = u
  BY <1>1, <1>2, <1>4, <1>5, SequenceEquality
<1> QED
  BY <1>6 DEF s, t, u

(* Appending a record takes nothing back.  For a consumer that drops known *)
(* keys it adds its messages if its key is new, and nothing if it is not.  *)
KnownKey(key) == \E i \in 1..Len(topic) : topic[i].key = key

LEMMA AppendKeeps ==
  ASSUME topic \in Seq(Record), NEW r \in Record, topic' = Append(topic, r)
  PROVE  /\ KnownKey(r.key) => Kept' = Kept
         /\ ~KnownKey(r.key) => Kept' = Kept \cup Messages(r.payload)
<1>1. Len(topic) \in Nat /\ Len(topic') = Len(topic) + 1 /\ topic'[Len(topic) + 1] = r
  OBVIOUS
<1>2. \A i \in 1..Len(topic) : i \in 1..Len(topic') /\ topic'[i] = topic[i]
  BY <1>1
<1>3. \A i \in 1..Len(topic') : i \in 1..Len(topic) \/ i = Len(topic) + 1
  BY <1>1
<1>4. Len(topic) + 1 \in 1..Len(topic')
  BY <1>1
<1>5. ASSUME NEW i \in 1..Len(topic)
      PROVE  FirstOfKey(i)' <=> FirstOfKey(i)
  <2>1. \A j \in 1..(i - 1) : j \in 1..Len(topic)
    BY <1>1
  <2> QED
    BY <1>2, <2>1 DEF FirstOfKey
<1>6. ASSUME NEW k, k = Len(topic) + 1
      PROVE  FirstOfKey(k)' <=> ~KnownKey(r.key)
  <2>1. 1..(k - 1) = 1..Len(topic)
    BY <1>1, <1>6
  <2>2. \A j \in 1..Len(topic) : topic'[j] = topic[j]
    BY <1>2
  <2> QED
    BY <1>1, <1>6, <2>1, <2>2 DEF FirstOfKey, KnownKey
<1>7. ASSUME NEW x
      PROVE  x \in Kept' <=> x \in Kept \/ (~KnownKey(r.key) /\ x \in Messages(r.payload))
  <2>1. x \in Kept <=> \E i \in 1..Len(topic) : FirstOfKey(i) /\ x \in Messages(topic[i].payload)
    BY DEF Kept
  <2>2. x \in Kept' <=>
          \E i \in 1..Len(topic') : FirstOfKey(i)' /\ x \in Messages(topic'[i].payload)
    BY DEF Kept, Messages
  <2>3. PICK k : k = Len(topic) + 1
    OBVIOUS
  <2>4. ASSUME NEW i \in 1..Len(topic)
        PROVE  FirstOfKey(i)' /\ x \in Messages(topic'[i].payload)
                 <=> FirstOfKey(i) /\ x \in Messages(topic[i].payload)
    BY <1>2, <1>5
  <2>5. FirstOfKey(k)' /\ x \in Messages(topic'[k].payload)
          <=> ~KnownKey(r.key) /\ x \in Messages(r.payload)
    BY <1>1, <1>6, <2>3
  <2>6. (\E i \in 1..Len(topic') : FirstOfKey(i)' /\ x \in Messages(topic'[i].payload))
          <=> \/ \E i \in 1..Len(topic) : FirstOfKey(i)' /\ x \in Messages(topic'[i].payload)
              \/ FirstOfKey(k)' /\ x \in Messages(topic'[k].payload)
    BY <1>2, <1>3, <1>4, <2>3
  <2> QED
    BY <2>1, <2>2, <2>4, <2>5, <2>6
<1> QED
  BY <1>7

LEMMA KeptDelivered == Kept \subseteq Delivered
  BY DEF Kept, Delivered

-----------------------------------------------------------------------------
(* IInv is inductive.                                                      *)

LEMMA InitIInv == Init => IInv
<1> SUFFICES ASSUME Init PROVE IInv
  OBVIOUS
<1> USE ForwarderAssumption DEF Init
<1>0. /\ NoRecord \in Record /\ topic \in Seq(Record) /\ outbox \in SUBSET Record
      /\ pending \in Seq(Nat) /\ configured \in {0, Now}
  BY DEF Record, NoRecord
<1>1. TypeOK
  BY <1>0 DEF TypeOK, PC
<1>2. OutboxInv /\ TopicInv /\ StopInv /\ FirstDeliveriesInOrder
  BY DEF OutboxInv, TopicInv, StopInv, FirstDeliveriesInOrder
<1>3. BufferInv /\ OriginInv
  BY DEF BufferInv, OriginInv, Position
<1>4. StoreInv
  BY DEF StoreInv, Holds
<1> QED
  BY <1>1, <1>2, <1>3, <1>4 DEF IInv

(* A later beginning takes nothing back.                                   *)
LEMMA CarriesKept ==
  ASSUME NEW p, NEW a, NEW b, Carries(p, a, b),
         origin \in Nat, origin' \in Nat, origin <= origin'
  PROVE  Carries(p, a, b)'
<1>1. 1..origin' = 1..origin \cup 1..origin'
  OBVIOUS
<1> QED
  BY <1>1 DEF Carries, Messages

(* More messages, more deliveries and a later beginning leave a record     *)
(* deliverable.                                                            *)
LEMMA DeliverableKept ==
  ASSUME NEW r, Deliverable(r), tail \in Nat, tail' \in Nat, tail <= tail',
         origin \in Nat, origin' \in Nat, origin <= origin',
         Kept \subseteq Kept'
  PROVE  Deliverable(r)'
<1>1. PICK a, b \in 0..tail :
        a <= b /\ r.key <= b /\ Carries(r.payload, a, b) /\ Holds(Settled, a)
  BY DEF Deliverable
<1>2. a \in 0..tail' /\ b \in 0..tail'
  OBVIOUS
<1>3. Holds(Settled', a)
  BY <1>1 DEF Holds, Settled
<1>4. Carries(r.payload, a, b)'
  BY <1>1, CarriesKept
<1> QED
  BY <1>1, <1>2, <1>3, <1>4 DEF Deliverable

(* What a step that appends nothing leaves alone.                          *)
LEMMA KafkaKept ==
  ASSUME IInv, topic' = topic, outbox' \subseteq outbox,
         tail' \in Nat, tail <= tail', origin' \in Nat, origin <= origin'
  PROVE  /\ Kept' = Kept /\ Settled \subseteq Settled'
         /\ FirstDeliveriesInOrder' /\ OutboxInv' /\ TopicInv'
<1>0. origin \in Nat /\ tail \in Nat
  BY DEF IInv, TypeOK
<1>1. Kept' = Kept
  BY DEF Kept, FirstOfKey
<1>2. Settled \subseteq Settled'
  BY <1>0, <1>1 DEF Settled
<1>3. FirstDeliveriesInOrder'
  <2> SUFFICES ASSUME NEW i \in 1..Len(topic), NEW m \in Messages(topic[i].payload),
                      NEW n \in (origin' + 1)..(m - 1)
               PROVE  \E j \in 1..i : n \in Messages(topic[j].payload)
    BY DEF FirstDeliveriesInOrder
  <2>1. topic[i] \in Record
    BY DEF IInv, TypeOK
  <2>2. m \in Nat
    BY <2>1 DEF Record, Messages
  <2>3. n \in (origin + 1)..(m - 1)
    <3>1. ((origin' + 1)..(m - 1)) \subseteq (origin + 1)..(m - 1)
      BY <1>0, <2>2, LaterInterval
    <3> QED
      BY <3>1
  <2> QED
    BY <2>3 DEF IInv, FirstDeliveriesInOrder
<1>4. OutboxInv'
  BY <1>0, <1>1, DeliverableKept DEF IInv, OutboxInv
<1>5. TopicInv'
  BY <1>2 DEF IInv, TopicInv, Holds
<1> QED
  BY <1>1, <1>2, <1>3, <1>4, <1>5

(* ... and one that leaves the beginning where it is.                      *)
LEMMA KafkaSame ==
  ASSUME IInv, topic' = topic, outbox' \subseteq outbox, tail' = tail,
         UNCHANGED beginning
  PROVE  /\ Kept' = Kept /\ Settled' = Settled
         /\ FirstDeliveriesInOrder' /\ OutboxInv' /\ TopicInv'
         /\ (tail \in Nat /\ origin \in Nat)
<1>1. origin' = origin /\ tail \in Nat /\ origin \in Nat
  BY DEF beginning, given, IInv, TypeOK
<1>2. Kept' = Kept /\ FirstDeliveriesInOrder' /\ OutboxInv' /\ TopicInv'
  BY <1>1, KafkaKept
<1> QED
  BY <1>1, <1>2 DEF Settled

LEMMA BufferKept ==
  ASSUME TypeOK, BufferInv, tail' \in Nat, tail <= tail',
         UNCHANGED <<pc, pending, offset, cursor, origin>>
  PROVE  BufferInv'
<1>0. Position' = Position
  BY DEF Position
<1>1. ASSUME NEW from \in Nat, Buffered(from)
      PROVE  \E k \in from..tail' : Carries(pending, Position, k)'
  <2>1. PICK k \in from..tail : Carries(pending, Position, k)
    BY <1>1 DEF Buffered
  <2>2. k \in from..tail'
    BY DEF TypeOK
  <2>3. Carries(pending, Position, k)'
    BY <1>0, <2>1 DEF Carries, Messages
  <2> QED
    BY <2>2, <2>3
<1>2. pc = "connect" => Buffered(Position)'
  BY <1>0, <1>1 DEF TypeOK, BufferInv, Buffered
<1>3. pc = "stream" => Buffered(cursor)'
  BY <1>1 DEF TypeOK, BufferInv, Buffered
<1>4. Position' \in 0..tail' /\ cursor' \in 0..tail'
  BY <1>0 DEF TypeOK, BufferInv
<1> QED
  BY <1>0, <1>2, <1>3, <1>4 DEF BufferInv

LEMMA EnvironmentIInv ==
  ASSUME IInv, Environment
  PROVE  IInv'
<1> USE DEF beginning, given
<1>1. CASE NewMessage \/ CloseStream
  <2> USE DEF NewMessage, CloseStream, client, kafka, store
  <2>0. /\ tail' \in Nat /\ tail <= tail' /\ origin \in Nat /\ origin' = origin
        /\ UNCHANGED <<pc, pending, offset, cursor, origin>>
    BY <1>1 DEF IInv, TypeOK
  <2>1. Kept' = Kept /\ FirstDeliveriesInOrder' /\ OutboxInv' /\ TopicInv'
    BY <1>1, <2>0, KafkaKept
  <2>a. Settled' = Settled /\ Position' = Position
    BY <2>0, <2>1 DEF Settled, Position
  <2>2. TypeOK'
    <3>1. CASE NewMessage
      BY <3>1 DEF IInv, TypeOK
    <3>2. CASE CloseStream
      BY <3>2 DEF IInv, TypeOK
    <3> QED
      BY <1>1, <3>1, <3>2
  <2>3. BufferInv'
    BY <2>0, BufferKept DEF IInv
  <2>4. StoreInv'
    BY <1>1, <2>0, <2>a DEF IInv, TypeOK, StoreInv, Holds
  <2>5. StopInv'
    BY <1>1 DEF IInv, StopInv
  <2>6. OriginInv'
    BY <1>1, <2>0, <2>a DEF IInv, TypeOK, OriginInv
  <2> QED
    BY <2>1, <2>2, <2>3, <2>4, <2>5, <2>6 DEF IInv
<1>2. ASSUME NEW r \in outbox, BrokerAppends(r) PROVE IInv'
  <2> USE DEF BrokerAppends, server, client, store
  <2>0. tail \in Nat /\ origin \in Nat /\ tail' = tail /\ origin' = origin
    BY <1>2 DEF IInv, TypeOK
  <2>1. r \in Record
    BY DEF IInv, TypeOK
  <2>2. /\ Kept \subseteq Kept'
        /\ ~KnownKey(r.key) => Messages(r.payload) \subseteq Kept'
    BY <1>2, <2>1, AppendKeeps DEF IInv, TypeOK
  <2>a. Settled \subseteq Settled' /\ Position' = Position
    BY <1>2, <2>0, <2>2 DEF Settled, Position
  <2>3. TypeOK'
    BY <1>2, <2>1 DEF IInv, TypeOK
  <2>4. OutboxInv'
    BY <1>2, <2>0, <2>2, DeliverableKept DEF IInv, OutboxInv
  <2>5. BufferInv'
    BY <1>2, <2>0, BufferKept DEF IInv
  <2>6. StoreInv'
    BY <1>2, <2>0, <2>a DEF IInv, StoreInv, Holds
  <2>7. StopInv' /\ OriginInv'
    BY <1>2, <2>0, <2>a DEF IInv, StopInv, OriginInv
  <2>8. FirstDeliveriesInOrder'
    <3>1. PICK a, b \in 0..tail :
            Carries(r.payload, a, b) /\ Holds(Settled, a)
      BY DEF IInv, OutboxInv, Deliverable
    <3>2. /\ Len(topic') = Len(topic) + 1
          /\ topic'[Len(topic) + 1] = r
          /\ \A i \in 1..Len(topic) : topic'[i] = topic[i]
          /\ Len(topic) \in Nat
      BY <1>2, <2>1 DEF IInv, TypeOK
    <3>3. ASSUME NEW i \in 1..Len(topic'), NEW m \in Messages(topic'[i].payload),
                 NEW n \in (origin + 1)..(m - 1)
          PROVE  \E j \in 1..i : n \in Messages(topic'[j].payload)
      <4>1. CASE i \in 1..Len(topic)
        <5>1. PICK j \in 1..i : n \in Messages(topic[j].payload)
          BY <3>2, <4>1 DEF IInv, FirstDeliveriesInOrder
        <5> QED
          BY <3>2, <4>1, <5>1
      <4>2. CASE i = Len(topic) + 1
        <5>0. topic'[i] = r /\ m \in Messages(r.payload)
          BY <3>2, <4>2
        <5>a. m \in Nat
          BY <2>1, <5>0 DEF Record, Messages
        <5>1. m \in (a + 1)..b
          BY <2>0, <3>1, <5>0, <5>a DEF Carries
        <5>2. CASE n <= a
          <6>1. n \in Settled
            BY <2>0, <3>1, <5>2 DEF Holds
          <6>2. n \in Delivered
            BY <2>0, <6>1, KeptDelivered DEF Settled
          <6>3. PICK j \in 1..Len(topic) : n \in Messages(topic[j].payload)
            BY <6>2 DEF Delivered
          <6> QED
            BY <3>2, <4>2, <6>3
        <5>3. CASE ~(n <= a)
          <6>1. n \in (a + 1)..b /\ n \notin 1..origin
            BY <2>0, <5>1, <5>3
          <6>2. n \in Messages(r.payload)
            BY <3>1, <6>1 DEF Carries
          <6> QED
            BY <5>0, <6>2
        <5> QED
          BY <5>2, <5>3
      <4> QED
        BY <3>2, <4>1, <4>2
    <3> QED
      BY <2>0, <3>3 DEF FirstDeliveriesInOrder
  <2>9. TopicInv'
    <3>1. PICK a, b \in 0..tail :
            a <= b /\ r.key <= b /\ Carries(r.payload, a, b) /\ Holds(Settled, a)
      BY DEF IInv, OutboxInv, Deliverable
    <3>2. Holds(Settled', r.key)
      <4>1. CASE KnownKey(r.key)
        BY <2>a, <4>1 DEF KnownKey, IInv, TopicInv, Holds
      <4>2. CASE ~KnownKey(r.key)
        <5>1. (a + 1)..b \subseteq Settled'
          BY <2>0, <2>2, <3>1, <4>2 DEF Carries, Settled
        <5>2. ASSUME NEW m \in 1..r.key PROVE m \in Settled'
          <6>1. r.key \in Nat /\ m \in Nat
            BY <2>1 DEF Record
          <6>2. m \in 1..a \/ m \in (a + 1)..b
            BY <2>0, <3>1, <6>1
          <6> QED
            BY <2>a, <3>1, <5>1, <6>2 DEF Holds
        <5> QED
          BY <5>2 DEF Holds
      <4> QED
        BY <4>1, <4>2
    <3>3. /\ Len(topic') = Len(topic) + 1
          /\ topic'[Len(topic) + 1] = r
          /\ \A i \in 1..Len(topic) : topic'[i] = topic[i]
          /\ Len(topic) \in Nat
      BY <1>2, <2>1 DEF IInv, TypeOK
    <3>4. \A i \in 1..Len(topic') : i \in 1..Len(topic) \/ i = Len(topic) + 1
      BY <3>3
    <3>5. \A i \in 1..Len(topic) : Holds(Settled', topic[i].key)
      BY <2>a DEF IInv, TopicInv, Holds
    <3>6. \A i \in 1..Len(topic') : Holds(Settled', topic'[i].key)
      BY <3>2, <3>3, <3>4, <3>5
    <3> QED
      BY <3>6 DEF TopicInv, Holds
  <2> QED
    BY <2>3, <2>4, <2>5, <2>6, <2>7, <2>8, <2>9 DEF IInv
<1>3. ASSUME NEW r \in outbox, RecordDropped(r) PROVE IInv'
  <2> USE DEF RecordDropped, server, client, store
  <2>1. /\ Settled' = Settled /\ FirstDeliveriesInOrder' /\ OutboxInv' /\ TopicInv'
        /\ tail \in Nat
    BY <1>3, KafkaSame
  <2>2. TypeOK'
    BY <1>3 DEF IInv, TypeOK
  <2>3. BufferInv'
    BY <1>3, <2>1, BufferKept DEF IInv
  <2>4. StoreInv' /\ OriginInv' /\ StopInv'
    BY <1>3, <2>1 DEF IInv, StoreInv, Holds, Position, OriginInv, StopInv
  <2> QED
    BY <2>1, <2>2, <2>3, <2>4 DEF IInv
<1> QED
  BY <1>1, <1>2, <1>3 DEF Environment

LEMMA ProcessIInv ==
  ASSUME IInv, Process
  PROVE  IInv'
<1> USE ForwarderAssumption DEF server, client, kafka, store, beginning, given
<1>1. CASE Start
  <2> USE DEF Start
  <2>1. /\ Settled' = Settled /\ FirstDeliveriesInOrder' /\ OutboxInv' /\ TopicInv'
        /\ tail \in Nat /\ origin \in Nat
    BY <1>1, KafkaSame
  <2>2. /\ pending' = <<>> /\ tail' = tail /\ origin' = origin
        /\ disk \in 0..tail /\ origin \in 0..tail
    BY <1>1 DEF IInv, TypeOK, BufferInv, StoreInv, OriginInv
  <2>3. \/ disk # 0 /\ offset' = disk /\ Position' = disk
        \/ disk = 0 /\ offset' = 0 /\ configured = 0 /\ Position' = 0
        \/ disk = 0 /\ offset' = Now /\ configured = Now /\ Position' = origin
    BY <1>1, <2>1, <2>2 DEF IInv, TypeOK, Position
  <2>4. Position' \in 0..tail /\ origin <= Position'
    BY <2>2, <2>3 DEF IInv, OriginInv
  <2>5. TypeOK'
    <3>1. offset' \in Nat \cup {Now}
      BY <2>2, <2>3
    <3>2. pc' \in PC /\ starts' \in Nat /\ mem' \in Nat
      BY <1>1 DEF IInv, TypeOK, PC
    <3>3. stop' \in BOOLEAN
      BY <1>1
    <3> QED
      BY <1>1, <3>1, <3>2, <3>3 DEF IInv, TypeOK
  <2>6. BufferInv'
    <3>0. PICK p \in Nat : p = Position'
      BY <2>1, <2>4
    <3>1. ((p + 1)..p) = {}
      BY EmptyInterval
    <3>2. Messages(pending') = {}
      BY <2>2, EmptyMessages
    <3>3. Carries(pending, Position, Position)'
      BY <3>0, <3>1, <3>2 DEF Carries
    <3>4. Buffered(Position)'
      BY <2>1, <2>2, <2>4, <3>3 DEF Buffered
    <3> QED
      BY <1>1, <2>2, <2>4, <3>4 DEF IInv, BufferInv
  <2>7. StoreInv'
    <3>1. mem' = Position' \/ (mem' = 0 /\ Position' = origin')
      BY <1>1, <2>2, <2>3
    <3>2. Holds(Settled, disk)
      BY <2>2 DEF IInv, StoreInv, TypeOK, Holds
    <3> QED
      BY <1>1, <2>1, <2>2, <3>1, <3>2 DEF StoreInv
  <2>8. StopInv'
    BY <1>1 DEF IInv, StopInv
  <2>9. OriginInv'
    BY <1>1, <2>2, <2>3, <2>4 DEF IInv, OriginInv
  <2> QED
    BY <2>1, <2>5, <2>6, <2>7, <2>8, <2>9 DEF IInv
<1>2. CASE Stop
  <2> USE DEF Stop
  <2>1. Settled' = Settled /\ FirstDeliveriesInOrder' /\ OutboxInv' /\ TopicInv'
    BY <1>2, KafkaSame
  <2>2. NoRecord \in Record /\ <<>> \in Seq(Nat)
    BY DEF NoRecord, Record
  <2>3. TypeOK'
    BY <1>2, <2>2 DEF IInv, TypeOK, PC
  <2>4. BufferInv'
    BY <1>2 DEF IInv, BufferInv, Position
  <2>5. StoreInv'
    BY <1>2, <2>1 DEF IInv, StoreInv, Holds
  <2>6. StopInv' /\ OriginInv'
    BY <1>2 DEF IInv, StopInv, OriginInv
  <2> QED
    BY <2>1, <2>3, <2>4, <2>5, <2>6 DEF IInv
<1> QED
  BY <1>1, <1>2 DEF Process, Crash, Exit

(* Any failure: the task goes nowhere, the process is about to end.        *)
LEMMA FailIInv ==
  ASSUME IInv, Fail, outbox' = outbox
  PROVE  IInv'
<1> USE DEF Fail, server, client, store, beginning, given
<1>1. Settled' = Settled /\ FirstDeliveriesInOrder' /\ OutboxInv' /\ TopicInv'
  BY KafkaSame
<1>2. TypeOK'
  BY DEF IInv, TypeOK, PC
<1>3. BufferInv' /\ StopInv' /\ OriginInv'
  BY DEF IInv, BufferInv, StopInv, OriginInv, Position
<1>4. StoreInv'
  BY <1>1 DEF IInv, StoreInv, Holds
<1> QED
  BY <1>1, <1>2, <1>3, <1>4 DEF IInv

LEMMA ConnectIInv ==
  ASSUME IInv, Connect
  PROVE  IInv'
<1> USE ForwarderAssumption DEF server, kafka, store, given, Connect
<1>0. /\ tail \in Nat /\ tail' = tail /\ origin \in 0..tail
      /\ origin' \in 0..tail /\ origin <= origin'
      /\ configured' = configured /\ pending' = pending /\ offset' = offset
      /\ offset \in Nat \cup {Now}
  BY DEF IInv, TypeOK, OriginInv
<1>1. /\ Kept' = Kept /\ Settled \subseteq Settled'
      /\ FirstDeliveriesInOrder' /\ OutboxInv' /\ TopicInv'
  BY <1>0, KafkaKept
<1>2. \/ offset = Now /\ Position' = tail /\ origin' = tail /\ cursor' = tail
      \/ offset # Now /\ Position' = offset /\ Position = offset /\ origin' = origin
         /\ cursor' = offset
  BY <1>0 DEF Position
<1>3. cursor' = Position' /\ Position' \in 0..tail /\ origin' <= Position'
  BY <1>0, <1>2 DEF IInv, BufferInv, OriginInv
<1>4. TypeOK'
  BY <1>0, <1>3 DEF IInv, TypeOK, PC
<1>5. PICK k \in Position..tail : Carries(pending, Position, k)
  BY DEF IInv, BufferInv, Buffered
<1>6. BufferInv'
  <2>1. CASE offset = Now
    <3>1. \A m \in Messages(pending) : m \in 1..tail
      <4>1. Position \in 0..tail
        BY DEF IInv, BufferInv
      <4> QED
        BY <1>0, <1>5, <4>1 DEF Carries
    <3>2. ((tail + 1)..tail) = {}
      BY <1>0, EmptyInterval
    <3>3. Carries(pending, Position, tail)'
      BY <1>0, <1>2, <2>1, <3>1, <3>2 DEF Carries, Messages
    <3>4. Buffered(cursor)'
      BY <1>0, <1>2, <2>1, <3>3 DEF Buffered
    <3>5. pending # <<>> => 0 < cursor'
      <4> SUFFICES ASSUME pending # <<>> PROVE 0 < tail
        BY <1>2, <2>1
      <4>1. Messages(pending) # {}
        BY SomeMessage DEF IInv, TypeOK
      <4> QED
        BY <1>0, <3>1, <4>1
    <3> QED
      BY <1>0, <1>3, <3>4, <3>5 DEF BufferInv
  <2>2. CASE offset # Now
    <3>1. Carries(pending, Position, k)'
      BY <1>0, <1>2, <1>5, <2>2 DEF Carries, Messages
    <3>2. Buffered(cursor)'
      BY <1>0, <1>2, <1>5, <2>2, <3>1 DEF Buffered
    <3> QED
      BY <1>0, <1>3, <2>2, <3>2 DEF BufferInv
  <2> QED
    BY <2>1, <2>2
<1>7. StoreInv'
  <2>1. Holds(Settled', mem)
    BY <1>1 DEF IInv, StoreInv, Holds
  <2>2. mem = Position' \/ (mem = 0 /\ Position' = origin')
    BY <1>0, <1>2 DEF IInv, StoreInv, OriginInv
  <2> QED
    BY <1>0, <2>1, <2>2 DEF IInv, StoreInv
<1>8. StopInv'
  BY DEF IInv, StopInv
<1>9. OriginInv'
  <2>1. CASE offset = Now
    <3>1. mem = 0 /\ disk = 0 /\ configured # 0
      BY <2>1 DEF IInv, TypeOK, StoreInv, OriginInv
    <3> QED
      BY <1>0, <1>3, <2>1, <3>1 DEF OriginInv
  <2>2. CASE offset # Now
    BY <1>0, <1>2, <1>3, <2>2 DEF IInv, OriginInv
  <2> QED
    BY <2>1, <2>2
<1> QED
  BY <1>1, <1>4, <1>6, <1>7, <1>8, <1>9 DEF IInv

LEMMA DataIInv ==
  ASSUME IInv, NEW n \in 1..tail, Data(n)
  PROVE  IInv'
<1> USE DEF server, client, kafka, store, beginning, given, Data
<1>1. /\ Settled' = Settled /\ FirstDeliveriesInOrder' /\ OutboxInv' /\ TopicInv'
      /\ tail \in Nat /\ origin \in Nat
  BY KafkaSame
<1>a. Position' = Position /\ tail' = tail /\ origin' = origin
  BY DEF Position
<1>2. Run(cursor, n) \in Seq(Nat) /\ Messages(Run(cursor, n)) = (cursor + 1)..n
  BY RunType DEF IInv, TypeOK
<1>3. TypeOK'
  BY <1>2 DEF IInv, TypeOK
<1>4. BufferInv'
  <2>1. Position \in 0..tail /\ cursor \in 0..tail /\ Position <= cursor
    BY DEF IInv, BufferInv
  <2>2. PICK k \in cursor..tail : Carries(pending, Position, k)
    BY DEF IInv, BufferInv, Buffered
  <2>3. Messages(pending') = Messages(pending) \cup (cursor + 1)..n
    BY <1>2, ConcatMessages DEF IInv, TypeOK
  <2> DEFINE top == IF k < n THEN n ELSE k
  <2>4. top \in n..tail
    BY <1>1, <2>2
  <2>5. ((Position + 1)..top) = ((Position + 1)..k) \cup ((cursor + 1)..n)
    BY <1>1, <2>1, <2>2
  <2> HIDE DEF top
  <2>6. Carries(pending, Position, top)'
    BY <1>a, <2>2, <2>3, <2>5 DEF Carries, Messages
  <2>7. Buffered(cursor)'
    BY <1>a, <2>4, <2>6 DEF Buffered
  <2> QED
    BY <1>a, <1>1, <2>1, <2>7 DEF IInv, TypeOK, BufferInv
<1>5. StoreInv' /\ StopInv' /\ OriginInv'
  BY <1>1, <1>a DEF IInv, StoreInv, Holds, StopInv, OriginInv
<1> QED
  BY <1>1, <1>3, <1>4, <1>5 DEF IInv

LEMMA EmptyCheckpointIInv ==
  ASSUME IInv, EmptyCheckpoint
  PROVE  IInv'
<1> USE DEF server, kafka, store, beginning, given, EmptyCheckpoint, ControlEvent
<1>1. /\ Settled' = Settled /\ FirstDeliveriesInOrder' /\ OutboxInv' /\ TopicInv'
      /\ tail \in Nat /\ origin \in Nat
  BY KafkaSame
<1>2. /\ Position \in 0..tail /\ cursor \in 0..tail
      /\ Position <= cursor /\ origin <= Position
  BY DEF IInv, BufferInv, OriginInv
<1>3. PICK k \in cursor..tail : Carries(pending, Position, k)
  BY DEF IInv, BufferInv, Buffered
<1>4. cursor = Position
  <2>1. ((Position + 1)..k) \cup 1..origin = 1..origin
    BY <1>3, EmptyMessages DEF Carries
  <2>2. ASSUME k \in (Position + 1)..k PROVE FALSE
    <3>1. k \in 1..origin
      BY <2>1, <2>2
    <3> QED
      BY <1>1, <1>2, <2>2, <3>1
  <2> QED
    BY <1>1, <1>2, <1>3, <2>2
<1>5. /\ Position' = Position /\ offset' = cursor /\ tail' = tail /\ origin' = origin
      /\ offset' # Now /\ offset' \in Nat
  BY <1>1, <1>2, <1>4, ForwarderAssumption DEF Position
<1>6. TypeOK'
  BY <1>5 DEF IInv, TypeOK
<1>7. BufferInv'
  <2>1. Carries(pending, Position, k)'
    BY <1>3, <1>5 DEF Carries, Messages
  <2>2. Buffered(cursor)'
    BY <1>3, <1>5, <2>1 DEF Buffered
  <2> QED
    BY <1>2, <1>5, <2>2 DEF IInv, BufferInv
<1>8. StoreInv'
  BY <1>1, <1>5 DEF IInv, StoreInv, Holds
<1>9. StopInv' /\ OriginInv'
  BY <1>5, <1>4 DEF IInv, StopInv, OriginInv
<1> QED
  BY <1>1, <1>6, <1>7, <1>8, <1>9 DEF IInv

LEMMA CheckpointIInv ==
  ASSUME IInv, Checkpoint
  PROVE  IInv'
<1> USE DEF server, kafka, store, beginning, given, Checkpoint, ControlEvent
<1>1. tail \in Nat /\ origin \in Nat /\ tail' = tail /\ origin' = origin
  BY DEF IInv, TypeOK
<1>2. /\ Position \in 0..tail /\ cursor \in 0..tail
      /\ Position <= cursor /\ origin <= Position
      /\ mem = Position \/ (mem = 0 /\ Position = origin)
  BY DEF IInv, BufferInv, OriginInv, StoreInv
<1>3. Kept' = Kept /\ Settled' = Settled /\ FirstDeliveriesInOrder' /\ TopicInv'
  BY <1>1 DEF IInv, FirstDeliveriesInOrder, TopicInv, Kept, FirstOfKey, Settled, Holds
<1>4. PICK k \in cursor..tail : Carries(pending, Position, k)
  BY DEF IInv, BufferInv, Buffered
<1>5. /\ Position' = cursor /\ offset' = cursor
      /\ offset' # Now /\ offset' \in Nat
  BY <1>1, <1>2, ForwarderAssumption DEF Position
<1>6. 0 < cursor
  <2>1. CASE offset = Now
    BY <2>1 DEF IInv, BufferInv
  <2>2. CASE offset # Now
    <3>1. Position = offset
      BY <2>2 DEF Position
    <3>2. SUFFICES ASSUME cursor = 0 PROVE FALSE
      BY <1>2
    <3>3. tail = 0 /\ origin = 0 /\ Position = 0 /\ k = 0
      BY <1>1, <1>2, <1>4, <3>1, <3>2
    <3>4. Messages(pending) = {}
      BY <1>4, <3>3 DEF Carries
    <3> QED
      BY <3>4, SomeMessage DEF IInv, TypeOK
  <2> QED
    BY <2>1, <2>2
<1>7. record' \in Record
  BY DEF IInv, TypeOK, Record
<1>8. TypeOK'
  BY <1>5, <1>7 DEF IInv, TypeOK, PC
<1>9. OutboxInv'
  <2>1. PICK r : r = record'
    OBVIOUS
  <2>2. Deliverable(r)'
    <3>1. Holds(Settled', Position)
      BY <1>1, <1>2, <1>3 DEF IInv, StoreInv, Holds, Settled
    <3>2. r.key <= k /\ r.payload = pending
      BY <1>4, <1>2, <2>1
    <3>3. /\ tail' = tail /\ Position \in 0..tail /\ k \in 0..tail
          /\ Position <= k
      BY <1>1, <1>2, <1>4
    <3>4. PICK p : p = Position
      OBVIOUS
    <3>5. Carries(r.payload, p, k)'
      BY <1>1, <1>4, <3>2, <3>4 DEF Carries, Messages
    <3> QED
      BY <3>1, <3>2, <3>3, <3>4, <3>5 DEF Deliverable
  <2>3. ASSUME NEW q \in outbox PROVE Deliverable(q)'
    BY <1>1, <1>3, DeliverableKept DEF IInv, OutboxInv
  <2>4. outbox' = outbox \cup {r}
    BY <2>1
  <2> QED
    BY <2>2, <2>3, <2>4 DEF OutboxInv
<1>10. BufferInv'
  BY <1>1, <1>2, <1>5 DEF BufferInv
<1>11. StoreInv'
  <2>1. record'.key = cursor /\ record' \in outbox' /\ pc' = "send" /\ cursor' = cursor
    OBVIOUS
  <2>2. mem <= cursor /\ disk = mem /\ mem <= tail /\ mem' = mem /\ disk' = disk
    BY <1>1, <1>2 DEF IInv, StoreInv
  <2> QED
    BY <1>1, <1>3, <1>5, <1>6, <2>1, <2>2 DEF IInv, StoreInv, Holds
<1>12. StopInv'
  BY <1>1, <1>5 DEF StopInv
<1>13. OriginInv'
  <2>1. origin \in 0..tail /\ (configured = 0 => origin = 0)
        /\ (mem # 0 => origin <= mem) /\ (disk # 0 => origin <= disk)
    BY DEF IInv, OriginInv
  <2>2. UNCHANGED <<configured, mem, disk>>
    OBVIOUS
  <2>3. origin <= cursor
    BY <1>1, <1>2
  <2> QED
    BY <1>1, <1>5, <2>1, <2>2, <2>3 DEF OriginInv
<1> QED
  BY <1>3, <1>8, <1>9, <1>10, <1>11, <1>12, <1>13 DEF IInv

LEMMA SubscriptionIInv ==
  ASSUME IInv, Subscription
  PROVE  IInv'
<1>1. CASE Eof
  <2> USE DEF Eof, server, client, kafka, store, beginning, given
  <2>1. Settled' = Settled /\ FirstDeliveriesInOrder' /\ OutboxInv' /\ TopicInv' /\ Position' = Position
    BY <1>1, KafkaSame DEF Position
  <2>2. TypeOK'
    BY <1>1 DEF IInv, TypeOK, PC
  <2>3. BufferInv'
    BY <1>1, <2>1 DEF IInv, BufferInv, Buffered, Carries
  <2>4. StoreInv'
    BY <1>1, <2>1 DEF IInv, StoreInv, Holds
  <2>5. StopInv' /\ OriginInv'
    BY <1>1, <2>1 DEF IInv, StopInv, OriginInv
  <2> QED
    BY <2>1, <2>2, <2>3, <2>4, <2>5 DEF IInv
<1>2. CASE ConnectFails \/ BodyError
  BY <1>2, FailIInv DEF ConnectFails, BodyError
<1> QED
  BY <1>1, <1>2, ConnectIInv, DataIInv, EmptyCheckpointIInv, CheckpointIInv
  DEF Subscription

LEMMA ForwardingIInv ==
  ASSUME IInv, Forwarding
  PROVE  IInv'
<1> USE DEF server, client, kafka, store, beginning, given
<1>1. CASE Sent
  <2> USE DEF Sent
  <2>1. /\ Settled' = Settled /\ FirstDeliveriesInOrder' /\ OutboxInv' /\ TopicInv'
        /\ tail \in Nat /\ origin \in Nat
    BY <1>1, KafkaSame
  <2>2. TypeOK'
    BY <1>1 DEF IInv, TypeOK, PC
  <2>3. BufferInv' /\ StopInv' /\ OriginInv'
    BY <1>1 DEF IInv, BufferInv, StopInv, OriginInv, Position
  <2>4. Holds(Settled, record.key)
    BY <1>1 DEF InTopic, IInv, TopicInv
  <2>5. StoreInv'
    BY <1>1, <2>1, <2>4 DEF IInv, StoreInv, Holds
  <2> QED
    BY <2>1, <2>2, <2>3, <2>5 DEF IInv
<1>2. CASE Save
  <2> USE DEF Save
  <2>1. Settled' = Settled /\ FirstDeliveriesInOrder' /\ OutboxInv' /\ TopicInv'
    BY <1>2, KafkaSame
  <2>2. TypeOK'
    <3>1. offset \in Nat
      BY <1>2 DEF IInv, TypeOK, Record, StoreInv
    <3> QED
      BY <1>2, <3>1 DEF IInv, TypeOK, PC
  <2>3. BufferInv' /\ StopInv'
    BY <1>2 DEF IInv, BufferInv, StopInv, Position
  <2>4. StoreInv'
    BY <1>2, <2>1 DEF IInv, TypeOK, Record, BufferInv, StoreInv, Holds
  <2>5. OriginInv'
    <3>1. mem' = offset /\ offset \in Nat /\ offset # Now /\ Position = offset
      <4>1. mem' = offset /\ offset \in Nat
        BY <1>2 DEF IInv, StoreInv, TypeOK, Record
      <4> QED
        BY <4>1, ForwarderAssumption DEF Position
    <3>2. Position' = Position /\ origin <= Position
      BY <1>2 DEF Position, IInv, OriginInv
    <3> QED
      BY <1>2, <3>1, <3>2 DEF IInv, OriginInv
  <2> QED
    BY <2>1, <2>2, <2>3, <2>4, <2>5 DEF IInv
<1>3. CASE Persist
  <2> USE DEF Persist
  <2>1. Settled' = Settled /\ FirstDeliveriesInOrder' /\ OutboxInv' /\ TopicInv' /\ Position' = Position
    BY <1>3, KafkaSame DEF Position
  <2>2. TypeOK'
    BY <1>3 DEF IInv, TypeOK
  <2>3. BufferInv'
    BY <1>3, BufferKept DEF IInv, TypeOK
  <2>4. StopInv' /\ OriginInv'
    BY <1>3, <2>1 DEF IInv, StopInv, OriginInv
  <2>5. StoreInv'
    BY <1>3, <2>1 DEF IInv, TypeOK, StoreInv, Holds
  <2> QED
    BY <2>1, <2>2, <2>3, <2>4, <2>5 DEF IInv
<1>4. CASE SaveReturns
  <2> USE DEF SaveReturns
  <2>1. /\ Settled' = Settled /\ FirstDeliveriesInOrder' /\ OutboxInv' /\ TopicInv'
        /\ tail \in Nat /\ origin \in Nat /\ Position' = Position
    BY <1>4, KafkaSame DEF Position
  <2>2. TypeOK'
    BY <1>4 DEF IInv, TypeOK, PC, NoRecord, Record
  <2>a. /\ offset \in Nat /\ offset # Now /\ Position = offset /\ cursor = offset
        /\ offset \in 0..tail /\ mem = offset /\ pending = <<>> /\ disk = mem
    <3>1. offset \in Nat /\ cursor = offset /\ mem = offset /\ pending = <<>>
      BY <1>4 DEF IInv, StoreInv, TypeOK, Record, BufferInv
    <3> QED
      BY <1>4, <3>1, ForwarderAssumption DEF Position, IInv, BufferInv
  <2>3. BufferInv'
    <3>1. ((offset + 1)..offset) = {} /\ Messages(pending) = {}
      BY <2>a, EmptyInterval, EmptyMessages
    <3>2. Carries(pending, Position, offset)'
      BY <1>4, <2>1, <2>a, <3>1 DEF Carries, Messages
    <3>3. Buffered(cursor)'
      BY <1>4, <2>a, <3>2 DEF Buffered
    <3> QED
      BY <1>4, <2>1, <2>a, <3>3 DEF BufferInv
  <2>4. StoreInv'
    BY <1>4, <2>1, <2>a DEF IInv, StoreInv, Holds
  <2>5. StopInv' /\ OriginInv'
    BY <1>4, <2>1 DEF IInv, StopInv, OriginInv
  <2> QED
    BY <2>1, <2>2, <2>3, <2>4, <2>5 DEF IInv
<1>5. CASE SendFails \/ SaveFails
  BY <1>5, FailIInv DEF SendFails, SaveFails
<1> QED
  BY <1>1, <1>2, <1>3, <1>4, <1>5 DEF Forwarding

LEMMA NextIInv ==
  ASSUME IInv, [Next]_vars
  PROVE  IInv'
<1>1. CASE Next
  BY <1>1, EnvironmentIInv, ProcessIInv, SubscriptionIInv, ForwardingIInv DEF Next
<1>2. CASE UNCHANGED vars
  <2> USE <1>2 DEF vars, server, client, kafka, store, beginning, given
  <2>1. Settled' = Settled /\ FirstDeliveriesInOrder' /\ OutboxInv' /\ TopicInv' /\ Position' = Position
    BY KafkaSame DEF Position
  <2>2. TypeOK'
    BY DEF IInv, TypeOK
  <2>3. BufferInv'
    BY BufferKept DEF IInv, TypeOK
  <2>4. StoreInv' /\ StopInv' /\ OriginInv'
    BY <2>1 DEF IInv, StoreInv, StopInv, OriginInv, Holds
  <2> QED
    BY <2>1, <2>2, <2>3, <2>4 DEF IInv
<1> QED
  BY <1>1, <1>2

(* IInv holds in every state of every behaviour of the forwarder.          *)
THEOREM Invariance == Spec => []IInv
<1>1. IInv /\ [Next]_vars => IInv'
  BY NextIInv
<1> QED
  BY <1>1, InitIInv, PTL DEF Spec

-----------------------------------------------------------------------------
(* The variables keep their types.                                         *)
THEOREM TypeCorrect == Spec => []TypeOK
<1>1. IInv => TypeOK
  BY DEF IInv
<1> QED
  BY <1>1, Invariance, PTL

(* A consumer may drop every record whose key it has seen: all that lies   *)
(* between the beginning and the stored offset is in the others, however   *)
(* restarts have cut the stream (message_key, bridge.rs:100-109; README,   *)
(* "deterministic Kafka keys for duplicate tolerance").                    *)
THEOREM KeysSuffice == Spec => []FirstOfKeySuffices
<1>1. IInv => FirstOfKeySuffices
  <2> SUFFICES ASSUME IInv, NEW n \in (origin + 1)..disk
               PROVE  n \in Kept
    BY DEF FirstOfKeySuffices
  <2>1. origin \in Nat /\ n \in 1..mem /\ n \notin 1..origin
    BY DEF IInv, TypeOK, StoreInv
  <2>2. n \in Settled
    BY <2>1 DEF IInv, StoreInv, Holds
  <2> QED
    BY <2>1, <2>2 DEF Settled
<1> QED
  BY <1>1, Invariance, PTL

(* At least once: no restart resumes after a message that is not in Kafka. *)
THEOREM NothingIsLost == Spec => []NoLoss
<1>1. FirstOfKeySuffices => NoLoss
  BY KeptDelivered DEF FirstOfKeySuffices, NoLoss
<1> QED
  BY <1>1, KeysSuffice, PTL

(* ... and of a stream that is read from its start, none at all.           *)
THEOREM NothingIsLostFromTheStart ==
  Spec => [](configured = 0 => \A n \in 1..disk : n \in Delivered)
<1>1. IInv /\ NoLoss => (configured = 0 => \A n \in 1..disk : n \in Delivered)
  BY DEF IInv, OriginInv, NoLoss
<1> QED
  BY <1>1, Invariance, NothingIsLost, PTL

(* In order: late and repeated records never bring a message forward.      *)
THEOREM InOrder == Spec => []FirstDeliveriesInOrder
<1>1. IInv => FirstDeliveriesInOrder
  BY DEF IInv
<1> QED
  BY <1>1, Invariance, PTL

(* Ok from run_stream means the stream is in Kafka, to its end, for good.  *)
THEOREM OkMeansForwarded == Spec => []DoneMeansForwarded
<1>1. IInv => DoneMeansForwarded
  <2> SUFFICES ASSUME IInv, pc = "done"
               PROVE  /\ \A n \in (origin + 1)..tail : n \in Delivered
                      /\ tail > origin => disk = tail
    BY DEF DoneMeansForwarded
  <2>1. /\ tail \in Nat /\ origin \in Nat
        /\ offset = tail /\ Position = tail /\ disk = mem
        /\ mem = Position \/ (mem = 0 /\ Position = origin)
    <3>1. offset = tail /\ offset \in Nat
      BY DEF IInv, TypeOK, StopInv
    <3> QED
      BY <3>1, ForwarderAssumption DEF Position, IInv, TypeOK, StoreInv
  <2>2. CASE mem = tail
    <3>1. ASSUME NEW n \in (origin + 1)..tail PROVE n \in Delivered
      <4>1. n \in 1..mem /\ n \notin 1..origin
        BY <2>1, <2>2
      <4>2. n \in Settled
        BY <4>1 DEF IInv, StoreInv, Holds
      <4> QED
        BY <4>1, <4>2, KeptDelivered DEF Settled
    <3> QED
      BY <2>1, <2>2, <3>1
  <2>3. CASE origin = tail
    BY <2>1, <2>3
  <2> QED
    BY <2>1, <2>2, <2>3
<1> QED
  BY <1>1, Invariance, PTL

-----------------------------------------------------------------------------
(* Only a flush of the store changes what a restart resumes from.          *)
LEMMA DiskStep ==
  ASSUME [Next]_vars
  PROVE  Persist \/ disk' = disk
BY DEF Next, Environment, Process, Subscription, Forwarding, vars, store,
       NewMessage, CloseStream, BrokerAppends, RecordDropped, Start, Crash,
       Exit, Stop, Fail, Connect, ConnectFails, Data, ControlEvent,
       EmptyCheckpoint, Checkpoint, Eof, BodyError, Sent, SendFails, Save,
       SaveReturns, SaveFails

(* The offset a restart resumes from never goes back.                      *)
THEOREM NeverGoesBack == Spec => NeverResumesEarlier
<1>1. IInv /\ [Next]_vars => [disk <= disk']_disk
  BY DiskStep DEF Persist, IInv, StoreInv
<1> QED
  BY <1>1, Invariance, PTL DEF Spec, NeverResumesEarlier

(* Only a connection moves the beginning of the stream.                    *)
LEMMA OriginStep ==
  ASSUME [Next]_vars
  PROVE  Connect \/ UNCHANGED beginning
BY DEF Next, Environment, Process, Subscription, Forwarding, vars, beginning, given,
       NewMessage, CloseStream, BrokerAppends, RecordDropped, Start, Crash,
       Exit, Stop, Fail, ConnectFails, Data, ControlEvent, EmptyCheckpoint,
       Checkpoint, Eof, BodyError, Sent, SendFails, Save, Persist,
       SaveReturns, SaveFails

(* The beginning moves only for "now", and only until the first save.      *)
THEOREM BeginningIsSettled == Spec => BeginsOnce
<1>1. IInv /\ [Next]_vars => [configured = Now /\ disk = 0]_origin
  <2> SUFFICES ASSUME IInv, [Next]_vars, origin' # origin
               PROVE  configured = Now /\ disk = 0
    OBVIOUS
  <2>1. offset = Now
    BY OriginStep DEF Connect, beginning, given
  <2>2. configured = Now /\ mem = 0
    BY <2>1 DEF IInv, TypeOK, OriginInv
  <2> QED
    BY <2>2 DEF IInv, TypeOK, StoreInv
<1> QED
  BY <1>1, Invariance, PTL DEF Spec, BeginsOnce

-----------------------------------------------------------------------------
(* Only the server adds messages, only the broker appends records.         *)
LEMMA TailTopicStep ==
  ASSUME [Next]_vars
  PROVE  \/ NewMessage
         \/ \E r \in outbox : BrokerAppends(r)
         \/ tail' = tail /\ topic' = topic
BY DEF Next, Environment, Process, Subscription, Forwarding, vars, server,
       kafka, CloseStream, RecordDropped, Start, Crash, Exit, Stop, Fail,
       Connect, ConnectFails, Data, ControlEvent, EmptyCheckpoint, Checkpoint,
       Eof, BodyError, Sent, SendFails, Save, Persist, SaveReturns, SaveFails

LEMMA NextRefines ==
  ASSUME IInv, [Next]_vars
  PROVE  [Abstract!Next]_(Abstract!vars)
<1>0. tail \in Nat /\ origin \in 0..tail
  BY DEF IInv, TypeOK, OriginInv
<1>1. CASE NewMessage
  <2>1. Settled' = Settled /\ disk' = disk
    BY <1>1 DEF NewMessage, Kept, FirstOfKey, Settled, kafka, store, beginning, given
  <2>2. Abstract!Publish
    BY <1>1, <2>1 DEF NewMessage, Abstract!Publish
  <2> QED
    BY <2>2 DEF Abstract!Next
<1>2. CASE \E r \in outbox : BrokerAppends(r)
  <2>1. PICK r \in outbox : BrokerAppends(r)
    BY <1>2
  <2>2. tail' = tail /\ disk' = disk /\ origin' = origin
    BY <2>1 DEF BrokerAppends, server, store, beginning, given
  <2>3. PICK a, b \in 0..tail :
          a <= b /\ Carries(r.payload, a, b) /\ Holds(Settled, a)
    BY DEF IInv, OutboxInv, Deliverable
  <2>4. \/ Kept' = Kept
        \/ Kept' = Kept \cup Messages(r.payload)
    BY <2>1, AppendKeeps DEF BrokerAppends, IInv, TypeOK
  <2>5. Settled' = Settled \/ Settled' = Settled \cup ((a + 1)..b)
    BY <2>2, <2>3, <2>4 DEF Settled, Carries
  <2>0. CASE Settled' = Settled
    BY <2>2, <2>0 DEF Abstract!vars
  <2>6. CASE a < b /\ Settled' = Settled \cup ((a + 1)..b)
    <3>1. /\ a + 1 \in 1..tail /\ b \in 1..tail /\ a + 1 <= b
          /\ 1..((a + 1) - 1) \subseteq Settled
      BY <1>0, <2>3, <2>6 DEF Holds
    <3>2. Abstract!Deliver
      BY <2>2, <2>6, <3>1 DEF Abstract!Deliver
    <3> QED
      BY <3>2 DEF Abstract!Next
  <2>7. CASE a = b /\ Settled' = Settled \cup ((a + 1)..b)
    <3>1. ((a + 1)..b) = {}
      BY <2>7, EmptyInterval
    <3>2. UNCHANGED Abstract!vars
      BY <2>2, <2>7, <3>1 DEF Abstract!vars
    <3> QED
      BY <3>2
  <2> QED
    BY <2>0, <2>3, <2>5, <2>6, <2>7
<1>3. CASE tail' = tail /\ topic' = topic
  <2>1. Kept' = Kept
    BY <1>3 DEF Kept, FirstOfKey
  <2>2. CASE Persist
    <3>1. Settled' = Settled
      BY <2>1, <2>2 DEF Settled, Persist, beginning, given
    <3>2. disk' \in disk..tail /\ 1..disk' \subseteq Settled
      BY <2>2 DEF Persist, IInv, TypeOK, StoreInv, Holds
    <3>3. Abstract!Commit
      BY <1>3, <3>1, <3>2 DEF Abstract!Commit
    <3> QED
      BY <3>3 DEF Abstract!Next
  <2>3. CASE disk' = disk /\ origin' = origin
    BY <1>3, <2>1, <2>3 DEF Abstract!vars, Settled
  <2>4. CASE disk' = disk /\ origin' = tail /\ origin' # origin
    <3>1. 1 \in 1..tail /\ tail \in 1..tail /\ 1..(1 - 1) \subseteq Settled
      BY <1>0, <2>4
    <3>2. Settled' = Settled \cup 1..tail
      BY <1>0, <2>1, <2>4 DEF Settled
    <3>3. Abstract!Deliver
      BY <1>0, <1>3, <2>4, <3>1, <3>2 DEF Abstract!Deliver
    <3> QED
      BY <3>3 DEF Abstract!Next
  <2>5. origin' \in {origin, tail}
    BY OriginStep DEF Connect, beginning, given
  <2> QED
    BY <2>2, <2>3, <2>4, <2>5, DiskStep
<1> QED
  BY <1>1, <1>2, <1>3, TailTopicStep

(* The forwarder delivers at least once, in order, and resumes from what   *)
(* it has delivered, whatever fails and however often it is started again. *)
THEOREM ForwarderImplementsAtLeastOnce == Spec => ImplementsAtLeastOnce
<1>1. Init => Abstract!Init
  <2> SUFFICES ASSUME Init PROVE Abstract!Init
    OBVIOUS
  <2>1. Kept = {} /\ 1..0 = {} /\ tail = 0 /\ disk = 0 /\ origin = 0
    BY DEF Init, Kept
  <2>2. Settled = 1..0 /\ 0 \in 0..tail
    BY <2>1 DEF Settled
  <2> QED
    BY <2>1, <2>2 DEF Abstract!Init
<1>2. IInv /\ [Next]_vars => [Abstract!Next]_(Abstract!vars)
  BY NextRefines
<1> QED
  BY <1>1, <1>2, Invariance, PTL DEF Spec, ImplementsAtLeastOnce, Abstract!Spec

-----------------------------------------------------------------------------
(* What a record is made of, when no response is truncated.                *)

LEMMA EmptyRun == \A a \in Nat : Run(a, a) = <<>>
<1> SUFFICES ASSUME NEW a \in Nat PROVE Run(a, a) = <<>>
  OBVIOUS
<1>1. Run(a, a) \in Seq(Nat) /\ Len(Run(a, a)) = 0
  BY RunType
<1> QED
  BY <1>1

LEMMA NextSegmentInv ==
  ASSUME IInv, SegmentInv, [Next]_vars
  PROVE  SegmentInv'
<1> USE ForwarderAssumption DEF vars, server, client, kafka, store, beginning, given
<1>0. truncates' = truncates
  BY OriginStep DEF Connect
<1> SUFFICES ASSUME ~truncates
             PROVE  SegmentInv'
  BY <1>0 DEF SegmentInv
<1>1. CASE \E r \in outbox : BrokerAppends(r)
  <2>1. PICK r \in outbox : BrokerAppends(r)
    BY <1>1
  <2>2. /\ Len(topic') = Len(topic) + 1
        /\ topic'[Len(topic) + 1] = r
        /\ \A i \in 1..Len(topic) : topic'[i] = topic[i]
        /\ Len(topic) \in Nat
    BY <2>1 DEF BrokerAppends, IInv, TypeOK
  <2>3. \A i \in 1..Len(topic') : i \in 1..Len(topic) \/ i = Len(topic) + 1
    BY <2>2
  <2>4. \A i \in 1..Len(topic') : Segment(topic'[i])
    BY <2>2, <2>3 DEF SegmentInv
  <2> QED
    BY <2>1, <2>4 DEF BrokerAppends, SegmentInv, Segment, Position
<1>2. CASE Checkpoint
  <2>1. Position \in Nat /\ cursor \in Nat /\ Position <= cursor
    BY <1>2 DEF Checkpoint, ControlEvent, IInv, TypeOK, BufferInv
  <2>2. pending = Run(Position, cursor) /\ cursor <= Position + MaxBatch
    BY <1>2 DEF Checkpoint, ControlEvent, SegmentInv
  <2>3. Position # cursor
    BY <1>2, <2>1, <2>2, EmptyRun DEF Checkpoint
  <2>4. PICK r : r = record'
    OBVIOUS
  <2>5. r.key = cursor /\ r.payload = Run(Position, cursor)
    BY <1>2, <2>2, <2>4 DEF Checkpoint
  <2>6. Position \in 0..(r.key - 1) /\ r.key <= Position + MaxBatch
    BY <2>1, <2>2, <2>3, <2>5
  <2>7. Segment(r)
    BY <2>5, <2>6 DEF Segment
  <2>8. outbox' = outbox \cup {r} /\ topic' = topic /\ pc' = "send"
    BY <1>2, <2>4 DEF Checkpoint, ControlEvent
  <2>9. \A q \in outbox' : Segment(q)
    BY <2>7, <2>8 DEF SegmentInv
  <2> QED
    BY <2>8, <2>9 DEF SegmentInv, Segment
<1>3. CASE \E n \in 1..tail : Data(n)
  <2>1. PICK n \in 1..tail : Data(n)
    BY <1>3
  <2>2. /\ Position \in Nat /\ cursor \in Nat /\ n \in Nat
        /\ Position <= cursor /\ cursor <= n /\ MaxBatch \in Nat
    BY <2>1 DEF Data, IInv, TypeOK, BufferInv
  <2>3. Position' = Position
    BY <2>1 DEF Data, Position
  <2>4. pending' = Run(Position, n)
    <3>1. pending = Run(Position, cursor) /\ pending' = pending \o Run(cursor, n)
      BY <2>1 DEF Data, SegmentInv
    <3>2. Run(Position, cursor) \o Run(cursor, n) = Run(Position, n)
      BY <2>2, RunConcat
    <3> QED
      BY <3>1, <3>2
  <2>5. n <= Position + MaxBatch
    BY <2>1, <2>2 DEF Data
  <2> QED
    BY <2>1, <2>3, <2>4, <2>5 DEF Data, SegmentInv, Segment
<1>4. CASE Connect
  <2>1. PICK p \in Nat : Position' = p /\ cursor' = p
    BY <1>4 DEF Connect, IInv, TypeOK, Position
  <2>2. pending' = Run(Position', cursor')
    BY <1>4, <2>1, EmptyRun DEF Connect, SegmentInv
  <2>3. cursor' <= Position' + MaxBatch
    BY <2>1
  <2> QED
    BY <1>4, <2>2, <2>3 DEF Connect, SegmentInv, Segment
<1>5. CASE EmptyCheckpoint
  <2>1. cursor \in Nat /\ Position' = cursor /\ cursor' = cursor
    <3>1. cursor \in Nat /\ offset' = cursor /\ offset' # Now /\ cursor' = cursor
      BY <1>5 DEF EmptyCheckpoint, ControlEvent, IInv, TypeOK
    <3> QED
      BY <3>1 DEF Position
  <2>2. pending' = Run(Position', cursor')
    BY <1>5, <2>1, EmptyRun DEF EmptyCheckpoint
  <2>3. cursor' <= Position' + MaxBatch
    BY <2>1
  <2> QED
    BY <1>5, <2>2, <2>3 DEF EmptyCheckpoint, ControlEvent, SegmentInv, Segment
<1>6. CASE SaveReturns
  <2>1. /\ cursor \in Nat /\ Position' = cursor /\ cursor' = cursor
        /\ pending' = <<>>
    <3>1. /\ cursor \in Nat /\ offset' = cursor /\ offset' # Now
          /\ cursor' = cursor /\ pending' = <<>>
      BY <1>6 DEF SaveReturns, IInv, TypeOK, BufferInv, StoreInv
    <3> QED
      BY <3>1 DEF Position
  <2>2. pending' = Run(Position', cursor')
    BY <2>1, EmptyRun
  <2>3. cursor' <= Position' + MaxBatch
    BY <2>1
  <2> QED
    BY <1>6, <2>2, <2>3 DEF SaveReturns, SegmentInv, Segment
<1>7. CASE Start \/ Crash \/ Exit
  BY <1>7 DEF Start, Crash, Exit, Stop, SegmentInv, Segment, IInv, BufferInv
<1>a. UNCHANGED <<offset, origin>> => Position' = Position
  BY DEF Position
<1>8. CASE \/ NewMessage \/ CloseStream
           \/ \E r \in outbox : RecordDropped(r)
  BY <1>8, <1>a DEF NewMessage, CloseStream, RecordDropped, SegmentInv, Segment
<1>9. CASE Eof
  BY <1>9, <1>a DEF Eof, Truncated, SegmentInv, Segment
<1>10. CASE ConnectFails \/ BodyError \/ SendFails \/ SaveFails
  BY <1>10, <1>a DEF ConnectFails, BodyError, SendFails, SaveFails, Fail, SegmentInv, Segment
<1>11. CASE Sent \/ Save \/ Persist
  BY <1>11, <1>a DEF Sent, Save, Persist, SegmentInv, Segment
<1>12. CASE UNCHANGED vars
  BY <1>12, <1>a DEF SegmentInv, Segment
<1> QED
  BY <1>1, <1>2, <1>3, <1>4, <1>5, <1>6, <1>7, <1>8, <1>9, <1>10, <1>11, <1>12
  DEF Next, Environment, Process, Subscription, Forwarding

LEMMA SegmentInvariance == Spec => [](IInv /\ SegmentInv)
<1>1. Init => SegmentInv
  BY DEF Init, SegmentInv
<1>2. IInv /\ SegmentInv /\ [Next]_vars => SegmentInv'
  BY NextSegmentInv
<1> QED
  BY <1>1, <1>2, Invariance, PTL DEF Spec

(* While no response is truncated:                                         *)
(* The buffer is one unbroken run of messages from the last checkpoint on, *)
(* and every record in Kafka or on its way there is such a run, of no more *)
(* messages than the server puts before one checkpoint: restarts, failed   *)
(* sends and repeated appends never join two of them or cut one in two     *)
(* (pending_payload, bridge.rs:66-92 and 94-109).                          *)
THEOREM BufferedInSegments == Spec => []SegmentInv
  BY SegmentInvariance, PTL

(* A record is one unbroken run of messages that ends at its key.          *)
THEOREM RecordsAreSegments == Spec => []RecordIsSegment
<1>1. IInv /\ SegmentInv => RecordIsSegment
  <2> SUFFICES ASSUME IInv, SegmentInv, ~truncates, NEW i \in 1..Len(topic)
               PROVE  \E a \in 0..topic[i].key :
                        topic[i].payload = Run(a, topic[i].key) /\ topic[i].payload # <<>>
    BY DEF RecordIsSegment
  <2>1. topic[i].key \in Nat
    <3>1. topic[i] \in Record
      BY DEF IInv, TypeOK
    <3> QED
      BY <3>1 DEF Record
  <2>2. PICK a \in 0..(topic[i].key - 1) : topic[i].payload = Run(a, topic[i].key)
    BY DEF SegmentInv, Segment
  <2>3. Len(Run(a, topic[i].key)) # 0
    <3>1. a \in Nat /\ a <= topic[i].key /\ topic[i].key - a # 0
      BY <2>1, <2>2
    <3> QED
      BY <2>1, <3>1, RunType
  <2>4. topic[i].payload # <<>>
    BY <2>2, <2>3
  <2> QED
    BY <2>1, <2>2, <2>4
<1> QED
  BY <1>1, SegmentInvariance, PTL
=============================================================================
