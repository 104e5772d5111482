------------------------------ MODULE Forwarder ------------------------------
(***************************************************************************)
(* One forwarder task: run_stream and handle_checkpoint (bridge.rs) on the *)
(* subscription of the client (stream.rs), with the Durable Streams server *)
(* at one end, Kafka at the other, and the process around it, which stops  *)
(* and is started again.                                                   *)
(*                                                                         *)
(* Messages of the stream are numbered 1, 2, 3, ...  An offset is the      *)
(* number of messages before it: the offset "-1" is 0, a next_offset is    *)
(* the number of the last message it covers.  A payload is the sequence of *)
(* the messages whose bytes it holds.  A stored offset of 0 stands for no  *)
(* entry, since the bridge never saves one that covers no message.         *)
(*                                                                         *)
(* The offset store is used through its contract (DurableOffsets): save    *)
(* changes memory, the file follows with this save or another task's, and  *)
(* save returns once the file has caught up.                               *)
(***************************************************************************)
EXTENDS Naturals, Sequences

CONSTANTS
  Configured,   \* the offsets the configuration may give: 0, Now, or both
  Truncates,    \* whether responses may end between a data event and its
                \* checkpoint: FALSE, TRUE, or both
  MaxBatch,     \* most messages between two checkpoints
  MaxBuffer,    \* bound: messages in the buffer, repeated ones included;
                \* no response is truncated that could make it more
  Now,          \* the offset "now": client and server have no number for it
  MaxLen,       \* bound: messages of the stream
  MaxStarts,    \* bound: starts of the process; failures need one to follow
  MaxTopic      \* bound: records in the topic before a producer retry

ASSUME ForwarderAssumption ==
  /\ Configured \subseteq {0, Now}
  /\ Truncates \subseteq BOOLEAN
  /\ MaxBatch \in Nat \ {0} /\ MaxBuffer \in Nat \ {0}
  /\ Now \notin Nat
  /\ MaxLen \in Nat /\ MaxStarts \in Nat /\ MaxTopic \in Nat

VARIABLES
  tail,      \* server: messages appended to the stream
  closed,    \* server: no more will be
  cursor,    \* server: last message it put on the current response
  pc,        \* where the task stands
  starts,    \* how often the process was started
  offset,    \* client: where the next connection resumes
  stop,      \* client: should_stop, the checkpoint said the stream is closed
  pending,   \* pending_payload, the buffer of run_stream
  record,    \* the record handle_checkpoint is working on
  outbox,    \* records handed to the producer whose fate is open
  topic,     \* the Kafka topic, a log of records
  mem,       \* the stored offset of this stream, in memory
  disk,      \* and in the offset file
  configured, \* the configured offset of the stream
  truncates, \* server: its responses may end before a checkpoint
  origin     \* history: where the stream begins for the bridge, see Connect

given == <<configured, truncates>>   \* these never change
beginning == <<given, origin>>
server == <<tail, closed>>
client == <<cursor, offset, stop>>
kafka  == <<outbox, topic>>
store  == <<mem, disk>>
vars == <<server, client, pc, starts, pending, record, kafka, store, beginning>>

(* "send", "save" and "persist" are the awaits of handle_checkpoint.       *)
PC == {"down", "connect", "stream", "send", "save", "persist", "done", "failed"}

(* The messages after a up to b, in order.                                 *)
Run(a, b) == [i \in 1..(b - a) |-> a + i]

Messages(payload) == {payload[i] : i \in 1..Len(payload)}

Record == [start : Nat, key : Nat, payload : Seq(Nat)]

NoRecord == [start |-> 0, key |-> 0, payload |-> <<>>]

InTopic(r) == \E i \in 1..Len(topic) : topic[i] = r

Delivered == UNION {Messages(topic[i].payload) : i \in 1..Len(topic)}

(* What is left of it when a record with a known key is dropped.           *)
FirstOfKey(i) == \A j \in 1..(i - 1) : topic[j].key # topic[i].key

Kept == UNION {Messages(topic[i].payload) : i \in {j \in 1..Len(topic) : FirstOfKey(j)}}

TypeOK ==
  /\ tail \in Nat /\ cursor \in Nat
  /\ closed \in BOOLEAN /\ stop \in BOOLEAN
  /\ pc \in PC
  /\ starts \in Nat
  /\ offset \in Nat \cup {Now}
  /\ pending \in Seq(Nat)
  /\ record \in Record
  /\ outbox \in SUBSET Record
  /\ topic \in Seq(Record)
  /\ mem \in Nat /\ disk \in Nat
  /\ configured \in {0, Now} /\ truncates \in BOOLEAN /\ origin \in Nat

Init ==
  /\ tail = 0 /\ closed = FALSE /\ cursor = 0
  /\ pc = "down" /\ starts = 0
  /\ offset = 0 /\ stop = FALSE
  /\ pending = <<>> /\ record = NoRecord
  /\ outbox = {} /\ topic = <<>>
  /\ mem = 0 /\ disk = 0
  /\ configured \in Configured /\ truncates \in Truncates /\ origin = 0

(* Every failure leads to a restart; the last start is spared.             *)
MayFail == starts < MaxStarts

-----------------------------------------------------------------------------
(* The server and its clients.                                             *)
NewMessage ==
  /\ ~closed /\ tail < MaxLen
  /\ tail' = tail + 1
  /\ UNCHANGED <<closed, client, pc, starts, pending, record, kafka, store, beginning>>

CloseStream ==
  /\ ~closed
  /\ closed' = TRUE
  /\ UNCHANGED <<tail, client, pc, starts, pending, record, kafka, store, beginning>>

-----------------------------------------------------------------------------
(* Mutant: the stored offset is not looked up.                             *)
StartFromConfig ==
  /\ pc = "down"
  /\ pc' = "connect"
  /\ starts' = starts + 1
  /\ mem' = disk
  /\ offset' = configured
  /\ stop' = FALSE
  /\ UNCHANGED <<server, cursor, pending, record, kafka, disk, beginning>>

(* The process starts, opens the store, and the task begins: the stored    *)
(* offset if there is one, the configured offset if not.                   *)
Start ==
  /\ pc = "down"
  /\ pc' = "connect"
  /\ starts' = starts + 1
  /\ mem' = disk
  /\ offset' = IF disk # 0 THEN disk ELSE configured
  /\ stop' = FALSE
  /\ UNCHANGED <<server, cursor, pending, record, kafka, disk, beginning>>

(* The process is gone, with all that it held in memory.  Records the      *)
(* producer has handed to the network may still reach the broker.          *)
Stop ==
  /\ pc' = "down"
  /\ pending' = <<>>
  /\ record' = NoRecord
  /\ UNCHANGED <<server, client, starts, kafka, store, beginning>>

(* ... at any moment: killed, or ended by the failure of another task.     *)
Crash == MayFail /\ pc \notin {"down", "failed"} /\ Stop

(* ... or because this task returned an error, which ends the bridge.      *)
Exit == pc = "failed" /\ Stop

Fail ==
  /\ MayFail
  /\ pc' = "failed"
  /\ UNCHANGED <<server, client, starts, pending, record, topic, store, beginning>>

-----------------------------------------------------------------------------
(* subscribe: one turn of its loop is one response.                        *)

(* Mutant: the offset is taken for that of the first message to read.      *)
ConnectAfter ==
  /\ pc = "connect"
  /\ pc' = "stream"
  /\ cursor' = IF offset \in {Now, tail} THEN tail ELSE offset + 1
  /\ stop' = FALSE
  /\ origin' = IF offset = Now THEN tail ELSE origin
  /\ UNCHANGED <<server, given, starts, offset, pending, record, kafka, store>>

(* execute_with_retry returns a response.  "now" is resolved by the server, *)
(* anew for every request that carries it: then the stream begins there    *)
(* for the bridge, and what came before is not asked for.                  *)
Connect ==
  /\ pc = "connect"
  /\ pc' = "stream"
  /\ cursor' = IF offset = Now THEN tail ELSE offset
  /\ stop' = FALSE
  /\ origin' = IF offset = Now THEN tail ELSE origin
  /\ UNCHANGED <<server, given, starts, offset, pending, record, kafka, store>>

(* ... or an error it does not retry, or retried to the end.               *)
ConnectFails ==
  /\ pc = "connect"
  /\ Fail
  /\ UNCHANGED outbox

(* The number the client's offset stands for.                              *)
Position == IF offset = Now THEN origin ELSE offset

(* A data event with the messages up to n.  More than one may come before  *)
(* a checkpoint.                                                           *)
Data(n) ==
  /\ pc = "stream"
  /\ cursor < n /\ n <= tail
  /\ n - Position <= MaxBatch
  /\ pending' = pending \o Run(cursor, n)
  /\ cursor' = n
  /\ UNCHANGED <<server, pc, starts, offset, stop, record, kafka, store, beginning>>

(* Mutant: should_stop is not taken from the checkpoint.                   *)
ControlEventIgnoresClose ==
  /\ pc = "stream"
  /\ cursor # offset \/ cursor = tail
  /\ offset' = cursor
  /\ UNCHANGED <<server, cursor, stop, starts, store, topic, beginning>>

(* The server sends a control event after data, and when it has no more.   *)
(* It says whether the stream is closed and the client has all of it.      *)
ControlEvent ==
  /\ pc = "stream"
  /\ cursor # offset \/ cursor = tail
  /\ offset' = cursor
  /\ stop' = (closed /\ cursor = tail)
  /\ UNCHANGED <<server, cursor, starts, store, topic, beginning>>

(* handle_checkpoint with an empty buffer: nothing is sent or saved.       *)
EmptyCheckpoint ==
  /\ ControlEvent
  /\ pending = <<>>
  /\ UNCHANGED <<pc, pending, record, outbox>>

(* Mutant: the key is the offset the batch begins at.                      *)
CheckpointKeyedByBegin ==
  /\ ControlEvent
  /\ pending # <<>>
  /\ record' = [start |-> starts, key |-> Position, payload |-> pending]
  /\ pending' = <<>>
  /\ outbox' = outbox \cup {record'}
  /\ pc' = "send"

(* Mutant: the buffer is copied into the record, and not taken.            *)
CheckpointKeepsBuffer ==
  /\ ControlEvent
  /\ pending # <<>>
  /\ record' = [start |-> starts, key |-> cursor, payload |-> pending]
  /\ outbox' = outbox \cup {record'}
  /\ pc' = "send"
  /\ UNCHANGED pending

(* handle_checkpoint with buffered data: the record carries the buffer, is *)
(* keyed by the checkpoint's offset, and is given to the producer.         *)
Checkpoint ==
  /\ ControlEvent
  /\ pending # <<>>
  /\ record' = [start |-> starts, key |-> cursor, payload |-> pending]
  /\ pending' = <<>>
  /\ outbox' = outbox \cup {record'}
  /\ pc' = "send"

(* A response ends between a data event and its checkpoint.                *)
Truncated == truncates /\ Len(pending) + MaxBatch <= MaxBuffer

(* Mutant: every end of a response ends the subscription.                  *)
EofEnds ==
  /\ pc = "stream"
  /\ pending = <<>> \/ Truncated
  /\ pc' = IF pending = <<>> THEN "done" ELSE "failed"
  /\ UNCHANGED <<server, client, starts, pending, record, kafka, store, beginning>>

(* The response ends.  If the last checkpoint closed the stream, so does   *)
(* the subscription, and run_stream returns: an error if data is left in   *)
(* the buffer.  If not, the client connects again, and the buffer stays.   *)
Eof ==
  /\ pc = "stream"
  /\ pending = <<>> \/ Truncated
  /\ pc' = IF ~stop THEN "connect" ELSE IF pending = <<>> THEN "done" ELSE "failed"
  /\ UNCHANGED <<server, client, starts, pending, record, kafka, store, beginning>>

(* Mutant: an error in a response is a reason to connect again.            *)
BodyErrorReconnects ==
  /\ pc = "stream"
  /\ pc' = "connect"
  /\ UNCHANGED <<server, client, starts, pending, record, kafka, store, beginning>>

(* An error while a response is read ends the subscription, even after the *)
(* checkpoint that closed the stream.                                      *)
BodyError ==
  /\ pc = "stream"
  /\ Fail
  /\ UNCHANGED outbox

-----------------------------------------------------------------------------
(* The broker appends a record it was sent.  The producer is not           *)
(* idempotent: it sends again when an answer is lost, and the broker       *)
(* appends again.                                                          *)
BrokerAppends(r) ==
  /\ r \in outbox
  /\ InTopic(r) => Len(topic) < MaxTopic
  /\ topic' = Append(topic, r)
  /\ UNCHANGED <<server, client, pc, starts, pending, record, outbox, store, beginning>>

(* A record nobody waits for never reaches the broker, or not again.       *)
RecordDropped(r) ==
  /\ r \in outbox \ {record}
  /\ outbox' = outbox \ {r}
  /\ UNCHANGED <<server, client, pc, starts, pending, record, topic, store, beginning>>

(* sink.send returns Ok: the broker has acknowledged the record.           *)
Sent ==
  /\ pc = "send"
  /\ InTopic(record)
  /\ pc' = "save"
  /\ outbox' = outbox \ {record}
  /\ UNCHANGED <<server, client, starts, pending, record, topic, store, beginning>>

(* Mutant: the error of sink.send is dropped.                              *)
SendErrorIgnored ==
  /\ pc = "send"
  /\ pc' = "save"
  /\ UNCHANGED <<server, client, starts, pending, record, kafka, store, beginning>>

(* sink.send returns an error.  That the producer has given up says        *)
(* nothing of the broker: the record may be in the topic, or come late.    *)
SendFails ==
  /\ pc = "send"
  /\ Fail
  /\ UNCHANGED outbox

-----------------------------------------------------------------------------
(* offset_store.save, as its contract has it, with the checkpoint's offset, *)
(* which the client has taken over.                                        *)
Save ==
  /\ pc = "save"
  /\ mem' = offset
  /\ pc' = "persist"
  /\ UNCHANGED <<server, client, starts, pending, record, kafka, disk, beginning>>

(* A save of this task or of another one writes the file.                  *)
Persist ==
  /\ pc # "down"
  /\ disk # mem
  /\ disk' = mem
  /\ UNCHANGED <<server, client, pc, starts, pending, record, kafka, mem, beginning>>

SaveReturns ==
  /\ pc = "persist"
  /\ disk = mem
  /\ pc' = "stream"
  /\ record' = NoRecord
  /\ UNCHANGED <<server, client, starts, pending, kafka, store, beginning>>

SaveFails ==
  /\ pc = "persist"
  /\ Fail
  /\ UNCHANGED outbox

-----------------------------------------------------------------------------
Environment ==
  \/ NewMessage \/ CloseStream
  \/ \E r \in outbox : BrokerAppends(r) \/ RecordDropped(r)

Process == Start \/ Crash \/ Exit

Subscription ==
  \/ Connect \/ ConnectFails
  \/ \E n \in 1..tail : Data(n)
  \/ EmptyCheckpoint \/ Checkpoint
  \/ Eof \/ BodyError

Forwarding ==
  \/ Sent \/ SendFails
  \/ Save \/ Persist \/ SaveReturns \/ SaveFails

Next == Environment \/ Process \/ Subscription \/ Forwarding

Spec == Init /\ [][Next]_vars

(* What the process and the broker do by themselves.  Where the task       *)
(* stands decides which of these steps is next.                            *)
Progress ==
  \/ Start \/ Exit \/ Connect \/ (stop /\ Eof)
  \/ (~InTopic(record) /\ BrokerAppends(record)) \/ Sent
  \/ Save \/ Persist \/ SaveReturns

(* The process is started again when it has ended (by whoever supervises   *)
(* it: the bridge does not do it), the runtime goes on with a task that    *)
(* can go on, the broker answers.  A server that keeps ending its          *)
(* responses sends, in one of them, what it has: strong fairness of its    *)
(* events.  Nothing is assumed of failures but that MaxStarts bounds them. *)
FairSpec ==
  /\ Spec
  /\ WF_vars(Progress)
  /\ SF_vars(\E n \in 1..tail : Data(n))
  /\ SF_vars(EmptyCheckpoint \/ Checkpoint)

-----------------------------------------------------------------------------
(* At least once: whatever offset a restart may find, every message from   *)
(* where the stream begins up to it is in Kafka.  Crashes, failed sends    *)
(* and other tasks' saves of the shared file come in between.              *)
NoLoss == \A n \in (origin + 1)..disk : n \in Delivered

(* Duplicates can be told by their keys: a consumer that keeps the first   *)
(* record of each key, and drops every later one, has all of it as well.   *)
(* It does not matter that records with one key need not be equal: a       *)
(* restart may cut the stream differently, and what the first record of a  *)
(* key lacks came under an earlier key.                                    *)
FirstOfKeySuffices == \A n \in (origin + 1)..disk : n \in Kept

(* In order: a message appears in the topic for the first time only after  *)
(* all messages before it, though late records of earlier starts mix in.   *)
FirstDeliveriesInOrder ==
  \A i \in 1..Len(topic) : \A m \in Messages(topic[i].payload) :
    \A n \in (origin + 1)..(m - 1) :
      \E j \in 1..i : n \in Messages(topic[j].payload)

(* Unless a response was truncated, a record holds exactly the messages    *)
(* between two offsets, the second of which is its key: none twice, none   *)
(* left out, none out of order.                                            *)
RecordIsSegment ==
  ~truncates =>
    \A i \in 1..Len(topic) :
      \E a \in 0..topic[i].key :
        topic[i].payload = Run(a, topic[i].key) /\ topic[i].payload # <<>>

(* The strong reading of "deterministic Kafka keys": records with one key  *)
(* are one record, and no message comes under two keys.  It does not hold. *)
KeyIdentifiesRecord ==
  \A i, j \in 1..Len(topic) :
    IF topic[i].key = topic[j].key
      THEN topic[i].payload = topic[j].payload
      ELSE Messages(topic[i].payload) \cap Messages(topic[j].payload) = {}

(* A task that ended with Ok has forwarded its stream to the end, and no   *)
(* restart will forward any of it again.                                   *)
DoneMeansForwarded ==
  pc = "done" =>
    /\ \A n \in (origin + 1)..tail : n \in Delivered
    /\ tail > origin => disk = tail

(* The offset a restart resumes from never goes back, within a start or    *)
(* across them.                                                            *)
NeverResumesEarlier == [][disk <= disk']_disk

(* Where the stream begins is settled once an offset has been stored: a    *)
(* later "now" may pass over messages, but only until the first save.  A   *)
(* stream read from its start begins there for good.                       *)
BeginsOnce == [][configured = Now /\ disk = 0]_origin

(* Every message is forwarded and its offset stored, if failures end, but  *)
(* for those a stream that begins at "now" begins behind.                  *)
ForwardedEventually == \A n \in 1..MaxLen : (tail >= n) ~> (disk >= n \/ origin >= n)

(* The task of a closed stream ends.                                       *)
ClosedStreamEnds == closed ~> (pc = "done")

-----------------------------------------------------------------------------
(* The inductive invariant behind the safety properties, in named parts.   *)

Holds(set, n) == \A m \in 1..n : m \in set

(* What is in Kafka for a consumer that drops known keys, or came before   *)
(* the stream began for the bridge.                                        *)
Settled == Kept \cup 1..origin

(* A payload holds messages a+1 to b, but for what came before that.       *)
Carries(payload, a, b) ==
  Messages(payload) \cup 1..origin = ((a + 1)..b) \cup 1..origin

(* A record that a delivery may append: messages up to the key at least,   *)
(* and none whose predecessors are not settled.                            *)
Deliverable(r) ==
  \E a, b \in 0..tail :
    a <= b /\ r.key <= b /\ Carries(r.payload, a, b) /\ Holds(Settled, a)

OutboxInv == \A r \in outbox : Deliverable(r)

(* So a known key says that everything up to it is settled.                *)
TopicInv == \A i \in 1..Len(topic) : Holds(Settled, topic[i].key)

(* The buffer holds what comes after the client's offset, up to what the   *)
(* server has sent at least.                                               *)
Buffered(from) == \E k \in from..tail : Carries(pending, Position, k)

BufferInv ==
  /\ Position \in 0..tail /\ cursor \in 0..tail
  /\ pc = "connect" => Buffered(Position)
  /\ pc = "stream" => Position <= cursor /\ Buffered(cursor)
  /\ pc = "stream" /\ offset = Now /\ pending # <<>> => 0 < cursor
  /\ pc \in {"send", "save", "persist"} => pending = <<>>
  /\ pc = "down" => pending = <<>>

(* Memory and file agree except while a save is under way, and all they    *)
(* cover is settled.  Nothing is saved before the first record.            *)
StoreInv ==
  /\ Holds(Settled, mem)
  /\ disk <= mem /\ mem <= tail
  /\ pc \in {"connect", "stream", "send", "save", "done"} => disk = mem
  /\ pc \in {"connect", "stream", "done"} =>
       mem = Position \/ (mem = 0 /\ Position = origin)
  /\ pc \in {"send", "save", "persist"} =>
       /\ record.key = offset /\ cursor = offset /\ 0 < record.key
       /\ mem <= record.key
  /\ pc = "send" => record \in outbox
  /\ pc = "save" => Holds(Settled, record.key)
  /\ pc = "persist" => mem = record.key

StopInv ==
  /\ pc \in {"stream", "send", "save", "persist"} /\ stop => closed /\ offset = tail
  /\ pc = "done" => closed /\ offset = tail

(* The stream begins before whatever is stored or read.                    *)
OriginInv ==
  /\ origin \in 0..tail
  /\ configured = 0 => origin = 0 /\ offset # Now
  /\ offset = Now => mem = 0
  /\ mem # 0 => origin <= mem
  /\ disk # 0 => origin <= disk
  /\ pc \notin {"down", "failed"} => origin <= Position

IInv ==
  /\ TypeOK
  /\ OutboxInv /\ TopicInv /\ BufferInv /\ StoreInv /\ StopInv /\ OriginInv
  /\ FirstDeliveriesInOrder

(* ... and, when no response is truncated, what a record is made of: at    *)
(* most the messages the server puts before one checkpoint.                *)
Segment(r) ==
  \E a \in 0..(r.key - 1) : r.payload = Run(a, r.key) /\ r.key <= a + MaxBatch

SegmentInv ==
  ~truncates =>
    /\ pc \in {"down", "connect"} => pending = <<>>
    /\ pc = "stream" => pending = Run(Position, cursor) /\ cursor <= Position + MaxBatch
    /\ \A r \in outbox : Segment(r)
    /\ \A i \in 1..Len(topic) : Segment(topic[i])

(* The bridge delivers at least once, even to a consumer that drops known  *)
(* keys.  What came before the stream began counts as delivered: nobody    *)
(* asked for it.                                                           *)
Abstract == INSTANCE AtLeastOnce
  WITH published <- tail, delivered <- Settled, committed <- disk

ImplementsAtLeastOnce == Abstract!Spec
=============================================================================
