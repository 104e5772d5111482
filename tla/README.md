# A TLA+ verification of durable-streams-kafka-bridge

The bridge subscribes to Durable Streams, forwards what it reads to Kafka, and
keeps one resume offset per stream in a local file. This directory holds TLA+
models of its parts, the TLC configurations that check them on small
instances, and proofs, checked by TLAPS, of the results that matter most.

Paths below are relative to `src/crates/`; `bridge/` is
`durable-streams-kafka-bridge/src/` and `client/` is
`durable-streams-client/src/`.

## The system

| component | code | state | operations | interacts with |
|---|---|---|---|---|
| offset store | `bridge/offset_store.rs` | map in memory, two locks, the offset file and its temporary file | `open`, `load`, `save` | every forwarder and discovery task shares one |
| forwarder task | `bridge/bridge.rs` | `pending_payload` | `run_stream`, `handle_checkpoint` | pulls the subscription, sends to Kafka, then saves the offset |
| subscription | `client/stream.rs` | resume offset, `should_stop` | `subscribe`: connect, read, connect again | transport, parser; yields events to its task |
| SSE parser | `client/protocol/sse.rs` | byte buffer, event type, data lines | `push`, `finish` | one per response |
| transport and retry | `client/transport.rs`, `retry.rs`, `error.rs`, `protocol/headers.rs` | attempt counter | `execute_with_retry` | HTTP server, clock |
| main loop | `bridge/app.rs` | `JoinSet`, spawn channel, signal listener | `run` | spawns and joins all tasks |
| discovery | `bridge/discovery.rs` | `pending_payload`, `active_paths` (shared) | `run_discovery`, `process_single_event` | subscription, store, spawn channel |
| start and preflight | `bridge/app.rs` | none of its own | `from_path`, `run` up to its loop, `run_preflight` | configuration, client, sink, store; hands each stream its topic |
| Kafka sink | `bridge/kafka.rs` | the producer | `new`, `send`, `preflight` | broker |
| topic and key mapping | `bridge/topic.rs` | none | `resolve_topic`, `message_key` | |
| configuration | `bridge/config.rs` | none | `from_path`, `validate` | |
| metadata and read calls | `client/stream.rs` | none | `metadata`, `read` | preflight uses the first |
| client types and construction | `client/types/`, `client/client.rs` | none | `StreamPath::new`, `Offset::from`, `with_config` | |

What is hard here is what happens between two awaits. A task can be overtaken
by another one at each of them, the process can stop at each of them, and what
was sent to Kafka lives on after the process that sent it. The properties that
make the components correct:

- *offset store*: a save that returned Ok survives a crash; the file always
  parses, after a shutdown too; no save overwrites a newer entry of another task;
  every save ends.
- *all tasks over one store*: a restart passes over nothing but what some task of the path
  has handled or was configured to begin behind, and a task alone on its path loses
  nothing to the others.
- *configuration and start*: a stream goes to the topic the README's precedence gives;
  a bridge that runs has checked what its preflight promises; a config that passes
  validation fails nothing later for a reason validation could know.
- *forwarder*: an offset on disk covers only messages that are in Kafka, and a consumer
  that drops the records whose key it knows has them all; messages are first delivered in order; everything is forwarded some time.
- *parser*: the events do not depend on how a response is cut into chunks.
- *transport*: retries are spent as the policy says, and a bounded call returns.
- *main loop and discovery*: no forwarder beside the ones a path has, none forgotten,
  errors end the bridge.

`PROJECT.json` lists, under `hazards`, each point of the code where one of
these could go wrong, with the property that looks at it.

## Modules

    DurableOffsets   (abstract)  <- OffsetStore  <- OffsetStoreProofs
    SavedMap         (contract)  <- OffsetStore, <- SavedMapProofs
                                    SharedStore
    AtLeastOnce      (abstract)  <- Forwarder    <- ForwarderProofs
    App              main loop, discovery,       <- AppProofs
                     forwarders as black boxes
    AtLeastOnce      (abstract)  <- SharedStore  <- SharedStoreProofs
    Naming  <- Startup           config to       <- StartupProofs
                                 running bridge
    Transport                    one call,       <- TransportProofs
                                 with time
    SseParser                    one response,   <- SseParserProofs
                                 cut into chunks

`A <- B` reads: B is shown to implement A. Forwarder and SharedStore use the offset store
through the contract `SavedMap`, which OffsetStore implements: a save changes memory, the
file catches up with this save or with another task's, and the save returns after
that. Forwarder uses the subscription as SseParser and Transport describe it:
`Connect` is a call that returned a response, `ConnectFails` one that did not,
`Data`, `EmptyCheckpoint` and `Checkpoint` are parsed events. `MC*` modules
give constants their values for TLC.

### OffsetStore

One action per await of `save`: `Insert` (the map, under the state lock),
`CreateDir`, `LockWriter`, `Serialize` (under both locks), `OpenTemp` and
`FillTemp` (the two halves of `fs::write`, between which the temporary file is
torn), `Rename`, `Return`; an error action for each I/O operation; `Crash` and
`Open`. Offsets are opaque to the store, so the n-th save of a path writes the
number n, and "newer" is "greater". A crash is one of the process: files keep
what was written to them. The code calls no fsync, so nothing is said of a crash
of the machine.

`Abort` is the end of `run`: `abort_all`, or the drop of the `JoinSet`, cancels the
tasks. What tokio runs on its blocking pool goes on, so a task that waits for a file
operation (`InFile`) has that one operation ahead of it and nothing after it, while its
guard of the writer lock is already gone. All tasks are cancelled in one step. In the
code `abort_all` reaches them one after the other, and a task not yet reached could
take the lock and write the temporary file beside the orphaned write; this window is
not modelled.

`DurableOffsets` is the promise: per path a latest, a durable and an
acknowledged save; the durable one never goes back and is never behind the
acknowledged one. The mapping is `latest <- mem, durable <- file`.

### SavedMap

The contract between the store and the tasks: a save sets an entry (`Insert`), copies the
map (`Serialize`) and replaces the file by the copy (`Replace`), one task at a time between the
last two; an error or the end of the process ends tasks anywhere (`End`), and the next
process starts from the file (`Recover`). OffsetStore implements it, where
the steps of a save before and after its copy are stutters and `copy` is what
the holder of the lock writes. SharedStore implements it as well: its tasks use the store
in no other way. What a task alone on its path may rely on, `SavedIsOnDisk` and
`FileFollowsEntry`, is proved from the contract, and so holds in both. Forwarder's `Save`,
`Persist` and `SaveReturns` are a save as such a task sees it.

### SharedStore

All the tasks of a process over one store, where paths may coincide: `validate` lets two
`[[streams]]` name one path, and a control stream may be a static one too. What a
task does between two offsets is one step (`Handle`); a save is its insert into the
shared map (`Save`), the copy it takes of all entries (`Serialize`) and the write of that
copy (`Persist`), with other tasks in between, so that a task may write an older entry of
another one; `SaveFails` leaves the entry in memory, where a save of another task may
find it before the bridge ends; `Begin` reads the map in memory, where others may have
saved since the start, and without an entry takes the offset `From` that is configured for the
task: two tasks of one path may differ in it. At "now" the task begins where the
subscription that brings its first checkpoint finds the end of the stream (`Subscribe`).
A forwarder passes over a checkpoint without data, a discovery task (`Watchers`) saves it; `Stop` is a kill or the end of the bridge after the error of
a task, and a write under way is completed or not. For a task alone on its path the module
implements `AtLeastOnce`, as Forwarder does in detail for one task. For a shared path it
does not, and `NothingSkipped` is what is left: a message behind the stored offset has been
handled by some task of the path, or is one that such a task was configured to begin
behind (`PassedOn`). The second half matters: see "Met on the way" below.

### Forwarder

Messages are numbered, an offset is the number of the last message before it,
and a payload is the sequence of messages whose bytes it holds. The task's
program counter names where it waits: `connect`, `stream`, and the three awaits of
`handle_checkpoint`, `send`, `save` and `persist`. The server appends
messages, closes the stream, and chooses where its data events and checkpoints
end; a control event comes after data, or when there is no more data. Kafka is a log
and the set `outbox` of records whose fate is open: the broker may append such a
record late, again (`enable.idempotence` is not set), or never, also after `send`
has returned an error and after the process that sent it is gone. `Crash` stops
the process anywhere; a task that fails ends the bridge (`Exit`); `Start` reads
the stored offset.

A behaviour has responses that may end between a data event and its checkpoint, or has
none (`truncates`, one of the constant `Truncates`). The code keeps `pending_payload`
across such an end and then reads the same data again, so messages are twice in one
record. Nothing is lost by it, but a record is then not the segment between two
offsets, so `SegmentInv` and `RecordIsSegment` are about behaviours without it.

A record is keyed by the checkpoint that ends its batch. After a restart the server may put
its checkpoints elsewhere, and the same messages come again in other records, under
other keys or under one that is known with another payload. `Kept` is what a consumer has that keeps
the first record of each key only. `FirstOfKeySuffices` says that this is enough, and
what the forwarder is shown to deliver at least once is `Kept`, not only what is in the topic.
`KeyIdentifiesRecord`, that a message never comes under two keys, is violated.

The configured offset is the start or "now" (`configured`, one of the constant
`Configured`). The server resolves "now" anew for every request that carries it, and
the client carries it until a checkpoint gives it a number. `origin` is a history
variable: where the stream begins for the bridge, which is 0, or the last resolved
"now". What the forwarder promises starts there. `BeginsOnce` says when it may move: only
for "now", and only while no offset is stored.

### App

The `select!` loop with its branches (`SpawnForwarder`, `JoinOk`, `JoinError`,
`CtrlC`), the spawn channel, and one discovery task per `[[discovery]]` block. `streams` is the
number of `[[streams]]` entries of each path: `active_paths` is seeded with the paths, but a
forwarder is spawned for each entry, and `validate` does not refuse two with one path. A
forwarder is only running, finished or failed. An event of a control stream is
the path it announces or `Other`, one that filter, `path_field` or validation
reject. A discovery task begins at its stored offset or at the configured one
(`StartOffset`), the start or "now". `ProcessEvent` is `process_single_event` up to the end of its
critical section and `RequestSpawn` its send, so other tasks come in between.
In a control stream of `SplitPayload` several data events may come before a checkpoint, and
two concatenated JSON texts are skipped, as in the code. The offset of a control stream is
saved in one step, since `DurableOffsets` puts it into the file at some moment of the save.
Each turn of `select!` makes a new `ctrl_c` future; a signal that arrives while another branch
is taken leaves no trace, so `CtrlC` may be taken in any turn, or never.

### SseParser

The body of a response is a sequence of tokens: lines, and the bytes CR and LF that
end them, in any mixture. `Receive` delivers any number of them as a chunk. `push`
is a step per line, with the rule of `next_line` for a CR at the end of the buffer,
and drops its events on an error. The data lines of an event are kept as a
sequence: `Decodable` and `ControlJson` say which of them, joined, decode or parse.

The reference, `Events`, looks at the whole body by its positions: which ends a line,
which lines are empty, and what lines stand since the last empty one. It follows
`next_line` in that endings are CR, LF or CR LF, and `finish` in that the end of the
body finishes an event and a line without an ending counts for nothing.
`SplitEndings` says whether a chunk may end inside a CR LF.

### Transport

One call, `metadata`, `read` or the request of `subscribe`, with
`execute_with_retry` and discrete time: requests have deadlines, sleeps end, and
time does not pass while the client can act. The server may answer with any
status and Retry-After, at any time, not at all, or break the connection before
or in the body. After a success `metadata` looks for its header (`Success`), `read`
for the body too (`Bytes`), both outside of the retries.

### Naming and Startup

`Naming` has the functions of names: `resolve_topic`'s default, `sanitize_topic`,
the topic and path of a discovered stream, `StreamPath::new`, `Offset::from`. A text
is a sequence of characters, told apart as far as the code does, and a literal of
the code is one character.

`Startup` is a start, one action per await or fallible call, in the code's order: `Load`
(`from_path` with `validate` and `resolve_default`), `NewClient`, `NewSink`,
`CheckStream` per static stream, `CheckBroker`, `CheckTopic` per topic, `OpenStore`,
which also fills `active_paths` and hands every stream its runtime. `Announce` is the
value side of `process_single_event` (App has its interleavings). `config` and `host`
are chosen initially; `gone` are the streams, topics and the broker that are not
there, and `WorldChanges` lets any come and go during the preflight. A topic that is not
there may still be named, with an error, in the broker's answer, which the code does not look
into (`host.names_missing`). `asked` is how far the loop of a check has come, and `seen` what
was there when it was asked for. `ReadyMeansChecked` says that all of it was, but of the topics
only if the cluster names none it does not have; without this condition it is
`ReadyMeansTopicsExist`, and violated.

## Runs

| run | instance | what it shows |
|---|---|---|
| `store` | 3 tasks, 2 of them on one of 2 paths, 2 saves per path in memory | `AckedIsDurable`, `FileNeverTorn`, `FileNeverGoesBack`, `SaveEnds`, the refinement |
| `shared` | a control stream that is a static stream too (a discovery task from "now", a forwarder from the start), another stream (1 task), 2 messages each, 2 starts | `NothingSkipped`, `AloneAtLeastOnce` |
| `forwarder` | from the start and from "now", with and without truncated responses, 3 messages, up to 2 between checkpoints, a buffer of 3, 2 starts | `NoLoss`, `FirstOfKeySuffices`, `FirstDeliveriesInOrder`, `RecordIsSegment`, `SegmentInv`, `DoneMeansForwarded`, `NeverResumesEarlier`, `BeginsOnce`, the refinement, `ForwardedEventually`, `ClosedStreamEnds` |
| `app` | a path with no or two `[[streams]]` entries, 2 control streams of one event, one of them from "now" and with split payloads, 2 starts | `NoSecondForwarder`, `ActiveIsForwarded`, `DiscoveredEventually`, `ErrorEndsBridge` |
| `startup` | 448 configs on 9 hosts, 8 events | `RoutedAsDocumented`, `ReadyMeansChecked`, `ValidatedMeansUsable`, `SoundStarts` |
| `transport` | GET and HEAD, 4 attempts, timeout 2, backoff 1 to 3, Retry-After 0 or 5 | `RetriesAreSpent`, `TimeIsBounded`, `RetryAfterHonoured`, `CallReturns` |
| `sse` | 1779 bodies: two events of eight shapes with one or two kinds of endings, cut off after any token; all cuts into chunks that respect CR LF | `EventsAsSent`, `FailsOnInvalid`, `PushEnds` |
| `forwarder_keys` | from the start, whole responses, 2 messages, up to 2 between checkpoints, 2 starts | violation |
| `startup_topics` | as `startup` | violation |
| `app_restart` | one control stream, 2 starts | violation |
| `app_complete` | one control stream, 1 start | violation |
| `sse_crlf` | as `sse`, chunks may end inside a CR LF | violation |

Each module with proofs has its inductive invariant, `IInv`, checked too; the type
invariant, `TypeOK`, is its first part.

Bounds and why they are enough. Two tasks on one path and one on another are all
the ways tasks meet in the store; a second save per path is one that can overtake
the first. Three messages make a record of two and its neighbour, or two
deliveries that go wrong around a third; a failure needs one start to follow,
and the effects of a failed run show in the next one; the proofs cover all
larger values. The broker repeats a record only while the topic is shorter than
`MaxTopic`; first appends are not bounded. `MaxBuffer` bounds the messages a truncated response
may leave in the buffer, repeated ones included. Two control streams are two tasks that race
for one path, and two entries make it one that is active beforehand, with two forwarders. In
`shared` the pair on one path differs in kind and in where it begins; two forwarders on one
path are among what is proved. The clock bound of
`transport` (30) is above the longest call (23).

The configurations of `startup` are five families, each with all combinations of the
settings that meet in one question: `Routing` (paths, topics, targets, default
topics, also blank, missing and unusable ones), `Offsets`, `Discovering` (filters,
prefixes, templates), `Checking` (which preflight, over no, two different, or two equal streams and
topics), `Connecting` (URL, Kafka settings, credentials). A host has at most one
fault, since the first one ends the start. Texts have up to five characters: a slash
inside and at an end, a character to replace, a legal one.

Only `store` checks deadlock: the other instances really stop, when the stream
is closed and forwarded, when no start is left, when the call has returned, or
when a start has failed or all that is announced is forwarded.

### Disagreements

Five runs find what a doc, a comment or a test says violated.

- `forwarder_keys`. README.md:51-60 and :84 have consumers tolerate duplicates by key. The
  key is the checkpoint that ends a batch (`bridge.rs:103`), and a message that is read
  again under another checkpoint has another key. A consumer loses nothing by
  dropping known keys, but does not recognise such a duplicate.
- `startup_topics`. README.md:258 and `kafka.rs:72-73` say that a missing topic fails the
  preflight if topics are required. `kafka.rs:93` compares names, and does not look at the error
  that comes with one.
- `app_restart`. README.md:184-186 says that a restart re-reads the control
  stream. It resumes behind the announcements it has processed
  (`discovery.rs:39-42, 66-68`), and their streams get no forwarder.
- `app_complete`. app.rs:39 says `run` ends when all tasks complete. The `ctrl_c`
  branch has no condition, so `else` is never taken.
- `sse_crlf`. The test at `sse.rs:152` wants CR LF responses parsed.
  `next_line` takes a CR at the end of the buffer for a whole ending, and the LF
  of the next chunk for an empty line: the event's data is dropped, and the
  checkpoint after it is saved.

Met on the way, and to be had by changing a constant or an invariant:

- README.md:83-86 promises at-least-once delivery. With offset "now" nothing is saved
  before the first record (`bridge.rs:101`), and a restart begins at a later "now". It
  needs no restart either: a response that ends after data and before its checkpoint
  leaves the data in the buffer, the client asks for "now" again
  (`client/stream.rs:104-112`), and the record then holds messages from before and
  after a gap, under one key. `NoLoss` with `1..disk` instead of
  `(origin + 1)..disk` is violated in `forwarder`; from `origin` on it holds.
- A control stream may be a static stream too (the TODO at `app.rs:115-117`), with one
  entry in the store. Its forwarder then resumes, after a restart, behind messages only the
  discovery task has seen (`\A t \in Tasks : 1..Behind(disk[PathOf[t]]) \subseteq done[t]` is
  violated in `shared`). With `default_offset = "now"` not even that one has: its first
  checkpoint, of a subscription at the end of the stream, is saved without any data
  (`discovery.rs:65-68`), and a forwarder that was to read from the start begins there after a
  restart. Nothing in the repository says it may not.
- Two `[[streams]]` entries with one path, which `validate` accepts, are two forwarders from the
  start (`app.rs:100-113`): every message goes to Kafka twice, and the stored offset goes back when
  the slower one saves. README.md does not speak of them.
- README.md:129 and :168 and `bridge.example.toml` write `offset = "start"`. `Offset::from`
  knows "-1" and "now" only (`types/offset.rs:53`), so "start" is sent to the
  server as it is.

## Fairness

- *store*: a task that is inside a save is polled and the blocking pool answers
  (weak fairness); the writer lock is tokio's, which is first in, first out
  (strong fairness of `LockWriter`). Nothing is assumed of when a task saves, of
  failures or of crashes.
- *forwarder*: the process is started again after it ended (by a supervisor; the
  bridge does not do it), the steps of a task are taken, and a broker that is sent a record
  nobody has given up on appends it: weak fairness of `Progress`, where the place the task
  stands at decides which of these is next. A server that ends its responses again and
  again sends its events in some of them: strong fairness of `Data` and of the checkpoints.
  Failures are bounded by `MaxStarts`, and no property is claimed if they never end.
- *app*: `select!` polls its branches in random order, so one that is ready again
  and again is taken (strong fairness of `SpawnForwarder` and `JoinError`). The steps of a
  discovery task are taken (weak fairness), and its server sends its events in some of its
  responses (strong fairness, as above). Nothing makes a forwarder end, or a signal come.
- *startup*: a step of the start is taken (weak fairness), since every await before the
  loop has a timeout; the world may come and go, and `SoundStarts` speaks of starts
  during which nothing is gone.
- *sse*: `push` has no await. *transport*: time passes and timers fire; no
  fairness of the server is assumed. *shared*: none, it has safety only.

## Proofs

The eight `*Proofs` modules hold for every value of the constants, with no bound on
tasks, paths, saves, messages, batches, control streams, starts, configurations,
attempts or time. They assume the constants' `ASSUME`s, and one thing more:

- for the parser `EndingsStayWhole`: no chunk ends inside a CR LF, or the server
  writes none. `sse_crlf` shows what happens without it. Type correctness does not need it.

All go the same way: an inductive invariant `IInv` in named parts, checked by TLC
first, then `Init => IInv`, `IInv /\ [Next]_vars => IInv'`, one step per action,
and each result from it.

- *OffsetStore*. `AckedIsDurable` is not inductive: whether a rename keeps it depends
  on the copy being renamed. `IInv` says that the writer lock has one
  holder (`LockInv`), that the copy the holder writes lies between file and
  memory and contains its own save (`SnapInv`), that the temporary file is
  this copy when it is renamed (`TmpInv`), and that file and memory stay in
  order (`FileInv`). `AbortInv` says what is left after a shutdown: tasks with one file
  operation ahead of them, and no lock.
- *SavedMap*. `EntryInv`: one task writes (`OneWriter`), and its copy has the entry of a
  task that is alone on its path as it is in memory or in the file already (`CopyInv`).
  That is inductive because the next save of this task begins when its last one has
  returned, and no copy taken before is left then.
- *SharedStore*. The results need to know where memory, the copies and the tasks' offsets
  stand: `CoveredInv` (whatever they say is behind, some task of the path has handled, or was
  configured to begin behind), `FromInv` (what is configured is in the stream) and
  `AloneInv` (file, entry and offset of a task that is alone are in order). That the file
  gets no older entry of such a task is `EntryInv` of the contract: `EntryKept` takes its step
  from SavedMapProofs, instantiated, since every step here is one there
  (`StepKeepsContract`).
- *Forwarder*. `NoLoss` needs what every record under way may hold
  (`OutboxInv`: messages after some a, where all up to a are settled, up to its key at
  least), what the keys in the topic say (`TopicInv`: all up to a known key is settled),
  what the buffer holds (`BufferInv`), and where memory and file stand at each await
  (`StoreInv`). Settled is what a consumer has that drops known keys, or came before
  `origin` (`Settled`). That such a consumer drops a record loses nothing, since all up to the
  key is settled by `TopicInv` and the offset saved for it goes no further: `KeysSuffice` is
  proved first and `NothingIsLost` follows from it. Deliveries and a later `origin` only add to
  what is settled, which
  carries `OutboxInv` through late and repeated appends and through every new "now".
  That nothing stored is left behind by a new "now" is `OriginInv`. For a stream read from its
  start `origin` is always 0, and `NothingIsLostFromTheStart` says what this means. What
  records are made of when no response is truncated has an invariant of its own,
  `SegmentInv`: buffer and records are runs of messages, of at most `MaxBatch`.
- *App*. `NoSecondForwarder` and `ActiveIsForwarded` rest on where a path is between
  active_paths and its forwarder: a task is about to send it (`SendingInv`), or
  it is in the channel once (`QueueInv`), or it has been spawned (`SpawnedInv`: as often as it has entries, or once), never
  two of these. That holds because the lookup and the insert are one critical
  section: with a separate insert, `SendingInv` fails for two tasks with one path.
- *Startup*. `RoutedAsDocumented` needs that what `Load` has validated (`ValidInv`) is
  still what the runtimes come from (`RuntimesInv`) and what `run_stream` gets
  (`RoutesInv`): `resolve_topic` alone falls through to the next rule when a target has no
  topic. `ReadyMeansChecked` needs what the preflight has asked for, and found, at each of its
  steps (`SeenInv`). `FoundInv`, that discovered topics have legal characters only, rests on lemmas
  about `Sanitized` and `DefaultTopic`, and on `NamingAssumption`, which characters the
  code's literals consist of.
- *Transport*. `CountInv` relates requests, attempts and the outcomes that are not
  retried; `TimeInv` bounds clock and deadlines at each point of the k-th attempt by
  `Used(k)`, the time of as many attempts and waits; `EarliestInv` keeps the time
  the server has asked for before the end of the sleep.
- *SseParser*. `EventsAsSent` compares what was yielded with the events of the whole
  body, most of which the parser has not seen. `IInv` relates the two at `Taken`, the
  position up to which lines have been taken: the buffer is the body from there
  (`BufferInv`), type and data lines are what the reference finds since the last empty
  line (`LinesInv`), and what was yielded are the events up to there (`OutInv`). A
  step moves `Taken` over a line with all of its ending (`LineTaken`), which adds a
  line to the current event (`LineRead`) or ends it (`EventKept`, `EventsGoOn`). For
  an invalid line the proof finds the end of its event, which the parser never
  reaches. `IInv` has `EventsAsSent` and `FailsOnInvalid` as parts, for the states after an
  error, where the rest says nothing. The reference picks positions out of a set
  (`Nth`, `Pick`) and is not recursive, so that each of these facts follows
  from ones about finite sets, without induction over the text.
- *Refinement*. `StoreImplementsCounters`, `StoreKeepsContract`, `TasksKeepContract`,
  `ForwarderImplementsAtLeastOnce` and `AloneImplementsAtLeastOnce` show every step to be a step of the abstract
  specification or a stutter of it. In `ForwarderImplementsAtLeastOnce` what is settled
  counts as delivered, so a new "now" is a delivery of messages nobody asked for.
  `LoneEntryIsSafe` puts two of them together: what SavedMapProofs proves of the contract
  holds of the store with its locks, files, errors and shutdown.

Only model-checked: the liveness properties (`SaveEnds`, `ForwardedEventually`,
`ClosedStreamEnds`, `DiscoveredEventually`, `ErrorEndsBridge`, `SoundStarts`, `PushEnds`,
`CallReturns`), since the prover does not do liveness under fairness. Some have their safety part
proved: a call that waits is within its time (`TimeIsBounded`), a push that goes on has a shorter
buffer (`PushAdvances`), a writer lock that a task waits for is free or with a task
that gives it back (`LockIsGivenBack`), a start fails only for a reason
(`FailsForAReason`). Every invariant, action property and refinement
that a passing run checks is also proved. `KeepsContract` of OffsetStore and of SharedStore is the
one refinement that is proved and not part of a run.

## Not modelled

- The syntax of TOML and the defaults of serde: `Startup` begins with a file that
  parses or does not. JSON values are modelled as far as discovery looks into
  them; base64 and the content of messages are valid or not.
- The format of `message_key` (in Forwarder the key is the offset in it), response headers that
  are only passed on, logging, argument parsing and the exit code (`main.rs`).
- The inside of reqwest and librdkafka: their outcomes are nondeterministic.
- `load` as an action of its own: it reads the map under the state lock, once,
  as a task starts (`Start` of Forwarder, `Begin` of SharedStore).
- Two `[[discovery]]` blocks with one control stream, in App; SharedStore has any tasks on
  any paths.
- The number of requests a server provokes that ends its responses at once, and the u32
  multiplier of the backoff at its limit (`retry.rs:33-35`, from about 33 attempts on).
- A crash of the machine, and the moment in which `abort_all` has reached one task and
  not yet the next.

## Plan

Done: the modules above, in the order OffsetStore, Forwarder, App, SseParser,
Transport, SharedStore, Startup, SavedMap. Left: `abort_all` task by task, with files as
inodes, so that an orphaned write and a save of another task can meet in the temporary file.
