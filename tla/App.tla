--------------------------------- MODULE App ---------------------------------
(***************************************************************************)
(* The bridge process: the main loop of app.rs, which runs the forwarders  *)
(* of the static streams, the discovery tasks (discovery.rs), and the      *)
(* forwarders the discovery tasks ask it to spawn.                         *)
(*                                                                         *)
(* A forwarder is only running, finished or failed here (Forwarder says    *)
(* what it does).  A control stream is a log of events.  An event is the   *)
(* stream path it announces, after filter, path_field, prefix and          *)
(* validation, or Other, an event they reject.                             *)
(***************************************************************************)
EXTENDS Naturals, Sequences

CONSTANTS
  Paths,          \* stream paths
  Entries,        \* how many [[streams]] entries a path may have
  Blocks,         \* the [[discovery]] blocks, one control stream each
  FromNow,        \* the blocks whose default_offset is "now"
  SplitPayload,   \* those that may get several data events per checkpoint
  Other,          \* an event that announces no stream
  None,           \* no path, no stored offset
  Now,            \* the offset "now"
  MaxLog,         \* bound: events of a control stream
  MaxStarts       \* bound: starts of the process

ASSUME AppAssumption ==
  /\ Entries \subseteq Nat
  /\ FromNow \subseteq Blocks /\ SplitPayload \subseteq Blocks
  /\ Other \notin Paths
  /\ None \notin Paths \cup Nat /\ Now \notin Nat
  /\ MaxLog \in Nat /\ MaxStarts \in Nat

VARIABLES
  streams,   \* config.streams: the number of entries with each path
  log,       \* server: the control stream of each block
  closed,    \* server: the blocks whose control stream is closed
  disc,      \* the discovery tasks
  disk,      \* stored offset of each control stream, or None
  active,    \* active_paths
  queue,     \* the spawn channel
  spawned,   \* history: forwarders spawned for each path in this run
  running,   \* the forwarders of each path that run
  finished,  \* number of tasks that returned Ok and were not joined yet
  failed,    \* whether one returned an error and was not joined yet
  proc,      \* "down", or "select": main waits in select!
  starts     \* how often the process was started

server == <<log, closed>>
tasks  == <<running, finished, failed>>
main   == <<proc, starts>>
vars   == <<streams, server, disc, disk, active, queue, spawned, tasks, main>>

Static == {p \in Paths : streams[p] > 0}

(* The locals of run_discovery.  `offset` is where the client subscribes   *)
(* next, `cursor` how far it has read.  `parts` counts the data events in  *)
(* pending_payload and `pending` are the events they parse into; `todo`    *)
(* are those process_discovery_event has still to look at, and `sending`   *)
(* is a path it entered into active_paths and has not sent yet.            *)
DiscPC == {"off", "connect", "stream", "process", "save"}

DiscState ==
  [pc : DiscPC, offset : Nat \cup {Now}, cursor : Nat, parts : 0..2,
   pending : Seq(Paths \cup {Other}), todo : Seq(Paths \cup {Other}),
   sending : Paths \cup {None}]

Off == [pc |-> "off", offset |-> 0, cursor |-> 0, parts |-> 0,
        pending |-> <<>>, todo |-> <<>>, sending |-> None]

TypeOK ==
  /\ streams \in [Paths -> Nat]
  /\ log \in [Blocks -> Seq(Paths \cup {Other})]
  /\ closed \subseteq Blocks
  /\ disc \in [Blocks -> DiscState]
  /\ disk \in [Blocks -> Nat \cup {None}]
  /\ active \subseteq Paths
  /\ queue \in Seq(Paths)
  /\ spawned \in [Paths -> Nat]
  /\ running \in [Paths -> Nat]
  /\ finished \in Nat
  /\ failed \in BOOLEAN
  /\ proc \in {"down", "select"}
  /\ starts \in Nat

Init ==
  /\ streams \in [Paths -> Entries]
  /\ log = [b \in Blocks |-> <<>>]
  /\ closed = {}
  /\ disc = [b \in Blocks |-> Off]
  /\ disk = [b \in Blocks |-> None]
  /\ active = {} /\ queue = <<>>
  /\ spawned = [p \in Paths |-> 0]
  /\ running = [p \in Paths |-> 0]
  /\ finished = 0 /\ failed = FALSE
  /\ proc = "down" /\ starts = 0

-----------------------------------------------------------------------------
(* The server of the control streams appends an event.                     *)
Announce(b, e) ==
  /\ b \notin closed
  /\ Len(log[b]) < MaxLog
  /\ log' = [log EXCEPT ![b] = Append(@, e)]
  /\ UNCHANGED <<streams, closed, disc, disk, active, queue, spawned, tasks, main>>

-----------------------------------------------------------------------------
(* run_discovery resumes from its control stream's own stored offset, or   *)
(* begins at the configured one: the start of the stream or "now".  (For   *)
(* another configured offset, number the events from there.)               *)
StartOffset(b) ==
  IF disk[b] # None THEN disk[b] ELSE IF b \in FromNow THEN Now ELSE 0

(* Mutant: active_paths starts empty.                                      *)
StartUnseeded ==
  /\ proc = "down" /\ starts < MaxStarts
  /\ proc' = "select"
  /\ starts' = starts + 1
  /\ active' = {}
  /\ running' = streams
  /\ spawned' = streams
  /\ disc' = [b \in Blocks |-> [Off EXCEPT !.pc = "connect", !.offset = StartOffset(b)]]
  /\ UNCHANGED <<streams, server, disk, queue, finished, failed>>

(* run, up to its loop: the store is opened, active_paths seeded with the  *)
(* static paths, and a forwarder for each [[streams]] entry and a task for *)
(* each discovery block are spawned.  (A preflight or an open that fails   *)
(* leaves all as it was.)                                                  *)
Start ==
  /\ proc = "down" /\ starts < MaxStarts
  /\ proc' = "select"
  /\ starts' = starts + 1
  /\ active' = Static
  /\ running' = streams
  /\ spawned' = streams
  /\ disc' = [b \in Blocks |-> [Off EXCEPT !.pc = "connect", !.offset = StartOffset(b)]]
  /\ UNCHANGED <<streams, server, disk, queue, finished, failed>>

(* The process is gone, with its tasks, its channel and its memory.        *)
Down ==
  /\ proc = "select"
  /\ proc' = "down"
  /\ disc' = [b \in Blocks |-> Off]
  /\ active' = {} /\ queue' = <<>>
  /\ spawned' = [p \in Paths |-> 0]
  /\ running' = [p \in Paths |-> 0]
  /\ finished' = 0 /\ failed' = FALSE
  /\ UNCHANGED <<streams, server, disk, starts>>

Kill == Down

(* One turn of select! takes one ready branch, in no fixed order, and      *)
(* drops the others.  A SIGINT may end the bridge in any turn.  One that   *)
(* comes as another branch is taken is missed, and leaves nothing behind:  *)
(* the ctrl_c of the next turn is a new one.                               *)
CtrlC == Down

(* Mutant: the request is lost when a task is joined in the same turn.     *)
SpawnCancelled ==
  /\ proc = "select" /\ queue # <<>>
  /\ queue' = Tail(queue)
  /\ IF finished = 0
       THEN /\ running' = [running EXCEPT ![Head(queue)] = @ + 1]
            /\ spawned' = [spawned EXCEPT ![Head(queue)] = @ + 1]
       ELSE UNCHANGED <<running, spawned>>
  /\ UNCHANGED <<streams, server, disc, disk, active, finished, failed, main>>

(* Mutant: the forwarder is spawned when no task is left to wait for.      *)
SpawnWhenIdle ==
  /\ proc = "select" /\ queue # <<>>
  /\ \A b \in Blocks : disc[b].pc = "off"
  /\ \A p \in Paths : running[p] = 0
  /\ finished = 0 /\ ~failed
  /\ queue' = Tail(queue)
  /\ running' = [running EXCEPT ![Head(queue)] = @ + 1]
  /\ spawned' = [spawned EXCEPT ![Head(queue)] = @ + 1]
  /\ UNCHANGED <<streams, server, disc, disk, active, finished, failed, main>>

SpawnForwarder ==
  /\ proc = "select" /\ queue # <<>>
  /\ queue' = Tail(queue)
  /\ running' = [running EXCEPT ![Head(queue)] = @ + 1]
  /\ spawned' = [spawned EXCEPT ![Head(queue)] = @ + 1]
  /\ UNCHANGED <<streams, server, disc, disk, active, finished, failed, main>>

JoinOk ==
  /\ proc = "select"
  /\ finished > 0
  /\ finished' = finished - 1
  /\ UNCHANGED <<streams, server, disc, disk, active, queue, spawned, running, failed, main>>

(* Mutant: a task that failed is joined like one that is done.             *)
JoinErrorIgnored ==
  /\ proc = "select"
  /\ failed
  /\ failed' = FALSE
  /\ UNCHANGED <<streams, server, disc, disk, active, queue, spawned, running, finished, main>>

(* The first error ends the bridge, with every task in it.                 *)
JoinError == failed /\ Down

-----------------------------------------------------------------------------
(* A forwarder's run_stream returns.                                       *)
ForwarderEnds(p) ==
  /\ running[p] > 0
  /\ running' = [running EXCEPT ![p] = @ - 1]
  /\ \/ finished' = finished + 1 /\ UNCHANGED failed
     \/ failed' = TRUE /\ UNCHANGED finished
  /\ UNCHANGED <<streams, server, disc, disk, active, queue, spawned, main>>

-----------------------------------------------------------------------------
(* run_discovery.                                                          *)
At(b, pc) == proc = "select" /\ disc[b].pc = pc

(* The client subscribes at its offset: "now" is the end of the stream.    *)
Connect(b) ==
  LET o == disc[b].offset IN
  /\ At(b, "connect")
  /\ disc' = [disc EXCEPT ![b].pc = "stream",
                          ![b].cursor = IF o = Now THEN Len(log[b]) ELSE o]
  /\ UNCHANGED <<streams, server, disk, active, queue, spawned, tasks, main>>

(* A data event with the events up to n goes into the buffer.  One data    *)
(* event is one JSON text, and if that is an array, each item is an event. *)
(* Two texts after one another do not parse: all they announce is skipped. *)
Data(b, n) ==
  LET d == disc[b] IN
  /\ At(b, "stream")
  /\ d.cursor < n
  /\ b \in SplitPayload \/ d.parts = 0
  /\ disc' = [disc EXCEPT ![b] =
       [d EXCEPT !.cursor = n,
                 !.parts = IF d.parts = 0 THEN 1 ELSE 2,
                 !.pending = IF d.parts = 0
                               THEN SubSeq(log[b], d.cursor + 1, n) ELSE <<>>]]
  /\ UNCHANGED <<streams, server, disk, active, queue, spawned, tasks, main>>

(* A checkpoint takes the buffer and anchors the client at the offset it   *)
(* names, also when it began at "now".  An empty buffer goes straight on   *)
(* to the save.                                                            *)
Checkpoint(b) ==
  LET d == disc[b] IN
  /\ At(b, "stream")
  /\ disc' = [disc EXCEPT ![b] =
       [d EXCEPT !.pc = IF d.parts = 0 THEN "save" ELSE "process",
                 !.todo = d.pending,
                 !.pending = <<>>,
                 !.offset = d.cursor,
                 !.parts = 0]]
  /\ UNCHANGED <<streams, server, disk, active, queue, spawned, tasks, main>>

(* Mutant: the path is looked up, and entered only when it is sent.        *)
ProcessEventUnentered(b) ==
  /\ At(b, "process")
  /\ disc[b].sending = None /\ disc[b].todo # <<>>
  /\ LET e == Head(disc[b].todo) IN
       disc' = [disc EXCEPT ![b].todo = Tail(@),
                            ![b].sending = IF e \in active \cup {Other} THEN None ELSE e]
  /\ UNCHANGED <<streams, server, disk, active, queue, spawned, tasks, main>>

(* process_single_event, up to and with the critical section that enters   *)
(* the path into active_paths: an event that announces nothing and a path  *)
(* that is entered already are skipped.                                    *)
ProcessEvent(b) ==
  /\ At(b, "process")
  /\ disc[b].sending = None /\ disc[b].todo # <<>>
  /\ LET e == Head(disc[b].todo)
         new == IF e \in active \cup {Other} THEN None ELSE e
     IN /\ disc' = [disc EXCEPT ![b].todo = Tail(@), ![b].sending = new]
        /\ active' = active \cup ({new} \ {None})
  /\ UNCHANGED <<streams, server, disk, queue, spawned, tasks, main>>

(* ... and the send of the spawn request.  The channel is unbounded.       *)
RequestSpawn(b) ==
  /\ At(b, "process")
  /\ disc[b].sending # None
  /\ queue' = Append(queue, disc[b].sending)
  /\ disc' = [disc EXCEPT ![b].sending = None]
  /\ UNCHANGED <<streams, server, disk, active, spawned, tasks, main>>

(* The control stream's offset is saved after its payload was processed.   *)
(* It gets into the file somewhere within the save (DurableOffsets), a     *)
(* step here: a save cut short has taken it or not, and then fails.        *)
Saving(b) ==
  \/ At(b, "save")
  \/ At(b, "process") /\ disc[b].todo = <<>> /\ disc[b].sending = None

Save(b) ==
  /\ Saving(b)
  /\ disk' = [disk EXCEPT ![b] = disc[b].offset]
  /\ disc' = [disc EXCEPT ![b].pc = "stream"]
  /\ UNCHANGED <<streams, server, active, queue, spawned, tasks, main>>

(* The response ends before the stream does: the client connects again.    *)
Eof(b) ==
  /\ At(b, "stream")
  /\ b \in SplitPayload \/ disc[b].parts = 0
  /\ disc' = [disc EXCEPT ![b].pc = "connect"]
  /\ UNCHANGED <<streams, server, disk, active, queue, spawned, tasks, main>>

(* The last checkpoint has closed the control stream: run_discovery        *)
(* returns Ok.  The server closes the stream in this step at the latest:   *)
(* nothing sees it closed before.                                          *)
ControlEnds(b) ==
  /\ At(b, "stream")
  /\ disc[b].parts = 0 /\ disc[b].offset = Len(log[b])
  /\ closed' = closed \cup {b}
  /\ disc' = [disc EXCEPT ![b] = Off]
  /\ finished' = finished + 1
  /\ UNCHANGED <<streams, log, disk, active, queue, spawned, running, failed, main>>

(* The subscription or the save returns an error, and so does the task.    *)
DiscoveryFails(b) ==
  /\ At(b, "connect") \/ At(b, "stream") \/ Saving(b)
  /\ disc' = [disc EXCEPT ![b] = Off]
  /\ failed' = TRUE
  /\ UNCHANGED <<streams, server, disk, active, queue, spawned, running, finished, main>>

-----------------------------------------------------------------------------
Servers == \E b \in Blocks, e \in Paths \cup {Other} : Announce(b, e)

Main == Start \/ Kill \/ SpawnForwarder \/ JoinOk \/ JoinError \/ CtrlC

Discovery(b) ==
  \/ Connect(b) \/ \E n \in 1..Len(log[b]) : Data(b, n)
  \/ Checkpoint(b) \/ ProcessEvent(b) \/ RequestSpawn(b)
  \/ Save(b) \/ Eof(b) \/ ControlEnds(b) \/ DiscoveryFails(b)

Next ==
  \/ Servers \/ Main
  \/ \E b \in Blocks : Discovery(b)
  \/ \E p \in Paths : ForwarderEnds(p)

Spec == Init /\ [][Next]_vars

(* A branch of select! that is ready again and again is taken some time:   *)
(* the order of polling is random.  A server that ends its responses again *)
(* and again sends its events in some of them.  The other steps of a task  *)
(* are taken once they stay possible.                                      *)
FairSpec ==
  /\ Spec
  /\ SF_vars(SpawnForwarder) /\ SF_vars(JoinError)
  /\ \A b \in Blocks :
       /\ WF_vars(Connect(b) \/ ProcessEvent(b) \/ RequestSpawn(b) \/ Save(b))
       /\ SF_vars(\E n \in 1..Len(log[b]) : Data(b, n))
       /\ SF_vars(disc[b].parts > 0 /\ Checkpoint(b))

-----------------------------------------------------------------------------
(* A path gets no forwarder on top of one it has, although several         *)
(* discovery tasks may find it at the same time and the static             *)
(* configuration may name it as well: both would forward every message and *)
(* share one stored offset.  What starts with the bridge is one forwarder  *)
(* per [[streams]] entry, so two entries with one path do give it two.     *)
Forwarders(p) == IF p \in Static THEN streams[p] ELSE 1

NoSecondForwarder == \A p \in Paths : spawned[p] <= Forwarders(p)

(* No path is entered into active_paths and then forgotten: what later     *)
(* announcements of it are skipped for is spawned, or on its way.          *)
ActiveIsForwarded ==
  \A p \in active :
    \/ spawned[p] # 0
    \/ \E i \in 1..Len(queue) : queue[i] = p
    \/ \E b \in Blocks : disc[b].sending = p

(* README, "re-reading the control stream re-discovers them": a bridge     *)
(* that has read all of a control stream forwards every stream it          *)
(* announced.                                                              *)
CaughtUp(b) ==
  At(b, "stream") /\ disc[b].parts = 0 /\ disc[b].cursor = Len(log[b])

AnnouncedIsForwarded ==
  \A b \in Blocks : CaughtUp(b) =>
    \A i \in 1..Len(log[b]) : log[b][i] \in active \cup {Other}

(* An announcement that is ahead of what is stored, or of the configured   *)
(* start, leads to a forwarder, or the bridge ends.  (Where a checkpoint   *)
(* may follow two data events, it may be skipped.)                         *)
Ahead(b, i) == i <= Len(log[b]) /\ StartOffset(b) # Now /\ StartOffset(b) < i

DiscoveredEventually ==
  \A p \in Paths :
    (proc = "select" /\ \E b \in Blocks \ SplitPayload, i \in 1..MaxLog : Ahead(b, i) /\ log[b][i] = p)
      ~> (spawned[p] # 0 \/ proc = "down")

(* A task that fails ends the bridge.                                      *)
ErrorEndsBridge == failed ~> (proc = "down")

(* run's comment, "until all stream tasks complete".                       *)
AllComplete ==
  /\ proc = "select" /\ queue = <<>>
  /\ \A p \in Paths : running[p] = 0
  /\ finished = 0 /\ ~failed
  /\ \A b \in Blocks : disc[b].pc = "off"

EndsWhenComplete == AllComplete ~> (proc = "down")

-----------------------------------------------------------------------------
(* The inductive invariant behind the first two properties.  On its way    *)
(* from active_paths to a forwarder a path is in one place only: a task is *)
(* about to send it, or it is in the channel, or it has been spawned.      *)

(* What is read, saved and stored of a control stream is part of it, and   *)
(* what is saved is a place in it, never "now".                            *)
Within(d, n) ==
  /\ d.cursor <= n
  /\ d.offset # Now => d.offset <= n
  /\ d.pc \notin {"connect", "stream"} => d.offset # Now

CursorInv ==
  \A b \in Blocks :
    /\ Within(disc[b], Len(log[b]))
    /\ disk[b] # None => disk[b] <= Len(log[b])

DownInv ==
  proc = "down" =>
    /\ queue = <<>>
    /\ \A b \in Blocks : disc[b] = Off

(* The static paths have their forwarders from the start.                  *)
SpawnedInv ==
  /\ \A p \in Paths : spawned[p] # 0 => spawned[p] = Forwarders(p) /\ p \in active
  /\ proc = "select" => \A p \in Static : spawned[p] # 0

QueueInv ==
  \A i \in 1..Len(queue) :
    /\ queue[i] \in active /\ spawned[queue[i]] = 0
    /\ \A j \in 1..Len(queue) : queue[i] = queue[j] => i = j

SendingInv ==
  \A b \in Blocks : disc[b].sending # None =>
    /\ disc[b].pc = "process"
    /\ disc[b].sending \in active /\ spawned[disc[b].sending] = 0
    /\ \A i \in 1..Len(queue) : queue[i] # disc[b].sending
    /\ \A c \in Blocks : disc[c].sending = disc[b].sending => c = b

IInv ==
  /\ TypeOK /\ CursorInv /\ DownInv
  /\ SpawnedInv /\ QueueInv /\ SendingInv /\ ActiveIsForwarded
=============================================================================
