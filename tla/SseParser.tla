------------------------------ MODULE SseParser ------------------------------
(***************************************************************************)
(* The incremental parser of a server-sent event response (sse.rs), fed    *)
(* with the chunks of the body by subscribe (stream.rs).                   *)
(*                                                                         *)
(* A body is a sequence of tokens: lines, and the bytes CR and LF that end *)
(* them.  A cut inside a line is a cut before it, since the parser looks   *)
(* at no line that has not ended; a cut inside a CR LF ending is not.  Of  *)
(* a line only its field and its value are kept, and the lines that are    *)
(* joined to a payload are kept as a sequence.                             *)
(***************************************************************************)
EXTENDS Naturals, Sequences, SequencesExt, FiniteSets

CONSTANTS
  Texts,          \* the values a line may have
  Bodies,         \* the bodies a server may send, cut off or not
  SplitEndings,   \* a chunk may end between the CR and the LF of one ending
  Base64,         \* the response says its data events are base64
  Decodable,      \* the data lines that, joined, decode
  ControlJson     \* the data lines that, joined, parse as a control payload

Fields == {"event", "data", "other", "invalid"}

(* "other" is a comment or a field the parser does not know, "invalid" a   *)
(* line that is not UTF-8.                                                 *)
Line   == [field : Fields, value : Texts]
CR     == [field |-> "CR", value |-> ""]
LF     == [field |-> "LF", value |-> ""]
Tokens == Line \cup {CR, LF}

(* A line is all that stands between two endings.                          *)
IsBody(text) ==
  \A i \in 1..(Len(text) - 1) : text[i] \in {CR, LF} \/ text[i + 1] \in {CR, LF}

ASSUME SseAssumption ==
  /\ "" \in Texts
  /\ Bodies \subseteq Seq(Tokens) /\ \A text \in Bodies : IsBody(text)
  /\ SplitEndings \in BOOLEAN /\ Base64 \in BOOLEAN

VARIABLES
  body,        \* history: the body of the response
  received,    \* how much of it has arrived
  buffer,      \* SseParser.buffer
  eventType,   \* current_event_type, "" for none
  dataLines,   \* current_data_lines
  batch,       \* the events of the current push
  yielded,     \* history: the events subscribe has yielded
  pc           \* subscribe awaits a chunk, is in push, or has returned

source == <<body, received>>
parser == <<buffer, eventType, dataLines>>
vars == <<source, parser, batch, yielded, pc>>

Event == [kind : {"data", "checkpoint"}, data : Seq(Texts)]

TypeOK ==
  /\ body \in Seq(Tokens) /\ IsBody(body)
  /\ received \in 0..Len(body)
  /\ buffer \in Seq(Tokens)
  /\ eventType \in Texts
  /\ dataLines \in Seq(Texts)
  /\ batch \in Seq(Event) /\ yielded \in Seq(Event)
  /\ pc \in {"read", "push", "done", "failed"}

Init ==
  /\ body \in Bodies /\ received = 0
  /\ buffer = <<>> /\ eventType = "" /\ dataLines = <<>>
  /\ batch = <<>> /\ yielded = <<>>
  /\ pc = "read"

-----------------------------------------------------------------------------
(* finish_event: what a type and the data lines give, an error included.   *)
NoEvent == [kind |-> "none", data |-> <<>>]
Invalid == [kind |-> "invalid", data |-> <<>>]

FinishEvent(type, data) ==
  CASE type = "data" ->
         IF Base64 /\ data \notin Decodable
           THEN Invalid ELSE [kind |-> "data", data |-> data]
    [] type = "control" ->
         IF data \in ControlJson
           THEN [kind |-> "checkpoint", data |-> data] ELSE Invalid
    [] OTHER -> NoEvent

Finished == FinishEvent(eventType, dataLines)

(* Mutant: the data lines are joined, and not cleared.                     *)
ResetType == eventType' = "" /\ UNCHANGED dataLines

Reset == eventType' = "" /\ dataLines' = <<>>

-----------------------------------------------------------------------------
CrLfAt(text, i) == i < Len(text) /\ text[i] = CR /\ text[i + 1] = LF

(* body.next() gives a chunk, up to token n, and push appends it.          *)
Receive(n) ==
  /\ pc = "read"
  /\ n \in (received + 1)..Len(body)
  /\ SplitEndings \/ ~CrLfAt(body, n)
  /\ buffer' = buffer \o SubSeq(body, received + 1, n)
  /\ received' = n
  /\ pc' = "push"
  /\ UNCHANGED <<body, eventType, dataLines, batch, yielded>>

LineEnds == {i \in 1..Len(buffer) : buffer[i] \in {CR, LF}}

(* next_line: the end of the first line in the buffer, and how long it is. *)
(* A CR is an ending by itself unless the LF after it is there already.    *)
LineEnd == CHOOSE i \in LineEnds : \A j \in LineEnds : i <= j

EndingLen == IF CrLfAt(buffer, LineEnd) THEN 2 ELSE 1

TakeLine ==
  /\ pc = "push" /\ LineEnds # {}
  /\ buffer' = SubSeq(buffer, LineEnd + EndingLen, Len(buffer))
  /\ UNCHANGED <<source, yielded>>

(* The events of a push, with one more if there is one.                    *)
Pushed == IF Finished = NoEvent THEN batch ELSE Append(batch, Finished)

(* Mutant: the error of finish_event is yielded like an event.             *)
BlankLineUnchecked ==
  /\ TakeLine /\ LineEnd = 1
  /\ Reset
  /\ batch' = Pushed
  /\ UNCHANGED pc

(* An empty line finishes the event.  The `?` leaves push, and drops the   *)
(* events it has collected from this chunk.                                *)
BlankLine ==
  /\ TakeLine /\ LineEnd = 1
  /\ Reset
  /\ IF Finished = Invalid
       THEN batch' = <<>> /\ pc' = "failed"
       ELSE batch' = Pushed /\ UNCHANGED pc

(* Mutant: the first line of an event is the one that counts.              *)
FieldLineKeepsFirst ==
  /\ TakeLine /\ LineEnd > 1
  /\ buffer[1].field # "invalid"
  /\ eventType' = IF buffer[1].field = "event" THEN buffer[1].value ELSE eventType
  /\ dataLines' = IF buffer[1].field = "data" /\ dataLines = <<>>
                    THEN <<buffer[1].value>> ELSE dataLines
  /\ UNCHANGED <<batch, pc>>

FieldLine ==
  /\ TakeLine /\ LineEnd > 1
  /\ buffer[1].field # "invalid"
  /\ eventType' = IF buffer[1].field = "event" THEN buffer[1].value ELSE eventType
  /\ dataLines' = IF buffer[1].field = "data"
                    THEN Append(dataLines, buffer[1].value) ELSE dataLines
  /\ UNCHANGED <<batch, pc>>

InvalidLine ==
  /\ TakeLine /\ LineEnd > 1
  /\ buffer[1].field = "invalid"
  /\ batch' = <<>>
  /\ pc' = "failed"
  /\ UNCHANGED <<eventType, dataLines>>

(* Mutant: push goes on until the buffer is empty.                         *)
PushReturnsDrained ==
  /\ pc = "push" /\ buffer = <<>>
  /\ yielded' = yielded \o batch
  /\ batch' = <<>>
  /\ pc' = "read"
  /\ UNCHANGED <<source, parser>>

(* push returns, and subscribe yields the events one by one.               *)
PushReturns ==
  /\ pc = "push" /\ LineEnds = {}
  /\ yielded' = yielded \o batch
  /\ batch' = <<>>
  /\ pc' = "read"
  /\ UNCHANGED <<source, parser>>

(* The body has ended: finish gives the event that no empty line has       *)
(* finished, whatever the buffer still holds.                              *)
Finish ==
  /\ pc = "read" /\ received = Len(body)
  /\ Reset
  /\ IF Finished = Invalid
       THEN pc' = "failed" /\ UNCHANGED yielded
       ELSE /\ pc' = "done"
            /\ yielded' = IF Finished = NoEvent THEN yielded ELSE Append(yielded, Finished)
  /\ UNCHANGED <<source, buffer, batch>>

Push == BlankLine \/ FieldLine \/ InvalidLine \/ PushReturns

Next == (\E n \in 1..Len(body) : Receive(n)) \/ Push \/ Finish

Spec == Init /\ [][Next]_vars

(* push runs without an await, and a body that has ended is reported.      *)
(* Nothing is assumed of when the server sends.                            *)
FairSpec == Spec /\ WF_vars(Push) /\ WF_vars(Finish)

-----------------------------------------------------------------------------
(* The reference, which looks at a whole text by its positions: what ends  *)
(* a line, which lines are empty, and what stands since the last of them.  *)
EndsLine(text, i) ==
  /\ i \in 1..Len(text)
  /\ text[i] = LF \/ (text[i] = CR /\ ~CrLfAt(text, i))

EmptyLine(text, i) ==
  /\ EndsLine(text, i)
  /\ LET before == IF i > 1 /\ CrLfAt(text, i - 1) THEN i - 2 ELSE i - 1
     IN before = 0 \/ EndsLine(text, before)

(* The lines of an event that ends at i: those since the last empty line.  *)
(* The last line of a text that is cut off has no ending.                  *)
LinesOf(text, i, field) ==
  {j \in 1..(i - 1) :
     /\ text[j].field = field /\ j < Len(text)
     /\ \A k \in j..(i - 1) : ~EmptyLine(text, k)}

(* What a sequence has at the positions of a set, in order.                *)
Nth(S, k) == CHOOSE i \in {x \in S : Cardinality({y \in S : y < x}) = k - 1} : TRUE

Pick(seq, S) == [k \in 1..Cardinality(S) |-> seq[Nth(S, k)]]

Values(text, i, field) ==
  Pick([j \in 1..Len(text) |-> text[j].value], LinesOf(text, i, field))

LastOf(values) == IF values = <<>> THEN "" ELSE values[Len(values)]

EventAt(text, i) ==
  IF LinesOf(text, i, "invalid") # {} THEN Invalid
  ELSE FinishEvent(LastOf(Values(text, i, "event")), Values(text, i, "data"))

EventEnds(text) ==
  {i \in 1..(Len(text) + 1) :
     (EmptyLine(text, i) \/ i = Len(text) + 1) /\ EventAt(text, i) # NoEvent}

EventsTo(text, n) ==
  Pick([i \in 1..(Len(text) + 1) |-> EventAt(text, i)], {i \in EventEnds(text) : i <= n})

Events(text) == EventsTo(text, Len(text) + 1)

(* However the body is cut into chunks, subscribe yields the events of the *)
(* response and nothing else, in order, and all of them if it gets to the  *)
(* end.                                                                    *)
EventsAsSent ==
  /\ IsPrefix(yielded \o batch, Events(body))
  /\ pc = "done" => yielded = Events(body)

(* A response fails to parse only if an event or a line of it is invalid.  *)
FailsOnInvalid == pc = "failed" => Invalid \in ToSet(Events(body))

(* push returns for every chunk.                                           *)
PushEnds == (pc = "push") ~> (pc # "push")
-----------------------------------------------------------------------------
(* What both need: no ending is cut in two, because chunks respect it or   *)
(* because the server has no CR LF endings.                                *)
EndingsStayWhole ==
  SplitEndings => \A text \in Bodies : \A i \in 1..Len(text) : ~CrLfAt(text, i)

(* The inductive invariant behind them.                                    *)
Taken == received - Len(buffer)

(* The buffer is what has arrived of the body, from the end of a line on.  *)
BufferInv ==
  /\ Len(buffer) <= received
  /\ \A i \in 1..Len(buffer) : buffer[i] = body[Taken + i]
  /\ Taken = 0 \/ EndsLine(body, Taken)
  /\ pc = "push" => ~CrLfAt(body, received)
  /\ SplitEndings => \A i \in 1..Len(body) : ~CrLfAt(body, i)
  /\ pc = "read" => LineEnds = {} /\ batch = <<>>

(* What the parser keeps are the lines since the last empty one.           *)
LinesInv ==
  pc \in {"read", "push"} =>
    /\ eventType = LastOf(Values(body, Taken + 1, "event"))
    /\ dataLines = Values(body, Taken + 1, "data")
    /\ LinesOf(body, Taken + 1, "invalid") = {}

(* What it has given are the events before them.                           *)
OutInv == pc \in {"read", "push"} => yielded \o batch = EventsTo(body, Taken)

IInv ==
  /\ TypeOK /\ BufferInv /\ LinesInv /\ OutInv
  /\ EventsAsSent /\ FailsOnInvalid
=============================================================================
