------------------------------- MODULE Naming -------------------------------
(***************************************************************************)
(* The names the bridge makes from what it is given: the path of a stream  *)
(* that a control stream announces, and the topic a stream is forwarded to *)
(* (topic.rs, the end of discovery.rs, types/stream_path.rs and offset.rs  *)
(* of the client).                                                         *)
(*                                                                         *)
(* A text is a sequence of characters.  Only the characters the code looks *)
(* at are told apart; a literal of the code counts as one character.       *)
(***************************************************************************)
EXTENDS Naturals, Sequences, SequencesExt

CONSTANTS
  Slash, Dot, Dash, Space,   \* characters
  Base,                      \* the text "durable-streams"
  Stream,                    \* the text "stream"
  Hole,                      \* the text "{path}"
  Legal,                     \* the characters a topic name may have
  None                       \* an Option that is not there

ASSUME NamingAssumption ==
  /\ {Dot, Dash, Base, Stream} \subseteq Legal
  /\ {Slash, Space, Hole} \cap Legal = {}

(* s.trim().is_empty()                                                     *)
Blank(s) == \A i \in DOMAIN s : s[i] = Space

(* StreamPath::new: not empty, and absolute.                               *)
IsStreamPath(s) == s # <<>> /\ s[1] = Slash

(* Offset::from.  Any other text is an offset the server has made up.      *)
OffsetFrom(text) ==
  CASE text = "-1"  -> "Start"
    [] text = "now" -> "Now"
    [] OTHER        -> text

(* start_offset of a [[streams]] or a [[discovery]] entry.                 *)
StartOffset(configured) ==
  IF configured = None THEN "Start" ELSE OffsetFrom(configured)

(* trim_matches('/')                                                       *)
Trimmed(s) ==
  LET kept == {i \in DOMAIN s : s[i] # Slash}
  IN IF kept = {} THEN <<>> ELSE SubSeq(s, Min(kept), Max(kept))

(* Mutant: a character that is not mapped stays as it is.                  *)
SanitizedSlashes(s) ==
  [i \in DOMAIN Trimmed(s) |-> IF Trimmed(s)[i] = Slash THEN Dot ELSE Trimmed(s)[i]]

(* sanitize_topic.                                                         *)
Sanitized(s) ==
  LET t == Trimmed(s)
  IN [i \in DOMAIN t |-> IF t[i] \in Legal THEN t[i]
                         ELSE IF t[i] = Slash THEN Dot ELSE Dash]

(* default_topic_for_stream: "durable-streams", and the path after a dot.  *)
DefaultTopic(path) ==
  <<Base, Dot>> \o IF Trimmed(path) = <<>> THEN <<Stream>> ELSE Sanitized(path)

(* topic_for_discovered_stream.                                            *)
DiscoveredTopic(path, template) ==
  IF template = None THEN DefaultTopic(path)
  ELSE Sanitized(FlattenSeq(
         [i \in DOMAIN template |-> IF template[i] = Hole THEN path ELSE <<template[i]>>]))

(* resolve_discovered_path.                                                *)
DiscoveredPath(extracted, prefix) ==
  IF prefix = None THEN extracted ELSE prefix \o extracted

-----------------------------------------------------------------------------
(* JSON values, as far as discovery looks into them.                       *)
Text(s)   == [kind |-> "string", text |-> s]
Object(f) == [kind |-> "object", fields |-> f]
Missing   == [kind |-> "missing"]

Field(value, name) ==
  IF value.kind = "object" /\ name \in DOMAIN value.fields
    THEN value.fields[name] ELSE Missing

(* get_dotted, where the path was split at its dots.                       *)
GetDotted(value, path) == FoldLeft(Field, value, path)
=============================================================================
