------------------------------ MODULE MCStartup ------------------------------
(***************************************************************************)
(* Instances of Startup for TLC: families of configurations, each varying  *)
(* the settings that meet in one question, over hosts with at most one     *)
(* fault.                                                                  *)
(***************************************************************************)
EXTENDS Startup, TLC

CONSTANTS a, b, colon, n, m, file, beside

MCChars == {Slash, Dot, Dash, Space, Base, Stream, Hole, a, b, colon}
MCLegal == {Dot, Dash, Base, Stream, a, b}
MCNames == {n, m}
MCStores == {file, beside}

User == <<a>>
Pass == <<b>>
Auth(u, p) == [username_env |-> u, password_env |-> p]

Unset  == [name \in MCNames |-> None]
Entry(path, topic, target, offset) ==
  [path |-> path, topic |-> topic, target |-> target, offset |-> offset]

Plain ==
  [base_url |-> TRUE, kafka |-> TRUE, auth |-> None, targets |-> Unset, default_topic |-> None,
   store |-> None, preflight |-> [enabled |-> FALSE, require_topics_exist |-> TRUE],
   streams |-> <<Entry(<<Slash, a>>, None, None, None)>>, discovery |-> <<>>]

(* Every rule of resolve_topic and of validate about one stream.           *)
Routing ==
  {[Plain EXCEPT !.targets[n] = t, !.default_topic = d,
                 !.streams = <<Entry(path, topic, target, None)>>] :
     t \in {None, <<Space>>, <<b>>}, d \in {None, <<>>, <<a>>},
     path \in {<<Slash>>, <<Slash, a, colon, Slash, b, Slash>>, <<a>>, <<>>},
     topic \in {None, <<Space>>, <<a, b>>}, target \in {None, n, m}}

Offsets ==
  {[Plain EXCEPT !.streams = <<Entry(<<Slash, a>>, None, None, o)>>] :
     o \in {None, "-1", "now", "start", "o1"}}

Block(control, field, value, path, prefix, template) ==
  [control_stream |-> control, filter_field |-> field, filter_value |-> value,
   path_field |-> path, path_prefix |-> prefix, default_offset |-> None,
   topic_template |-> template]

Kind  == <<"kind">>
Where == <<"meta", "path">>

(* Discovery blocks: what is refused, filtered, prefixed and renamed.      *)
Discovering ==
  {[Plain EXCEPT !.store = file, !.discovery = <<Block(control, field, <<a>>, where, prefix, template)>>] :
     control \in {<<Slash, colon>>, <<Space>>, <<a>>},
     field \in {None, Kind}, where \in {<<>>, Where},
     prefix \in {None, <<Slash, b, colon>>},
     template \in {None, <<Hole>>, <<Slash, colon, Hole, b, Slash>>}}

(* Two static streams, or none, or none but a control stream, to be looked *)
(* for in the preflight.                                                   *)
Checking ==
  {[Plain EXCEPT !.preflight = [enabled |-> e, require_topics_exist |-> r],
                 !.streams = ss, !.discovery = ds] :
     e \in BOOLEAN, r \in BOOLEAN,
     ss \in {<<>>, <<Entry(<<Slash, a>>, None, None, None), Entry(<<Slash, b>>, None, None, None)>>,
             <<Entry(<<Slash, a>>, <<a>>, None, None), Entry(<<Slash, b>>, <<a>>, None, None)>>,
             <<Entry(<<Slash, a>>, None, None, None), Entry(<<Slash, a>>, <<a>>, None, None)>>},
     ds \in {<<>>, <<Block(<<Slash, colon>>, Kind, None, Where, None, None)>>}}

Connecting ==
  {[Plain EXCEPT !.base_url = u, !.kafka = k, !.auth = x] :
     u \in BOOLEAN, k \in BOOLEAN,
     x \in {None, Auth(User, Pass), Auth(<<Space>>, Pass), Auth(User, <<>>)}}

MCConfigs == Routing \cup Offsets \cup Discovering \cup Checking \cup Connecting

Good == [file |-> "good", http |-> TRUE, env |-> {User, Pass}, offsets |-> "none",
         names_missing |-> FALSE]

MCHosts ==
  {Good, [Good EXCEPT !.file = "unreadable"], [Good EXCEPT !.file = "garbled"],
   [Good EXCEPT !.http = FALSE], [Good EXCEPT !.env = {}], [Good EXCEPT !.env = {User}],
   [Good EXCEPT !.offsets = "bad"], [Good EXCEPT !.offsets = "good"],
   [Good EXCEPT !.names_missing = TRUE]}

(* What control streams hold: a path or another value where the path       *)
(* should be, at the right place or not, of the kind wanted or another.    *)
At(kind, where) == Object([kind |-> Text(kind), meta |-> Object([path |-> where])])

MCEvents ==
  {At(<<a>>, Text(<<Slash, a>>)), At(<<a>>, Text(<<Slash, a, colon>>)), At(<<a>>, Text(<<b>>)),
   At(<<a>>, Text(<<Slash>>)), At(<<b>>, Text(<<Slash, b>>)), At(<<a>>, Object([x |-> Missing])),
   Text(<<Slash, b>>), Object([kind |-> Text(<<a>>)])}
=============================================================================
