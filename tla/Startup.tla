------------------------------- MODULE Startup -------------------------------
(***************************************************************************)
(* A start of the bridge, from the config file to the running forwarders,  *)
(* and the forwarders it adds later (config.rs, App::from_path, App::run   *)
(* up to its loop, the preflight, the end of process_single_event): what   *)
(* is checked, in which order, what a config that passes leads to, and     *)
(* which stream goes to which topic.                                       *)
(*                                                                         *)
(* The world a start looks at may change while it looks: streams and       *)
(* topics come and go, and so does the broker.                             *)
(***************************************************************************)
EXTENDS Naming, FiniteSets

CONSTANTS
  Configs,   \* the configurations looked at
  Hosts,     \* what the process finds on its host
  Events,    \* the JSON values a control stream may hold
  Names,     \* names of targets
  Stores,    \* paths of offset files
  Beside,    \* the one next to the config file
  Chars      \* the characters texts are made of

Texts     == Seq(Chars)
Option(S) == S \cup {None}

(* BridgeConfig.  A field of an event is named by the parts of its dotted  *)
(* name, and <<>> stands for an empty name, and for a blank path_field.    *)
(* base_url and kafka say whether the HTTP and the Kafka library accept    *)
(* the values.                                                             *)
KafkaAuthConfig == [username_env : Texts, password_env : Texts]

StreamConfig ==
  [path : Texts, topic : Option(Texts), target : Option(Names), offset : Option(STRING)]

DiscoveryConfig ==
  [control_stream : Texts,
   filter_field : Option(Seq(STRING)), filter_value : Option(Texts),
   path_field : Seq(STRING), path_prefix : Option(Texts),
   default_offset : Option(STRING), topic_template : Option(Texts)]

BridgeConfig ==
  [base_url : BOOLEAN, kafka : BOOLEAN, auth : Option(KafkaAuthConfig),
   targets : [Names -> Option(Texts)], default_topic : Option(Texts),
   store : Option(Stores), preflight : [enabled : BOOLEAN, require_topics_exist : BOOLEAN],
   streams : Seq(StreamConfig), discovery : Seq(DiscoveryConfig)]

ASSUME StartupAssumption ==
  /\ Configs \subseteq BridgeConfig
  /\ Beside \in Stores
  /\ None \notin Names \cup Stores \cup Texts \cup STRING
  /\ \A c \in Configs, event \in Events : \A i \in DOMAIN c.discovery :
       LET extracted == GetDotted(event, c.discovery[i].path_field)
       IN extracted.kind = "string" => extracted.text \in Texts

VARIABLES
  pc,        \* what the start does next, or "running", or "failed"
  err,       \* the AppError it failed with
  config,    \* BridgeConfig
  host,      \* the config file, the environment, the offset file, libraries
  gone,      \* of the things a preflight looks for, those not there now
  runtimes,  \* StreamRuntime of each static stream
  checked,   \* how many of them have answered
  asked,     \* the topics the loop over them has done with
  seen,      \* history: what was there when the preflight asked for it
  routes,    \* the runtimes handed to run_stream at the start
  active,    \* active_paths
  found      \* the runtimes discovery has handed to run_stream

vars == <<pc, err, config, host, gone, runtimes, checked, asked, seen, routes, active, found>>

-----------------------------------------------------------------------------
(* validate: what a config file may not say.                               *)
ValidStream(c, s) ==
  /\ IsStreamPath(s.path)
  /\ s.target # None => c.targets[s.target] # None

ValidDiscovery(d) ==
  /\ ~Blank(d.control_stream) /\ IsStreamPath(d.control_stream)
  /\ d.path_field # <<>>

ValidAuth(auth) == ~Blank(auth.username_env) /\ ~Blank(auth.password_env)

(* Mutant: stream paths are not looked at.                                 *)
ValidTargetsOnly(c) ==
  /\ c.streams # <<>> \/ c.discovery # <<>>
  /\ \A i \in DOMAIN c.streams :
       c.streams[i].target # None => c.targets[c.streams[i].target] # None

(* Mutant: the name of a target is not looked up.                          *)
ValidPathsOnly(c) ==
  /\ c.streams # <<>> \/ c.discovery # <<>>
  /\ \A i \in DOMAIN c.discovery : ValidDiscovery(c.discovery[i])
  /\ \A i \in DOMAIN c.streams : IsStreamPath(c.streams[i].path)
  /\ \A n \in Names : c.targets[n] # None => ~Blank(c.targets[n])
  /\ c.default_topic # None => ~Blank(c.default_topic)

Valid(c) ==
  /\ c.streams # <<>> \/ c.discovery # <<>>
  /\ \A i \in DOMAIN c.discovery : ValidDiscovery(c.discovery[i])
  /\ \A i \in DOMAIN c.streams : ValidStream(c, c.streams[i])
  /\ \A n \in Names : c.targets[n] # None => ~Blank(c.targets[n])
  /\ c.auth # None => ValidAuth(c.auth)
  /\ c.default_topic # None => ~Blank(c.default_topic)

(* resolve_topic, with the target's topic as it is in the file.            *)
Topic(c, s) ==
  IF s.topic # None /\ ~Blank(s.topic) THEN s.topic
  ELSE IF s.target # None /\ c.targets[s.target] # None THEN c.targets[s.target]
  ELSE IF c.default_topic # None /\ ~Blank(c.default_topic) THEN c.default_topic
  ELSE DefaultTopic(s.path)

(* StreamRuntime::from_config                                              *)
Runtime(c, s) ==
  [path |-> s.path, topic |-> Topic(c, s), offset |-> StartOffset(s.offset)]

Runtimes(c) == [i \in DOMAIN c.streams |-> Runtime(c, c.streams[i])]

(* resolve_auth: both variables are set.                                   *)
AuthResolved(auth) == {auth.username_env, auth.password_env} \subseteq host.env

(* What a preflight looks for.                                             *)
StreamAt(path)    == [kind |-> "stream", name |-> path]
TopicNamed(topic) == [kind |-> "topic", name |-> topic]
Broker            == [kind |-> "broker", name |-> <<>>]

StreamsOf(rs) == {StreamAt(rs[i].path) : i \in DOMAIN rs}
TopicsOf(rs)  == {TopicNamed(rs[i].topic) : i \in DOMAIN rs}

-----------------------------------------------------------------------------
Init ==
  /\ pc = "load" /\ err = "none"
  /\ config \in Configs /\ host \in Hosts
  /\ gone = {} /\ asked = {} /\ seen = {} /\ checked = 0
  /\ runtimes = <<>> /\ routes = <<>> /\ active = {} /\ found = {}

GoTo(step) == pc' = step /\ UNCHANGED err
Fail(kind) == pc' = "failed" /\ err' = kind

(* Mutant: resolve_default is left out.                                    *)
LoadUnresolved ==
  /\ pc = "load"
  /\ host.file = "good" /\ Valid(config)
  /\ GoTo("client")
  /\ UNCHANGED <<config, host, gone, runtimes, checked, asked, seen, routes, active, found>>

(* BridgeConfig::from_path: read, parse, validate, resolve_default.        *)
Load ==
  /\ pc = "load"
  /\ \/ /\ host.file = "good" /\ Valid(config)
        /\ config' = [config EXCEPT !.store = IF @ = None THEN Beside ELSE @]
        /\ GoTo("client")
     \/ /\ host.file # "good" \/ ~Valid(config)
        /\ Fail("Config") /\ UNCHANGED config
  /\ UNCHANGED <<host, gone, runtimes, checked, asked, seen, routes, active, found>>

NewClient ==
  /\ pc = "client"
  /\ \/ config.base_url /\ host.http /\ GoTo("sink")
     \/ ~(config.base_url /\ host.http) /\ Fail("Client")
  /\ UNCHANGED <<config, host, gone, runtimes, checked, asked, seen, routes, active, found>>

(* KafkaSink::new, and the runtimes of the static streams.                 *)
NewSink ==
  /\ pc = "sink"
  /\ LET ok == config.kafka /\ (config.auth # None => AuthResolved(config.auth))
     IN \/ /\ ok
           /\ runtimes' = Runtimes(config)
           /\ GoTo(IF config.preflight.enabled THEN "streams" ELSE "open")
        \/ ~ok /\ Fail("Kafka") /\ UNCHANGED runtimes
  /\ UNCHANGED <<config, host, gone, checked, asked, seen, routes, active, found>>

(* run_preflight: metadata of the next static stream.  It is there when    *)
(* its HEAD is answered with success and a Stream-Next-Offset header.      *)
CheckStream ==
  /\ pc = "streams" /\ checked < Len(runtimes)
  /\ LET path == runtimes[checked + 1].path
         ok   == IsStreamPath(path) /\ StreamAt(path) \notin gone
     IN \/ /\ ok
           /\ checked' = checked + 1
           /\ seen' = seen \cup {StreamAt(path)}
           /\ UNCHANGED <<pc, err>>
        \/ /\ ~ok
           /\ Fail(IF IsStreamPath(path) THEN "PreflightStream" ELSE "Client")
           /\ UNCHANGED <<checked, asked, seen>>
  /\ UNCHANGED <<config, host, gone, runtimes, asked, routes, active, found>>

(* KafkaSink::preflight: the cluster answers.                              *)
CheckBroker ==
  /\ pc = "streams" /\ checked = Len(runtimes)
  /\ \/ /\ Broker \notin gone
        /\ seen' = seen \cup {Broker}
        /\ GoTo(IF config.preflight.require_topics_exist /\ runtimes # <<>>
                  THEN "topics" ELSE "open")
     \/ Broker \in gone /\ Fail("PreflightKafka") /\ UNCHANGED seen
  /\ UNCHANGED <<config, host, gone, runtimes, checked, asked, routes, active, found>>

(* Mutant: the loop over the topics returns after the first.               *)
CheckTopicOnce ==
  /\ pc = "topics"
  /\ \E topic \in TopicsOf(runtimes) \ asked :
       /\ Broker \notin gone /\ (topic \notin gone \/ host.names_missing)
       /\ asked' = asked \cup {topic}
       /\ seen' = IF topic \in gone THEN seen ELSE seen \cup {topic}
       /\ GoTo("open")
  /\ UNCHANGED <<config, host, gone, runtimes, checked, routes, active, found>>

(* KafkaSink::preflight: one of the topics not asked for yet.  All the     *)
(* code wants is an entry with the topic's name in the answer; there may   *)
(* be one, with an error in it, for a topic that is not there              *)
(* (host.names_missing).                                                   *)
CheckTopic ==
  /\ pc = "topics"
  /\ \E topic \in TopicsOf(runtimes) \ asked :
       LET ok == Broker \notin gone /\ (topic \notin gone \/ host.names_missing)
       IN \/ /\ ok
             /\ asked' = asked \cup {topic}
             /\ seen' = IF topic \in gone THEN seen ELSE seen \cup {topic}
             /\ GoTo(IF TopicsOf(runtimes) \subseteq asked' THEN "open" ELSE "topics")
          \/ ~ok /\ Fail("PreflightKafka") /\ UNCHANGED <<asked, seen>>
  /\ UNCHANGED <<config, host, gone, runtimes, checked, routes, active, found>>

(* OffsetStore::open; then, without another await, active_paths is filled  *)
(* and every static stream gets its task.                                  *)
OpenStore ==
  /\ pc = "open"
  /\ LET ok == config.store # None /\ host.offsets # "bad"
     IN \/ /\ ok
           /\ active' = {runtimes[i].path : i \in DOMAIN runtimes}
           /\ routes' = runtimes
           /\ GoTo("running")
        \/ /\ ~ok
           /\ Fail(IF config.store = None THEN "MissingOffsetStorePath" ELSE "OffsetStore")
           /\ UNCHANGED <<active, routes>>
  /\ UNCHANGED <<config, host, gone, runtimes, checked, asked, seen, found>>

-----------------------------------------------------------------------------
(* process_single_event: only with both of its settings is there a filter. *)
Passes(d, event) ==
  (d.filter_field # None /\ d.filter_value # None)
    => GetDotted(event, d.filter_field) = Text(d.filter_value)

Announce(d, event) ==
  /\ pc = "running"
  /\ Passes(d, event)
  /\ LET extracted == GetDotted(event, d.path_field)
         path      == DiscoveredPath(extracted.text, d.path_prefix)
     IN /\ extracted.kind = "string"
        /\ IsStreamPath(path)
        /\ path \notin active
        /\ active' = active \cup {path}
        /\ found' = found \cup
             {[path |-> path, topic |-> DiscoveredTopic(path, d.topic_template),
               offset |-> StartOffset(d.default_offset)]}
  /\ UNCHANGED <<pc, err, config, host, gone, runtimes, checked, asked, seen, routes>>

(* While a preflight looks, something it looks for comes or goes.          *)
WorldChanges ==
  /\ pc \in {"streams", "topics"}
  /\ \E x \in StreamsOf(runtimes) \cup TopicsOf(runtimes) \cup {Broker} :
       gone' = IF x \in gone THEN gone \ {x} ELSE gone \cup {x}
  /\ UNCHANGED <<pc, err, config, host, runtimes, checked, asked, seen, routes, active, found>>

StartStep ==
  Load \/ NewClient \/ NewSink \/ CheckStream \/ CheckBroker \/ CheckTopic \/ OpenStore

Next ==
  \/ StartStep
  \/ WorldChanges
  \/ \E i \in DOMAIN config.discovery, event \in Events : Announce(config.discovery[i], event)

Spec == Init /\ [][Next]_vars

(* Every await of a start returns: each call has a timeout.                *)
FairSpec == Spec /\ WF_vars(StartStep)

-----------------------------------------------------------------------------
(* README, "Topic precedence".  Most of all, a stream that names a target  *)
(* is forwarded to the topic of this target and to no other: resolve_topic *)
(* itself would fall through to the next rule if there were none, and it   *)
(* is validate, run long before, that must have refused the config.        *)
Given(text) == text # None /\ ~Blank(text)

FollowsPrecedence(s, topic) ==
  \/ Given(s.topic) /\ topic = s.topic
  \/ /\ ~Given(s.topic) /\ s.target # None
     /\ config.targets[s.target] # None /\ topic = config.targets[s.target]
  \/ /\ ~Given(s.topic) /\ s.target = None /\ config.default_topic # None
     /\ topic = config.default_topic
  \/ /\ ~Given(s.topic) /\ s.target = None /\ config.default_topic = None
     /\ topic = DefaultTopic(s.path)

RoutedAsDocumented ==
  pc = "running" =>
    \A i \in DOMAIN config.streams :
      /\ i \in DOMAIN routes
      /\ routes[i].path = config.streams[i].path
      /\ FollowsPrecedence(config.streams[i], routes[i].topic)

(* README, "Preflight checks": it fails before the bridge enters the       *)
(* forwarding loop.  When a bridge forwards, every static stream was there *)
(* when it was asked for, and so was the broker; and so was every topic of *)
(* these streams, if that is wanted and the cluster does not name topics   *)
(* it does not have.                                                       *)
ReadyMeansChecked ==
  pc = "running" /\ config.preflight.enabled =>
    /\ \A i \in DOMAIN config.streams : StreamAt(routes[i].path) \in seen
    /\ Broker \in seen
    /\ config.preflight.require_topics_exist /\ ~host.names_missing =>
         \A i \in DOMAIN config.streams : TopicNamed(routes[i].topic) \in seen

(* What README and the comment of preflight say of the topics, whatever    *)
(* the cluster answers: required topics exist.  It does not hold where the *)
(* cluster names a missing topic: the error in its answer is not looked at.*)
ReadyMeansTopicsExist ==
  pc = "running" /\ config.preflight.enabled /\ config.preflight.require_topics_exist =>
    \A i \in DOMAIN config.streams : TopicNamed(routes[i].topic) \in seen

(* A config that validate lets through has nothing in it that fails a      *)
(* start later on for reasons validate knows of, nor a running bridge: the *)
(* paths can be subscribed to (run_stream and run_discovery return an      *)
(* error, and the bridge ends, if not), the topics of static streams are   *)
(* not blank, and those of discovered streams have legal characters only.  *)
ValidatedMeansUsable ==
  /\ err # "MissingOffsetStorePath"
  /\ err = "Client" => ~config.base_url \/ ~host.http
  /\ pc = "running" => \A i \in DOMAIN config.discovery :
                         IsStreamPath(config.discovery[i].control_stream)
  /\ \A i \in DOMAIN routes : IsStreamPath(routes[i].path) /\ ~Blank(routes[i].topic)
  /\ \A r \in found :
       IsStreamPath(r.path) /\ \A j \in DOMAIN r.topic : r.topic[j] \in Legal

(* A start that finds everything in order ends in a running bridge.        *)
Sound ==
  /\ Valid(config) /\ config.base_url /\ config.kafka
  /\ host.file = "good" /\ host.http /\ host.offsets # "bad"
  /\ config.auth # None => AuthResolved(config.auth)

SoundStarts == Sound /\ [](gone = {}) => <>(pc = "running")

-----------------------------------------------------------------------------
(* The inductive invariant behind the first three properties.              *)
Steps == {"load", "client", "sink", "streams", "topics", "open", "running", "failed"}

TypeOK ==
  /\ pc \in Steps
  /\ err \in {"none", "Config", "Client", "Kafka", "PreflightStream", "PreflightKafka",
              "MissingOffsetStorePath", "OffsetStore"}
  /\ config \in BridgeConfig /\ \E c \in Configs : c.discovery = config.discovery
  /\ host \in Hosts
  /\ checked \in 0..Len(config.streams)

Loaded == pc \notin {"load", "failed"}

ValidInv == Loaded => Valid(config) /\ config.store # None

RuntimesInv ==
  /\ pc \in {"load", "client", "sink"} => checked = 0
  /\ pc \in {"streams", "topics", "open", "running"} => runtimes = Runtimes(config)

(* What has been asked for when the start is at pc, and was there.         *)
SeenInv ==
  /\ \A i \in 1..checked : StreamAt(config.streams[i].path) \in seen
  /\ config.preflight.enabled /\ pc \in {"topics", "open", "running"} =>
       /\ checked = Len(config.streams) /\ Broker \in seen
       /\ config.preflight.require_topics_exist /\ pc # "topics" =>
            TopicsOf(runtimes) \subseteq asked
  /\ ~host.names_missing => asked \subseteq seen

(* What is handed to run_stream is what was looked for.                    *)
RoutesInv ==
  /\ routes = IF pc = "running" THEN runtimes ELSE <<>>
  /\ pc = "running" => active = {routes[i].path : i \in DOMAIN routes} \cup {r.path : r \in found}
  /\ pc # "running" => found = {}

(* What discovery adds can be used.                                        *)
FoundInv ==
  \A r \in found :
    IsStreamPath(r.path) /\ \A j \in DOMAIN r.topic : r.topic[j] \in Legal

ErrInv ==
  /\ err # "MissingOffsetStorePath"
  /\ err = "Client" => ~config.base_url \/ ~host.http

IInv ==
  /\ TypeOK /\ ValidInv /\ RuntimesInv /\ SeenInv
  /\ RoutesInv /\ FoundInv /\ ErrInv
=============================================================================
