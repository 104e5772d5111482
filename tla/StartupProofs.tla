---------------------------- MODULE StartupProofs ----------------------------
(***************************************************************************)
(* Proofs about Startup, for any configurations, hosts and events.         *)
(***************************************************************************)
EXTENDS Startup, SequenceTheorems, FiniteSetTheorems, TLAPS

(* A set of indices that is not empty has a least one.                     *)
LEMMA LeastExists ==
  ASSUME NEW n \in Nat, NEW K \in SUBSET (1..n), K # {}
  PROVE  \E x \in K : \A y \in K : x <= y
<1> DEFINE below == [x \in K |-> {y \in K : y <= x}]
           T == {below[x] : x \in K}
<1>1. IsFiniteSet(K)
  <2>1. IsFiniteSet(1..n)
    BY FS_Interval
  <2> QED
    BY <2>1, FS_Subset
<1>2. T \subseteq FiniteSubsetsOf(K) /\ T # {}
  <2>1. \A x \in K : below[x] \in SUBSET K
    OBVIOUS
  <2> HIDE DEF below
  <2>2. \A x \in K : IsFiniteSet(below[x])
    BY <1>1, <2>1, FS_Subset
  <2> QED
    BY <2>1, <2>2 DEF FiniteSubsetsOf
<1> HIDE DEF T
<1>3. PICK t \in T : \A u \in T : ~(<<u, t>> \in StrictSubsetOrdering(K))
  BY <1>2, WFMin, FS_StrictSubsetOrderingWellFounded
<1>4. PICK x \in K : t = below[x]
  BY DEF T
<1>5. ASSUME NEW y \in K, ~(x <= y)
      PROVE  FALSE
  <2>0. x \in Int /\ y \in Int /\ K \subseteq Int
    OBVIOUS
  <2>1. below[y] \subseteq below[x] /\ x \in below[x] /\ x \notin below[y]
    <3>1. below[x] = {z \in K : z <= x} /\ below[y] = {z \in K : z <= y}
      OBVIOUS
    <3> HIDE DEF below
    <3>2. \A z \in K : z <= y => z <= x
      BY <1>5, <2>0
    <3>3. x <= x /\ ~(x <= y)
      BY <1>5, <2>0
    <3> QED
      BY <3>1, <3>2, <3>3
  <2>2. <<below[y], below[x]>> \in StrictSubsetOrdering(K)
    <3>1. below[x] \subseteq K /\ below[y] \subseteq K
      OBVIOUS
    <3> HIDE DEF below
    <3> QED
      BY <2>1, <3>1 DEF StrictSubsetOrdering
  <2> QED
    BY <2>2, <1>3, <1>4 DEF T
<1> QED
  BY <1>5

(* ... and the ends of such a set are what Min and Max find.               *)
LEMMA MinMaxOfIndices ==
  ASSUME NEW n \in Nat, NEW K \in SUBSET (1..n), K # {}
  PROVE  Min(K) \in 1..n /\ Max(K) \in 1..n
<1>1. \E x \in K : \A y \in K : x <= y
  BY LeastExists
<1>2. \E x \in K : \A y \in K : x >= y
  <2> DEFINE L == {n + 1 - x : x \in K}
  <2>1. L \in SUBSET (1..n) /\ L # {}
    <3>1. \A x \in K : n + 1 - x \in 1..n
      OBVIOUS
    <3> QED
      BY <3>1
  <2> HIDE DEF L
  <2>2. PICK l \in L : \A y \in L : l <= y
    BY <2>1, LeastExists
  <2>3. PICK x \in K : l = n + 1 - x
    BY DEF L
  <2>4. \A y \in K : l <= n + 1 - y
    BY <2>2 DEF L
  <2> QED
    BY <2>3, <2>4
<1> QED
  BY <1>1, <1>2 DEF Min, Max

(* What trims a text gives a text again.                                   *)
LEMMA TrimmedIsText ==
  ASSUME NEW S, NEW s \in Seq(S)
  PROVE  Trimmed(s) \in Seq(S)
<1> DEFINE kept == {i \in DOMAIN s : s[i] # Slash}
<1>1. Len(s) \in Nat /\ DOMAIN s = 1..Len(s) /\ \A i \in 1..Len(s) : s[i] \in S
  BY LenProperties, ElementOfSeq
<1>2. CASE kept = {}
  BY <1>2, EmptySeq DEF Trimmed
<1>3. CASE kept # {}
  <2>1. Min(kept) \in 1..Len(s) /\ Max(kept) \in 1..Len(s)
    BY <1>1, <1>3, MinMaxOfIndices
  <2>2. \A i \in Min(kept)..Max(kept) : i \in 1..Len(s)
    BY <1>1, <2>1
  <2>3. SubSeq(s, Min(kept), Max(kept)) \in Seq(S)
    <3> DEFINE lo == Min(kept)
               hi == Max(kept)
    <3>1. lo \in Int /\ hi \in Int /\ \A i \in lo..hi : s[i] \in S
      BY <1>1, <2>1, <2>2
    <3> HIDE DEF lo, hi
    <3>2. SubSeq(s, lo, hi) \in Seq(S)
      BY <3>1, SubSeqProperties
    <3> QED
      BY <3>2 DEF lo, hi
  <2> QED
    BY <1>3, <2>3 DEF Trimmed
<1> QED
  BY <1>2, <1>3

(* What sanitize_topic returns has legal characters only.                  *)
LEMMA SanitizedIsLegal ==
  ASSUME NEW S, NEW s \in Seq(S)
  PROVE  Sanitized(s) \in Seq(Legal)
<1> DEFINE t == Trimmed(s)
<1>1. t \in Seq(S) /\ Len(t) \in Nat /\ DOMAIN t = 1..Len(t)
  BY TrimmedIsText, LenProperties
<1>2. Sanitized(s) \in [1..Len(t) -> Legal]
  BY <1>1, NamingAssumption DEF Sanitized
<1> QED
  BY <1>1, <1>2, SeqDef

(* The default topic of a stream has legal characters only, and is not     *)
(* blank, whatever the path.                                               *)
LEMMA DefaultTopicIsLegal ==
  ASSUME NEW S, NEW path \in Seq(S)
  PROVE  DefaultTopic(path) \in Seq(Legal) /\ ~Blank(DefaultTopic(path))
<1> DEFINE rest == IF Trimmed(path) = <<>> THEN <<Stream>> ELSE Sanitized(path)
<1>1. rest \in Seq(Legal)
  BY SanitizedIsLegal, NamingAssumption
<1>2. <<Base, Dot>> \in Seq(Legal) /\ Len(<<Base, Dot>>) = 2 /\ <<Base, Dot>>[1] = Base
  BY NamingAssumption
<1>3. DefaultTopic(path) = <<Base, Dot>> \o rest
  BY DEF DefaultTopic
<1>4. /\ DefaultTopic(path) \in Seq(Legal)
      /\ Len(DefaultTopic(path)) = 2 + Len(rest)
      /\ DefaultTopic(path)[1] = Base
  BY <1>1, <1>2, <1>3, ConcatProperties, LenProperties
<1>5. 1 \in DOMAIN DefaultTopic(path) /\ Base # Space
  BY <1>1, <1>4, LenProperties, NamingAssumption
<1> QED
  BY <1>4, <1>5 DEF Blank

(* The topic of a discovered stream has legal characters only, whatever    *)
(* the template.                                                           *)
LEMMA DiscoveredTopicIsLegal ==
  ASSUME NEW S, NEW path \in Seq(S), NEW template
  PROVE  \A j \in DOMAIN DiscoveredTopic(path, template) :
           DiscoveredTopic(path, template)[j] \in Legal
<1>1. \A s : \A j \in DOMAIN Sanitized(s) : Sanitized(s)[j] \in Legal
  BY NamingAssumption DEF Sanitized
<1>2. \A j \in DOMAIN DefaultTopic(path) : DefaultTopic(path)[j] \in Legal
  BY DefaultTopicIsLegal, LenProperties, ElementOfSeq
<1> QED
  BY <1>1, <1>2 DEF DiscoveredTopic

-----------------------------------------------------------------------------
(* from_config gives one runtime for each entry, in their order.           *)
LEMMA RuntimesOfStreams ==
  ASSUME config \in BridgeConfig
  PROVE  /\ Len(config.streams) \in Nat
         /\ DOMAIN config.streams = 1..Len(config.streams)
         /\ DOMAIN Runtimes(config) = 1..Len(config.streams)
         /\ Len(Runtimes(config)) = Len(config.streams)
         /\ \A i \in 1..Len(config.streams) :
              /\ config.streams[i] \in StreamConfig
              /\ Runtimes(config)[i] = Runtime(config, config.streams[i])
<1> DEFINE n == Len(config.streams)
           S == {Runtime(config, config.streams[i]) : i \in 1..n}
<1>1. config.streams \in Seq(StreamConfig)
  BY DEF BridgeConfig
<1>2. /\ n \in Nat /\ DOMAIN config.streams = 1..n
      /\ \A i \in 1..n : config.streams[i] \in StreamConfig
  BY <1>1, LenProperties, ElementOfSeq
<1>3. Runtimes(config) = [i \in 1..n |-> Runtime(config, config.streams[i])]
  BY <1>2 DEF Runtimes
<1>4. Runtimes(config) \in [1..n -> S]
  BY <1>3
<1>5. Runtimes(config) \in Seq(S)
  BY <1>2, <1>4, SeqDef
<1>6. DOMAIN Runtimes(config) = 1..n /\ DOMAIN Runtimes(config) = 1..Len(Runtimes(config))
      /\ Len(Runtimes(config)) \in Nat
  BY <1>4, <1>5, LenProperties
<1> QED
  BY <1>2, <1>3, <1>6

(* The streams of a valid config have paths, and their runtimes topics.    *)
LEMMA ValidRuntimes ==
  ASSUME config \in BridgeConfig, Valid(config), NEW i \in 1..Len(config.streams)
  PROVE  /\ Runtimes(config)[i].path = config.streams[i].path
         /\ Runtimes(config)[i].topic = Topic(config, config.streams[i])
         /\ IsStreamPath(config.streams[i].path)
         /\ FollowsPrecedence(config.streams[i], Topic(config, config.streams[i]))
         /\ ~Blank(Topic(config, config.streams[i]))
<1> DEFINE s == config.streams[i]
<1>1. s \in StreamConfig /\ Runtimes(config)[i] = Runtime(config, s)
  BY RuntimesOfStreams
<1>2. ValidStream(config, s)
  BY RuntimesOfStreams DEF Valid
<1>3. FollowsPrecedence(s, Topic(config, s))
  <2> DEFINE d == config.default_topic
  <2>1. s.target # None => config.targets[s.target] # None
    BY <1>2 DEF ValidStream
  <2>2. d # None => ~Blank(d)
    BY DEF Valid
  <2>3. CASE Given(s.topic)
    BY <2>3 DEF FollowsPrecedence, Topic, Given
  <2>4. CASE ~Given(s.topic) /\ s.target # None
    BY <2>1, <2>4 DEF FollowsPrecedence, Topic, Given
  <2>5. CASE ~Given(s.topic) /\ s.target = None /\ d # None
    BY <2>2, <2>5 DEF FollowsPrecedence, Topic, Given
  <2>6. CASE ~Given(s.topic) /\ s.target = None /\ d = None
    BY <2>6 DEF FollowsPrecedence, Topic, Given
  <2> QED
    BY <2>3, <2>4, <2>5, <2>6
<1>4. ~Blank(Topic(config, s))
  <2>1. ~Blank(DefaultTopic(s.path))
    BY <1>1, DefaultTopicIsLegal DEF StreamConfig, Texts
  <2>2. s.target # None => s.target \in Names
    BY <1>1 DEF StreamConfig, Option
  <2>3. \A n \in Names : config.targets[n] # None => ~Blank(config.targets[n])
    BY DEF Valid
  <2>4. config.default_topic # None => ~Blank(config.default_topic)
    BY DEF Valid
  <2> QED
    BY <1>3, <2>1, <2>2, <2>3, <2>4 DEF FollowsPrecedence, Given
<1> QED
  BY <1>1, <1>2, <1>3, <1>4 DEF Runtime, ValidStream

-----------------------------------------------------------------------------
(* A start has read nothing, checked nothing and handed out nothing.       *)
LEMMA InitInv == Init => IInv
<1> SUFFICES ASSUME Init PROVE IInv
  OBVIOUS
<1>1. TypeOK
  BY StartupAssumption, RuntimesOfStreams DEF Init, TypeOK, Steps
<1>2. ValidInv /\ RuntimesInv
  BY DEF Init, ValidInv, Loaded, RuntimesInv
<1>3. SeenInv
  BY DEF Init, SeenInv
<1>4. RoutesInv /\ FoundInv
  BY DEF Init, RoutesInv, FoundInv
<1>5. ErrInv
  BY StartupAssumption DEF Init, ErrInv
<1> QED
  BY <1>1, <1>2, <1>3, <1>4, <1>5 DEF IInv

(* resolve_default changes the store and nothing else.                     *)
LEMMA LoadKeeps ==
  ASSUME IInv, Load
  PROVE  IInv'
<1> USE DEF IInv, ValidInv, Loaded, RuntimesInv, SeenInv, RoutesInv, FoundInv, ErrInv
<1>1. CASE pc' = "client"
  <2> DEFINE store == IF config.store = None THEN Beside ELSE config.store
  <2>1. /\ pc = "load" /\ Valid(config) /\ config' = [config EXCEPT !.store = store]
        /\ UNCHANGED <<err, host, gone, runtimes, checked, asked, seen, routes, active, found>>
    BY <1>1 DEF Load, GoTo, Fail
  <2>2. store \in Stores /\ store # None
    <3>1. config.store \in Stores \cup {None}
      BY DEF TypeOK, BridgeConfig, Option
    <3>2. None \notin Stores /\ Beside \in Stores
      BY StartupAssumption
    <3> QED
      BY <3>1, <3>2
  <2>3. config \in BridgeConfig
    BY DEF TypeOK
  <2>4. config' \in BridgeConfig /\ config'.store = store
    BY <2>1, <2>2, <2>3 DEF BridgeConfig, Option
  <2>5. /\ config'.streams = config.streams /\ config'.discovery = config.discovery
        /\ config'.targets = config.targets /\ config'.auth = config.auth
        /\ config'.default_topic = config.default_topic
    BY <2>1, <2>3 DEF BridgeConfig
  <2>6. Valid(config)'
    BY <2>1, <2>5 DEF Valid, ValidStream
  <2>7. TypeOK'
    BY <1>1, <2>1, <2>4, <2>5 DEF TypeOK, Steps
  <2> HIDE DEF store
  <2>8. ValidInv'
    BY <2>2, <2>4, <2>6
  <2>9. RuntimesInv' /\ RoutesInv' /\ FoundInv'
    BY <1>1, <2>1
  <2>10. SeenInv'
    BY <1>1, <2>1, <2>5
  <2>11. ErrInv'
    BY <2>1, <2>3 DEF BridgeConfig
  <2> QED
    BY <2>7, <2>8, <2>9, <2>10, <2>11
<1>2. CASE pc' # "client"
  <2>1. /\ pc = "load" /\ pc' = "failed" /\ err' = "Config"
        /\ UNCHANGED <<config, host, gone, runtimes, checked, asked, seen, routes, active, found>>
    BY <1>2 DEF Load, GoTo, Fail
  <2> QED
    BY <2>1 DEF TypeOK, Steps, Valid
<1> QED
  BY <1>1, <1>2

(* The rest of the start, call by call.                                    *)
LEMMA NewClientKeeps ==
  ASSUME IInv, NewClient
  PROVE  IInv'
<1> USE DEF IInv, ValidInv, Loaded, RuntimesInv, SeenInv, RoutesInv, FoundInv, ErrInv
<1>1. /\ pc = "client" /\ pc' \in {"sink", "failed"}
      /\ err' = IF pc' = "sink" THEN err ELSE "Client"
      /\ pc' = "failed" => ~(config.base_url /\ host.http)
      /\ UNCHANGED <<config, host, gone, runtimes, checked, asked, seen, routes, active, found>>
  BY DEF NewClient, GoTo, Fail
<1>2. TypeOK'
  BY <1>1 DEF TypeOK, Steps
<1>3. ValidInv' /\ RuntimesInv' /\ RoutesInv' /\ FoundInv'
  BY <1>1
<1>4. SeenInv' /\ ErrInv'
  BY <1>1
<1> QED
  BY <1>2, <1>3, <1>4

LEMMA NewSinkKeeps ==
  ASSUME IInv, NewSink
  PROVE  IInv'
<1> USE DEF IInv, ValidInv, Loaded, RuntimesInv, SeenInv, RoutesInv, FoundInv, ErrInv
<1>1. /\ pc = "sink" /\ pc' \in {"streams", "open", "failed"}
      /\ err' = IF pc' = "failed" THEN "Kafka" ELSE err
      /\ pc' # "failed" => runtimes' = Runtimes(config)
      /\ pc' = "open" => ~config.preflight.enabled
      /\ UNCHANGED <<config, host, gone, checked, asked, seen, routes, active, found>>
  BY DEF NewSink, GoTo, Fail
<1>2. TypeOK'
  BY <1>1 DEF TypeOK, Steps
<1>3. ValidInv' /\ RoutesInv' /\ FoundInv' /\ ErrInv'
  BY <1>1
<1>4. RuntimesInv'
  BY <1>1 DEF Runtimes, Runtime, Topic
<1>5. SeenInv'
  BY <1>1
<1> QED
  BY <1>2, <1>3, <1>4, <1>5

LEMMA CheckStreamKeeps ==
  ASSUME IInv, CheckStream
  PROVE  IInv'
<1> USE DEF IInv, ValidInv, Loaded, RuntimesInv, SeenInv, RoutesInv, FoundInv, ErrInv
<1> DEFINE path == config.streams[checked + 1].path
<1>1. /\ config \in BridgeConfig /\ Valid(config) /\ runtimes = Runtimes(config)
      /\ pc = "streams" /\ checked < Len(runtimes) /\ checked \in 0..Len(config.streams)
  BY DEF CheckStream, TypeOK
<1>2. checked + 1 \in 1..Len(config.streams) /\ checked \in Nat
  BY <1>1, RuntimesOfStreams
<1>3. runtimes[checked + 1].path = path /\ IsStreamPath(path)
  BY <1>1, <1>2, ValidRuntimes
<1>4. CASE pc' = "failed"
  <2>1. /\ err' = "PreflightStream"
        /\ UNCHANGED <<config, host, gone, runtimes, checked, asked, seen, routes, active, found>>
    BY <1>1, <1>3, <1>4 DEF CheckStream, Fail
  <2>2. TypeOK'
    BY <1>4, <2>1 DEF TypeOK, Steps
  <2> QED
    BY <1>1, <1>4, <2>1, <2>2
<1>5. CASE pc' # "failed"
  <2>1. /\ checked' = checked + 1 /\ seen' = seen \cup {StreamAt(path)}
        /\ UNCHANGED <<pc, err, config, host, gone, runtimes, asked, routes, active, found>>
    BY <1>3, <1>5 DEF CheckStream, Fail
  <2>2. TypeOK'
    BY <1>2, <2>1 DEF TypeOK, Steps
  <2>3. \A i \in 1..checked' : i \in 1..checked \/ i = checked + 1
    BY <1>2, <2>1
  <2>4. SeenInv'
    BY <1>1, <2>1, <2>3
  <2>5. ValidInv' /\ RuntimesInv' /\ RoutesInv' /\ FoundInv' /\ ErrInv'
    BY <1>1, <2>1
  <2> QED
    BY <2>2, <2>4, <2>5
<1> QED
  BY <1>4, <1>5

LEMMA CheckBrokerKeeps ==
  ASSUME IInv, CheckBroker
  PROVE  IInv'
<1> USE DEF IInv, ValidInv, Loaded, RuntimesInv, SeenInv, RoutesInv, FoundInv, ErrInv
<1>1. /\ pc = "streams" /\ pc' \in {"topics", "open", "failed"}
      /\ checked = Len(runtimes) /\ runtimes = Runtimes(config)
      /\ err' = IF pc' = "failed" THEN "PreflightKafka" ELSE err
      /\ pc' # "failed" => Broker \in seen'
      /\ pc' = "open" => ~config.preflight.require_topics_exist \/ runtimes = <<>>
      /\ seen \subseteq seen'
      /\ UNCHANGED <<config, host, gone, runtimes, checked, asked, routes, active, found>>
  BY DEF CheckBroker, GoTo, Fail
<1>2. TypeOK'
  BY <1>1 DEF TypeOK, Steps
<1>3. ValidInv' /\ RuntimesInv' /\ RoutesInv' /\ FoundInv' /\ ErrInv'
  BY <1>1
<1>4. checked = Len(config.streams)
  BY <1>1, RuntimesOfStreams DEF TypeOK
<1>5. runtimes = <<>> => TopicsOf(runtimes) = {}
  BY DEF TopicsOf
<1>6. SeenInv'
  BY <1>1, <1>4, <1>5 DEF TopicsOf
<1> QED
  BY <1>2, <1>3, <1>6

LEMMA CheckTopicKeeps ==
  ASSUME IInv, CheckTopic
  PROVE  IInv'
<1> USE DEF IInv, ValidInv, Loaded, RuntimesInv, SeenInv, RoutesInv, FoundInv, ErrInv
<1>1. /\ pc = "topics" /\ pc' \in {"topics", "open", "failed"}
      /\ err' = IF pc' = "failed" THEN "PreflightKafka" ELSE err
      /\ pc' = "open" => TopicsOf(runtimes) \subseteq asked'
      /\ seen \subseteq seen'
      /\ ~host.names_missing /\ asked \subseteq seen => asked' \subseteq seen'
      /\ UNCHANGED <<config, host, gone, runtimes, checked, routes, active, found>>
  BY DEF CheckTopic, GoTo, Fail
<1>2. TypeOK'
  BY <1>1 DEF TypeOK, Steps
<1>3. ValidInv' /\ RuntimesInv' /\ RoutesInv' /\ FoundInv' /\ ErrInv'
  BY <1>1
<1>4. SeenInv'
  BY <1>1 DEF TopicsOf
<1> QED
  BY <1>2, <1>3, <1>4

LEMMA OpenStoreKeeps ==
  ASSUME IInv, OpenStore
  PROVE  IInv'
<1> USE DEF IInv, ValidInv, Loaded, RuntimesInv, SeenInv, RoutesInv, FoundInv, ErrInv
<1>1. pc = "open" /\ config.store # None
  BY DEF OpenStore
<1>2. /\ pc' \in {"running", "failed"}
      /\ err' = IF pc' = "failed" THEN "OffsetStore" ELSE err
      /\ pc' = "running" =>
           active' = {runtimes[i].path : i \in DOMAIN runtimes} /\ routes' = runtimes
      /\ pc' = "failed" => UNCHANGED <<active, routes>>
      /\ UNCHANGED <<config, host, gone, runtimes, checked, asked, seen, found>>
  BY <1>1 DEF OpenStore, GoTo, Fail
<1>3. TypeOK'
  BY <1>2 DEF TypeOK, Steps
<1>4. ValidInv' /\ RuntimesInv' /\ FoundInv' /\ ErrInv'
  BY <1>1, <1>2
<1>5. RoutesInv'
  BY <1>1, <1>2
<1>6. SeenInv'
  BY <1>1, <1>2
<1> QED
  BY <1>3, <1>4, <1>5, <1>6

(* What has answered has answered, even if it goes away later.             *)
LEMMA WorldChangesKeeps ==
  ASSUME IInv, WorldChanges
  PROVE  IInv'
<1> USE DEF IInv, ValidInv, Loaded, RuntimesInv, SeenInv, RoutesInv, FoundInv, ErrInv
<1>1. /\ pc \in {"streams", "topics"}
      /\ UNCHANGED <<pc, err, config, host, runtimes, checked, asked, seen, routes, active, found>>
  BY DEF WorldChanges
<1>2. TypeOK'
  BY <1>1 DEF TypeOK
<1>3. ValidInv' /\ RuntimesInv' /\ RoutesInv' /\ FoundInv' /\ ErrInv'
  BY <1>1
<1>4. SeenInv'
  BY <1>1
<1> QED
  BY <1>2, <1>3, <1>4

(* What discovery adds is a path that can be subscribed to.                *)
LEMMA AnnounceKeeps ==
  ASSUME IInv, NEW i \in DOMAIN config.discovery, NEW event \in Events,
         Announce(config.discovery[i], event)
  PROVE  IInv'
<1> USE DEF IInv, ValidInv, Loaded, RuntimesInv, SeenInv, RoutesInv, FoundInv, ErrInv
<1> DEFINE d == config.discovery[i]
           extracted == GetDotted(event, d.path_field)
           path == DiscoveredPath(extracted.text, d.path_prefix)
           r == [path |-> path, topic |-> DiscoveredTopic(path, d.topic_template),
                 offset |-> StartOffset(d.default_offset)]
<1>1. /\ pc = "running" /\ extracted.kind = "string" /\ IsStreamPath(path)
      /\ active' = active \cup {path} /\ found' = found \cup {r}
      /\ UNCHANGED <<pc, err, config, host, gone, runtimes, checked, asked, seen, routes>>
  BY DEF Announce
<1>2. extracted.text \in Texts
  BY <1>1, StartupAssumption DEF TypeOK
<1>3. path \in Texts
  <2>1. config.discovery \in Seq(DiscoveryConfig)
    BY DEF TypeOK, BridgeConfig
  <2>2. d \in DiscoveryConfig
    BY <2>1, LenProperties, ElementOfSeq
  <2>3. d.path_prefix = None \/ d.path_prefix \in Seq(Chars)
    BY <2>2 DEF DiscoveryConfig, Option, Texts
  <2>4. d.path_prefix # None => d.path_prefix \o extracted.text \in Seq(Chars)
    BY <1>2, <2>3, ConcatProperties DEF Texts
  <2> QED
    BY <1>2, <2>4 DEF DiscoveredPath, Texts
<1>4. \A j \in DOMAIN r.topic : r.topic[j] \in Legal
  BY <1>3, DiscoveredTopicIsLegal DEF Texts
<1>5. r.path = path
  OBVIOUS
<1> HIDE DEF r, path
<1>6. TypeOK'
  BY <1>1 DEF TypeOK
<1>7. ValidInv' /\ RuntimesInv' /\ SeenInv' /\ ErrInv'
  BY <1>1
<1>8. RoutesInv'
  BY <1>1, <1>5
<1>9. FoundInv'
  BY <1>1, <1>4, <1>5
<1> QED
  BY <1>6, <1>7, <1>8, <1>9

(* What a start has loaded, checked and handed on is kept by all its       *)
(* steps, by changes of the world and by announcements.                    *)
THEOREM Invariance == Spec => []IInv
<1>1. IInv /\ [Next]_vars => IInv'
  <2> SUFFICES ASSUME IInv, [Next]_vars PROVE IInv'
    OBVIOUS
  <2>1. CASE StartStep
    BY <2>1, LoadKeeps, NewClientKeeps, NewSinkKeeps, CheckStreamKeeps, CheckBrokerKeeps,
       CheckTopicKeeps, OpenStoreKeeps DEF StartStep
  <2>2. CASE WorldChanges
    BY <2>2, WorldChangesKeeps
  <2>3. CASE \E i \in DOMAIN config.discovery, event \in Events :
               Announce(config.discovery[i], event)
    BY <2>3, AnnounceKeeps
  <2>4. CASE UNCHANGED vars
    BY <2>4 DEF vars, IInv, TypeOK, ValidInv, Loaded, RuntimesInv, SeenInv, RoutesInv,
                FoundInv, ErrInv
  <2> QED
    BY <2>1, <2>2, <2>3, <2>4 DEF Next
<1> QED
  BY InitInv, <1>1, PTL DEF Spec

(* README, "Topic precedence", for any config: what validate lets through  *)
(* is routed by the first rule that applies, and a target that is named    *)
(* is the one that is used.                                                *)
THEOREM RoutesFollowPrecedence == Spec => []RoutedAsDocumented
<1>1. IInv => RoutedAsDocumented
  <2> SUFFICES ASSUME IInv, pc = "running", NEW i \in DOMAIN config.streams
               PROVE  /\ i \in DOMAIN routes
                      /\ routes[i].path = config.streams[i].path
                      /\ FollowsPrecedence(config.streams[i], routes[i].topic)
    BY DEF RoutedAsDocumented
  <2>1. config \in BridgeConfig /\ Valid(config) /\ routes = Runtimes(config)
    BY DEF IInv, TypeOK, ValidInv, Loaded, RuntimesInv, RoutesInv
  <2>2. i \in 1..Len(config.streams) /\ i \in DOMAIN Runtimes(config)
    BY <2>1, RuntimesOfStreams
  <2> QED
    BY <2>1, <2>2, ValidRuntimes
<1> QED
  BY <1>1, Invariance, PTL

(* No forwarder runs before every static stream, the broker and, if it is  *)
(* wanted, every topic was there when the preflight asked for it, the last *)
(* unless the cluster names topics it does not have.                       *)
THEOREM PreflightIsComplete == Spec => []ReadyMeansChecked
<1>1. IInv => ReadyMeansChecked
  <2> SUFFICES ASSUME IInv, pc = "running", config.preflight.enabled
               PROVE  /\ \A i \in DOMAIN config.streams : StreamAt(routes[i].path) \in seen
                      /\ Broker \in seen
                      /\ config.preflight.require_topics_exist /\ ~host.names_missing =>
                           \A i \in DOMAIN config.streams : TopicNamed(routes[i].topic) \in seen
    BY DEF ReadyMeansChecked
  <2>1. /\ config \in BridgeConfig /\ Valid(config)
        /\ runtimes = Runtimes(config) /\ routes = Runtimes(config)
    BY DEF IInv, TypeOK, ValidInv, Loaded, RuntimesInv, RoutesInv
  <2>2. /\ DOMAIN config.streams = 1..Len(config.streams)
        /\ DOMAIN routes = 1..Len(config.streams)
        /\ \A i \in DOMAIN config.streams : routes[i].path = config.streams[i].path
    BY <2>1, RuntimesOfStreams, ValidRuntimes
  <2>3. /\ checked = Len(config.streams) /\ Broker \in seen
        /\ \A i \in 1..checked : StreamAt(config.streams[i].path) \in seen
        /\ config.preflight.require_topics_exist /\ ~host.names_missing =>
             TopicsOf(runtimes) \subseteq seen
    BY DEF IInv, SeenInv
  <2> QED
    BY <2>1, <2>2, <2>3 DEF TopicsOf
<1> QED
  BY <1>1, Invariance, PTL

(* A config that validate lets through names nothing unusable: neither a   *)
(* path that cannot be subscribed to nor a blank topic.                    *)
THEOREM ValidConfigIsUsable == Spec => []ValidatedMeansUsable
<1>1. IInv => ValidatedMeansUsable
  <2> SUFFICES ASSUME IInv PROVE ValidatedMeansUsable
    OBVIOUS
  <2>1. ASSUME pc = "running", NEW i \in DOMAIN config.discovery
        PROVE  IsStreamPath(config.discovery[i].control_stream)
    BY <2>1 DEF IInv, ValidInv, Loaded, Valid, ValidDiscovery
  <2>2. ASSUME NEW i \in DOMAIN routes
        PROVE  IsStreamPath(routes[i].path) /\ ~Blank(routes[i].topic)
    <3>1. CASE pc # "running"
      BY <2>2, <3>1 DEF IInv, RoutesInv
    <3>2. CASE pc = "running"
      <4>1. config \in BridgeConfig /\ Valid(config) /\ routes = Runtimes(config)
        BY <3>2 DEF IInv, TypeOK, ValidInv, Loaded, RuntimesInv, RoutesInv
      <4>2. i \in 1..Len(config.streams)
        BY <2>2, <4>1, RuntimesOfStreams
      <4> QED
        BY <4>1, <4>2, ValidRuntimes
    <3> QED
      BY <3>1, <3>2
  <2> QED
    BY <2>1, <2>2 DEF ValidatedMeansUsable, IInv, FoundInv, ErrInv
<1> QED
  BY <1>1, Invariance, PTL

(* The part of SoundStarts that needs no fairness: a start fails only for  *)
(* something that is wrong with its file, its host or its secrets, or that *)
(* is not there when it looks, and never between two checks that passed.   *)
THEOREM FailsForAReason ==
  Spec => [][pc # "failed" /\ pc' = "failed" => ~Sound \/ gone # {}]_vars
<1>1. ASSUME IInv, Next, pc # "failed", pc' = "failed", Sound, gone = {}
      PROVE  FALSE
  <2>1. CASE Load \/ NewClient \/ NewSink
    BY <1>1, <2>1 DEF Load, NewClient, NewSink, GoTo, Sound
  <2>2. CASE CheckStream
    <3>1. /\ config \in BridgeConfig /\ Valid(config) /\ runtimes = Runtimes(config)
          /\ checked < Len(runtimes) /\ checked \in 0..Len(config.streams)
      BY <1>1, <2>2 DEF CheckStream, IInv, TypeOK, ValidInv, Loaded, RuntimesInv
    <3>2. checked + 1 \in 1..Len(config.streams)
      BY <3>1, RuntimesOfStreams
    <3>3. IsStreamPath(runtimes[checked + 1].path)
      BY <3>1, <3>2, ValidRuntimes
    <3> QED
      BY <1>1, <2>2, <3>3 DEF CheckStream
  <2>3. CASE CheckBroker \/ CheckTopic
    BY <1>1, <2>3 DEF CheckBroker, CheckTopic, GoTo
  <2>4. CASE OpenStore
    <3>1. pc = "open" /\ config.store # None
      BY <1>1, <2>4 DEF OpenStore, IInv, ValidInv, Loaded
    <3> QED
      BY <1>1, <2>4, <3>1 DEF OpenStore, GoTo, Sound
  <2>5. CASE \E i \in DOMAIN config.discovery, event \in Events :
               Announce(config.discovery[i], event)
    BY <1>1, <2>5 DEF Announce
  <2>6. CASE WorldChanges
    BY <1>1, <2>6 DEF WorldChanges
  <2> QED
    BY <1>1, <2>1, <2>2, <2>3, <2>4, <2>5, <2>6 DEF Next, StartStep
<1>2. IInv /\ [Next]_vars => [pc # "failed" /\ pc' = "failed" => ~Sound \/ gone # {}]_vars
  BY <1>1
<1> QED
  BY <1>2, Invariance, PTL DEF Spec
=============================================================================
