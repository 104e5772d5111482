----------------------------- MODULE AtLeastOnce -----------------------------
(***************************************************************************)
(* What the bridge promises for one stream: at-least-once delivery, in     *)
(* order, with a resumable position.  Messages are numbered 1, 2, 3, ... as *)
(* they are published.                                                     *)
(*                                                                         *)
(* A delivery hands a run of consecutive messages to Kafka.  It may repeat *)
(* messages that were delivered before, but it may not leave a gap: what   *)
(* comes before the run has been delivered.  The position a restart        *)
(* resumes from only moves forward, and only over delivered messages.      *)
(***************************************************************************)
EXTENDS Naturals

VARIABLES
  published,   \* how many messages the stream has
  delivered,   \* the messages some Kafka record holds
  committed    \* the position a restart resumes from

vars == <<published, delivered, committed>>

(* What the bridge is configured to begin behind counts as delivered.      *)
Init ==
  /\ published \in Nat
  /\ \E n \in 0..published : delivered = 1..n
  /\ committed = 0

Publish ==
  /\ published' = published + 1
  /\ UNCHANGED <<delivered, committed>>

Deliver ==
  /\ \E from, to \in 1..published :
       /\ from <= to
       /\ 1..(from - 1) \subseteq delivered
       /\ delivered' = delivered \cup from..to
  /\ UNCHANGED <<published, committed>>

Commit ==
  /\ committed' \in committed..published
  /\ 1..committed' \subseteq delivered
  /\ UNCHANGED <<published, delivered>>

Next == Publish \/ Deliver \/ Commit

Spec == Init /\ [][Next]_vars
=============================================================================
