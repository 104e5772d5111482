--------------------------- MODULE DurableOffsets ---------------------------
(***************************************************************************)
(* What the offset store promises its callers: an array of durable         *)
(* counters.  Saves to a path are numbered 1, 2, 3, ...; `latest` is the    *)
(* number of the last save the running process has made, `durable` the     *)
(* number of the save a restart would find on disk, `acked` the highest    *)
(* save whose caller has been told it succeeded.                           *)
(*                                                                         *)
(* A crash forgets the saves that are not durable yet.  It may not forget  *)
(* one that was acknowledged, and the disk may never go back.              *)
(***************************************************************************)
EXTENDS Naturals

CONSTANT Paths          \* the stream paths that have an entry in the store

VARIABLES latest, durable, acked

vars == <<latest, durable, acked>>

Init ==
  /\ latest  = [p \in Paths |-> 0]
  /\ durable = [p \in Paths |-> 0]
  /\ acked   = [p \in Paths |-> 0]

(* A caller hands the store the next offset of a path.                     *)
Write(p) ==
  /\ latest' = [latest EXCEPT ![p] = @ + 1]
  /\ UNCHANGED <<durable, acked>>

(* Any number of saves, of any paths, become durable at once: the store    *)
(* writes one file with all the paths in it.                               *)
Persist ==
  /\ durable' \in [Paths -> Nat]
  /\ \A p \in Paths : durable[p] <= durable'[p] /\ durable'[p] <= latest[p]
  /\ UNCHANGED <<latest, acked>>

(* A caller is told that its save succeeded: it is durable by then.        *)
Acknowledge(p) ==
  /\ acked' \in [Paths -> Nat]
  /\ acked[p] < acked'[p] /\ acked'[p] <= durable[p]
  /\ \A q \in Paths \ {p} : acked'[q] = acked[q]
  /\ UNCHANGED <<latest, durable>>

(* The process stops and a new one reads the disk.                         *)
Recover ==
  /\ latest' = durable
  /\ UNCHANGED <<durable, acked>>

Next ==
  \/ \E p \in Paths : Write(p) \/ Acknowledge(p)
  \/ Persist
  \/ Recover

Spec == Init /\ [][Next]_vars
=============================================================================
