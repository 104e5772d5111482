---------------------------- MODULE MCOffsetStore ----------------------------
(***************************************************************************)
(* Three tasks share the store, and two of them save the same path, as the *)
(* forwarder and the discovery task of a stream that is both static and a  *)
(* control stream do.                                                      *)
(***************************************************************************)
EXTENDS OffsetStore, TLC

CONSTANTS t1, t2, t3, a, b

SharedPaths == (t1 :> a) @@ (t2 :> a) @@ (t3 :> b)
=============================================================================
