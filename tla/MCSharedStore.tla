---------------------------- MODULE MCSharedStore ----------------------------
(***************************************************************************)
(* An instance of SharedStore for TLC: a control stream that is also a     *)
(* static stream, with its discovery task w, which begins at "now", and    *)
(* its forwarder f, and another stream with a forwarder g of its own.      *)
(***************************************************************************)
EXTENDS SharedStore, TLC

CONSTANTS w, f, g, control, orders

MCPathOf == (w :> control) @@ (f :> control) @@ (g :> orders)
MCFrom   == (w :> Now) @@ (f :> 0) @@ (g :> 0)
=============================================================================
