-------------------------------- MODULE MCApp --------------------------------
(***************************************************************************)
(* Instances of App for TLC: a stream p that two [[streams]] entries name, *)
(* or none, and two control streams that may announce it, one of them read *)
(* from "now" and in pieces.  The two instances that look for a            *)
(* disagreement with the documentation have one control stream.            *)
(***************************************************************************)
EXTENDS App
=============================================================================
