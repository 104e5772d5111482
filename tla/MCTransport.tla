----------------------------- MODULE MCTransport -----------------------------
(***************************************************************************)
(* A bounded call (metadata, read), in units of the initial backoff.       *)
(***************************************************************************)
EXTENDS Transport
=============================================================================
