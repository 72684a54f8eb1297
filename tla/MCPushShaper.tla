---------------------------- MODULE MCPushShaper ----------------------------
(***************************************************************************)
(* Two callers that wait and one that does not, a queue of two and batches *)
(* of two, so that a request is refused, a batch is filled after its size  *)
(* was read, and Close meets every step of Run.                            *)
(***************************************************************************)
EXTENDS PushShaper
=============================================================================
