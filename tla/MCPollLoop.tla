----------------------------- MODULE MCPollLoop -----------------------------
(***************************************************************************)
(* Three descriptors and a limit of two clients: a third connection is     *)
(* refused while the slots of marked clients count, a descriptor is used   *)
(* again after a cleanup, and marks hit slots before and behind the pass.  *)
(***************************************************************************)
EXTENDS PollLoop

=============================================================================
