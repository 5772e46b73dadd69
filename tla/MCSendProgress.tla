--------------------------- MODULE MCSendProgress ---------------------------
(***************************************************************************)
(* Messages of one to three bytes and room for three: a message fits, fits *)
(* in part, or finds a backlog, in every length of both.  Only the backlog *)
(* is bounded, not the traffic: casts go on for ever.                      *)
(***************************************************************************)
EXTENDS SendProgress

CONSTANT BacklogMax   \* bound on what waits

Bounded == Init /\ [][Next /\ backlog' <= BacklogMax]_vars /\ Fairness
=============================================================================
