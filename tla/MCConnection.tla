---------------------------- MODULE MCConnection ----------------------------
(***************************************************************************)
(* One connection with lines of at most two bytes, room for two bytes in   *)
(* the kernel and answers of two bytes, so that a second answer finds the  *)
(* room full, a third one a backlog, and a line is longer than allowed.    *)
(***************************************************************************)
EXTENDS Connection

CONSTANT Budget   \* bound on the bytes of one connection, received and cast

Bounded == Init /\ [][Next /\ Len(heard') + cast' <= Budget]_vars
=============================================================================
