----------------------------- MODULE MCRegistry -----------------------------
(***************************************************************************)
(* The registry on four descriptors, of which MAX_CLIENTS admits three at  *)
(* a time, and three nicknames: a descriptor and a nickname that were let  *)
(* go are taken again, by the same client and by another one.              *)
(***************************************************************************)
EXTENDS Registry, TLC

Symmetry == Permutations(Clients) \cup Permutations(Nicks)
=============================================================================
