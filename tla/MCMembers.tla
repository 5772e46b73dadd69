----------------------------- MODULE MCMembers -----------------------------
(***************************************************************************)
(* The registry and one channel: clients that come, register, rename, are  *)
(* made operator and leave in every way there is, and descriptors and      *)
(* nicknames that are taken again, by the same client or by another one.   *)
(* Modes i, t, k and l are left to MCSettings.                             *)
(***************************************************************************)
EXTENDS IrcServer, TLC

\* The output of a step is not part of the state, and one halted state stands
\* for all.
View == IF fault # "none" THEN <<fault>> ELSE <<regVars, chanVars, work, fault>>

Symmetry == Permutations(Clients) \cup Permutations(Nicks)

Lists == { <<[ch |-> ch, key |-> ""]>> : ch \in ChannelNames }

OperatorRequests ==
  {[add |-> add, flags |-> {}, ops |-> {n}, key |-> "key", limit |-> 0] :
     add \in BOOLEAN, n \in Nicks}
=============================================================================
