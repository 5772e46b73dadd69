------------------------------ MODULE MCLists ------------------------------
(***************************************************************************)
(* Two channels: JOIN and PART lines that name both, in either order, some *)
(* with a key, and a client that is a member here and operator there while *)
(* it is renamed, kicked from one or disconnected.                         *)
(***************************************************************************)
EXTENDS IrcServer, TLC

View == IF fault # "none" THEN <<fault>> ELSE <<regVars, chanVars, work, fault>>

Symmetry == Permutations(Clients) \cup Permutations(Nicks)

Entries == [ch : ChannelNames, key : {""}]
Lists == {<<>>} \cup {<<a>> : a \in Entries} \cup {<<a, b>> : a, b \in Entries}

\* Mode i opens and closes a channel to those who come.
InviteOnly ==
  {[add |-> add, flags |-> {"i"}, ops |-> {}, key |-> "key", limit |-> 0] : add \in BOOLEAN}
=============================================================================
