----------------------------- MODULE MCSettings -----------------------------
(***************************************************************************)
(* The settings of one channel: every MODE line over the letters o, i, t,  *)
(* k and l with two passwords (of which "x" means none when a JOIN makes   *)
(* the channel) and the limits 0 and 1, TOPIC, INVITE and JOINs with each  *)
(* password.                                                               *)
(***************************************************************************)
EXTENDS IrcServer, TLC

CONSTANT MaxLetters     \* the letters of one MODE line

View == IF fault # "none" THEN <<fault>> ELSE <<regVars, chanVars, work, fault>>

Symmetry == Permutations(Clients) \cup Permutations(Nicks)

Joins == { <<[ch |-> ch, key |-> key]>> : ch \in ChannelNames, key \in Keys \cup {""} }
Parts == { <<[ch |-> ch, key |-> ""]>> : ch \in ChannelNames }

\* A parameter varies only where its letter is there to read it.
SettingRequests ==
  {r \in [add : BOOLEAN, flags : SUBSET Flags, ops : SUBSET Nicks, key : Keys, limit : Limits] :
     /\ "k" \in r.flags \/ r.key = "key"
     /\ (r.add /\ "l" \in r.flags) \/ r.limit = 1
     /\ Cardinality(r.flags) + Cardinality(r.ops) \in 1..MaxLetters}
=============================================================================
