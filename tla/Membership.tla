----------------------------- MODULE Membership -----------------------------
(***************************************************************************)
(* What the server promises about channels, in terms of clients: who is in *)
(* a channel, who is operator of it, and which channels there are.         *)
(* Nicknames, maps, invitations, settings and messages are below this      *)
(* level: a NICK is a step that changes nothing here.                      *)
(***************************************************************************)
EXTENDS Naturals

CONSTANTS Clients, ChannelNames

VARIABLES channels,    \* the channels there are
          members,     \* the clients in each channel
          operators    \* the operators of each channel

vars == <<channels, members, operators>>

Init ==
  /\ channels = {}
  /\ members = [ch \in ChannelNames |-> {}]
  /\ operators = [ch \in ChannelNames |-> {}]

\* The first to come makes the channel and is its operator.
Found(ch, c) ==
  /\ ch \notin channels
  /\ channels' = channels \cup {ch}
  /\ members' = [members EXCEPT ![ch] = {c}]
  /\ operators' = [operators EXCEPT ![ch] = {c}]

Enter(ch, c) ==
  /\ ch \in channels
  /\ members' = [members EXCEPT ![ch] = @ \cup {c}]
  /\ UNCHANGED <<channels, operators>>

\* A client goes by itself or is sent away by an operator.  The channel ends
\* with its last member.
Depart(ch, by, c) ==
  /\ ch \in channels
  /\ c \in members[ch]
  /\ by = c \/ by \in operators[ch]
  /\ members' = [members EXCEPT ![ch] = @ \ {c}]
  /\ operators' = [operators EXCEPT ![ch] = @ \ {c}]
  /\ channels' = IF members[ch] = {c} THEN channels \ {ch} ELSE channels

\* Only an operator makes operators, out of members, or unmakes them.
Grant(ch, by, S) ==
  /\ by \in operators[ch]
  /\ S \subseteq members[ch]
  /\ operators' = [operators EXCEPT ![ch] = @ \cup S]
  /\ UNCHANGED <<channels, members>>

Revoke(ch, by, S) ==
  /\ by \in operators[ch]
  /\ operators' = [operators EXCEPT ![ch] = @ \ S]
  /\ UNCHANGED <<channels, members>>

\* Connections end: their clients are out of every channel at once.  A channel
\* that this empties stays, without an operator, until somebody leaves it by
\* PART.
Vanish(S) ==
  /\ members' = [ch \in ChannelNames |-> members[ch] \ S]
  /\ operators' = [ch \in ChannelNames |-> operators[ch] \ S]
  /\ UNCHANGED channels

Next ==
  \/ \E S \in SUBSET Clients : Vanish(S)
  \/ \E ch \in ChannelNames, c \in Clients :
       \/ Found(ch, c)
       \/ Enter(ch, c)
       \/ \E by \in Clients : Depart(ch, by, c)
       \/ \E S \in SUBSET Clients : Grant(ch, c, S) \/ Revoke(ch, c, S)

Spec == Init /\ [][Next]_vars

-----------------------------------------------------------------------------

TypeOK ==
  /\ channels \subseteq ChannelNames
  /\ members \in [ChannelNames -> SUBSET Clients]
  /\ operators \in [ChannelNames -> SUBSET Clients]

\* An operator is a member, and nobody is in a channel that is not there.
OperatorsAreMembers ==
  \A ch \in ChannelNames :
    /\ operators[ch] \subseteq members[ch]
    /\ ch \notin channels => members[ch] = {}
=============================================================================
