--------------------------- MODULE MCInvitations ---------------------------
(***************************************************************************)
(* Mode i of one channel, with two clients and two names: invitations,     *)
(* renames, lost connections, and whoever comes by the name afterwards.    *)
(* The code records an invitation as a nickname.  Here a history variable  *)
(* records whom it was sent to.                                            *)
(***************************************************************************)
EXTENDS IrcServer, TLC

VARIABLE invitees   \* history: per channel, the clients that an INVITE was sent to

View ==
  IF fault # "none" THEN <<fault>> ELSE <<regVars, chanVars, work, fault, invitees>>

Symmetry == Permutations(Clients) \cup Permutations(Nicks)

Lists == { <<[ch |-> ch, key |-> ""]>> : ch \in ChannelNames }

InviteOnly == { [add |-> TRUE, flags |-> {"i"}, ops |-> {}, key |-> "key", limit |-> 0] }

\* Whom the step sent an invitation to ch.
Invited(ch) ==
  IF deed'.cmd = "INVITE" /\ deed'.ok /\ ch \in deed'.on THEN deed'.to \ {deed'.by} ELSE {}

\* A client that is torn down is nobody any more, and so is its descriptor's next.
Recorded ==
  /\ Init /\ invitees = [ch \in ChannelNames |-> {}]
  /\ [][ /\ Next
         /\ invitees' = [ch \in ChannelNames |-> (invitees[ch] \cup Invited(ch)) \cap clients']
       ]_<<vars, invitees>>

\* ReplyCode.hpp: only invited users come into a channel with mode i.
OnlyInvitedEnter ==
  [][\A ch \in channels : \A c \in Audience(chan'[ch]) \ Audience(chan[ch]) :
       "i" \in chan[ch].mode => c \in invitees[ch]]_<<vars, invitees>>
=============================================================================
