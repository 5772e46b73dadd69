----------------------------- MODULE IrcServer -----------------------------
(***************************************************************************)
(* The server as its commands see it: the registry of clients together     *)
(* with the map _channels.  One action is one command line handled by      *)
(* handleClientCmd, one lost connection, or the teardown that ends a pass  *)
(* of the poll loop; run() is a single thread, so these never overlap.     *)
(*                                                                         *)
(* JOIN and PART walk a list of channels and send to clients as they go.   *)
(* They take one step per channel: what is left of the list is in work,    *)
(* and nothing else happens before it is empty.                            *)
(*                                                                         *)
(* Any message may fail to go out, and castMsg then marks its receiver: a  *)
(* step that sends chooses the receivers it loses.                         *)
(***************************************************************************)
EXTENDS Registry, Channel, Sequences

CONSTANTS ChannelNames,
          JoinLists,     \* the lists that a JOIN line may carry
          PartLists,     \* the same of PART
          ModeRequests   \* the MODE lines that parse

\* An entry of a JOIN or PART list; PART has no keys.
Entry == [ch : ChannelNames, key : Keys \cup {""}]

ASSUME ServerAssumption ==
  /\ JoinLists \subseteq Seq(Entry)
  /\ PartLists \subseteq Seq(Entry)
  /\ ModeRequests \subseteq ModeRequest

VARIABLES
  channels,    \* the keys of _channels
  chan,        \* the Channel under each name; EmptyChannel when there is none
  work,        \* the command in progress, who sent it, the entries left
  fault,       \* the command whose undefined behaviour ended the program
  deed         \* the last step and its output: written, never read

chanVars == <<channels, chan>>
vars == <<regVars, chanVars, work, fault, deed>>

Commands == {"CAP", "PASS", "NICK", "USER", "PING", "JOIN", "PART", "PRIVMSG",
             "KICK", "INVITE", "MODE", "TOPIC", "QUIT"}

Idle == [cmd |-> "none", by |-> NoClient, rest |-> <<>>]
Work == {Idle} \cup [cmd : {"JOIN", "PART"}, by : Clients, rest : Seq(Entry) \ {<<>>}]

\* by: who caused the step; on: the channels it is about; ok: not an error;
\* to: who was sent something; lost: those of them whose socket failed.
Deed == [cmd  : Commands \cup {"none", "UNKNOWN", "ACCEPT", "DROP", "CLEANUP"},
          by   : Clients \cup {NoClient},
          on   : SUBSET ChannelNames,
          ok   : BOOLEAN,
          to   : SUBSET Clients,
          lost : SUBSET Clients]

\* Types of the server's state, the registry's included.
TypeOK ==
  /\ RegTypeOK
  /\ channels \subseteq ChannelNames
  /\ chan \in [ChannelNames -> Channel]
  /\ work \in Work
  /\ fault \in Commands \cup {"none"}
  /\ deed \in Deed

Init ==
  /\ RegInit
  /\ channels = {}
  /\ chan = [ch \in ChannelNames |-> EmptyChannel]
  /\ work = Idle
  /\ fault = "none"
  /\ deed = [cmd |-> "none", by |-> NoClient, on |-> {}, ok |-> TRUE, to |-> {}, lost |-> {}]

-----------------------------------------------------------------------------

\* The thread is between two command lines.
Free == fault = "none" /\ work = Idle

\* A line of c is handled next.
Ready(c) == Free /\ c \in Served

\* The end of a step: what it sends, to whom, and which of the receivers
\* castMsg marks because their connection is gone.
Reply(cmd, c, on, ok, to) ==
  \E lost \in SUBSET (to \cap clients) :
    /\ Mark(lost)
    /\ deed' = [cmd |-> cmd, by |-> c, on |-> on, ok |-> ok, to |-> to, lost |-> lost]

Silent(cmd, c, on) == Reply(cmd, c, on, TRUE, {})

Throw_DisconnectsAll(cmd, c, on) ==
  \E lost \in SUBSET {c} :
    /\ Mark({c})
    /\ deed' = [cmd |-> cmd, by |-> c, on |-> on, ok |-> FALSE, to |-> {c}, lost |-> lost]

\* handleClientCmd's catch: the error goes to its sender, and whoever has not
\* registered is disconnected.
Throw(cmd, c, on) ==
  \E lost \in SUBSET {c} :
    /\ Mark(lost \cup ({c} \ (passStatus \cap registeredStatus)))
    /\ deed' = [cmd |-> cmd, by |-> c, on |-> on, ok |-> FALSE, to |-> {c}, lost |-> lost]

\* Undefined behaviour that ends the program.
Crash(cmd, c, on) ==
  /\ fault' = cmd
  /\ deed' = [cmd |-> cmd, by |-> c, on |-> on, ok |-> FALSE, to |-> {}, lost |-> {}]
  /\ UNCHANGED <<regVars, chanVars, work>>

Member(c, ch) == ch \in channels /\ IsParticipant(chan[ch], nickname[c])
ChannelOperator(c, ch) == IsOperator(chan[ch], nickname[c])

RemoveFrom_KeepsEmpty(ch, n) ==
  /\ chan' = [chan EXCEPT ![ch] = Leave(@, {n})]
  /\ UNCHANGED channels

\* PART and KICK: the channel goes with its last participant (removeChannel).
RemoveFrom(ch, n) ==
  LET left == Leave(chan[ch], {n})
  IN  IF KeysOf(left.participant) = {}
      THEN /\ channels' = channels \ {ch}
           /\ chan' = [chan EXCEPT ![ch] = EmptyChannel]
      ELSE /\ chan' = [chan EXCEPT ![ch] = left]
           /\ UNCHANGED channels

-----------------------------------------------------------------------------

Accept(c) ==
  /\ Free
  /\ AcceptClient(c)
  /\ deed' = [cmd |-> "ACCEPT", by |-> c, on |-> {}, ok |-> TRUE, to |-> {}, lost |-> {}]
  /\ UNCHANGED <<chanVars, work, fault>>

\* A line that its handler rejects.  Each of these commands throws for some
\* parameters, whatever the state (a bad name, too few of them, an unknown
\* channel); CAP, QUIT and an unknown command never do, and PING and PART only
\* to a client that has not registered (PART also without parameters).
RefuseCmd(c, cmd) ==
  /\ Ready(c)
  /\ cmd \in Commands \ {"CAP", "QUIT"}
  /\ cmd = "PING" => c \notin registeredStatus
  /\ cmd = "JOIN" => c \in registeredStatus
  /\ Throw(cmd, c, {})
  /\ UNCHANGED <<clients, identity, chanVars, work, fault>>

\* CAP and unknown commands are answered whoever sends them, PING once
\* registered, and a JOIN before registration is told so without a throw.
AnswerCmd(c, cmd) ==
  /\ Ready(c)
  /\ \/ cmd \in {"CAP", "UNKNOWN"}
     \/ cmd = "PING" /\ c \in registeredStatus
     \/ cmd = "JOIN" /\ c \notin registeredStatus
  /\ Reply(cmd, c, {}, cmd \in {"CAP", "PING"}, {c})
  /\ UNCHANGED <<clients, identity, chanVars, work, fault>>

CmdPass(c) ==
  /\ Ready(c)
  /\ SetPass(c)
  /\ Silent("PASS", c, {})
  /\ UNCHANGED <<chanVars, work, fault>>

CmdNick_FirstChannel(c, n) ==
  /\ Ready(c)
  /\ SetNick(c, n)
  /\ Reply("NICK", c, {}, TRUE, IF c \in registeredStatus THEN clients ELSE {})
  /\ IF \E ch \in channels : Member(c, ch)
     THEN \E ch \in channels :
            /\ Member(c, ch)
            /\ chan' = [chan EXCEPT ![ch] = Rename(@, nickname[c], n, c)]
     ELSE UNCHANGED chan
  /\ UNCHANGED <<channels, work, fault>>

\* A registered client takes its new name into every channel it is in, and all
\* clients of the server are told.
CmdNick(c, n) ==
  /\ Ready(c)
  /\ SetNick(c, n)
  /\ IF c \in registeredStatus
     THEN /\ chan' = [ch \in ChannelNames |-> Rename(chan[ch], nickname[c], n, c)]
          /\ Reply("NICK", c, {}, TRUE, clients)
     ELSE /\ UNCHANGED chan
          /\ Silent("NICK", c, {})
  /\ UNCHANGED <<channels, work, fault>>

\* The welcome goes out when the registration is complete.
CmdUser(c) ==
  /\ Ready(c)
  /\ SetUser(c)
  /\ Reply("USER", c, {}, TRUE, {c} \cap nickStatus)
  /\ UNCHANGED <<chanVars, work, fault>>

CmdJoin(c, list) ==
  /\ Ready(c)
  /\ c \in registeredStatus
  /\ work' = IF list = <<>> THEN Idle ELSE [cmd |-> "JOIN", by |-> c, rest |-> list]
  /\ Silent("JOIN", c, {})
  /\ UNCHANGED <<clients, identity, chanVars, fault>>

CmdPart(c, list) ==
  /\ Ready(c)
  /\ c \in registeredStatus
  /\ list # <<>>
  /\ work' = [cmd |-> "PART", by |-> c, rest |-> list]
  /\ Silent("PART", c, {})
  /\ UNCHANGED <<clients, identity, chanVars, fault>>

RestOfWork == IF Len(work.rest) = 1 THEN Idle ELSE [work EXCEPT !.rest = Tail(@)]

\* One turn of cmdJoin's loop.  A channel that is not there is made, with its
\* maker as operator; a refusal throws, and the rest of the list with it.
JoinChannel ==
  LET c     == work.by
      n     == nickname[c]
      entry == Head(work.rest)
      found == IF entry.ch \in channels THEN chan[entry.ch]
               ELSE AddOperator(NewChannel(entry.key), n, c)
      admitted == Admits(found, n, entry.key)
      joined   == Join(found, n, c)
  IN  /\ fault = "none"
      /\ work.cmd = "JOIN"
      /\ channels' = channels \cup {entry.ch}
      /\ IF admitted
         THEN /\ chan' = [chan EXCEPT ![entry.ch] = joined]
              /\ work' = RestOfWork
              /\ Reply("JOIN", c, {entry.ch}, TRUE, Audience(joined) \cup {c})
         ELSE /\ chan' = [chan EXCEPT ![entry.ch] = found]
              /\ work' = Idle
              /\ Throw("JOIN", c, {entry.ch})
      /\ UNCHANGED <<clients, identity, fault>>

\* One turn of cmdPart's loop: an error is only a reply, the loop goes on.
PartChannel ==
  LET c  == work.by
      ch == Head(work.rest).ch
  IN  /\ fault = "none"
      /\ work.cmd = "PART"
      /\ IF Member(c, ch)
         THEN /\ Reply("PART", c, {ch}, TRUE, Audience(chan[ch]))
              /\ RemoveFrom(ch, nickname[c])
         ELSE /\ Reply("PART", c, {ch}, FALSE, {c})
              /\ UNCHANGED chanVars
      /\ work' = RestOfWork
      /\ UNCHANGED <<clients, identity, fault>>

CmdKick_TellsAfter(c, ch, n) ==
  /\ Ready(c)
  /\ c \in registeredStatus
  /\ Member(c, ch)
  /\ ChannelOperator(c, ch)
  /\ IsParticipant(chan[ch], n)
  /\ Reply("KICK", c, {ch}, TRUE, Audience(Leave(chan[ch], {n})))
  /\ RemoveFrom(ch, n)
  /\ UNCHANGED <<clients, identity, work, fault>>

CmdKick_AnyMember(c, ch, n) ==
  /\ Ready(c)
  /\ c \in registeredStatus
  /\ Member(c, ch)
  /\ IsParticipant(chan[ch], n)
  /\ Reply("KICK", c, {ch}, TRUE, Audience(chan[ch]))
  /\ RemoveFrom(ch, n)
  /\ UNCHANGED <<clients, identity, work, fault>>

\* The target is told before it is taken out; an operator may be its own target.
CmdKick(c, ch, n) ==
  /\ Ready(c)
  /\ c \in registeredStatus
  /\ Member(c, ch)
  /\ ChannelOperator(c, ch)
  /\ IsParticipant(chan[ch], n)
  /\ Reply("KICK", c, {ch}, TRUE, Audience(chan[ch]))
  /\ RemoveFrom(ch, n)
  /\ UNCHANGED <<clients, identity, work, fault>>

InviteAccepted_AnyMember(c, ch, d) ==
  /\ Ready(c)
  /\ c \in registeredStatus
  /\ Member(c, ch)
  /\ d \in clients
  /\ ~IsParticipant(chan[ch], nickname[d])

\* An empty target, as in a line with two blanks before the channel, finds a
\* client that has no nickname yet.
InviteAccepted(c, ch, d) ==
  /\ Ready(c)
  /\ c \in registeredStatus
  /\ Member(c, ch)
  /\ "i" \in chan[ch].mode => ChannelOperator(c, ch)
  /\ d \in clients
  /\ ~IsParticipant(chan[ch], nickname[d])

\* getInvited returns a copy, so the search for the name runs from the begin of
\* one vector to the end of another and is compared with the end of a third.
\* With nothing in them the three are null and the name is recorded; otherwise
\* the ends differ, so that it is not recorded, if the search comes back at all.
CmdInvite(c, ch, d) ==
  /\ InviteAccepted(c, ch, d)
  /\ chan' = IF chan[ch].invited = {}
             THEN [chan EXCEPT ![ch].invited = {nickname[d]}] ELSE chan
  /\ Reply("INVITE", c, {ch}, TRUE, {c, d})
  /\ UNCHANGED <<clients, identity, channels, work, fault>>

CrashInvite(c, ch, d) ==
  /\ InviteAccepted(c, ch, d)
  /\ chan[ch].invited # {}
  /\ nickname[d] \notin chan[ch].invited
  /\ Crash("INVITE", c, {ch})

CmdMode_AnyMember(c, ch, r) ==
  /\ Ready(c)
  /\ Member(c, ch)
  /\ ModeAccepted(chan[ch], r)
  /\ chan' = [chan EXCEPT ![ch] = ApplyMode(@, r, nickNameClientMap)]
  /\ Reply("MODE", c, {ch}, TRUE, Audience(chan[ch]))
  /\ UNCHANGED <<clients, identity, channels, work, fault>>

\* MODE is the one channel command that does not ask for a registration.
CmdMode(c, ch, r) ==
  /\ Ready(c)
  /\ Member(c, ch)
  /\ ChannelOperator(c, ch)
  /\ ModeAccepted(chan[ch], r)
  /\ chan' = [chan EXCEPT ![ch] = ApplyMode(@, r, nickNameClientMap)]
  /\ Reply("MODE", c, {ch}, TRUE, Audience(chan[ch]))
  /\ UNCHANGED <<clients, identity, channels, work, fault>>

\* A MODE with a channel and nothing else is not answered.
CmdModeQuery(c, ch) ==
  /\ Ready(c)
  /\ Member(c, ch)
  /\ Silent("MODE", c, {ch})
  /\ UNCHANGED <<clients, identity, chanVars, work, fault>>

\* A MODE without parameters reads modeParse[0] of an empty vector.
CrashMode(c) ==
  /\ Ready(c)
  /\ Crash("MODE", c, {})

CmdTopic_AnyMember(c, ch, topic) ==
  /\ Ready(c)
  /\ c \in registeredStatus
  /\ Member(c, ch)
  /\ chan' = [chan EXCEPT ![ch].topic = topic]
  /\ Reply("TOPIC", c, {ch}, TRUE, Audience(chan[ch]))
  /\ UNCHANGED <<clients, identity, channels, work, fault>>

CmdTopic_NotToSender(c, ch, topic) ==
  /\ Ready(c)
  /\ c \in registeredStatus
  /\ Member(c, ch)
  /\ "t" \in chan[ch].mode => ChannelOperator(c, ch)
  /\ chan' = [chan EXCEPT ![ch].topic = topic]
  /\ Reply("TOPIC", c, {ch}, TRUE, Audience(chan[ch]) \ {c})
  /\ UNCHANGED <<clients, identity, channels, work, fault>>

CmdTopic(c, ch, topic) ==
  /\ Ready(c)
  /\ c \in registeredStatus
  /\ Member(c, ch)
  /\ "t" \in chan[ch].mode => ChannelOperator(c, ch)
  /\ chan' = [chan EXCEPT ![ch].topic = topic]
  /\ Reply("TOPIC", c, {ch}, TRUE, Audience(chan[ch]))
  /\ UNCHANGED <<clients, identity, channels, work, fault>>

\* A query; that there is no topic is told by a throw, see RefuseCmd.
CmdTopicQuery(c, ch) ==
  /\ Ready(c)
  /\ c \in registeredStatus
  /\ Member(c, ch)
  /\ chan[ch].topic # ""
  /\ Reply("TOPIC", c, {ch}, TRUE, {c})
  /\ UNCHANGED <<clients, identity, chanVars, work, fault>>

\* All receivers are checked before the first message goes out.
PrivmsgUsers(c, receivers) ==
  /\ Ready(c)
  /\ c \in registeredStatus
  /\ receivers # {}
  /\ \A d \in receivers : d \in clients /\ nickname[d] # NoNick
  /\ Reply("PRIVMSG", c, {}, TRUE, receivers)
  /\ UNCHANGED <<clients, identity, chanVars, work, fault>>

PrivmsgChannels(c, receivers) ==
  /\ Ready(c)
  /\ c \in registeredStatus
  /\ receivers # {}
  /\ \A ch \in receivers : Member(c, ch)
  /\ Reply("PRIVMSG", c, receivers, TRUE,
           UNION {Audience(chan[ch]) : ch \in receivers} \ {c})
  /\ UNCHANGED <<clients, identity, chanVars, work, fault>>

\* The end of the copy chs is never the end of _channels, so that a channel that
\* is not there passes for found and its Channel is read from beyond the map.
\* What is read there may also look like a channel without the sender.
CrashPrivmsg(c, ch) ==
  /\ Ready(c)
  /\ c \in registeredStatus
  /\ ch \notin channels
  /\ Crash("PRIVMSG", c, {ch})

\* QUIT sends nothing.  A connection that was closed or failed, or whose client
\* sent no PING for too long, ends in the same mark.
Disconnect(c, cmd) ==
  /\ Ready(c)
  /\ cmd \in {"QUIT", "DROP"}
  /\ Mark({c})
  /\ deed' = [cmd |-> cmd, by |-> c, on |-> {}, ok |-> TRUE, to |-> {}, lost |-> {}]
  /\ UNCHANGED <<clients, identity, chanVars, work, fault>>

Cleanup_RegistryOnly ==
  /\ Free
  /\ RemoveMarked
  /\ deed' = [cmd |-> "CLEANUP", by |-> NoClient, on |-> {}, ok |-> TRUE, to |-> {}, lost |-> {}]
  /\ UNCHANGED <<chanVars, work, fault>>

Cleanup_ClientsFirst ==
  /\ Free
  /\ RemoveMarked
  /\ chan' = [ch \in ChannelNames |-> Leave(chan[ch], {nickname'[c] : c \in toRemove})]
  /\ deed' = [cmd |-> "CLEANUP", by |-> NoClient, on |-> {}, ok |-> TRUE, to |-> {}, lost |-> {}]
  /\ UNCHANGED <<channels, work, fault>>

\* cleanupMarkedClients.  A channel stays when its last participant goes this
\* way, and an invitation outlives the client it was meant for.
Cleanup ==
  /\ Free
  /\ RemoveMarked
  /\ chan' = [ch \in ChannelNames |-> Leave(chan[ch], {nickname[c] : c \in toRemove})]
  /\ deed' = [cmd |-> "CLEANUP", by |-> NoClient, on |-> {}, ok |-> TRUE, to |-> {}, lost |-> {}]
  /\ UNCHANGED <<channels, work, fault>>

Halted == fault # "none" /\ UNCHANGED vars

Next ==
  \/ \E c \in Clients :
       \/ Accept(c)
       \/ \E cmd \in Commands : RefuseCmd(c, cmd)
       \/ \E cmd \in {"CAP", "PING", "JOIN", "UNKNOWN"} : AnswerCmd(c, cmd)
       \/ CmdPass(c)
       \/ \E n \in Nicks : CmdNick(c, n)
       \/ CmdUser(c)
       \/ \E list \in JoinLists : CmdJoin(c, list)
       \/ \E list \in PartLists : CmdPart(c, list)
       \/ \E receivers \in SUBSET Clients : PrivmsgUsers(c, receivers)
       \/ \E receivers \in SUBSET ChannelNames : PrivmsgChannels(c, receivers)
       \/ CrashMode(c)
       \/ \E cmd \in {"QUIT", "DROP"} : Disconnect(c, cmd)
       \/ \E ch \in ChannelNames :
            \/ \E n \in Nicks : CmdKick(c, ch, n)
            \/ \E d \in Clients : CmdInvite(c, ch, d) \/ CrashInvite(c, ch, d)
            \/ \E r \in ModeRequests : CmdMode(c, ch, r)
            \/ CmdModeQuery(c, ch)
            \/ \E topic \in Topics : CmdTopic(c, ch, topic)
            \/ CmdTopicQuery(c, ch)
            \/ CrashPrivmsg(c, ch)
  \/ JoinChannel
  \/ PartChannel
  \/ Cleanup
  \/ Halted

Spec == Init /\ [][Next]_vars

-----------------------------------------------------------------------------

\* A participant entry points to a live, registered client, under the nickname
\* it has now: no step that follows the pointer (broadcastMsg, the NAMES reply)
\* meets a deleted Client, across renames, disconnects and reused descriptors.
MembersLive ==
  \A ch \in ChannelNames : \A n \in KeysOf(chan[ch].participant) :
    /\ chan[ch].participant[n] \in clients \cap registeredStatus
    /\ nickname[chan[ch].participant[n]] = n

\* Who is in _operator is in _participant, under the same name with the same
\* pointer, whatever mix of rename, PART, KICK, -o and teardown went before.
OperatorsAreMembers ==
  \A ch \in ChannelNames : \A n \in KeysOf(chan[ch].operator) :
    chan[ch].operator[n] = chan[ch].participant[n]

\* +o takes the pointer of a participant from nickNameClientMap and does not
\* look whether it found one: the entry is there and is the participant.
GrantsFindTheParticipant ==
  \A ch \in ChannelNames : \A n \in KeysOf(chan[ch].participant) :
    nickNameClientMap[n] = chan[ch].participant[n]

\* Mode k and the key come and go together, and _limit is set before a JOIN
\* compares anything with it.
SettingsConsistent ==
  \A ch \in ChannelNames :
    /\ "k" \in chan[ch].mode <=> chan[ch].key # ""
    /\ "l" \in chan[ch].mode => chan[ch].limit # NoLimit

\* What removeChannel deletes, later channels of the same name do not see.
NothingOutlivesAChannel ==
  \A ch \in ChannelNames \ channels : chan[ch] = EmptyChannel

\* The Client of a command in progress is not deleted under it.
WorkerStays == work # Idle => work.by \in clients \cap registeredStatus

\* The inductive invariant of the server: registry, channels and the command in
\* progress, each part needed by some step to preserve another.
ServerInv ==
  /\ TypeOK
  /\ RegInv
  /\ MembersLive
  /\ OperatorsAreMembers
  /\ SettingsConsistent
  /\ NothingOutlivesAChannel
  /\ WorkerStays

\* A client stops being in a channel in three ways: its own PART, the KICK of
\* someone who was operator there, its teardown.  A NICK keeps it in.
MembershipEnds ==
  [][\A ch \in ChannelNames : \A c \in Audience(chan[ch]) \ Audience(chan'[ch]) :
       \/ deed'.cmd = "PART" /\ deed'.by = c
       \/ deed'.cmd = "KICK" /\ deed'.by \in OperatorClients(chan[ch])
       \/ c \in toRemove]_vars

\* A client becomes operator by making the channel or through an operator's
\* MODE, and stops with its membership or through an operator's MODE; a NICK
\* changes nothing.
OperatorsChange ==
  [][\A ch \in ChannelNames :
       LET before == OperatorClients(chan[ch])
           after  == OperatorClients(chan'[ch])
           granted == deed'.cmd = "MODE" /\ deed'.by \in before
       IN  /\ \A c \in after \ before : granted \/ (ch \notin channels /\ deed'.by = c)
           /\ \A c \in before \ after : granted \/ c \notin Audience(chan'[ch])]_vars

\* While a channel exists, only an operator changes its modes, key and limit,
\* and its topic under +t; without +t that takes a participant.
SettingsGuarded ==
  [][\A ch \in channels \cap channels' :
       LET operator == deed'.by \in OperatorClients(chan[ch])
       IN  /\ \/ operator
              \/ /\ chan'[ch].mode = chan[ch].mode
                 /\ chan'[ch].key = chan[ch].key
                 /\ chan'[ch].limit = chan[ch].limit
           /\ \/ chan'[ch].topic = chan[ch].topic
              \/ IF "t" \in chan[ch].mode THEN operator
                 ELSE deed'.by \in Audience(chan[ch])]_vars

\* Who comes into a channel that exists was let in by it: with an invitation,
\* spent by coming in, with the key, and not beyond the limit.
EntryGuarded ==
  [][\A ch \in channels : \A c \in Audience(chan'[ch]) \ Audience(chan[ch]) :
       /\ "i" \in chan[ch].mode =>
            nickname[c] \in chan[ch].invited \ chan'[ch].invited
       /\ "k" \in chan[ch].mode => Head(work.rest).key = chan[ch].key
       /\ "l" \in chan[ch].mode => Cardinality(Audience(chan'[ch])) <= chan[ch].limit]_vars

\* An invitation is made by somebody who may (an operator, under +i) for a client
\* outside, who is told; nothing but coming in under that name takes it back.
InvitationsGuarded ==
  [][\A ch \in channels \cap channels' :
       LET made  == chan'[ch].invited \ chan[ch].invited
           spent == chan[ch].invited \ chan'[ch].invited
       IN  /\ made # {} => deed'.by \in IF "i" \in chan[ch].mode THEN OperatorClients(chan[ch])
                                        ELSE Audience(chan[ch])
           /\ \A n \in made : \E d \in deed'.to \ Audience(chan[ch]) : nickname[d] = n
           /\ \A n \in spent : deed'.by \in Audience(chan'[ch]) /\ nickname[deed'.by] = n]_vars

Settings(ch) == <<ch.mode, ch.key, ch.limit, ch.topic>>

\* Nobody in a channel works with settings or operators of yesterday: whoever
\* stays in it is told of every change, its author included.
ChangesAreTold ==
  [][\A ch \in channels \cap channels' :
       \/ /\ Settings(chan'[ch]) = Settings(chan[ch])
          /\ OperatorClients(chan'[ch]) = OperatorClients(chan[ch]) \cap Audience(chan'[ch])
       \/ Audience(chan'[ch]) \subseteq deed'.to]_vars

\* When somebody comes into a channel or leaves it by PART or KICK, everyone
\* who was or is in it is sent a message.  (A teardown is not announced.)
MembersAreTold ==
  [][\A ch \in ChannelNames :
       Audience(chan'[ch]) # Audience(chan[ch]) /\ deed'.cmd # "CLEANUP" =>
         Audience(chan[ch]) \cup Audience(chan'[ch]) \subseteq deed'.to]_vars

\* No message is sent to a deleted Client, however many connections were lost,
\* renamed or torn down since the receiver came into the channel.
MessagesReachLive == [][deed'.to \subseteq clients]_vars

\* A registered client is disconnected when its socket failed or on its own
\* QUIT, never for a command that was refused.
OnlyFailuresDisconnect ==
  [][\A c \in (toRemove' \ toRemove) \cap registeredStatus :
       c \in deed'.lost \/ (deed'.cmd \in {"QUIT", "DROP"} /\ deed'.by = c)]_vars

-----------------------------------------------------------------------------

Abstract == INSTANCE Membership WITH
  members   <- [ch \in ChannelNames |-> Audience(chan[ch])],
  operators <- [ch \in ChannelNames |-> OperatorClients(chan[ch])]

\* Behind its nickname-keyed maps the server keeps what Membership promises of
\* clients, through renames, lists cut short and teardowns of several clients.
ImplementsMembership == Abstract!Spec

-----------------------------------------------------------------------------

\* CmdJoin.cpp: "each of the channels is handled individually", as the loop of
\* cmdPart does: a refused entry does not take the rest of the list with it.
JoinHandlesEachChannel ==
  [][work.cmd = "JOIN" /\ Len(work.rest) > 1 => work'.rest = Tail(work.rest)]_vars

\* test_operator.py: the first participant of a channel is its operator.
FirstParticipantOperates ==
  [][\A ch \in ChannelNames :
       Audience(chan[ch]) = {} => Audience(chan'[ch]) \subseteq OperatorClients(chan'[ch])]_vars
=============================================================================
