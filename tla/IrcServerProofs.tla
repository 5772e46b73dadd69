-------------------------- MODULE IrcServerProofs --------------------------
(***************************************************************************)
(* ServerInv holds in every reachable state, for any sets of clients,      *)
(* nicknames, channels, JOIN lists and MODE lines.                         *)
(*                                                                         *)
(* The proof takes it apart into the registry (RegInv, whose proof is that *)
(* of RegistryProofs, since every step of the server is a step of the      *)
(* registry), the channels (ChanInv, by the lemmas of ChannelProofs) and   *)
(* the thread of control (ControlInv).                                     *)
(***************************************************************************)
EXTENDS IrcServer, RegistryProofs, ChannelProofs, SequenceTheorems,
        FiniteSetTheorems, FunctionTheorems

Live == clients \cap registeredStatus

ChanInv ==
  /\ channels \subseteq ChannelNames
  /\ chan = [ch \in ChannelNames |-> chan[ch]]
  /\ \A ch \in ChannelNames : Sound(chan[ch], Live, nickname)
  /\ NothingOutlivesAChannel

ControlInv ==
  /\ work \in Work
  /\ fault \in Commands \cup {"none"}
  /\ deed \in Deed
  /\ WorkerStays

\* ServerInv is the invariant of the registry, the channels and the thread of
\* control.
LEMMA InvSplit == ServerInv <=> RegInv /\ ChanInv /\ ControlInv
<1>1. ASSUME ServerInv PROVE RegInv /\ ChanInv /\ ControlInv
  <2>1. \A ch \in ChannelNames : Sound(chan[ch], Live, nickname)
    BY <1>1 DEF ServerInv, TypeOK, MembersLive, OperatorsAreMembers, SettingsConsistent,
                Sound, SettingsSound, RosterSound, Live
  <2> QED
    BY <1>1, <2>1 DEF ServerInv, TypeOK, ChanInv, ControlInv
<1>2. ASSUME RegInv, ChanInv, ControlInv PROVE ServerInv
  <2>1. chan \in [ChannelNames -> Channel]
    BY <1>2 DEF ChanInv, Sound
  <2>2. TypeOK
    BY <1>2, <2>1 DEF RegInv, ChanInv, ControlInv, TypeOK
  <2>3. MembersLive /\ OperatorsAreMembers /\ SettingsConsistent
    BY <1>2 DEF ChanInv, MembersLive, OperatorsAreMembers, SettingsConsistent,
                Sound, SettingsSound, RosterSound, Live
  <2> QED
    BY <1>2, <2>2, <2>3 DEF ServerInv, ChanInv, ControlInv
<1> QED
  BY <1>1, <1>2

-----------------------------------------------------------------------------
(* What a step sends, and whom it marks.                                     *)

MarksSome == \E S \in SUBSET clients : Mark(S)

\* A reply marks some of the clients.
LEMMA ReplyFacts ==
  ASSUME NEW cmd \in Commands \cup {"UNKNOWN"}, NEW c \in Clients,
         NEW on \in SUBSET ChannelNames, NEW ok \in BOOLEAN, NEW to \in SUBSET Clients,
         Reply(cmd, c, on, ok, to)
  PROVE  deed' \in Deed /\ MarksSome
  BY DEF Reply, Deed, MarksSome

\* A command that sends nothing marks nobody.
LEMMA SilentFacts ==
  ASSUME NEW cmd \in Commands, NEW c \in Clients, NEW on \in SUBSET ChannelNames,
         Silent(cmd, c, on)
  PROVE  deed' \in Deed /\ MarksSome
<1>1. Reply(cmd, c, on, TRUE, {}) /\ {} \in SUBSET Clients /\ TRUE \in BOOLEAN
  BY DEF Silent
<1> QED
  BY <1>1, ReplyFacts

\* A refusal marks at most its sender.
LEMMA ThrowFacts ==
  ASSUME NEW cmd \in Commands, NEW c \in clients, NEW on \in SUBSET ChannelNames,
         clients \subseteq Clients, Throw(cmd, c, on)
  PROVE  deed' \in Deed /\ MarksSome
<1> PICK lost \in SUBSET {c} :
      /\ Mark(lost \cup ({c} \ (passStatus \cap registeredStatus)))
      /\ deed' = [cmd |-> cmd, by |-> c, on |-> on, ok |-> FALSE, to |-> {c}, lost |-> lost]
  BY DEF Throw
<1> QED
  BY DEF Deed, MarksSome

\* A crash leaves everything but the fault as it was.
LEMMA CrashFacts ==
  ASSUME RegInv, ChanInv, ControlInv, NEW cmd \in Commands, NEW c \in Clients,
         NEW on \in SUBSET ChannelNames, Crash(cmd, c, on)
  PROVE  UNCHANGED regVars /\ ChanInv' /\ ControlInv'
<1>1. deed' \in Deed
  BY DEF Crash, Deed
<1> QED
  BY <1>1 DEF Crash, ChanInv, ControlInv, Live, NothingOutlivesAChannel, WorkerStays,
              regVars, chanVars, identity

-----------------------------------------------------------------------------
(* The shapes that most steps have.                                          *)

\* A step that marks and does no more to the registry is one of the registry.
LEMMA QuietRegistry ==
  ASSUME MarksSome, UNCHANGED <<clients, identity>>
  PROVE  RegNext /\ Live' = Live /\ nickname' = nickname /\ clients' = clients
  BY DEF MarksSome, RegNext, Live, identity

\* Such a step, when the channels stay as they are.
LEMMA QuietChannels ==
  ASSUME ChanInv, MarksSome, UNCHANGED <<clients, identity>>, UNCHANGED chanVars
  PROVE  RegNext /\ ChanInv'
  BY QuietRegistry DEF ChanInv, NothingOutlivesAChannel, chanVars

\* Such a step, when one channel becomes another sound one.
LEMMA OneChannel ==
  ASSUME ChanInv, MarksSome, UNCHANGED <<clients, identity>>,
         NEW ch \in ChannelNames, NEW x, Sound(x, Live, nickname),
         chan' = [chan EXCEPT ![ch] = x],
         channels \ {ch} \subseteq channels', channels' \subseteq ChannelNames,
         ch \in channels' \/ x = EmptyChannel
  PROVE  RegNext /\ ChanInv'
<1>1. RegNext /\ Live' = Live /\ nickname' = nickname
  BY QuietRegistry
<1>2. \A d \in ChannelNames : chan'[d] = IF d = ch THEN x ELSE chan[d]
  BY DEF ChanInv
<1>3. chan' = [d \in ChannelNames |-> chan'[d]]
  BY DEF ChanInv
<1>4. \A d \in ChannelNames : Sound(chan'[d], Live', nickname')
  BY <1>1, <1>2 DEF ChanInv
<1>5. NothingOutlivesAChannel'
  BY <1>2 DEF ChanInv, NothingOutlivesAChannel
<1> QED
  BY <1>1, <1>3, <1>4, <1>5 DEF ChanInv

\* A step between two commands leaves the thread there.
LEMMA StaysIdle ==
  ASSUME ControlInv, work = Idle, UNCHANGED <<work, fault>>, deed' \in Deed
  PROVE  ControlInv'
  BY DEF ControlInv, WorkerStays

\* PART and KICK leave the channels sound, whether or not the channel goes too.
LEMMA RemoveFromInv ==
  ASSUME ChanInv, MarksSome, UNCHANGED <<clients, identity>>,
         NEW ch \in channels, NEW n, RemoveFrom(ch, n)
  PROVE  RegNext /\ ChanInv'
<1> DEFINE left == Leave(chan[ch], {n})
<1>1. ch \in ChannelNames /\ channels \subseteq ChannelNames
  BY DEF ChanInv
<1>2. Sound(left, Live, nickname)
  BY <1>1, LeaveSound DEF ChanInv
<1>3. Sound(EmptyChannel, Live, nickname)
  BY EmptyChannelSound
<1>4. CASE KeysOf(left.participant) = {}
  <2>1. channels' = channels \ {ch} /\ chan' = [chan EXCEPT ![ch] = EmptyChannel]
    BY <1>4 DEF RemoveFrom
  <2> QED
    BY <1>1, <1>3, <2>1, OneChannel
<1>5. CASE KeysOf(left.participant) # {}
  <2>1. channels' = channels /\ chan' = [chan EXCEPT ![ch] = left]
    BY <1>5 DEF RemoveFrom
  <2> HIDE DEF left
  <2> QED
    BY <1>1, <1>2, <2>1, OneChannel
<1> QED
  BY <1>4, <1>5

\* The clients of a channel are clients of the server.
LEMMA Audiences ==
  ASSUME RegInv, ChanInv, NEW ch \in ChannelNames
  PROVE  Audience(chan[ch]) \subseteq Live /\ Audience(chan[ch]) \in SUBSET Clients
<1>1. Audience(chan[ch]) \subseteq Live
  BY AudienceLive DEF ChanInv
<1> QED
  BY <1>1 DEF Live, RegInv, RegTypeOK

-----------------------------------------------------------------------------
(* One lemma per action: it is a step of the registry, and the channels and  *)
(* the thread of control stay as they should.                                *)

\* acceptClient: the new client is in no channel and its slot was clear.
LEMMA AcceptInv ==
  ASSUME RegInv, ChanInv, ControlInv, NEW c \in Clients, Accept(c)
  PROVE  RegNext /\ ChanInv' /\ ControlInv'
<1>1. RegNext
  BY DEF Accept, RegNext
<1>2. Live \subseteq Live' /\ nickname' = nickname /\ UNCHANGED <<chan, channels>>
  BY DEF Accept, AcceptClient, Live, identity, chanVars
<1>3. ChanInv'
  BY <1>2, SoundGrows DEF ChanInv, NothingOutlivesAChannel
<1>4. deed' \in Deed
  BY DEF Accept, Deed
<1>5. ControlInv'
  BY <1>4, StaysIdle DEF Accept, Free
<1> QED
  BY <1>1, <1>3, <1>5

\* A refused command only marks.
LEMMA RefuseCmdInv ==
  ASSUME RegInv, ChanInv, ControlInv, NEW c \in Clients, NEW cmd \in Commands, RefuseCmd(c, cmd)
  PROVE  RegNext /\ ChanInv' /\ ControlInv'
<1>1. c \in clients /\ clients \subseteq Clients /\ work = Idle
  BY DEF RefuseCmd, Ready, Free, Served, RegInv, RegTypeOK
<1>2. deed' \in Deed /\ MarksSome
  BY <1>1, ThrowFacts DEF RefuseCmd
<1> QED
  BY <1>1, <1>2, QuietChannels, StaysIdle DEF RefuseCmd

\* An answered command only marks.
LEMMA AnswerCmdInv ==
  ASSUME RegInv, ChanInv, ControlInv, NEW c \in Clients,
         NEW cmd \in {"CAP", "PING", "JOIN", "UNKNOWN"}, AnswerCmd(c, cmd)
  PROVE  RegNext /\ ChanInv' /\ ControlInv'
<1>1. deed' \in Deed /\ MarksSome
  <2>1. cmd \in Commands \cup {"UNKNOWN"} /\ {c} \in SUBSET Clients
        /\ (cmd \in {"CAP", "PING"}) \in BOOLEAN
    BY DEF Commands
  <2>2. Reply(cmd, c, {}, cmd \in {"CAP", "PING"}, {c})
    BY DEF AnswerCmd
  <2> QED
    BY <2>1, <2>2, ReplyFacts
<1>2. work = Idle /\ UNCHANGED <<work, fault>> /\ UNCHANGED <<clients, identity>>
      /\ UNCHANGED chanVars
  BY DEF AnswerCmd, Ready, Free
<1> QED
  BY <1>1, <1>2, QuietChannels, StaysIdle

\* PASS: nobody becomes registered by it.
LEMMA CmdPassInv ==
  ASSUME RegInv, ChanInv, ControlInv, NEW c \in Clients, CmdPass(c)
  PROVE  RegNext /\ ChanInv' /\ ControlInv'
<1>1. deed' \in Deed
  BY SilentFacts DEF CmdPass, Commands
<1>2. toRemove' = toRemove
  BY DEF CmdPass, Silent, Reply, Mark
<1>3. RegNext
  BY <1>2 DEF CmdPass, Ready, RegNext
<1>4. ChanInv'
  BY DEF CmdPass, SetPass, ChanInv, NothingOutlivesAChannel, Live, chanVars
<1>5. ControlInv'
  BY <1>1, StaysIdle DEF CmdPass, Ready, Free
<1> QED
  BY <1>3, <1>4, <1>5

\* A name that is free is nobody's, and that of c is nobody else's.
LEMMA CmdNickInv ==
  ASSUME RegInv, ChanInv, ControlInv, NEW c \in Clients, NEW n \in Nicks, CmdNick(c, n)
  PROVE  RegNext /\ ChanInv' /\ ControlInv'
<1> USE IdentifiersAssumption
<1>1. /\ c \in clients /\ clients \subseteq Clients /\ work = Idle
      /\ SetNick(c, n) /\ UNCHANGED <<channels, work, fault>>
  BY DEF CmdNick, Ready, Free, Served, RegInv, RegTypeOK
<1>2. deed' \in Deed /\ MarksSome
  <2>1. CASE c \in registeredStatus
    <3>1. Reply("NICK", c, {}, TRUE, clients)
      BY <2>1 DEF CmdNick
    <3> QED
      BY <1>1, <3>1, ReplyFacts DEF Commands
  <2>2. CASE c \notin registeredStatus
    <3>1. Silent("NICK", c, {})
      BY <2>2 DEF CmdNick
    <3> QED
      BY <3>1, SilentFacts DEF Commands
  <2> QED
    BY <2>1, <2>2
<1>3. RegNext
  <2>1. c \in Served
    BY DEF CmdNick, Ready
  <2> QED
    BY <1>1, <1>2, <2>1 DEF MarksSome, RegNext
<1>4. /\ Live' = Live
      /\ nickname' = [nickname EXCEPT ![c] = n]
      /\ nickname \in [Clients -> Nicks \cup {NoNick}]
      /\ \A d \in clients : nickname[d] # n
  BY <1>1 DEF SetNick, NickInUse, Live, RegInv, RegTypeOK
<1>5. ChanInv'
  <2>1. CASE c \in registeredStatus
    <3> DEFINE old == nickname[c]
    <3>1. c \in Live /\ old \in Nicks /\ \A d \in Live : nickname[d] = old <=> d = c
      BY <1>1, <1>4, <2>1 DEF Live, RegInv, UniqueNicks, RegisteredComplete
    <3>2. /\ \A d \in Live : nickname[d] # n
          /\ nickname'[c] = n
          /\ \A d \in Live \ {c} : nickname'[d] = nickname[d]
      BY <1>1, <1>4 DEF Live
    <3>3. chan' = [ch \in ChannelNames |-> Rename(chan[ch], old, n, c)]
      BY <2>1 DEF CmdNick
    <3> HIDE DEF old
    <3>4. \A ch \in ChannelNames : Sound(Rename(chan[ch], old, n, c), Live, nickname')
      BY <3>1, <3>2, RenameSound DEF ChanInv, old
    <3>5. Rename(EmptyChannel, old, n, c) = EmptyChannel
      BY EmptyChannelSound DEF Rename, IsParticipant
    <3> QED
      BY <1>1, <1>4, <3>3, <3>4, <3>5 DEF ChanInv, NothingOutlivesAChannel
  <2>2. CASE c \notin registeredStatus
    <3>1. \A d \in Live : nickname'[d] = nickname[d]
      BY <1>1, <1>4, <2>2 DEF Live
    <3>2. chan' = chan
      BY <2>2 DEF CmdNick
    <3>3. \A ch \in ChannelNames : Sound(chan[ch], Live, nickname')
      BY <3>1, SoundGrows DEF ChanInv
    <3> QED
      BY <1>1, <1>4, <3>2, <3>3 DEF ChanInv, NothingOutlivesAChannel
  <2> QED
    BY <2>1, <2>2
<1> QED
  BY <1>1, <1>2, <1>3, <1>5, StaysIdle

\* USER: whoever becomes registered by it was in no channel before.
LEMMA CmdUserInv ==
  ASSUME RegInv, ChanInv, ControlInv, NEW c \in Clients, CmdUser(c)
  PROVE  RegNext /\ ChanInv' /\ ControlInv'
<1>1. deed' \in Deed /\ MarksSome
  <2>1. Reply("USER", c, {}, TRUE, {c} \cap nickStatus)
    BY DEF CmdUser
  <2> QED
    BY <2>1, ReplyFacts DEF Commands
<1>2. RegNext
  BY <1>1 DEF CmdUser, Ready, MarksSome, RegNext
<1>3. Live \subseteq Live' /\ nickname' = nickname /\ UNCHANGED <<chan, channels>>
  BY DEF CmdUser, SetUser, Live, chanVars
<1>4. ChanInv'
  BY <1>3, SoundGrows DEF ChanInv, NothingOutlivesAChannel
<1>5. ControlInv'
  BY <1>1, StaysIdle DEF CmdUser, Ready, Free
<1> QED
  BY <1>2, <1>4, <1>5

\* JOIN: the list starts with a live, registered client.
LEMMA CmdJoinInv ==
  ASSUME RegInv, ChanInv, ControlInv, NEW c \in Clients, NEW list \in JoinLists,
         CmdJoin(c, list)
  PROVE  RegNext /\ ChanInv' /\ ControlInv'
<1>1. deed' \in Deed /\ MarksSome
  BY SilentFacts DEF CmdJoin, Commands
<1>2. UNCHANGED <<clients, identity>> /\ UNCHANGED chanVars /\ UNCHANGED fault
  BY DEF CmdJoin
<1>3. RegNext /\ ChanInv'
  BY <1>1, <1>2, QuietChannels
<1>4. c \in clients /\ c \in registeredStatus
  BY DEF CmdJoin, Ready, Served
<1>5. work' \in Work /\ (work' # Idle => work'.by = c)
  <2>1. list \in Seq(Entry)
    BY ServerAssumption
  <2> QED
    BY <2>1 DEF CmdJoin, Work
<1>6. ControlInv'
  BY <1>1, <1>2, <1>4, <1>5 DEF ControlInv, WorkerStays, identity
<1> QED
  BY <1>3, <1>6

\* PART: the same of its list.
LEMMA CmdPartInv ==
  ASSUME RegInv, ChanInv, ControlInv, NEW c \in Clients, NEW list \in PartLists,
         CmdPart(c, list)
  PROVE  RegNext /\ ChanInv' /\ ControlInv'
<1>1. deed' \in Deed /\ MarksSome
  BY SilentFacts DEF CmdPart, Commands
<1>2. UNCHANGED <<clients, identity>> /\ UNCHANGED chanVars /\ UNCHANGED fault
  BY DEF CmdPart
<1>3. RegNext /\ ChanInv'
  BY <1>1, <1>2, QuietChannels
<1>4. c \in clients /\ c \in registeredStatus
  BY DEF CmdPart, Ready, Served
<1>5. work' \in Work /\ work'.by = c
  <2>1. list \in Seq(Entry)
    BY ServerAssumption
  <2> QED
    BY <2>1 DEF CmdPart, Work
<1>6. ControlInv'
  BY <1>1, <1>2, <1>4, <1>5 DEF ControlInv, WorkerStays, identity
<1> QED
  BY <1>3, <1>6

\* What a list in progress says of its client and of its next entry.
LEMMA InProgress ==
  ASSUME RegInv, ControlInv, work # Idle
  PROVE  /\ work.by \in Live /\ work.by \in Clients /\ nickname[work.by] \in Nicks
         /\ Head(work.rest) \in Entry
         /\ RestOfWork \in Work
         /\ RestOfWork # Idle => RestOfWork.by = work.by
<1>1. /\ work \in [cmd : {"JOIN", "PART"}, by : Clients, rest : Seq(Entry) \ {<<>>}]
      /\ work.by \in clients \cap registeredStatus
  BY DEF ControlInv, Work, WorkerStays
<1>2. nickname[work.by] \in Nicks
  BY <1>1 DEF RegInv, RegTypeOK, RegisteredComplete
<1>3. work.rest \in Seq(Entry) /\ work.rest # <<>>
  BY <1>1
<1>4. /\ Head(work.rest) \in Entry
      /\ Tail(work.rest) \in Seq(Entry)
      /\ Len(work.rest) # 1 => Tail(work.rest) # <<>>
  <2>1. /\ Len(work.rest) \in Nat \ {0}
        /\ Head(work.rest) \in Entry
        /\ Tail(work.rest) \in Seq(Entry)
        /\ Len(Tail(work.rest)) = Len(work.rest) - 1
    BY <1>3, EmptySeq, HeadTailProperties
  <2>2. Len(work.rest) # 1 => Len(Tail(work.rest)) # 0
    BY <2>1
  <2>3. Tail(work.rest) = <<>> => Len(Tail(work.rest)) = 0
    BY EmptySeq
  <2> QED
    BY <2>1, <2>2, <2>3
<1>5. RestOfWork \in Work /\ (RestOfWork # Idle => RestOfWork.by = work.by)
  BY <1>1, <1>4 DEF RestOfWork, Work
<1> QED
  BY <1>1, <1>2, <1>4, <1>5 DEF Live

\* One turn of JOIN, for a channel that is there, one that is made, a refusal and
\* an admission.
LEMMA JoinChannelInv ==
  ASSUME RegInv, ChanInv, ControlInv, JoinChannel
  PROVE  RegNext /\ ChanInv' /\ ControlInv'
<1> DEFINE c     == work.by
           n     == nickname[c]
           entry == Head(work.rest)
           found == IF entry.ch \in channels THEN chan[entry.ch]
                    ELSE AddOperator(NewChannel(entry.key), n, c)
           joined == Join(found, n, c)
<1>1. /\ channels' = channels \cup {entry.ch}
      /\ UNCHANGED <<clients, identity, fault>>
      /\ work # Idle
  BY DEF JoinChannel, Idle
<1>2. /\ c \in Live /\ c \in Clients /\ n \in Nicks
      /\ entry.ch \in ChannelNames /\ entry.key \in Keys \cup {""}
      /\ RestOfWork \in Work /\ (RestOfWork # Idle => RestOfWork.by = c)
  BY <1>1, InProgress DEF Entry
<1>3. \/ /\ Admits(found, n, entry.key)
         /\ chan' = [chan EXCEPT ![entry.ch] = joined]
         /\ work' = RestOfWork
         /\ Reply("JOIN", c, {entry.ch}, TRUE, Audience(joined) \cup {c})
      \/ /\ ~Admits(found, n, entry.key)
         /\ chan' = [chan EXCEPT ![entry.ch] = found]
         /\ work' = Idle
         /\ Throw("JOIN", c, {entry.ch})
  BY DEF JoinChannel
<1>4. Sound(joined, Live, nickname)
  <2>1. CASE entry.ch \in channels
    <3>1. Sound(found, Live, nickname)
      BY <1>2, <2>1 DEF ChanInv
    <3> HIDE DEF found, entry, c, n
    <3>2. c \in Live \cap Clients /\ nickname[c] = n
      BY <1>2 DEF n
    <3> QED
      BY <1>2, <3>1, <3>2, JoinSound
  <2>2. CASE entry.ch \notin channels
    <3>1. found = AddOperator(NewChannel(entry.key), n, c)
      BY <2>2
    <3> HIDE DEF found, entry, c, n
    <3>2. c \in Live \cap Clients /\ nickname[c] = n
      BY <1>2 DEF n
    <3> QED
      BY <1>2, <3>1, <3>2, FoundSound
  <2> QED
    BY <2>1, <2>2
<1>5. CASE Admits(found, n, entry.key)
  <2>1. /\ chan' = [chan EXCEPT ![entry.ch] = joined]
        /\ work' = RestOfWork
        /\ Reply("JOIN", c, {entry.ch}, TRUE, Audience(joined) \cup {c})
    BY <1>3, <1>5
  <2> HIDE DEF found, joined, entry, c
  <2>2. Audience(joined) \cup {c} \in SUBSET Clients
    BY <1>2, <1>4, AudienceLive DEF Live, RegInv, RegTypeOK
  <2>3. deed' \in Deed /\ MarksSome
    BY <1>2, <2>1, <2>2, ReplyFacts DEF Commands
  <2>4. UNCHANGED <<clients, identity>> /\ entry.ch \in channels'
        /\ channels \ {entry.ch} \subseteq channels' /\ channels' \subseteq ChannelNames
    BY <1>1, <1>2 DEF ChanInv
  <2>5. RegNext /\ ChanInv'
    BY <1>2, <1>4, <2>1, <2>3, <2>4, OneChannel
  <2>6. ControlInv'
    BY <1>1, <1>2, <2>1, <2>3 DEF ControlInv, WorkerStays, Live, identity
  <2> QED
    BY <2>5, <2>6
<1>6. CASE ~Admits(found, n, entry.key)
  <2>1. /\ chan' = [chan EXCEPT ![entry.ch] = found]
        /\ work' = Idle
        /\ Throw("JOIN", c, {entry.ch})
    BY <1>3, <1>6
  <2>2. entry.ch \in channels
    <3>1. entry.ch \notin channels => found = AddOperator(NewChannel(entry.key), n, c)
      OBVIOUS
    <3> HIDE DEF found, entry, c, n
    <3> QED
      BY <1>2, <1>6, <3>1, FounderAdmitted
  <2>3. Sound(found, Live, nickname)
    BY <1>2, <2>2 DEF ChanInv
  <2> HIDE DEF found, joined, entry, c
  <2>4. deed' \in Deed /\ MarksSome
    <3>1. c \in clients /\ {entry.ch} \in SUBSET ChannelNames /\ clients \subseteq Clients
      BY <1>2 DEF Live, RegInv, RegTypeOK
    <3> QED
      BY <2>1, <3>1, ThrowFacts DEF Commands
  <2>5. UNCHANGED <<clients, identity>> /\ entry.ch \in channels'
        /\ channels \ {entry.ch} \subseteq channels' /\ channels' \subseteq ChannelNames
    BY <1>1, <1>2 DEF ChanInv
  <2>6. RegNext /\ ChanInv'
    BY <1>2, <2>1, <2>3, <2>4, <2>5, OneChannel
  <2>7. ControlInv'
    BY <1>1, <2>1, <2>4 DEF ControlInv, WorkerStays, Work
  <2> QED
    BY <2>6, <2>7
<1> QED
  BY <1>5, <1>6

\* One turn of PART.
LEMMA PartChannelInv ==
  ASSUME RegInv, ChanInv, ControlInv, PartChannel
  PROVE  RegNext /\ ChanInv' /\ ControlInv'
<1> DEFINE c  == work.by
           ch == Head(work.rest).ch
<1>1. /\ UNCHANGED <<clients, identity, fault>>
      /\ work' = RestOfWork
      /\ work # Idle
  BY DEF PartChannel, Idle
<1>2. /\ c \in Live /\ c \in Clients /\ ch \in ChannelNames
      /\ RestOfWork \in Work /\ (RestOfWork # Idle => RestOfWork.by = c)
  BY <1>1, InProgress DEF Entry
<1>3. \/ /\ Member(c, ch)
         /\ Reply("PART", c, {ch}, TRUE, Audience(chan[ch]))
         /\ RemoveFrom(ch, nickname[c])
      \/ /\ Reply("PART", c, {ch}, FALSE, {c})
         /\ UNCHANGED chanVars
  BY DEF PartChannel
<1> HIDE DEF c, ch
<1>4. deed' \in Deed /\ MarksSome
  <2>1. Audience(chan[ch]) \in SUBSET Clients /\ {c} \in SUBSET Clients
        /\ {ch} \in SUBSET ChannelNames
    BY <1>2, Audiences
  <2>2. CASE Reply("PART", c, {ch}, TRUE, Audience(chan[ch]))
    BY <1>2, <2>1, <2>2, ReplyFacts DEF Commands
  <2>3. CASE Reply("PART", c, {ch}, FALSE, {c})
    BY <1>2, <2>1, <2>3, ReplyFacts DEF Commands
  <2> QED
    BY <1>3, <2>2, <2>3
<1>5. RegNext /\ ChanInv'
  <2>1. UNCHANGED <<clients, identity>>
    BY <1>1
  <2>2. CASE Member(c, ch) /\ RemoveFrom(ch, nickname[c])
    <3>1. ch \in channels
      BY <2>2 DEF Member
    <3> QED
      BY <1>4, <2>1, <2>2, <3>1, RemoveFromInv
  <2>3. CASE UNCHANGED chanVars
    BY <1>4, <2>1, <2>3, QuietChannels
  <2> QED
    BY <1>3, <2>2, <2>3
<1>6. ControlInv'
  BY <1>1, <1>2, <1>4 DEF ControlInv, WorkerStays, Live, identity
<1> QED
  BY <1>5, <1>6

\* What the steps of one command on one channel have in common.
LEMMA ChannelCommand ==
  ASSUME RegInv, ChanInv, NEW c \in Clients, NEW ch, Ready(c), Member(c, ch)
  PROVE  /\ work = Idle /\ ch \in channels /\ ch \in ChannelNames /\ {ch} \in SUBSET ChannelNames
         /\ Sound(chan[ch], Live, nickname)
         /\ Audience(chan[ch]) \in SUBSET Clients
         /\ nickname[c] \in Nicks
<1>1. ch \in channels /\ ch \in ChannelNames
  BY DEF Member, ChanInv
<1>2. nickname[c] \in Nicks
  BY DEF Member, IsParticipant, KeysOf
<1> QED
  BY <1>1, <1>2, Audiences DEF Ready, Free, ChanInv

\* KICK.
LEMMA CmdKickInv ==
  ASSUME RegInv, ChanInv, ControlInv, NEW c \in Clients, NEW ch \in ChannelNames,
         NEW n \in Nicks, CmdKick(c, ch, n)
  PROVE  RegNext /\ ChanInv' /\ ControlInv'
<1>1. /\ Ready(c) /\ Member(c, ch)
      /\ Reply("KICK", c, {ch}, TRUE, Audience(chan[ch]))
      /\ RemoveFrom(ch, n)
      /\ UNCHANGED <<clients, identity>> /\ UNCHANGED <<work, fault>>
  BY DEF CmdKick
<1>2. deed' \in Deed /\ MarksSome
  BY <1>1, ChannelCommand, ReplyFacts DEF Commands
<1>3. RegNext /\ ChanInv'
  BY <1>1, <1>2, ChannelCommand, RemoveFromInv
<1> QED
  BY <1>1, <1>2, <1>3, ChannelCommand, StaysIdle

\* INVITE only touches the list of invitations.
LEMMA CmdInviteInv ==
  ASSUME RegInv, ChanInv, ControlInv, NEW c \in Clients, NEW ch \in ChannelNames,
         NEW d \in Clients, CmdInvite(c, ch, d)
  PROVE  RegNext /\ ChanInv' /\ ControlInv'
<1>1. /\ Ready(c) /\ Member(c, ch)
      /\ d \in clients
      /\ Reply("INVITE", c, {ch}, TRUE, {c, d})
      /\ UNCHANGED <<clients, identity>> /\ UNCHANGED <<work, fault>> /\ UNCHANGED channels
  BY DEF CmdInvite, InviteAccepted
<1>2. deed' \in Deed /\ MarksSome
  <2>1. {c, d} \in SUBSET Clients
    OBVIOUS
  <2> QED
    BY <1>1, <2>1, ReplyFacts DEF Commands
<1>3. RegNext /\ ChanInv'
  <2>1. CASE chan' = chan
    BY <1>1, <1>2, <2>1, QuietChannels DEF chanVars
  <2>2. CASE chan' = [chan EXCEPT ![ch].invited = {nickname[d]}]
    <3> DEFINE x == [chan[ch] EXCEPT !.invited = {nickname[d]}]
    <3>1. nickname[d] \in Nicks \cup {NoNick}
      BY <1>1 DEF RegInv, RegTypeOK
    <3>2. Sound(x, Live, nickname)
      BY <1>1, <3>1, ChannelCommand, InviteSound
    <3>3. chan' = [chan EXCEPT ![ch] = x]
      BY <2>2
    <3> HIDE DEF x
    <3>4. ch \in channels' /\ channels \ {ch} \subseteq channels' /\ channels' \subseteq ChannelNames
      BY <1>1, ChannelCommand DEF ChanInv
    <3> QED
      BY <1>1, <1>2, <3>2, <3>3, <3>4, OneChannel
  <2> QED
    BY <2>1, <2>2 DEF CmdInvite
<1> QED
  BY <1>1, <1>2, <1>3, ChannelCommand, StaysIdle

\* +o looks a participant up in the index, and the index has it.
LEMMA CmdModeInv ==
  ASSUME RegInv, ChanInv, ControlInv, NEW c \in Clients, NEW ch \in ChannelNames,
         NEW r \in ModeRequests, CmdMode(c, ch, r)
  PROVE  RegNext /\ ChanInv' /\ ControlInv'
<1> DEFINE x == ApplyMode(chan[ch], r, nickNameClientMap)
<1>1. /\ Ready(c) /\ Member(c, ch)
      /\ ModeAccepted(chan[ch], r)
      /\ chan' = [chan EXCEPT ![ch] = x]
      /\ Reply("MODE", c, {ch}, TRUE, Audience(chan[ch]))
      /\ UNCHANGED <<clients, identity>> /\ UNCHANGED <<work, fault>> /\ UNCHANGED channels
  BY DEF CmdMode
<1>2. deed' \in Deed /\ MarksSome
  BY <1>1, ChannelCommand, ReplyFacts DEF Commands
<1>3. Sound(chan[ch], Live, nickname)
  BY DEF ChanInv
<1>4. \A n \in KeysOf(chan[ch].participant) : nickNameClientMap[n] = chan[ch].participant[n]
  <2> SUFFICES ASSUME NEW n \in KeysOf(chan[ch].participant)
               PROVE  nickNameClientMap[n] = chan[ch].participant[n]
    OBVIOUS
  <2>1. chan[ch].participant[n] \in Live /\ nickname[chan[ch].participant[n]] = n /\ n \in Nicks
    BY <1>3 DEF Sound, RosterSound, KeysOf
  <2> QED
    BY <2>1, IdentifiersAssumption DEF RegInv, NickIndexed, Live
<1>5. Sound(x, Live, nickname)
  <2>1. nickNameClientMap \in ClientMap /\ r \in ModeRequest
    BY ServerAssumption DEF RegInv, RegTypeOK
  <2> QED
    BY <1>1, <1>3, <1>4, <2>1, ApplyModeSound
<1> HIDE DEF x
<1>6. ch \in channels' /\ channels \ {ch} \subseteq channels' /\ channels' \subseteq ChannelNames
  BY <1>1, ChannelCommand DEF ChanInv
<1>7. RegNext /\ ChanInv'
  BY <1>1, <1>2, <1>5, <1>6, OneChannel
<1> QED
  BY <1>1, <1>2, <1>7, ChannelCommand, StaysIdle

\* TOPIC only touches the topic.
LEMMA CmdTopicInv ==
  ASSUME RegInv, ChanInv, ControlInv, NEW c \in Clients, NEW ch \in ChannelNames,
         NEW topic \in Topics, CmdTopic(c, ch, topic)
  PROVE  RegNext /\ ChanInv' /\ ControlInv'
<1> DEFINE x == [chan[ch] EXCEPT !.topic = topic]
<1>1. /\ Ready(c) /\ Member(c, ch)
      /\ chan' = [chan EXCEPT ![ch] = x]
      /\ Reply("TOPIC", c, {ch}, TRUE, Audience(chan[ch]))
      /\ UNCHANGED <<clients, identity>> /\ UNCHANGED <<work, fault>> /\ UNCHANGED channels
  BY DEF CmdTopic
<1>2. deed' \in Deed /\ MarksSome
  BY <1>1, ChannelCommand, ReplyFacts DEF Commands
<1>3. Sound(x, Live, nickname)
  BY TopicSound DEF ChanInv
<1> HIDE DEF x
<1>4. ch \in channels' /\ channels \ {ch} \subseteq channels' /\ channels' \subseteq ChannelNames
  BY <1>1, ChannelCommand DEF ChanInv
<1>5. RegNext /\ ChanInv'
  BY <1>1, <1>2, <1>3, <1>4, OneChannel
<1> QED
  BY <1>1, <1>2, <1>5, ChannelCommand, StaysIdle

\* The commands that only send.
LEMMA QueryInv ==
  ASSUME RegInv, ChanInv, ControlInv, NEW c \in Clients, NEW ch \in ChannelNames,
         CmdModeQuery(c, ch) \/ CmdTopicQuery(c, ch)
  PROVE  RegNext /\ ChanInv' /\ ControlInv'
<1>1. /\ work = Idle
      /\ UNCHANGED <<clients, identity>> /\ UNCHANGED <<work, fault>> /\ UNCHANGED chanVars
  BY DEF CmdModeQuery, CmdTopicQuery, Ready, Free
<1>2. deed' \in Deed /\ MarksSome
  <2>1. {c} \in SUBSET Clients /\ {ch} \in SUBSET ChannelNames
    OBVIOUS
  <2>2. CASE Silent("MODE", c, {ch})
    BY <2>1, <2>2, SilentFacts DEF Commands
  <2>3. CASE Reply("TOPIC", c, {ch}, TRUE, {c})
    BY <2>1, <2>3, ReplyFacts DEF Commands
  <2> QED
    BY <2>2, <2>3 DEF CmdModeQuery, CmdTopicQuery
<1> QED
  BY <1>1, <1>2, QuietChannels, StaysIdle

\* PRIVMSG to users only marks.
LEMMA PrivmsgUsersInv ==
  ASSUME RegInv, ChanInv, ControlInv, NEW c \in Clients, NEW receivers \in SUBSET Clients,
         PrivmsgUsers(c, receivers)
  PROVE  RegNext /\ ChanInv' /\ ControlInv'
<1>1. /\ work = Idle /\ Reply("PRIVMSG", c, {}, TRUE, receivers)
      /\ UNCHANGED <<clients, identity>> /\ UNCHANGED <<work, fault>> /\ UNCHANGED chanVars
  BY DEF PrivmsgUsers, Ready, Free
<1>2. deed' \in Deed /\ MarksSome
  BY <1>1, ReplyFacts DEF Commands
<1> QED
  BY <1>1, <1>2, QuietChannels, StaysIdle

\* PRIVMSG to channels only marks.
LEMMA PrivmsgChannelsInv ==
  ASSUME RegInv, ChanInv, ControlInv, NEW c \in Clients,
         NEW receivers \in SUBSET ChannelNames, PrivmsgChannels(c, receivers)
  PROVE  RegNext /\ ChanInv' /\ ControlInv'
<1> DEFINE to == UNION {Audience(chan[ch]) : ch \in receivers} \ {c}
<1>1. /\ work = Idle /\ Reply("PRIVMSG", c, receivers, TRUE, to)
      /\ UNCHANGED <<clients, identity>> /\ UNCHANGED <<work, fault>> /\ UNCHANGED chanVars
  BY DEF PrivmsgChannels, Ready, Free
<1>2. to \in SUBSET Clients
  BY Audiences
<1> HIDE DEF to
<1>3. deed' \in Deed /\ MarksSome
  BY <1>1, <1>2, ReplyFacts DEF Commands
<1> QED
  BY <1>1, <1>3, QuietChannels, StaysIdle

\* QUIT and a lost connection only mark.
LEMMA DisconnectInv ==
  ASSUME RegInv, ChanInv, ControlInv, NEW c \in Clients, NEW cmd \in {"QUIT", "DROP"},
         Disconnect(c, cmd)
  PROVE  RegNext /\ ChanInv' /\ ControlInv'
<1>1. deed' \in Deed
  BY DEF Disconnect, Deed, Commands
<1>2. MarksSome
  BY DEF Disconnect, Ready, Served, MarksSome
<1> QED
  BY <1>1, <1>2, QuietChannels, StaysIdle DEF Disconnect, Ready, Free

\* The teardown erases the names of the clients that go, and only they go.
LEMMA CleanupInv ==
  ASSUME RegInv, ChanInv, ControlInv, Cleanup
  PROVE  RegNext /\ ChanInv' /\ ControlInv'
<1> DEFINE names == {nickname[c] : c \in toRemove}
<1>1. RegNext
  BY DEF Cleanup, RegNext
<1>2. deed' \in Deed
  BY DEF Cleanup, Deed
<1>3. ControlInv'
  BY <1>2, StaysIdle DEF Cleanup, Free
<1>4. Live \ toRemove \subseteq Live' /\ Live \subseteq Clients
  BY DEF Cleanup, RemoveMarked, Live, RegInv, RegTypeOK
<1>5. \A c \in Live \ toRemove : nickname'[c] = nickname[c]
  BY <1>4 DEF Cleanup, RemoveMarked
<1>6. chan' = [ch \in ChannelNames |-> Leave(chan[ch], names)] /\ channels' = channels
  BY DEF Cleanup
<1>7. \A ch \in ChannelNames : Sound(Leave(chan[ch], names), Live', nickname')
  BY <1>4, <1>5, TeardownSound DEF ChanInv
<1> HIDE DEF names
<1>8. Leave(EmptyChannel, names) = EmptyChannel
  <2>1. Erase(EmptyMap, names) = EmptyMap
    BY DEF Erase, EmptyMap
  <2>2. EmptyChannel.participant = EmptyMap /\ EmptyChannel.operator = EmptyMap
    BY DEF EmptyChannel
  <2>3. Leave(EmptyChannel, names) =
          [EmptyChannel EXCEPT !.participant = EmptyMap, !.operator = EmptyMap]
    BY <2>1, <2>2 DEF Leave
  <2> QED
    BY <2>3 DEF EmptyChannel
<1>9. ChanInv'
  BY <1>6, <1>7, <1>8 DEF ChanInv, NothingOutlivesAChannel
<1> QED
  BY <1>1, <1>3, <1>9

-----------------------------------------------------------------------------

\* A step that changes nothing.
LEMMA StutterInv ==
  ASSUME RegInv, ChanInv, ControlInv, UNCHANGED vars
  PROVE  UNCHANGED regVars /\ ChanInv' /\ ControlInv'
  BY DEF ChanInv, ControlInv, Live, NothingOutlivesAChannel, WorkerStays, vars,
         regVars, chanVars, identity

\* Every step is a step of the registry and keeps the rest of the invariant.
LEMMA StepInv ==
  ASSUME RegInv, ChanInv, ControlInv, [Next]_vars
  PROVE  [RegNext]_regVars /\ ChanInv' /\ ControlInv'
<1> DEFINE Goal == [RegNext]_regVars /\ ChanInv' /\ ControlInv'
<1>1. ASSUME NEW c \in Clients, Accept(c) PROVE Goal
  BY <1>1, AcceptInv
<1>2. ASSUME NEW c \in Clients, NEW cmd \in Commands, RefuseCmd(c, cmd) PROVE Goal
  BY <1>2, RefuseCmdInv
<1>3. ASSUME NEW c \in Clients, NEW cmd \in {"CAP", "PING", "JOIN", "UNKNOWN"}, AnswerCmd(c, cmd)
      PROVE  Goal
  BY <1>3, AnswerCmdInv
<1>4. ASSUME NEW c \in Clients, CmdPass(c) PROVE Goal
  BY <1>4, CmdPassInv
<1>5. ASSUME NEW c \in Clients, NEW n \in Nicks, CmdNick(c, n) PROVE Goal
  BY <1>5, CmdNickInv
<1>6. ASSUME NEW c \in Clients, CmdUser(c) PROVE Goal
  BY <1>6, CmdUserInv
<1>7. ASSUME NEW c \in Clients, NEW list \in JoinLists, CmdJoin(c, list) PROVE Goal
  BY <1>7, CmdJoinInv
<1>8. ASSUME NEW c \in Clients, NEW list \in PartLists, CmdPart(c, list) PROVE Goal
  BY <1>8, CmdPartInv
<1>9. ASSUME NEW c \in Clients, NEW receivers \in SUBSET Clients, PrivmsgUsers(c, receivers)
      PROVE  Goal
  BY <1>9, PrivmsgUsersInv
<1>10. ASSUME NEW c \in Clients, NEW receivers \in SUBSET ChannelNames,
              PrivmsgChannels(c, receivers)
       PROVE  Goal
  BY <1>10, PrivmsgChannelsInv
<1>11. ASSUME NEW c \in Clients, CrashMode(c) PROVE Goal
  BY <1>11, CrashFacts DEF CrashMode, Commands
<1>12. ASSUME NEW c \in Clients, NEW cmd \in {"QUIT", "DROP"}, Disconnect(c, cmd) PROVE Goal
  BY <1>12, DisconnectInv
<1>13. ASSUME NEW c \in Clients, NEW ch \in ChannelNames, NEW n \in Nicks, CmdKick(c, ch, n)
       PROVE  Goal
  BY <1>13, CmdKickInv
<1>14. ASSUME NEW c \in Clients, NEW ch \in ChannelNames, NEW d \in Clients, CmdInvite(c, ch, d)
       PROVE  Goal
  BY <1>14, CmdInviteInv
<1>15. ASSUME NEW c \in Clients, NEW ch \in ChannelNames, NEW d \in Clients, CrashInvite(c, ch, d)
       PROVE  Goal
  BY <1>15, CrashFacts DEF CrashInvite, Commands
<1>16. ASSUME NEW c \in Clients, NEW ch \in ChannelNames, NEW r \in ModeRequests, CmdMode(c, ch, r)
       PROVE  Goal
  BY <1>16, CmdModeInv
<1>17. ASSUME NEW c \in Clients, NEW ch \in ChannelNames, CmdModeQuery(c, ch) \/ CmdTopicQuery(c, ch)
       PROVE  Goal
  BY <1>17, QueryInv
<1>18. ASSUME NEW c \in Clients, NEW ch \in ChannelNames, NEW topic \in Topics, CmdTopic(c, ch, topic)
       PROVE  Goal
  BY <1>18, CmdTopicInv
<1>19. ASSUME NEW c \in Clients, NEW ch \in ChannelNames, CrashPrivmsg(c, ch) PROVE Goal
  BY <1>19, CrashFacts DEF CrashPrivmsg, Commands
<1>20. ASSUME JoinChannel PROVE Goal
  BY <1>20, JoinChannelInv
<1>21. ASSUME PartChannel PROVE Goal
  BY <1>21, PartChannelInv
<1>22. ASSUME Cleanup PROVE Goal
  BY <1>22, CleanupInv
<1>23. ASSUME UNCHANGED vars PROVE Goal
  BY <1>23, StutterInv
<1> HIDE DEF Goal
<1>24. Goal
  BY <1>1, <1>2, <1>3, <1>4, <1>5, <1>6, <1>7, <1>8, <1>9, <1>10, <1>11, <1>12, <1>13, <1>14,
     <1>15, <1>16, <1>17, <1>18, <1>19, <1>20, <1>21, <1>22, <1>23
     DEF Next, Halted
<1> QED
  BY <1>24 DEF Goal

\* The state in which run() starts.
LEMMA InitInv == Init => RegInv /\ ChanInv /\ ControlInv
<1> SUFFICES ASSUME Init PROVE RegInv /\ ChanInv /\ ControlInv
  OBVIOUS
<1>1. RegInv
  BY RegInitInv DEF Init
<1>2. ChanInv
  BY EmptyChannelSound DEF Init, ChanInv, NothingOutlivesAChannel
<1>3. ControlInv
  BY DEF Init, ControlInv, Work, Deed, WorkerStays, Idle
<1> QED
  BY <1>1, <1>2, <1>3

\* Types, registry, channels and thread of control together: the invariant that
\* carries every other, for all command lines, in any order, from any number of
\* clients, with any of their sockets failing at any message.
THEOREM ServerCorrect == Spec => []ServerInv
<1>1. Init => ServerInv
  BY InitInv, InvSplit
<1>2. ServerInv /\ [Next]_vars => ServerInv'
  <2> SUFFICES ASSUME ServerInv, [Next]_vars PROVE ServerInv'
    OBVIOUS
  <2>1. RegInv /\ ChanInv /\ ControlInv
    BY InvSplit
  <2>2. [RegNext]_regVars /\ ChanInv' /\ ControlInv'
    BY <2>1, StepInv
  <2>3. RegInv'
    BY <2>1, <2>2, RegNextInv
  <2>4. (RegInv /\ ChanInv /\ ControlInv)' => ServerInv'
    BY InvSplit, PTL
  <2> QED
    BY <2>2, <2>3, <2>4
<1> QED
  BY <1>1, <1>2, PTL DEF Spec

\* Whatever the commands do, the registry inside the server behaves as the
\* registry of module Registry does by itself.
THEOREM ServerImplementsRegistry == Spec => RegSpec
<1>1. Init => RegInit
  BY DEF Init
<1>2. ServerInv /\ [Next]_vars => [RegNext]_regVars
  BY InvSplit, StepInv
<1> QED
  BY <1>1, <1>2, ServerCorrect, PTL DEF Spec, RegSpec

\* What broadcastMsg and the NAMES reply follow is never a deleted Client.
THEOREM MembersAreLive == Spec => []MembersLive
<1>1. ServerInv => MembersLive
  BY DEF ServerInv
<1> QED
  BY <1>1, ServerCorrect, PTL

\* The two maps of a channel agree.
THEOREM OperatorsStayMembers == Spec => []OperatorsAreMembers
<1>1. ServerInv => OperatorsAreMembers
  BY DEF ServerInv
<1> QED
  BY <1>1, ServerCorrect, PTL

\* +o finds the Client it is about, so that it never stores a null pointer.
THEOREM GrantsAreSound == Spec => []GrantsFindTheParticipant
<1>1. ServerInv => GrantsFindTheParticipant
  <2> SUFFICES ASSUME ServerInv, NEW ch \in ChannelNames, NEW n \in KeysOf(chan[ch].participant)
               PROVE  nickNameClientMap[n] = chan[ch].participant[n]
    BY DEF GrantsFindTheParticipant
  <2>1. chan[ch].participant[n] \in clients /\ nickname[chan[ch].participant[n]] = n /\ n \in Nicks
    BY DEF ServerInv, MembersLive, KeysOf
  <2> QED
    BY <2>1, IdentifiersAssumption DEF ServerInv, RegInv, NickIndexed
<1> QED
  BY <1>1, ServerCorrect, PTL

\* A channel with a key has mode k and one without has not, and no JOIN compares
\* the number of participants with a limit that was never set.
THEOREM SettingsAreConsistent == Spec => []SettingsConsistent
<1>1. ServerInv => SettingsConsistent
  BY DEF ServerInv
<1> QED
  BY <1>1, ServerCorrect, PTL

-----------------------------------------------------------------------------
(* Who comes into a channel and who goes: every step is one of six moves.    *)

\* A channel keeps its participants and its operators.
SameRoster(ch) ==
  /\ Audience(chan'[ch]) = Audience(chan[ch])
  /\ OperatorClients(chan'[ch]) = OperatorClients(chan[ch])

OnlyAt(ch) == \A d \in ChannelNames \ {ch} : SameRoster(d)

NoMove == UNCHANGED channels /\ \A ch \in ChannelNames : SameRoster(ch)

VanishMove ==
  /\ deed'.cmd = "CLEANUP"
  /\ UNCHANGED channels
  /\ \A ch \in ChannelNames :
       /\ Audience(chan'[ch]) = Audience(chan[ch]) \ toRemove
       /\ OperatorClients(chan'[ch]) = OperatorClients(chan[ch]) \ toRemove

FoundMove(ch, c) ==
  /\ deed'.cmd = "JOIN" /\ deed'.by = c /\ c \in deed'.to
  /\ ch \notin channels /\ channels' = channels \cup {ch}
  /\ Audience(chan'[ch]) = {c}
  /\ OperatorClients(chan'[ch]) = {c}
  /\ OnlyAt(ch)

EnterMove(ch, c) ==
  /\ deed'.cmd = "JOIN" /\ deed'.by = c /\ Audience(chan'[ch]) \subseteq deed'.to
  /\ ch \in channels /\ UNCHANGED channels
  /\ Audience(chan'[ch]) = Audience(chan[ch]) \cup {c}
  /\ OperatorClients(chan'[ch]) = OperatorClients(chan[ch])
  /\ OnlyAt(ch)

\* What RemoveFrom does to the channel of one participant.
Removes(ch, c) ==
  /\ channels' = IF Audience(chan[ch]) = {c} THEN channels \ {ch} ELSE channels
  /\ Audience(chan'[ch]) = Audience(chan[ch]) \ {c}
  /\ OperatorClients(chan'[ch]) = OperatorClients(chan[ch]) \ {c}
  /\ OnlyAt(ch)

DepartMove(ch, c) ==
  /\ \/ deed'.cmd = "PART" /\ deed'.by = c
     \/ deed'.cmd = "KICK" /\ deed'.by \in OperatorClients(chan[ch])
  /\ Audience(chan[ch]) \subseteq deed'.to
  /\ ch \in channels /\ c \in Audience(chan[ch])
  /\ Removes(ch, c)

ModeMove(ch) ==
  /\ deed'.cmd = "MODE" /\ deed'.by \in OperatorClients(chan[ch])
  /\ Audience(chan[ch]) \subseteq deed'.to
  /\ UNCHANGED channels
  /\ Audience(chan'[ch]) = Audience(chan[ch])
  /\ \/ \E S \in SUBSET Audience(chan[ch]) :
          OperatorClients(chan'[ch]) = OperatorClients(chan[ch]) \cup S
     \/ \E S \in SUBSET OperatorClients(chan[ch]) :
          OperatorClients(chan'[ch]) = OperatorClients(chan[ch]) \ S
  /\ OnlyAt(ch)

Move ==
  \/ NoMove
  \/ VanishMove
  \/ \E ch \in ChannelNames :
       \/ ModeMove(ch)
       \/ \E c \in Clients : FoundMove(ch, c) \/ EnterMove(ch, c) \/ DepartMove(ch, c)

\* A step that leaves the maps of channels alone moves nobody.
LEMMA QuietMove ==
  ASSUME UNCHANGED chanVars
  PROVE  Move
  BY DEF chanVars, Move, NoMove, SameRoster

\* A step that changes one channel leaves the others as they were.
LEMMA OneChange ==
  ASSUME ChanInv, NEW ch \in ChannelNames, NEW x, chan' = [chan EXCEPT ![ch] = x]
  PROVE  chan'[ch] = x /\ OnlyAt(ch)
<1>1. \A d \in ChannelNames : chan'[d] = IF d = ch THEN x ELSE chan[d]
  BY DEF ChanInv
<1> QED
  BY <1>1 DEF OnlyAt, SameRoster

\* Live clients have different names.
LEMMA OneName ==
  ASSUME RegInv, NEW c \in clients, NEW d \in Live, nickname[c] \in Nicks,
         nickname[d] = nickname[c]
  PROVE  d = c
  BY IdentifiersAssumption DEF RegInv, UniqueNicks, Live

\* Who is in a channel under the nickname of c is c.
LEMMA InChannel ==
  ASSUME RegInv, ChanInv, NEW c \in clients, NEW ch \in ChannelNames
  PROVE  /\ IsParticipant(chan[ch], nickname[c]) => c \in Audience(chan[ch])
         /\ IsOperator(chan[ch], nickname[c]) => c \in OperatorClients(chan[ch])
<1> DEFINE n == nickname[c]
<1>1. Sound(chan[ch], Live, nickname)
  BY DEF ChanInv
<1>2. ASSUME IsParticipant(chan[ch], n) PROVE c \in Audience(chan[ch])
  <2>1. n \in Nicks /\ chan[ch].participant[n] \in Live /\ nickname[chan[ch].participant[n]] = n
    BY <1>1, <1>2 DEF IsParticipant, KeysOf, Sound, RosterSound
  <2>2. chan[ch].participant[n] = c
    BY <2>1, OneName
  <2> QED
    BY <1>2, <2>2 DEF IsParticipant, Audience
<1>3. ASSUME IsOperator(chan[ch], n) PROVE c \in OperatorClients(chan[ch])
  <2> DEFINE d == chan[ch].operator[n]
  <2>1. n \in KeysOf(chan[ch].operator) /\ n \in Nicks
    BY <1>3 DEF IsOperator, KeysOf
  <2>2. d = chan[ch].participant[n] /\ n \in KeysOf(chan[ch].participant)
    BY <1>1, <2>1 DEF Sound, RosterSound, KeysOf
  <2>3. d \in Live /\ nickname[d] = n
    BY <1>1, <2>2 DEF Sound, RosterSound
  <2> HIDE DEF d
  <2>4. d = c
    BY <2>1, <2>3, OneName
  <2> QED
    BY <2>1, <2>4 DEF OperatorClients, d
<1> QED
  BY <1>2, <1>3

\* PART and KICK take one client out, and its channel with the last one.
LEMMA RemoveFromMove ==
  ASSUME RegInv, ChanInv, NEW ch \in channels, NEW c \in Audience(chan[ch]),
         RemoveFrom(ch, nickname[c])
  PROVE  Removes(ch, c)
<1> DEFINE left == Leave(chan[ch], {nickname[c]})
<1>1. ch \in ChannelNames /\ channels \subseteq ChannelNames /\ Sound(chan[ch], Live, nickname)
  BY DEF ChanInv
<1>2. \A d \in Audience(chan[ch]) : d \in Live /\ nickname[d] \in Nicks
  BY <1>1, RosterFacts DEF KeysOf
<1>3. \A d \in Audience(chan[ch]) : nickname[d] = nickname[c] <=> d = c
  BY <1>2, OneName DEF Live
<1>4. OperatorClients(chan[ch]) \subseteq Audience(chan[ch])
  BY <1>1, RosterFacts
<1>5. /\ Audience(left) = Audience(chan[ch]) \ {c}
      /\ OperatorClients(left) = OperatorClients(chan[ch]) \ {c}
  <2>1. /\ Audience(left) = {d \in Audience(chan[ch]) : nickname[d] \notin {nickname[c]}}
        /\ OperatorClients(left) = {d \in OperatorClients(chan[ch]) : nickname[d] \notin {nickname[c]}}
    BY <1>1, LeaveRoster
  <2> HIDE DEF left
  <2> QED
    BY <2>1, <1>3, <1>4
<1>6. CASE KeysOf(left.participant) = {}
  <2>1. channels' = channels \ {ch} /\ chan' = [chan EXCEPT ![ch] = EmptyChannel]
    BY <1>6 DEF RemoveFrom
  <2>2. chan'[ch] = EmptyChannel /\ OnlyAt(ch)
    BY <1>1, <2>1, OneChange
  <2>3. Audience(left) = {}
    BY <1>6 DEF Audience
  <2>4. Audience(EmptyChannel) = {} /\ OperatorClients(EmptyChannel) = {}
    <3>1. Sound(EmptyChannel, {}, nickname)
      BY EmptyChannelSound
    <3> QED
      BY <3>1, AudienceLive
  <2> HIDE DEF left
  <2> QED
    BY <1>4, <1>5, <2>1, <2>2, <2>3, <2>4 DEF Removes
<1>7. CASE KeysOf(left.participant) # {}
  <2>1. channels' = channels /\ chan' = [chan EXCEPT ![ch] = left]
    BY <1>7 DEF RemoveFrom
  <2>2. Audience(left) # {}
    BY <1>7 DEF Audience
  <2> HIDE DEF left
  <2>3. chan'[ch] = left /\ OnlyAt(ch)
    BY <1>1, <2>1, OneChange
  <2> QED
    BY <1>5, <2>1, <2>2, <2>3 DEF Removes
<1> QED
  BY <1>6, <1>7

\* KICK.
LEMMA CmdKickMove ==
  ASSUME RegInv, ChanInv, NEW c \in Clients, NEW ch \in ChannelNames,
         NEW n \in Nicks, CmdKick(c, ch, n)
  PROVE  Move
<1> DEFINE t == chan[ch].participant[n]
<1>1. /\ c \in clients /\ ch \in channels
      /\ ChannelOperator(c, ch) /\ IsParticipant(chan[ch], n)
      /\ Reply("KICK", c, {ch}, TRUE, Audience(chan[ch]))
      /\ RemoveFrom(ch, n)
  BY DEF CmdKick, Ready, Served, Member
<1>2. Sound(chan[ch], Live, nickname)
  BY DEF ChanInv
<1>3. t \in Audience(chan[ch]) /\ nickname[t] = n /\ t \in Clients
  <2>1. t \in Live /\ nickname[t] = n
    BY <1>1, <1>2 DEF IsParticipant, Sound, RosterSound
  <2> QED
    BY <1>1, <2>1 DEF IsParticipant, Audience, Live, RegInv, RegTypeOK
<1> HIDE DEF t
<1>4. Removes(ch, t)
  BY <1>1, <1>3, RemoveFromMove
<1>5. c \in OperatorClients(chan[ch])
  BY <1>1, InChannel DEF ChannelOperator
<1>6. deed'.cmd = "KICK" /\ deed'.by = c /\ deed'.to = Audience(chan[ch])
  BY <1>1 DEF Reply
<1>7. DepartMove(ch, t)
  BY <1>1, <1>3, <1>4, <1>5, <1>6 DEF DepartMove
<1> QED
  BY <1>3, <1>7 DEF Move

\* One turn of PART.
LEMMA PartChannelMove ==
  ASSUME RegInv, ChanInv, ControlInv, PartChannel
  PROVE  Move
<1> DEFINE c  == work.by
           ch == Head(work.rest).ch
<1>1. work # Idle
  BY DEF PartChannel, Idle
<1>2. c \in clients /\ c \in Clients /\ ch \in ChannelNames
  BY <1>1, InProgress DEF Entry, Live
<1>3. \/ /\ Member(c, ch)
         /\ Reply("PART", c, {ch}, TRUE, Audience(chan[ch]))
         /\ RemoveFrom(ch, nickname[c])
      \/ UNCHANGED chanVars
  BY DEF PartChannel
<1> HIDE DEF c, ch
<1>4. ASSUME Member(c, ch), Reply("PART", c, {ch}, TRUE, Audience(chan[ch])),
             RemoveFrom(ch, nickname[c])
      PROVE  Move
  <2>1. ch \in channels /\ c \in Audience(chan[ch])
    BY <1>2, <1>4, InChannel DEF Member
  <2>2. Removes(ch, c)
    BY <1>4, <2>1, RemoveFromMove
  <2>3. deed'.cmd = "PART" /\ deed'.by = c /\ deed'.to = Audience(chan[ch])
    BY <1>4 DEF Reply
  <2>4. DepartMove(ch, c)
    BY <2>1, <2>2, <2>3 DEF DepartMove
  <2> QED
    BY <1>2, <2>4 DEF Move
<1> QED
  BY <1>3, <1>4, QuietMove

\* One turn of JOIN: a channel is made, or somebody enters one, or is refused.
LEMMA JoinChannelMove ==
  ASSUME RegInv, ChanInv, ControlInv, JoinChannel
  PROVE  Move
<1> DEFINE c     == work.by
           n     == nickname[c]
           entry == Head(work.rest)
           ch    == entry.ch
           found == IF ch \in channels THEN chan[ch]
                    ELSE AddOperator(NewChannel(entry.key), n, c)
           joined == Join(found, n, c)
<1>1. channels' = channels \cup {ch} /\ work # Idle
  BY DEF JoinChannel, Idle
<1>2. /\ c \in Live /\ c \in Clients /\ n \in Nicks
      /\ ch \in ChannelNames
  BY <1>1, InProgress DEF Entry
<1>8. entry.key \in Keys \cup {""}
  BY <1>1, InProgress DEF Entry
<1>3. \A d \in Live : nickname[d] = n <=> d = c
  BY <1>2, OneName DEF Live
<1>4. \/ /\ Admits(found, n, entry.key)
         /\ chan' = [chan EXCEPT ![ch] = joined]
         /\ Reply("JOIN", c, {ch}, TRUE, Audience(joined) \cup {c})
      \/ /\ ~Admits(found, n, entry.key)
         /\ chan' = [chan EXCEPT ![ch] = found]
  BY DEF JoinChannel
<1>5. /\ ch \in channels => found = chan[ch]
      /\ ch \notin channels => found = AddOperator(NewChannel(entry.key), n, c)
      /\ joined = Join(found, n, c)
  OBVIOUS
<1> HIDE DEF found, ch, entry, n, c
<1>6. ASSUME Admits(found, n, entry.key), chan' = [chan EXCEPT ![ch] = joined],
             Reply("JOIN", c, {ch}, TRUE, Audience(joined) \cup {c})
      PROVE  Move
  <2>1. deed'.cmd = "JOIN" /\ deed'.by = c /\ deed'.to = Audience(joined) \cup {c}
    BY <1>6 DEF Reply
  <2> HIDE DEF joined
  <2>2. chan'[ch] = joined /\ OnlyAt(ch)
    BY <1>2, <1>6, OneChange
  <2>3. CASE ch \in channels
    <3>1. Audience(joined) = Audience(chan[ch]) \cup {c}
          /\ OperatorClients(joined) = OperatorClients(chan[ch])
      <4>1. Sound(chan[ch], Live, nickname) /\ c \in Live \cap Clients
        BY <1>2 DEF ChanInv
      <4>2. /\ Audience(Join(chan[ch], n, c)) = Audience(chan[ch]) \cup {c}
            /\ OperatorClients(Join(chan[ch], n, c)) = OperatorClients(chan[ch])
        BY <1>2, <1>3, <4>1, JoinRoster
      <4> QED
        BY <1>5, <2>3, <4>2
    <3>2. EnterMove(ch, c)
      BY <1>1, <2>1, <2>2, <2>3, <3>1 DEF EnterMove
    <3> QED
      BY <1>2, <3>2 DEF Move
  <2>4. CASE ch \notin channels
    <3>1. Audience(joined) = {c} /\ OperatorClients(joined) = {c}
      <4>1. LET y == Join(AddOperator(NewChannel(entry.key), n, c), n, c)
            IN  Audience(y) = {c} /\ OperatorClients(y) = {c}
        BY <1>2, <1>8, FoundRoster, Zenon
      <4> QED
        BY <1>5, <2>4, <4>1
    <3>2. FoundMove(ch, c)
      BY <1>1, <2>1, <2>2, <2>4, <3>1 DEF FoundMove
    <3> QED
      BY <1>2, <3>2 DEF Move
  <2> QED
    BY <2>3, <2>4
<1>7. ASSUME ~Admits(found, n, entry.key), chan' = [chan EXCEPT ![ch] = found]
      PROVE  Move
  <2>1. ch \in channels
    BY <1>2, <1>5, <1>7, <1>8, FounderAdmitted
  <2>2. chan'[ch] = chan[ch] /\ OnlyAt(ch)
    BY <1>2, <1>5, <1>7, <2>1, OneChange
  <2>3. NoMove
    BY <1>1, <2>1, <2>2 DEF NoMove, OnlyAt, SameRoster
  <2> QED
    BY <2>3 DEF Move
<1> QED
  BY <1>4, <1>6, <1>7

\* What a participant's pointer and the index have in common.
LEMMA IndexedParticipants ==
  ASSUME RegInv, ChanInv, NEW ch \in ChannelNames
  PROVE  \A n \in KeysOf(chan[ch].participant) : nickNameClientMap[n] = chan[ch].participant[n]
<1> SUFFICES ASSUME NEW n \in KeysOf(chan[ch].participant)
             PROVE  nickNameClientMap[n] = chan[ch].participant[n]
  OBVIOUS
<1>1. chan[ch].participant[n] \in Live /\ nickname[chan[ch].participant[n]] = n /\ n \in Nicks
  BY DEF ChanInv, Sound, RosterSound, KeysOf
<1> QED
  BY <1>1, IdentifiersAssumption DEF RegInv, NickIndexed, Live

\* MODE makes and unmakes operators for an operator.
LEMMA CmdModeMove ==
  ASSUME RegInv, ChanInv, NEW c \in Clients, NEW ch \in ChannelNames,
         NEW r \in ModeRequests, CmdMode(c, ch, r)
  PROVE  ModeMove(ch)
<1> DEFINE x == ApplyMode(chan[ch], r, nickNameClientMap)
<1>1. /\ c \in clients /\ ChannelOperator(c, ch)
      /\ ModeAccepted(chan[ch], r)
      /\ chan' = [chan EXCEPT ![ch] = x]
      /\ UNCHANGED channels
  BY DEF CmdMode, Ready, Served
<1>2. deed'.cmd = "MODE" /\ deed'.by = c /\ deed'.to = Audience(chan[ch])
  BY DEF CmdMode, Reply
<1>3. Sound(chan[ch], Live, nickname) /\ nickNameClientMap \in ClientMap
      /\ r \in ModeRequest
  BY ServerAssumption DEF ChanInv, RegInv, RegTypeOK
<1>4. /\ Audience(x) = Audience(chan[ch])
      /\ r.add => \E S \in SUBSET Audience(chan[ch]) :
           OperatorClients(x) = OperatorClients(chan[ch]) \cup S
      /\ ~r.add => \E S \in SUBSET OperatorClients(chan[ch]) :
           OperatorClients(x) = OperatorClients(chan[ch]) \ S
  BY <1>1, <1>3, IndexedParticipants, ModeRoster
<1> HIDE DEF x
<1>5. chan'[ch] = x /\ OnlyAt(ch)
  BY <1>1, OneChange
<1>6. c \in OperatorClients(chan[ch])
  BY <1>1, InChannel DEF ChannelOperator
<1> QED
  BY <1>1, <1>2, <1>4, <1>5, <1>6 DEF ModeMove

\* INVITE and TOPIC touch neither map.
LEMMA InviteTopicMove ==
  ASSUME RegInv, ChanInv, NEW c \in Clients, NEW ch \in ChannelNames,
         (\E d \in Clients : CmdInvite(c, ch, d)) \/ (\E topic \in Topics : CmdTopic(c, ch, topic))
  PROVE  Move
<1>1. UNCHANGED channels
  BY DEF CmdInvite, CmdTopic
<1>2. CASE chan' = chan
  BY <1>1, <1>2, QuietMove DEF chanVars
<1>3. ASSUME NEW d \in Clients, chan' = [chan EXCEPT ![ch].invited = {nickname[d]}] PROVE Move
  <2> DEFINE x == [chan[ch] EXCEPT !.invited = {nickname[d]}]
  <2>1. chan[ch] \in Channel
    BY DEF ChanInv, Sound
  <2>2. x.participant = chan[ch].participant /\ x.operator = chan[ch].operator
    BY <2>1 DEF Channel
  <2>3. chan' = [chan EXCEPT ![ch] = x]
    BY <1>3
  <2> HIDE DEF x
  <2>4. chan'[ch] = x /\ OnlyAt(ch)
    BY <2>3, OneChange
  <2> QED
    BY <1>1, <2>2, <2>4 DEF Move, NoMove, OnlyAt, SameRoster, Audience, OperatorClients
<1>4. ASSUME NEW topic \in Topics, chan' = [chan EXCEPT ![ch].topic = topic] PROVE Move
  <2> DEFINE x == [chan[ch] EXCEPT !.topic = topic]
  <2>1. chan[ch] \in Channel
    BY DEF ChanInv, Sound
  <2>2. x.participant = chan[ch].participant /\ x.operator = chan[ch].operator
    BY <2>1 DEF Channel
  <2>3. chan' = [chan EXCEPT ![ch] = x]
    BY <1>4
  <2> HIDE DEF x
  <2>4. chan'[ch] = x /\ OnlyAt(ch)
    BY <2>3, OneChange
  <2> QED
    BY <1>1, <2>2, <2>4 DEF Move, NoMove, OnlyAt, SameRoster, Audience, OperatorClients
<1> QED
  BY <1>2, <1>3, <1>4 DEF CmdInvite, CmdTopic

\* NICK moves entries, not clients.
LEMMA CmdNickMove ==
  ASSUME RegInv, ChanInv, NEW c \in Clients, NEW n \in Nicks, CmdNick(c, n)
  PROVE  Move
<1>1. c \in clients /\ \A d \in clients : nickname[d] # n
  BY DEF CmdNick, Ready, Served, SetNick, NickInUse
<1>2. CASE c \notin registeredStatus
  BY <1>2, QuietMove DEF CmdNick, chanVars
<1>3. CASE c \in registeredStatus
  <2> DEFINE old == nickname[c]
  <2>1. chan' = [ch \in ChannelNames |-> Rename(chan[ch], old, n, c)] /\ UNCHANGED channels
    BY <1>3 DEF CmdNick
  <2>2. c \in Live \cap Clients /\ old \in Nicks
    BY <1>1, <1>3 DEF Live, RegInv, RegTypeOK, RegisteredComplete
  <2>3. \A d \in Live : nickname[d] = old <=> d = c
    BY <1>1, <2>2, OneName
  <2>4. \A d \in Live : nickname[d] # n
    BY <1>1 DEF Live
  <2> HIDE DEF old
  <2>5. ASSUME NEW ch \in ChannelNames PROVE SameRoster(ch)
    <3>1. Sound(chan[ch], Live, nickname)
      BY DEF ChanInv
    <3>2. /\ Audience(Rename(chan[ch], old, n, c)) = Audience(chan[ch])
          /\ OperatorClients(Rename(chan[ch], old, n, c)) = OperatorClients(chan[ch])
      BY <2>2, <2>3, <2>4, <3>1, RenameRoster
    <3> QED
      BY <2>1, <3>2 DEF SameRoster
  <2> QED
    BY <2>1, <2>5 DEF Move, NoMove
<1> QED
  BY <1>2, <1>3

\* The teardown takes the marked clients out, whatever they were called.
LEMMA CleanupMove ==
  ASSUME RegInv, ChanInv, Cleanup
  PROVE  Move
<1> DEFINE names == {nickname[c] : c \in toRemove}
<1>1. /\ chan' = [ch \in ChannelNames |-> Leave(chan[ch], names)]
      /\ UNCHANGED channels
      /\ deed'.cmd = "CLEANUP"
  BY DEF Cleanup
<1>2. \A d \in Live : nickname[d] \in names <=> d \in toRemove
  <2> SUFFICES ASSUME NEW d \in Live PROVE nickname[d] \in names <=> d \in toRemove
    OBVIOUS
  <2>1. nickname[d] \in Nicks
    BY DEF Live, RegInv, RegTypeOK, RegisteredComplete
  <2>2. ASSUME NEW c \in toRemove, nickname[c] = nickname[d] PROVE d = c
    <3>1. c \in clients
      BY DEF RegInv, RegTypeOK
    <3> QED
      BY <2>1, <2>2, <3>1, OneName
  <2> QED
    BY <2>2
<1> HIDE DEF names
<1>3. ASSUME NEW ch \in ChannelNames
      PROVE  /\ Audience(chan'[ch]) = Audience(chan[ch]) \ toRemove
             /\ OperatorClients(chan'[ch]) = OperatorClients(chan[ch]) \ toRemove
  <2>1. Sound(chan[ch], Live, nickname)
    BY DEF ChanInv
  <2>2. /\ Audience(chan'[ch]) = {c \in Audience(chan[ch]) : nickname[c] \notin names}
        /\ OperatorClients(chan'[ch]) = {c \in OperatorClients(chan[ch]) : nickname[c] \notin names}
    BY <1>1, <2>1, LeaveRoster
  <2>3. Audience(chan[ch]) \subseteq Live /\ OperatorClients(chan[ch]) \subseteq Live
    BY <2>1, AudienceLive
  <2> QED
    BY <1>2, <2>2, <2>3
<1> QED
  BY <1>1, <1>3 DEF Move, VanishMove

\* The other steps leave the maps of channels alone.
LEMMA OtherMoves ==
  ASSUME NEW c \in Clients,
         \/ Accept(c)
         \/ \E cmd \in Commands : RefuseCmd(c, cmd)
         \/ \E cmd \in {"CAP", "PING", "JOIN", "UNKNOWN"} : AnswerCmd(c, cmd)
         \/ CmdPass(c)
         \/ CmdUser(c)
         \/ \E list \in JoinLists : CmdJoin(c, list)
         \/ \E list \in PartLists : CmdPart(c, list)
         \/ \E receivers \in SUBSET Clients : PrivmsgUsers(c, receivers)
         \/ \E receivers \in SUBSET ChannelNames : PrivmsgChannels(c, receivers)
         \/ CrashMode(c)
         \/ \E cmd \in {"QUIT", "DROP"} : Disconnect(c, cmd)
         \/ \E ch \in ChannelNames :
              \/ \E d \in Clients : CrashInvite(c, ch, d)
              \/ CmdModeQuery(c, ch)
              \/ CmdTopicQuery(c, ch)
              \/ CrashPrivmsg(c, ch)
  PROVE  UNCHANGED chanVars
  BY DEF Accept, RefuseCmd, AnswerCmd, CmdPass, CmdUser, CmdJoin, CmdPart, PrivmsgUsers,
         PrivmsgChannels, CrashMode, Disconnect, CrashInvite, CmdModeQuery, CmdTopicQuery,
         CrashPrivmsg, Crash

\* Every step is one of the six.
LEMMA Moves ==
  ASSUME RegInv, ChanInv, ControlInv, [Next]_vars
  PROVE  Move
<1>1. ASSUME NEW c \in Clients, NEW n \in Nicks, CmdNick(c, n) PROVE Move
  BY <1>1, CmdNickMove
<1>2. ASSUME NEW c \in Clients, NEW ch \in ChannelNames, NEW n \in Nicks, CmdKick(c, ch, n)
      PROVE  Move
  BY <1>2, CmdKickMove
<1>3. ASSUME NEW c \in Clients, NEW ch \in ChannelNames,
             (\E d \in Clients : CmdInvite(c, ch, d)) \/ (\E topic \in Topics : CmdTopic(c, ch, topic))
      PROVE  Move
  BY <1>3, InviteTopicMove
<1>4. ASSUME NEW c \in Clients, NEW ch \in ChannelNames, NEW r \in ModeRequests, CmdMode(c, ch, r)
      PROVE  Move
  BY <1>4, CmdModeMove DEF Move
<1>5. ASSUME JoinChannel PROVE Move
  BY <1>5, JoinChannelMove
<1>6. ASSUME PartChannel PROVE Move
  BY <1>6, PartChannelMove
<1>7. ASSUME Cleanup PROVE Move
  BY <1>7, CleanupMove
<1>8. ASSUME UNCHANGED chanVars PROVE Move
  BY <1>8, QuietMove
<1>9. ASSUME UNCHANGED vars PROVE UNCHANGED chanVars
  BY <1>9 DEF vars, chanVars
<1> HIDE DEF Move
<1> QED
  BY <1>1, <1>2, <1>3, <1>4, <1>5, <1>6, <1>7, <1>8, <1>9, OtherMoves DEF Next, Halted

\* What the moves take from the invariant: who is in a channel or operates it is
\* a client, and a channel that is not there has nobody in it.
LEMMA RosterTypes ==
  ASSUME RegInv, ChanInv, NEW ch \in ChannelNames
  PROVE  /\ Audience(chan[ch]) \subseteq Clients
         /\ OperatorClients(chan[ch]) \subseteq Clients
         /\ ch \notin channels => Audience(chan[ch]) = {} /\ OperatorClients(chan[ch]) = {}
<1>1. Sound(chan[ch], Live, nickname) /\ Live \subseteq Clients
  BY DEF ChanInv, RegInv, RegTypeOK, Live
<1>2. Audience(chan[ch]) \subseteq Clients /\ OperatorClients(chan[ch]) \subseteq Clients
  BY <1>1, RosterFacts
<1>3. Audience(EmptyChannel) = {} /\ OperatorClients(EmptyChannel) = {}
  BY IdentifiersAssumption DEF Audience, OperatorClients, EmptyChannel, EmptyMap, KeysOf
<1>4. ch \notin channels => chan[ch] = EmptyChannel
  BY DEF ChanInv, NothingOutlivesAChannel
<1> QED
  BY <1>2, <1>3, <1>4

\* In every step of a reachable state somebody moves or nobody does.
LEMMA MovesAlways == ServerInv /\ [Next]_vars => Move
  BY InvSplit, Moves

\* What a move is for one channel.
LEMMA MoveAt ==
  ASSUME Move, NEW ch \in ChannelNames
  PROVE  \/ SameRoster(ch)
         \/ VanishMove
         \/ ModeMove(ch)
         \/ \E c \in Clients : FoundMove(ch, c) \/ EnterMove(ch, c) \/ DepartMove(ch, c)
<1>1. ASSUME NEW d \in ChannelNames, OnlyAt(d), d # ch PROVE SameRoster(ch)
  BY <1>1 DEF OnlyAt
<1>2. ASSUME NEW d \in ChannelNames, ModeMove(d) PROVE OnlyAt(d)
  BY <1>2 DEF ModeMove
<1>3. ASSUME NEW d \in ChannelNames, NEW c \in Clients,
             FoundMove(d, c) \/ EnterMove(d, c) \/ DepartMove(d, c)
      PROVE  OnlyAt(d)
  BY <1>3 DEF FoundMove, EnterMove, DepartMove, Removes
<1>4. NoMove => SameRoster(ch)
  BY DEF NoMove
<1> HIDE DEF VanishMove, ModeMove, FoundMove, EnterMove, DepartMove, SameRoster, OnlyAt, NoMove
<1> QED
  BY <1>1, <1>2, <1>3, <1>4 DEF Move

\* A client stops being in a channel by its PART, an operator's KICK or its
\* teardown and in no other way.
THEOREM MembershipEndsSo == Spec => MembershipEnds
<1>1. ServerInv /\ [Next]_vars =>
        \A ch \in ChannelNames : \A c \in Audience(chan[ch]) \ Audience(chan'[ch]) :
          \/ deed'.cmd = "PART" /\ deed'.by = c
          \/ deed'.cmd = "KICK" /\ deed'.by \in OperatorClients(chan[ch])
          \/ c \in toRemove
  <2> SUFFICES ASSUME ServerInv, Move, NEW ch \in ChannelNames,
                      NEW c \in Audience(chan[ch]) \ Audience(chan'[ch])
               PROVE  \/ deed'.cmd = "PART" /\ deed'.by = c
                      \/ deed'.cmd = "KICK" /\ deed'.by \in OperatorClients(chan[ch])
                      \/ c \in toRemove
    BY MovesAlways
  <2>1. CASE VanishMove
    BY <2>1 DEF VanishMove
  <2>2. ASSUME NEW d \in Clients, DepartMove(ch, d) PROVE d = c
    BY <2>2 DEF DepartMove, Removes
  <2>3. ~ SameRoster(ch) /\ ~ ModeMove(ch) /\ \A d \in Clients : ~ EnterMove(ch, d)
    BY DEF SameRoster, ModeMove, EnterMove
  <2>4. \A d \in Clients : ~ FoundMove(ch, d)
    BY InvSplit, RosterTypes DEF FoundMove
  <2>5. VanishMove \/ \E d \in Clients : DepartMove(ch, d)
    BY <2>3, <2>4, MoveAt
  <2> QED
    BY <2>1, <2>2, <2>5 DEF DepartMove
<1> QED
  BY <1>1, ServerCorrect, PTL DEF Spec, MembershipEnds

\* Operators are made by making the channel or by an operator's MODE, and stop
\* being it with their membership or by an operator's MODE.
THEOREM OperatorsChangeSo == Spec => OperatorsChange
<1>1. ServerInv /\ [Next]_vars =>
        \A ch \in ChannelNames :
          LET before == OperatorClients(chan[ch])
              after  == OperatorClients(chan'[ch])
              granted == deed'.cmd = "MODE" /\ deed'.by \in before
          IN  /\ \A c \in after \ before : granted \/ (ch \notin channels /\ deed'.by = c)
              /\ \A c \in before \ after : granted \/ c \notin Audience(chan'[ch])
  <2> SUFFICES ASSUME ServerInv, Move, NEW ch \in ChannelNames,
                      ~ (deed'.cmd = "MODE" /\ deed'.by \in OperatorClients(chan[ch]))
               PROVE  /\ \A c \in OperatorClients(chan'[ch]) \ OperatorClients(chan[ch]) :
                            ch \notin channels /\ deed'.by = c
                      /\ \A c \in OperatorClients(chan[ch]) \ OperatorClients(chan'[ch]) :
                            c \notin Audience(chan'[ch])
    BY MovesAlways
  <2> DEFINE Goal == /\ \A c \in OperatorClients(chan'[ch]) \ OperatorClients(chan[ch]) :
                           ch \notin channels /\ deed'.by = c
                     /\ \A c \in OperatorClients(chan[ch]) \ OperatorClients(chan'[ch]) :
                           c \notin Audience(chan'[ch])
  <2>1. SameRoster(ch) => Goal
    BY DEF SameRoster
  <2>2. VanishMove => Goal
    BY DEF VanishMove
  <2>3. ~ ModeMove(ch)
    BY DEF ModeMove
  <2>4. ASSUME NEW d \in Clients, FoundMove(ch, d) PROVE Goal
    BY <2>4, InvSplit, RosterTypes DEF FoundMove
  <2>5. ASSUME NEW d \in Clients, EnterMove(ch, d) \/ DepartMove(ch, d) PROVE Goal
    BY <2>5 DEF EnterMove, DepartMove, Removes
  <2> HIDE DEF Goal
  <2>6. Goal
    BY <2>1, <2>2, <2>3, <2>4, <2>5, MoveAt
  <2> QED
    BY <2>6 DEF Goal
<1> QED
  BY <1>1, ServerCorrect, PTL DEF Spec, OperatorsChange

\* Whoever is or was in a channel hears of everyone who comes into it or leaves
\* it by PART or KICK.
THEOREM MembersAreToldSo == Spec => MembersAreTold
<1>1. ServerInv /\ [Next]_vars =>
        \A ch \in ChannelNames :
          Audience(chan'[ch]) # Audience(chan[ch]) /\ deed'.cmd # "CLEANUP" =>
            Audience(chan[ch]) \cup Audience(chan'[ch]) \subseteq deed'.to
  <2> SUFFICES ASSUME ServerInv, Move, NEW ch \in ChannelNames,
                      Audience(chan'[ch]) # Audience(chan[ch]), deed'.cmd # "CLEANUP"
               PROVE  Audience(chan[ch]) \cup Audience(chan'[ch]) \subseteq deed'.to
    BY MovesAlways
  <2>1. ~ SameRoster(ch) /\ ~ ModeMove(ch) /\ ~ VanishMove
    BY DEF SameRoster, ModeMove, VanishMove
  <2>2. PICK d \in Clients : FoundMove(ch, d) \/ EnterMove(ch, d) \/ DepartMove(ch, d)
    BY <2>1, MoveAt
  <2>3. CASE FoundMove(ch, d)
    BY <2>3, InvSplit, RosterTypes DEF FoundMove
  <2>4. CASE EnterMove(ch, d)
    BY <2>4 DEF EnterMove
  <2>5. CASE DepartMove(ch, d)
    BY <2>5 DEF DepartMove, Removes
  <2> QED
    BY <2>2, <2>3, <2>4, <2>5
<1> QED
  BY <1>1, ServerCorrect, PTL DEF Spec, MembersAreTold

-----------------------------------------------------------------------------
(* Each move is an action of Membership.                                     *)

Members == [ch \in ChannelNames |-> Audience(chan[ch])]
Operators == [ch \in ChannelNames |-> OperatorClients(chan[ch])]

\* The roster of one channel, before and after, as Membership sees it.
LEMMA RosterAt ==
  ASSUME NEW ch \in ChannelNames
  PROVE  /\ Members[ch] = Audience(chan[ch]) /\ Members'[ch] = Audience(chan'[ch])
         /\ Operators[ch] = OperatorClients(chan[ch])
         /\ Operators'[ch] = OperatorClients(chan'[ch])
  BY DEF Members, Operators

\* Two functions of channels are equal when one entry is what it should be and
\* the others did not change.
LEMMA OnlyOneEntry ==
  ASSUME NEW ch \in ChannelNames, NEW S, NEW T, OnlyAt(ch),
         Audience(chan'[ch]) = S, OperatorClients(chan'[ch]) = T
  PROVE  /\ Members' = [Members EXCEPT ![ch] = S]
         /\ Operators' = [Operators EXCEPT ![ch] = T]
<1>1. \A d \in ChannelNames \ {ch} :
        Audience(chan'[d]) = Audience(chan[d]) /\ OperatorClients(chan'[d]) = OperatorClients(chan[d])
  BY DEF OnlyAt, SameRoster
<1>2. Members' = [d \in ChannelNames |-> Audience(chan'[d])]
  BY DEF Members
<1>3. Operators' = [d \in ChannelNames |-> OperatorClients(chan'[d])]
  BY DEF Operators
<1> HIDE DEF OnlyAt
<1>4. Members' = [Members EXCEPT ![ch] = S]
  BY <1>1, <1>2 DEF Members
<1>5. Operators' = [Operators EXCEPT ![ch] = T]
  BY <1>1, <1>3 DEF Operators
<1> QED
  BY <1>4, <1>5

\* The maker of a channel.
LEMMA FoundImplements ==
  ASSUME NEW ch \in ChannelNames, NEW c \in Clients, FoundMove(ch, c)
  PROVE  Abstract!Found(ch, c)
<1>1. /\ Members' = [Members EXCEPT ![ch] = {c}]
      /\ Operators' = [Operators EXCEPT ![ch] = {c}]
  BY OnlyOneEntry DEF FoundMove
<1> QED
  BY <1>1 DEF Abstract!Found, FoundMove, Members, Operators

\* A client that comes into a channel.
LEMMA EnterImplements ==
  ASSUME NEW ch \in ChannelNames, NEW c \in Clients, EnterMove(ch, c)
  PROVE  Abstract!Enter(ch, c)
<1>1. /\ Members' = [Members EXCEPT ![ch] = Members[ch] \cup {c}]
      /\ Operators' = [Operators EXCEPT ![ch] = Operators[ch]]
  BY OnlyOneEntry, RosterAt DEF EnterMove
<1>2. Operators' = Operators
  BY <1>1 DEF Operators
<1> QED
  BY <1>1, <1>2 DEF Abstract!Enter, EnterMove, Members, Operators

\* A client that goes or is sent away.
LEMMA DepartImplements ==
  ASSUME RegInv, ChanInv, NEW ch \in ChannelNames, NEW c \in Clients, DepartMove(ch, c)
  PROVE  \E by \in Clients : Abstract!Depart(ch, by, c)
<1>1. /\ Members' = [Members EXCEPT ![ch] = Members[ch] \ {c}]
      /\ Operators' = [Operators EXCEPT ![ch] = Operators[ch] \ {c}]
  BY OnlyOneEntry, RosterAt DEF DepartMove, Removes
<1>2. deed'.by \in Clients /\ (deed'.by = c \/ deed'.by \in OperatorClients(chan[ch]))
  BY RosterTypes DEF DepartMove
<1> DEFINE by == deed'.by
<1>3. Abstract!Depart(ch, by, c)
  BY <1>1, <1>2 DEF Abstract!Depart, DepartMove, Removes, Members, Operators
<1> QED
  BY <1>2, <1>3

\* An operator's MODE.
LEMMA ModeImplements ==
  ASSUME RegInv, ChanInv, NEW ch \in ChannelNames, ModeMove(ch)
  PROVE  \E by \in Clients : \E S \in SUBSET Clients :
           Abstract!Grant(ch, by, S) \/ Abstract!Revoke(ch, by, S)
<1> DEFINE by == deed'.by
<1>1. by \in Clients /\ by \in OperatorClients(chan[ch])
  BY RosterTypes DEF ModeMove
<1>2. /\ Members' = [Members EXCEPT ![ch] = Members[ch]]
      /\ Members' = Members
      /\ Operators' = [Operators EXCEPT ![ch] = OperatorClients(chan'[ch])]
  <2>1. /\ Members' = [Members EXCEPT ![ch] = Members[ch]]
        /\ Operators' = [Operators EXCEPT ![ch] = OperatorClients(chan'[ch])]
    BY OnlyOneEntry, RosterAt DEF ModeMove
  <2> QED
    BY <2>1 DEF Members
<1>3. ASSUME NEW S \in SUBSET Audience(chan[ch]),
             OperatorClients(chan'[ch]) = OperatorClients(chan[ch]) \cup S
      PROVE  S \in SUBSET Clients /\ Abstract!Grant(ch, by, S)
  <2>1. S \in SUBSET Clients
    BY RosterTypes
  <2>2. Operators' = [Operators EXCEPT ![ch] = Operators[ch] \cup S]
    BY <1>2, <1>3, RosterAt
  <2> QED
    BY <1>1, <1>2, <2>1, <2>2 DEF Abstract!Grant, ModeMove, Members, Operators
<1>4. ASSUME NEW S \in SUBSET OperatorClients(chan[ch]),
             OperatorClients(chan'[ch]) = OperatorClients(chan[ch]) \ S
      PROVE  S \in SUBSET Clients /\ Abstract!Revoke(ch, by, S)
  <2>1. S \in SUBSET Clients
    BY RosterTypes
  <2>2. Operators' = [Operators EXCEPT ![ch] = Operators[ch] \ S]
    BY <1>2, <1>4, RosterAt
  <2> QED
    BY <1>1, <1>2, <2>1, <2>2 DEF Abstract!Revoke, ModeMove, Members, Operators
<1> QED
  BY <1>1, <1>3, <1>4 DEF ModeMove

\* The teardown of the marked clients.
LEMMA VanishImplements ==
  ASSUME RegInv, VanishMove
  PROVE  \E S \in SUBSET Clients : Abstract!Vanish(S)
<1>1. toRemove \in SUBSET Clients
  BY DEF RegInv, RegTypeOK
<1>2. Members' = [ch \in ChannelNames |-> Members[ch] \ toRemove]
  BY DEF Members, VanishMove
<1>3. Operators' = [ch \in ChannelNames |-> Operators[ch] \ toRemove]
  BY DEF Operators, VanishMove
<1>4. Abstract!Vanish(toRemove)
  BY <1>2, <1>3 DEF Abstract!Vanish, VanishMove, Members, Operators
<1> QED
  BY <1>1, <1>4

\* The steps that move nobody.
LEMMA NoMoveImplements ==
  ASSUME NoMove
  PROVE  UNCHANGED Abstract!vars
<1>1. Members' = Members /\ Operators' = Operators
  BY DEF Members, Operators, NoMove, SameRoster
<1> QED
  BY <1>1 DEF Abstract!vars, Members, Operators, NoMove

\* The server behind its maps keeps the promise of Membership: channels are made
\* by their first client, left by PART, KICK and teardown only, and operated by
\* whom an operator says.
THEOREM ServerImplementsMembership == Spec => ImplementsMembership
<1>1. Init => Abstract!Init
  <2> SUFFICES ASSUME Init PROVE Abstract!Init
    OBVIOUS
  <2>1. channels = {} /\ \A ch \in ChannelNames :
          Audience(chan[ch]) = {} /\ OperatorClients(chan[ch]) = {}
    BY InitInv, RosterTypes DEF Init
  <2> QED
    BY <2>1 DEF Abstract!Init
<1>2. ServerInv /\ [Next]_vars => [Abstract!Next]_(Abstract!vars)
  <2> SUFFICES ASSUME ServerInv, Move PROVE [Abstract!Next]_(Abstract!vars)
    BY MovesAlways
  <2>1. RegInv /\ ChanInv
    BY InvSplit
  <2>2. CASE NoMove
    BY <2>2, NoMoveImplements
  <2>3. CASE VanishMove
    BY <2>1, <2>3, VanishImplements DEF Abstract!Next
  <2>4. ASSUME NEW ch \in ChannelNames, ModeMove(ch) PROVE Abstract!Next
    BY <2>1, <2>4, ModeImplements DEF Abstract!Next
  <2>5. ASSUME NEW ch \in ChannelNames, NEW c \in Clients,
               FoundMove(ch, c) \/ EnterMove(ch, c) \/ DepartMove(ch, c)
        PROVE  Abstract!Next
    BY <2>1, <2>5, FoundImplements, EnterImplements, DepartImplements DEF Abstract!Next
  <2> HIDE DEF NoMove, VanishMove, ModeMove, FoundMove, EnterMove, DepartMove
  <2> QED
    BY <2>2, <2>3, <2>4, <2>5 DEF Move
<1> QED
  BY <1>1, <1>2, ServerCorrect, PTL DEF Spec, ImplementsMembership, Abstract!Spec

\* What Membership promises holds of every behaviour that it allows, the server's
\* among them: operators are members, and nobody is in a channel that is not there.
THEOREM MembershipIsSafe ==
  ImplementsMembership => [](Abstract!TypeOK /\ Abstract!OperatorsAreMembers)
<1> DEFINE Safe == Abstract!TypeOK /\ Abstract!OperatorsAreMembers
           Rosters == /\ channels \subseteq ChannelNames
                      /\ Members \in [ChannelNames -> SUBSET Clients]
                      /\ Operators \in [ChannelNames -> SUBSET Clients]
                      /\ \A ch \in ChannelNames :
                           /\ Operators[ch] \subseteq Members[ch]
                           /\ ch \notin channels => Members[ch] = {}
<1>1. Abstract!Init => Safe
  BY DEF Abstract!Init, Abstract!TypeOK, Abstract!OperatorsAreMembers
<1>2. Safe /\ [Abstract!Next]_(Abstract!vars) => Safe'
  <2> SUFFICES ASSUME Safe, [Abstract!Next]_(Abstract!vars) PROVE Safe'
    OBVIOUS
  <2>1. Rosters /\ (Rosters' => Safe')
    BY DEF Abstract!TypeOK, Abstract!OperatorsAreMembers, Members, Operators
  <2>2. ASSUME NEW S \in SUBSET Clients, Abstract!Vanish(S) PROVE Rosters'
    <3>1. /\ Members' = [ch \in ChannelNames |-> Members[ch] \ S]
          /\ Operators' = [ch \in ChannelNames |-> Operators[ch] \ S]
          /\ UNCHANGED channels
      BY <2>2 DEF Abstract!Vanish, Members, Operators
    <3> QED
      BY <2>1, <3>1
  <2>3. ASSUME NEW ch \in ChannelNames, NEW c \in Clients, Abstract!Found(ch, c) PROVE Rosters'
    <3>1. /\ Members' = [Members EXCEPT ![ch] = {c}]
          /\ Operators' = [Operators EXCEPT ![ch] = {c}]
          /\ channels' = channels \cup {ch}
      BY <2>3 DEF Abstract!Found, Members, Operators
    <3> QED
      BY <2>1, <3>1
  <2>4. ASSUME NEW ch \in ChannelNames, NEW c \in Clients, Abstract!Enter(ch, c) PROVE Rosters'
    <3>1. /\ Members' = [Members EXCEPT ![ch] = Members[ch] \cup {c}]
          /\ Operators' = Operators
          /\ ch \in channels /\ UNCHANGED channels
      BY <2>4 DEF Abstract!Enter, Members, Operators
    <3> QED
      BY <2>1, <3>1
  <2>5. ASSUME NEW ch \in ChannelNames, NEW c \in Clients, NEW by \in Clients,
               Abstract!Depart(ch, by, c)
        PROVE  Rosters'
    <3>1. /\ Members' = [Members EXCEPT ![ch] = Members[ch] \ {c}]
          /\ Operators' = [Operators EXCEPT ![ch] = Operators[ch] \ {c}]
          /\ ch \in channels
          /\ channels' = IF Members[ch] = {c} THEN channels \ {ch} ELSE channels
      BY <2>5 DEF Abstract!Depart, Members, Operators
    <3> QED
      BY <2>1, <3>1
  <2>6. ASSUME NEW ch \in ChannelNames, NEW c \in Clients, NEW S \in SUBSET Clients,
               Abstract!Grant(ch, c, S)
        PROVE  Rosters'
    <3>1. /\ S \subseteq Members[ch]
          /\ Operators' = [Operators EXCEPT ![ch] = Operators[ch] \cup S]
          /\ Members' = Members /\ UNCHANGED channels
      BY <2>6 DEF Abstract!Grant, Members, Operators
    <3> QED
      BY <2>1, <3>1
  <2>7. ASSUME NEW ch \in ChannelNames, NEW c \in Clients, NEW S \in SUBSET Clients,
               Abstract!Revoke(ch, c, S)
        PROVE  Rosters'
    <3>1. /\ Operators' = [Operators EXCEPT ![ch] = Operators[ch] \ S]
          /\ Members' = Members /\ UNCHANGED channels
      BY <2>7 DEF Abstract!Revoke, Members, Operators
    <3> QED
      BY <2>1, <3>1
  <2>8. CASE UNCHANGED Abstract!vars
    <3>1. Operators' = Operators /\ Members' = Members /\ UNCHANGED channels
      BY <2>8 DEF Abstract!vars, Members, Operators
    <3> QED
      BY <2>1, <3>1
  <2> HIDE DEF Rosters
  <2>9. CASE Abstract!Next
    BY <2>1, <2>2, <2>3, <2>4, <2>5, <2>6, <2>7, <2>9 DEF Abstract!Next
  <2> QED
    BY <2>1, <2>8, <2>9
<1> QED
  BY <1>1, <1>2, PTL DEF ImplementsMembership, Abstract!Spec

-----------------------------------------------------------------------------
(* Whom a step marks.                                                        *)

\* The registered clients that a step newly marks had their socket fail, or
\* asked for it.
MarksJustly ==
  \A c \in (toRemove' \ toRemove) \cap registeredStatus :
    c \in deed'.lost \/ (deed'.cmd \in {"QUIT", "DROP"} /\ deed'.by = c)

\* A step that marks nobody.
LEMMA NoMarks ==
  ASSUME toRemove' \subseteq toRemove
  PROVE  MarksJustly
  BY DEF MarksJustly

\* A reply marks receivers that are lost, whoever it goes to.
LEMMA ReplyMarks ==
  ASSUME NEW cmd, NEW c, NEW on, NEW ok, NEW to, Reply(cmd, c, on, ok, to)
  PROVE  MarksJustly
  BY DEF Reply, Mark, MarksJustly

\* A refusal marks its sender only if the sender has not registered.
LEMMA ThrowMarks ==
  ASSUME RegInv, NEW cmd, NEW c, NEW on, Throw(cmd, c, on)
  PROVE  MarksJustly
<1>1. registeredStatus \subseteq passStatus
  BY DEF RegInv, RegisteredComplete
<1> QED
  BY <1>1 DEF Throw, Mark, MarksJustly

\* Every step marks justly.
LEMMA StepMarks ==
  ASSUME RegInv, [Next]_vars
  PROVE  MarksJustly
<1>1. ASSUME UNCHANGED regVars PROVE MarksJustly
  BY <1>1, NoMarks DEF regVars
<1>2. ASSUME UNCHANGED vars PROVE UNCHANGED regVars
  BY <1>2 DEF vars
<1>3. ASSUME NEW c \in Clients, Accept(c) PROVE MarksJustly
  BY <1>3, NoMarks DEF Accept, AcceptClient
<1>4. ASSUME NEW c \in Clients, NEW cmd \in Commands, RefuseCmd(c, cmd) PROVE MarksJustly
  BY <1>4, ThrowMarks DEF RefuseCmd
<1>5. ASSUME NEW c \in Clients,
             \/ \E cmd \in {"CAP", "PING", "JOIN", "UNKNOWN"} : AnswerCmd(c, cmd)
             \/ CmdPass(c)
             \/ \E n \in Nicks : CmdNick(c, n)
             \/ CmdUser(c)
             \/ \E list \in JoinLists : CmdJoin(c, list)
             \/ \E list \in PartLists : CmdPart(c, list)
             \/ \E receivers \in SUBSET Clients : PrivmsgUsers(c, receivers)
             \/ \E receivers \in SUBSET ChannelNames : PrivmsgChannels(c, receivers)
      PROVE  MarksJustly
  BY <1>5, ReplyMarks DEF AnswerCmd, CmdPass, CmdNick, CmdUser, CmdJoin, CmdPart,
                          PrivmsgUsers, PrivmsgChannels, Silent
<1>6. ASSUME NEW c \in Clients, NEW ch \in ChannelNames,
             \/ \E n \in Nicks : CmdKick(c, ch, n)
             \/ \E d \in Clients : CmdInvite(c, ch, d)
             \/ \E r \in ModeRequests : CmdMode(c, ch, r)
             \/ CmdModeQuery(c, ch)
             \/ \E topic \in Topics : CmdTopic(c, ch, topic)
             \/ CmdTopicQuery(c, ch)
      PROVE  MarksJustly
  BY <1>6, ReplyMarks DEF CmdKick, CmdInvite, CmdMode, CmdModeQuery, CmdTopic, CmdTopicQuery,
                          Silent
<1>7. ASSUME NEW c \in Clients,
             \/ CrashMode(c)
             \/ \E ch \in ChannelNames :
                  CrashPrivmsg(c, ch) \/ \E d \in Clients : CrashInvite(c, ch, d)
      PROVE  UNCHANGED regVars
  BY <1>7 DEF CrashMode, CrashPrivmsg, CrashInvite, Crash
<1>8. ASSUME NEW c \in Clients, NEW cmd \in {"QUIT", "DROP"}, Disconnect(c, cmd)
      PROVE  MarksJustly
  BY <1>8 DEF Disconnect, Mark, MarksJustly
<1>9. ASSUME JoinChannel \/ PartChannel PROVE MarksJustly
  BY <1>9, ReplyMarks, ThrowMarks DEF JoinChannel, PartChannel
<1>10. ASSUME Cleanup PROVE MarksJustly
  BY <1>10, NoMarks DEF Cleanup, RemoveMarked
<1> HIDE DEF MarksJustly
<1> QED
  BY <1>1, <1>2, <1>3, <1>4, <1>5, <1>6, <1>7, <1>8, <1>9, <1>10 DEF Next, Halted

\* No refused command, and no message to somebody else that fails, costs a
\* registered client its connection.
THEOREM OnlyFailuresDisconnectSo == Spec => OnlyFailuresDisconnect
<1>1. ServerInv /\ [Next]_vars =>
        \A c \in (toRemove' \ toRemove) \cap registeredStatus :
          c \in deed'.lost \/ (deed'.cmd \in {"QUIT", "DROP"} /\ deed'.by = c)
  BY InvSplit, StepMarks DEF MarksJustly
<1> QED
  BY <1>1, ServerCorrect, PTL DEF Spec, OnlyFailuresDisconnect

-----------------------------------------------------------------------------
(* Whom a step sends to.                                                     *)

SendsToLive == deed'.to \subseteq clients

\* A broadcast follows the pointers of participants.
LEMMA AudienceReached ==
  ASSUME ChanInv, NEW ch \in ChannelNames
  PROVE  Audience(chan[ch]) \subseteq clients
  BY AudienceLive DEF ChanInv, Live

\* Commands that answer their sender, some clients that were looked up, or all.
LEMMA AnswersReach ==
  ASSUME NEW c \in Clients,
         \/ \E cmd \in Commands : RefuseCmd(c, cmd)
         \/ \E cmd \in {"CAP", "PING", "JOIN", "UNKNOWN"} : AnswerCmd(c, cmd)
         \/ CmdPass(c)
         \/ \E n \in Nicks : CmdNick(c, n)
         \/ CmdUser(c)
         \/ \E list \in JoinLists : CmdJoin(c, list)
         \/ \E list \in PartLists : CmdPart(c, list)
         \/ \E receivers \in SUBSET Clients : PrivmsgUsers(c, receivers)
         \/ \E ch \in ChannelNames :
              \/ \E d \in Clients : CmdInvite(c, ch, d)
              \/ CmdModeQuery(c, ch)
              \/ CmdTopicQuery(c, ch)
  PROVE  SendsToLive
<1>1. ASSUME NEW cmd, NEW on, NEW ok, NEW to, Reply(cmd, c, on, ok, to), to \subseteq clients
      PROVE  SendsToLive
  BY <1>1 DEF Reply, SendsToLive
<1>2. ASSUME NEW cmd, NEW on, Silent(cmd, c, on) PROVE SendsToLive
  BY <1>2 DEF Silent, Reply, SendsToLive
<1>3. ASSUME NEW cmd, NEW on, Throw(cmd, c, on), c \in clients PROVE SendsToLive
  BY <1>3 DEF Throw, SendsToLive
<1>4. ASSUME Ready(c) PROVE c \in clients
  BY <1>4 DEF Ready, Served
<1> HIDE DEF SendsToLive
<1>5. ASSUME NEW cmd \in Commands, RefuseCmd(c, cmd) PROVE SendsToLive
  BY <1>3, <1>4, <1>5 DEF RefuseCmd
<1>6. ASSUME NEW cmd, AnswerCmd(c, cmd) PROVE SendsToLive
  BY <1>1, <1>4, <1>6 DEF AnswerCmd
<1>7. ASSUME NEW n \in Nicks, CmdNick(c, n) PROVE SendsToLive
  BY <1>1, <1>2, <1>7 DEF CmdNick
<1>8. ASSUME CmdUser(c) PROVE SendsToLive
  BY <1>1, <1>4, <1>8 DEF CmdUser
<1>9. ASSUME NEW receivers \in SUBSET Clients, PrivmsgUsers(c, receivers) PROVE SendsToLive
  BY <1>1, <1>9 DEF PrivmsgUsers
<1>10. ASSUME NEW ch \in ChannelNames,
              \/ \E d \in Clients : CmdInvite(c, ch, d)
              \/ CmdTopicQuery(c, ch)
       PROVE  SendsToLive
  BY <1>1, <1>4, <1>10 DEF CmdInvite, InviteAccepted, CmdTopicQuery
<1>11. ASSUME \/ CmdPass(c)
              \/ \E list \in JoinLists : CmdJoin(c, list)
              \/ \E list \in PartLists : CmdPart(c, list)
              \/ \E ch \in ChannelNames : CmdModeQuery(c, ch)
       PROVE  SendsToLive
  BY <1>2, <1>11 DEF CmdPass, CmdJoin, CmdPart, CmdModeQuery
<1> QED
  BY <1>5, <1>6, <1>7, <1>8, <1>9, <1>10, <1>11

\* Commands that tell a channel.
LEMMA BroadcastsReach ==
  ASSUME RegInv, ChanInv, NEW c \in Clients,
         \/ \E receivers \in SUBSET ChannelNames : PrivmsgChannels(c, receivers)
         \/ \E ch \in ChannelNames :
              \/ \E n \in Nicks : CmdKick(c, ch, n)
              \/ \E r \in ModeRequests : CmdMode(c, ch, r)
              \/ \E topic \in Topics : CmdTopic(c, ch, topic)
  PROVE  SendsToLive
<1>1. ASSUME NEW ch \in ChannelNames,
             \/ \E n \in Nicks : CmdKick(c, ch, n)
             \/ \E r \in ModeRequests : CmdMode(c, ch, r)
             \/ \E topic \in Topics : CmdTopic(c, ch, topic)
      PROVE  SendsToLive
  <2>1. deed'.to = Audience(chan[ch])
    BY <1>1 DEF CmdKick, CmdMode, CmdTopic, Reply
  <2> QED
    BY <2>1, AudienceReached DEF SendsToLive
<1>2. ASSUME NEW receivers \in SUBSET ChannelNames, PrivmsgChannels(c, receivers)
      PROVE  SendsToLive
  <2>1. deed'.to = UNION {Audience(chan[ch]) : ch \in receivers} \ {c}
    BY <1>2 DEF PrivmsgChannels, Reply
  <2>2. \A ch \in receivers : Audience(chan[ch]) \subseteq clients
    BY AudienceReached
  <2> QED
    BY <2>1, <2>2 DEF SendsToLive
<1> QED
  BY <1>1, <1>2

\* A turn of JOIN tells the channel it lets its client into, which is live although
\* it may have been marked at a turn before.
LEMMA JoinChannelReaches ==
  ASSUME RegInv, ChanInv, ControlInv, JoinChannel
  PROVE  SendsToLive
<1> DEFINE c  == work.by
           ch == Head(work.rest).ch
           n  == nickname[c]
           key == Head(work.rest).key
           found == IF ch \in channels THEN chan[ch] ELSE AddOperator(NewChannel(key), n, c)
           joined == Join(found, n, c)
<1>1. work # Idle
  BY DEF JoinChannel, Idle
<1>2. c \in Live /\ c \in Clients /\ n \in Nicks /\ ch \in ChannelNames
  BY <1>1, InProgress DEF Entry
<1>3. key \in Keys \cup {""}
  BY <1>1, InProgress DEF Entry
<1>4. \/ Reply("JOIN", c, {ch}, TRUE, Audience(joined) \cup {c})
      \/ Throw("JOIN", c, {ch})
  BY DEF JoinChannel
<1>5. \A d \in Live : nickname[d] = n <=> d = c
  BY <1>2, OneName DEF Live
<1>6. /\ ch \in channels => joined = Join(chan[ch], n, c)
      /\ ch \notin channels => joined = Join(AddOperator(NewChannel(key), n, c), n, c)
  OBVIOUS
<1> HIDE DEF joined, found, ch, key, n, c
<1>7. Audience(joined) \subseteq Live
  <2>1. CASE ch \in channels
    <3>1. Sound(chan[ch], Live, nickname) /\ c \in Live \cap Clients
      BY <1>2 DEF ChanInv
    <3>2. /\ Audience(Join(chan[ch], n, c)) = Audience(chan[ch]) \cup {c}
          /\ OperatorClients(Join(chan[ch], n, c)) = OperatorClients(chan[ch])
      BY <1>2, <1>5, <3>1, JoinRoster
    <3> QED
      BY <1>2, <1>6, <2>1, <3>1, <3>2, AudienceLive
  <2>2. CASE ch \notin channels
    <3>1. LET y == Join(AddOperator(NewChannel(key), n, c), n, c)
          IN  Audience(y) = {c} /\ OperatorClients(y) = {c}
      BY <1>2, <1>3, FoundRoster, Zenon
    <3> QED
      BY <1>2, <1>6, <2>2, <3>1
  <2> QED
    BY <2>1, <2>2
<1>8. deed'.to \subseteq Audience(joined) \cup {c}
  <2>1. ASSUME Throw("JOIN", c, {ch}) PROVE deed'.to = {c}
    BY <2>1 DEF Throw
  <2>2. ASSUME Reply("JOIN", c, {ch}, TRUE, Audience(joined) \cup {c})
        PROVE  deed'.to = Audience(joined) \cup {c}
    BY <2>2 DEF Reply
  <2> QED
    BY <1>4, <2>1, <2>2
<1> QED
  BY <1>2, <1>7, <1>8 DEF SendsToLive, Live

\* Whatever a handler or a broadcast follows to send a message is a Client that
\* has not been deleted.
THEOREM MessagesReachLiveSo == Spec => MessagesReachLive
<1>1. ASSUME RegInv, ChanInv, ControlInv, [Next]_vars, vars' # vars PROVE SendsToLive
  <2>1. ASSUME NEW c \in Clients, Accept(c) PROVE SendsToLive
    BY <2>1 DEF Accept, SendsToLive
  <2>2. ASSUME NEW c \in Clients,
               \/ CrashMode(c)
               \/ \E ch \in ChannelNames :
                    CrashPrivmsg(c, ch) \/ \E d \in Clients : CrashInvite(c, ch, d)
        PROVE  SendsToLive
    BY <2>2 DEF CrashMode, CrashPrivmsg, CrashInvite, Crash, SendsToLive
  <2>3. ASSUME NEW c \in Clients, NEW cmd \in {"QUIT", "DROP"}, Disconnect(c, cmd)
        PROVE  SendsToLive
    BY <2>3 DEF Disconnect, SendsToLive
  <2>4. ASSUME Cleanup PROVE SendsToLive
    BY <2>4 DEF Cleanup, SendsToLive
  <2>5. ASSUME PartChannel PROVE SendsToLive
    <3>1. work # Idle
      BY <2>5 DEF PartChannel, Idle
    <3>2. Head(work.rest).ch \in ChannelNames /\ work.by \in clients
      BY <1>1, <3>1, InProgress DEF Entry, Live
    <3>3. deed'.to = Audience(chan[Head(work.rest).ch]) \/ deed'.to = {work.by}
      BY <2>5 DEF PartChannel, Reply
    <3> QED
      BY <1>1, <3>2, <3>3, AudienceReached DEF SendsToLive
  <2> HIDE DEF SendsToLive
  <2> QED
    BY <1>1, <2>1, <2>2, <2>3, <2>4, <2>5, AnswersReach, BroadcastsReach, JoinChannelReaches
       DEF Next, Halted
<1>2. ServerInv /\ [Next]_vars => [deed'.to \subseteq clients]_vars
  BY <1>1, InvSplit DEF SendsToLive
<1> QED
  BY <1>2, ServerCorrect, PTL DEF Spec, MessagesReachLive

-----------------------------------------------------------------------------
(* Who changes the settings and the invitations of a channel, and who hears  *)
(* of it.                                                                    *)

ByOperator(ch) == deed'.by \in OperatorClients(chan[ch])

SettingsChangeByRight(ch) ==
  /\ \/ ByOperator(ch)
     \/ /\ chan'[ch].mode = chan[ch].mode
        /\ chan'[ch].key = chan[ch].key
        /\ chan'[ch].limit = chan[ch].limit
  /\ \/ chan'[ch].topic = chan[ch].topic
     \/ IF "t" \in chan[ch].mode THEN ByOperator(ch) ELSE deed'.by \in Audience(chan[ch])

SettingsStep == \A ch \in channels \cap channels' : SettingsChangeByRight(ch)
SettingsKept == \A ch \in channels \cap channels' : SameSettings(chan[ch], chan'[ch])
InvitedKept == \A ch \in channels \cap channels' : SameInvited(chan[ch], chan'[ch])

\* A channel that did not change kept its settings and its invitations.
LEMMA SameChannel ==
  ASSUME NEW ch, chan'[ch] = chan[ch]
  PROVE  SameSettings(chan[ch], chan'[ch]) /\ SameInvited(chan[ch], chan'[ch])
  BY DEF SameSettings, SameInvited

\* Channels that keep their settings need nobody's right.
LEMMA KeptSettings == SettingsKept => SettingsStep
  BY DEF SettingsKept, SettingsStep, SameSettings, SettingsChangeByRight

\* The same when one channel changed and keeps its settings.
LEMMA KeptByOne ==
  ASSUME ChanInv, NEW ch \in ChannelNames, NEW x, chan' = [chan EXCEPT ![ch] = x],
         SameSettings(chan[ch], x)
  PROVE  SettingsKept
<1>1. \A d \in ChannelNames : chan'[d] = IF d = ch THEN x ELSE chan[d]
  BY DEF ChanInv
<1>2. channels \subseteq ChannelNames
  BY DEF ChanInv
<1> QED
  BY <1>1, <1>2, SameChannel DEF SettingsKept

\* The same of its invitations.
LEMMA InvitedByOne ==
  ASSUME ChanInv, NEW ch \in ChannelNames, NEW x, chan' = [chan EXCEPT ![ch] = x],
         SameInvited(chan[ch], x)
  PROVE  InvitedKept
<1>1. \A d \in ChannelNames : chan'[d] = IF d = ch THEN x ELSE chan[d]
  BY DEF ChanInv
<1>2. channels \subseteq ChannelNames
  BY DEF ChanInv
<1> QED
  BY <1>1, <1>2, SameChannel DEF InvitedKept

\* Steps that leave the maps of channels alone.
LEMMA QuietSettings ==
  ASSUME UNCHANGED chanVars
  PROVE  SettingsKept /\ InvitedKept
  BY SameChannel DEF chanVars, SettingsKept, InvitedKept

\* PART and KICK.
LEMMA RemoveFromSettings ==
  ASSUME ChanInv, NEW ch \in ChannelNames, NEW n, RemoveFrom(ch, n)
  PROVE  SettingsKept /\ InvitedKept
<1> DEFINE left == Leave(chan[ch], {n})
<1>1. SameSettings(chan[ch], left) /\ SameInvited(chan[ch], left)
  BY LeaveSettings DEF ChanInv, Sound
<1> HIDE DEF left
<1>2. \/ channels' = channels \ {ch} /\ chan' = [chan EXCEPT ![ch] = EmptyChannel]
      \/ chan' = [chan EXCEPT ![ch] = left]
  BY DEF RemoveFrom, left
<1>3. CASE channels' = channels \ {ch} /\ chan' = [chan EXCEPT ![ch] = EmptyChannel]
  <2>1. \A d \in channels \ {ch} : chan'[d] = chan[d]
    BY <1>3 DEF ChanInv
  <2> QED
    BY <1>3, <2>1, SameChannel DEF SettingsKept, InvitedKept
<1> QED
  BY <1>1, <1>2, <1>3, KeptByOne, InvitedByOne

\* One turn of JOIN; a channel that it makes was not there before.
LEMMA JoinChannelSettings ==
  ASSUME RegInv, ChanInv, ControlInv, JoinChannel
  PROVE  SettingsKept
<1> DEFINE c     == work.by
           n     == nickname[c]
           entry == Head(work.rest)
           ch    == entry.ch
           found == IF ch \in channels THEN chan[ch]
                    ELSE AddOperator(NewChannel(entry.key), n, c)
           joined == Join(found, n, c)
<1>1. work # Idle
  BY DEF JoinChannel, Idle
<1>2. c \in Clients /\ n \in Nicks /\ ch \in ChannelNames
  BY <1>1, InProgress DEF Entry
<1>3. \/ chan' = [chan EXCEPT ![ch] = joined]
      \/ chan' = [chan EXCEPT ![ch] = found]
  BY DEF JoinChannel
<1>4. ch \in channels => joined = Join(chan[ch], n, c) /\ found = chan[ch]
  OBVIOUS
<1> HIDE DEF joined, found, ch, entry, n, c
<1>5. chan[ch] \in Channel
  BY <1>2 DEF ChanInv, Sound
<1>6. CASE ch \in channels
  <2>1. SameSettings(chan[ch], joined) /\ SameSettings(chan[ch], found)
    <3>1. SameSettings(chan[ch], Join(chan[ch], n, c))
      BY <1>2, <1>5, JoinSettings
    <3> QED
      BY <1>4, <1>6, <3>1 DEF SameSettings
  <2> QED
    BY <1>2, <1>3, <2>1, KeptByOne
<1>7. CASE ch \notin channels
  <2>1. \A d \in channels : chan'[d] = chan[d]
    BY <1>2, <1>3, <1>7 DEF ChanInv
  <2> QED
    BY <2>1, SameChannel DEF SettingsKept
<1> QED
  BY <1>6, <1>7

\* NICK.
LEMMA CmdNickSettings ==
  ASSUME RegInv, ChanInv, NEW c \in Clients, NEW n \in Nicks, CmdNick(c, n)
  PROVE  SettingsKept /\ InvitedKept
<1>1. CASE c \notin registeredStatus
  BY <1>1, QuietSettings DEF CmdNick, chanVars
<1>2. CASE c \in registeredStatus
  <2> DEFINE old == nickname[c]
  <2>1. chan' = [ch \in ChannelNames |-> Rename(chan[ch], old, n, c)]
    BY <1>2 DEF CmdNick
  <2>2. old \in Nicks
    BY <1>2 DEF RegInv, RegTypeOK, RegisteredComplete
  <2> HIDE DEF old
  <2>3. ASSUME NEW ch \in ChannelNames
        PROVE  SameSettings(chan[ch], chan'[ch]) /\ SameInvited(chan[ch], chan'[ch])
    <3>1. chan[ch] \in Channel
      BY DEF ChanInv, Sound
    <3>2. /\ SameSettings(chan[ch], Rename(chan[ch], old, n, c))
          /\ SameInvited(chan[ch], Rename(chan[ch], old, n, c))
      BY <2>2, <3>1, RenameSettings
    <3>3. chan'[ch] = Rename(chan[ch], old, n, c)
      BY <2>1
    <3> QED
      BY <3>2, <3>3
  <2> QED
    BY <2>3 DEF SettingsKept, InvitedKept, ChanInv
<1> QED
  BY <1>1, <1>2

\* The teardown.
LEMMA CleanupSettings ==
  ASSUME ChanInv, Cleanup
  PROVE  SettingsKept /\ InvitedKept
<1> DEFINE names == {nickname[c] : c \in toRemove}
<1>1. chan' = [ch \in ChannelNames |-> Leave(chan[ch], names)]
  BY DEF Cleanup
<1> HIDE DEF names
<1>2. ASSUME NEW ch \in ChannelNames
      PROVE  SameSettings(chan[ch], chan'[ch]) /\ SameInvited(chan[ch], chan'[ch])
  <2>1. chan[ch] \in Channel
    BY DEF ChanInv, Sound
  <2>2. /\ SameSettings(chan[ch], Leave(chan[ch], names))
        /\ SameInvited(chan[ch], Leave(chan[ch], names))
    BY <2>1, LeaveSettings
  <2> QED
    BY <1>1, <2>2
<1> QED
  BY <1>2 DEF SettingsKept, InvitedKept, ChanInv

\* Only the channel that a command is about changes; its sender has the right.
LEMMA RightAtOne ==
  ASSUME ChanInv, NEW ch \in ChannelNames, NEW x, chan' = [chan EXCEPT ![ch] = x],
         SettingsChangeByRight(ch)
  PROVE  SettingsStep
<1>1. \A d \in channels \ {ch} : SameSettings(chan[d], chan'[d])
  BY SameChannel DEF ChanInv
<1> QED
  BY <1>1 DEF SettingsStep, SameSettings, SettingsChangeByRight

\* MODE asks for an operator whatever the letters are.
LEMMA CmdModeSettings ==
  ASSUME RegInv, ChanInv, NEW c \in Clients, NEW ch \in ChannelNames, NEW r \in ModeRequests,
         CmdMode(c, ch, r)
  PROVE  SettingsStep
<1>1. c \in clients /\ ChannelOperator(c, ch)
      /\ chan' = [chan EXCEPT ![ch] = ApplyMode(chan[ch], r, nickNameClientMap)]
  BY DEF CmdMode, Ready, Served
<1>2. deed'.by = c
  BY DEF CmdMode, Reply
<1>3. ByOperator(ch)
  BY <1>1, <1>2, InChannel DEF ChannelOperator, ByOperator
<1>4. chan'[ch].topic = chan[ch].topic
  <2>1. chan[ch] \in Channel
    BY DEF ChanInv, Sound
  <2>2. ApplyMode(chan[ch], r, nickNameClientMap).topic = chan[ch].topic
    BY <2>1 DEF ApplyMode, Channel
  <2> HIDE DEF ApplyMode
  <2>3. chan'[ch] = ApplyMode(chan[ch], r, nickNameClientMap)
    BY <1>1 DEF ChanInv
  <2> QED
    BY <2>2, <2>3
<1>5. SettingsChangeByRight(ch)
  BY <1>3, <1>4 DEF SettingsChangeByRight
<1> QED
  BY <1>1, <1>5, RightAtOne

\* TOPIC touches the topic alone, under +t by an operator.
LEMMA CmdTopicSettings ==
  ASSUME RegInv, ChanInv, NEW c \in Clients, NEW ch \in ChannelNames, NEW topic \in Topics,
         CmdTopic(c, ch, topic)
  PROVE  SettingsStep
<1> DEFINE x == [chan[ch] EXCEPT !.topic = topic]
<1>1. /\ c \in clients
      /\ IsParticipant(chan[ch], nickname[c])
      /\ "t" \in chan[ch].mode => IsOperator(chan[ch], nickname[c])
      /\ chan' = [chan EXCEPT ![ch] = x]
  BY DEF CmdTopic, Ready, Served, Member, ChannelOperator
<1>2. deed'.by = c
  BY DEF CmdTopic, Reply
<1>3. x.mode = chan[ch].mode /\ x.key = chan[ch].key /\ x.limit = chan[ch].limit
  BY DEF ChanInv, Sound, Channel
<1> HIDE DEF x
<1>4. chan'[ch] = x
  BY <1>1, OneChange
<1>5. c \in Audience(chan[ch]) /\ ("t" \in chan[ch].mode => ByOperator(ch))
  BY <1>1, <1>2, InChannel DEF ByOperator
<1>6. SettingsChangeByRight(ch)
  BY <1>2, <1>3, <1>4, <1>5 DEF SettingsChangeByRight
<1> QED
  BY <1>1, <1>6, RightAtOne

\* INVITE touches the invitations alone.
LEMMA CmdInviteSettings ==
  ASSUME ChanInv, NEW c \in Clients, NEW ch \in ChannelNames, NEW d \in Clients,
         CmdInvite(c, ch, d)
  PROVE  SettingsKept
<1> DEFINE x == [chan[ch] EXCEPT !.invited = {nickname[d]}]
<1>1. chan' = [chan EXCEPT ![ch] = x] \/ UNCHANGED chanVars
  BY DEF CmdInvite, chanVars
<1>2. SameSettings(chan[ch], x)
  BY InviteSettings DEF ChanInv, Sound
<1> HIDE DEF x
<1> QED
  BY <1>1, <1>2, KeptByOne, QuietSettings

ByMode == \E c \in Clients, ch \in ChannelNames, r \in ModeRequests : CmdMode(c, ch, r)
ByTopic == \E c \in Clients, ch \in ChannelNames, topic \in Topics : CmdTopic(c, ch, topic)
ByInvite == \E c \in Clients, ch \in ChannelNames, d \in Clients : CmdInvite(c, ch, d)

\* Settings change by MODE and TOPIC, invitations by INVITE and JOIN: the other
\* steps keep both.
LEMMA WhatKeeps ==
  ASSUME RegInv, ChanInv, ControlInv, [Next]_vars
  PROVE  \/ SettingsKept /\ InvitedKept
         \/ ByMode \/ ByTopic \/ ByInvite \/ JoinChannel
<1> DEFINE Kept == SettingsKept /\ InvitedKept
<1>1. ASSUME NEW c \in Clients, NEW n \in Nicks, CmdNick(c, n) PROVE Kept
  BY <1>1, CmdNickSettings
<1>2. ASSUME NEW c \in Clients, NEW ch \in ChannelNames, NEW n \in Nicks, CmdKick(c, ch, n)
      PROVE  Kept
  BY <1>2, RemoveFromSettings DEF CmdKick
<1>3. ASSUME PartChannel PROVE Kept
  <2>1. work # Idle
    BY <1>3 DEF PartChannel, Idle
  <2>2. Head(work.rest).ch \in ChannelNames
    BY <2>1, InProgress DEF Entry
  <2> QED
    BY <1>3, <2>2, RemoveFromSettings, QuietSettings DEF PartChannel
<1>4. ASSUME Cleanup PROVE Kept
  BY <1>4, CleanupSettings
<1>5. ASSUME UNCHANGED chanVars PROVE Kept
  BY <1>5, QuietSettings
<1>6. ASSUME UNCHANGED vars PROVE UNCHANGED chanVars
  BY <1>6 DEF vars, chanVars
<1> HIDE DEF Kept
<1>7. Kept \/ ByMode \/ ByTopic \/ ByInvite \/ JoinChannel
  BY <1>1, <1>2, <1>3, <1>4, <1>5, <1>6, OtherMoves DEF Next, Halted, ByMode, ByTopic, ByInvite
<1> QED
  BY <1>7 DEF Kept

\* While a channel exists, its modes, key and limit change by its operators'
\* commands, and its topic under +t as well; without +t its participants set it.
THEOREM SettingsGuardedSo == Spec => SettingsGuarded
<1>1. ASSUME RegInv, ChanInv, ControlInv, [Next]_vars PROVE SettingsStep
  <2>1. CASE SettingsKept
    BY <2>1, KeptSettings
  <2>2. CASE ByMode
    BY <1>1, <2>2, CmdModeSettings DEF ByMode
  <2>3. CASE ByTopic
    BY <1>1, <2>3, CmdTopicSettings DEF ByTopic
  <2>4. CASE ByInvite
    BY <1>1, <2>4, CmdInviteSettings, KeptSettings DEF ByInvite
  <2>5. CASE JoinChannel
    BY <1>1, <2>5, JoinChannelSettings, KeptSettings
  <2> QED
    BY <1>1, <2>1, <2>2, <2>3, <2>4, <2>5, WhatKeeps
<1>2. ServerInv /\ [Next]_vars =>
        \A ch \in channels \cap channels' :
          LET operator == deed'.by \in OperatorClients(chan[ch])
          IN  /\ \/ operator
                 \/ /\ chan'[ch].mode = chan[ch].mode
                    /\ chan'[ch].key = chan[ch].key
                    /\ chan'[ch].limit = chan[ch].limit
              /\ \/ chan'[ch].topic = chan[ch].topic
                 \/ IF "t" \in chan[ch].mode THEN operator
                    ELSE deed'.by \in Audience(chan[ch])
  <2> SUFFICES ASSUME ServerInv, [Next]_vars PROVE SettingsStep
    BY DEF SettingsStep, SettingsChangeByRight, ByOperator
  <2> QED
    BY <1>1, InvSplit
<1> QED
  BY <1>2, ServerCorrect, PTL DEF Spec, SettingsGuarded

\* Whoever stays in a channel whose operators change, but for those who leave
\* it, is sent a message.
LEMMA OperatorsHeard ==
  ASSUME RegInv, ChanInv, Move, NEW ch \in channels
  PROVE  \/ OperatorClients(chan'[ch]) = OperatorClients(chan[ch]) \cap Audience(chan'[ch])
         \/ Audience(chan'[ch]) \subseteq deed'.to
<1>1. ch \in ChannelNames /\ OperatorClients(chan[ch]) \subseteq Audience(chan[ch])
  BY AudienceLive DEF ChanInv
<1>2. CASE SameRoster(ch)
  BY <1>1, <1>2 DEF SameRoster
<1>3. CASE VanishMove
  BY <1>1, <1>3 DEF VanishMove
<1>4. CASE ModeMove(ch)
  BY <1>4 DEF ModeMove
<1>5. ASSUME NEW c \in Clients, EnterMove(ch, c) PROVE Audience(chan'[ch]) \subseteq deed'.to
  BY <1>5 DEF EnterMove
<1>6. ASSUME NEW c \in Clients, DepartMove(ch, c) PROVE Audience(chan'[ch]) \subseteq deed'.to
  BY <1>6 DEF DepartMove, Removes
<1>7. \A c \in Clients : ~ FoundMove(ch, c)
  BY DEF FoundMove
<1> QED
  BY <1>1, <1>2, <1>3, <1>4, <1>5, <1>6, <1>7, MoveAt

SettingsHeard ==
  \A ch \in channels \cap channels' :
    SameSettings(chan[ch], chan'[ch]) \/ Audience(chan'[ch]) \subseteq deed'.to

\* Only the channel that a command is about changes; everyone in it is told.
LEMMA HeardAtOne ==
  ASSUME ChanInv, NEW ch \in ChannelNames, NEW x, chan' = [chan EXCEPT ![ch] = x],
         Audience(chan'[ch]) \subseteq deed'.to
  PROVE  SettingsHeard
<1>1. \A d \in channels \ {ch} : SameSettings(chan[d], chan'[d])
  BY SameChannel DEF ChanInv
<1> QED
  BY <1>1 DEF SettingsHeard

\* MODE announces every change to the channel, its sender included.
LEMMA CmdModeHeard ==
  ASSUME RegInv, ChanInv, NEW c \in Clients, NEW ch \in ChannelNames, NEW r \in ModeRequests,
         CmdMode(c, ch, r)
  PROVE  SettingsHeard
<1>1. chan' = [chan EXCEPT ![ch] = ApplyMode(chan[ch], r, nickNameClientMap)]
  BY DEF CmdMode
<1>2. Audience(chan'[ch]) \subseteq deed'.to
  BY CmdModeMove DEF ModeMove
<1> QED
  BY <1>1, <1>2, HeardAtOne

\* So does TOPIC.
LEMMA CmdTopicHeard ==
  ASSUME ChanInv, NEW c \in Clients, NEW ch \in ChannelNames, NEW topic \in Topics,
         CmdTopic(c, ch, topic)
  PROVE  SettingsHeard
<1> DEFINE x == [chan[ch] EXCEPT !.topic = topic]
<1>1. chan' = [chan EXCEPT ![ch] = x] /\ deed'.to = Audience(chan[ch])
  BY DEF CmdTopic, Reply
<1>2. Audience(x) = Audience(chan[ch])
  BY DEF ChanInv, Sound, Channel, Audience
<1> HIDE DEF x
<1>3. chan'[ch] = x
  BY <1>1, OneChange
<1> QED
  BY <1>1, <1>2, <1>3, HeardAtOne

\* Whoever is in a channel after a change of its settings or of its operators
\* was told of it.
THEOREM ChangesAreToldSo == Spec => ChangesAreTold
<1>1. ASSUME RegInv, ChanInv, ControlInv, [Next]_vars PROVE SettingsHeard
  <2>1. CASE SettingsKept
    BY <2>1 DEF SettingsKept, SettingsHeard
  <2>2. CASE ByMode
    BY <1>1, <2>2, CmdModeHeard DEF ByMode
  <2>3. CASE ByTopic
    BY <1>1, <2>3, CmdTopicHeard DEF ByTopic
  <2>4. ByInvite \/ JoinChannel => SettingsKept
    BY <1>1, CmdInviteSettings, JoinChannelSettings DEF ByInvite
  <2> QED
    BY <1>1, <2>1, <2>2, <2>3, <2>4, WhatKeeps
<1>2. ServerInv /\ [Next]_vars =>
        \A ch \in channels \cap channels' :
          \/ /\ Settings(chan'[ch]) = Settings(chan[ch])
             /\ OperatorClients(chan'[ch]) = OperatorClients(chan[ch]) \cap Audience(chan'[ch])
          \/ Audience(chan'[ch]) \subseteq deed'.to
  <2> SUFFICES ASSUME ServerInv, [Next]_vars, NEW ch \in channels \cap channels',
                      ~ Audience(chan'[ch]) \subseteq deed'.to
               PROVE  /\ Settings(chan'[ch]) = Settings(chan[ch])
                      /\ OperatorClients(chan'[ch]) =
                           OperatorClients(chan[ch]) \cap Audience(chan'[ch])
    OBVIOUS
  <2>1. RegInv /\ ChanInv /\ ControlInv /\ Move
    BY InvSplit, MovesAlways
  <2>2. SameSettings(chan[ch], chan'[ch])
    BY <1>1, <2>1 DEF SettingsHeard
  <2>3. Settings(chan'[ch]) = Settings(chan[ch])
    BY <2>2 DEF SameSettings, Settings
  <2> QED
    BY <2>1, <2>3, OperatorsHeard
<1> QED
  BY <1>2, ServerCorrect, PTL DEF Spec, ChangesAreTold

-----------------------------------------------------------------------------
(* Who makes an invitation and who spends it.                                *)

InvitedByRight(ch) ==
  LET made  == chan'[ch].invited \ chan[ch].invited
      spent == chan[ch].invited \ chan'[ch].invited
  IN  /\ made # {} => deed'.by \in IF "i" \in chan[ch].mode THEN OperatorClients(chan[ch])
                                   ELSE Audience(chan[ch])
      /\ \A n \in made : \E d \in deed'.to \ Audience(chan[ch]) : nickname[d] = n
      /\ \A n \in spent : deed'.by \in Audience(chan'[ch]) /\ nickname[deed'.by] = n

InvitedStep == \A ch \in channels \cap channels' : InvitedByRight(ch)

\* Only the channel that a command is about changes; its sender has the right.
LEMMA InvitedAtOne ==
  ASSUME ChanInv, NEW ch \in ChannelNames, NEW x, chan' = [chan EXCEPT ![ch] = x],
         ch \in channels => InvitedByRight(ch)
  PROVE  InvitedStep
<1>1. \A d \in channels \ {ch} : chan'[d] = chan[d]
  BY DEF ChanInv
<1>2. \A d \in channels \ {ch} : InvitedByRight(d)
  BY <1>1 DEF InvitedByRight
<1> QED
  BY <1>2 DEF InvitedStep

\* INVITE adds one name at most, of a client outside.
LEMMA CmdInviteRight ==
  ASSUME RegInv, ChanInv, NEW c \in Clients, NEW ch \in ChannelNames, NEW d \in Clients,
         CmdInvite(c, ch, d)
  PROVE  InvitedStep
<1> DEFINE x == [chan[ch] EXCEPT !.invited = {nickname[d]}]
<1>1. /\ c \in clients /\ IsParticipant(chan[ch], nickname[c])
      /\ "i" \in chan[ch].mode => IsOperator(chan[ch], nickname[c])
      /\ ~IsParticipant(chan[ch], nickname[d])
  BY DEF CmdInvite, InviteAccepted, Ready, Served, Member, ChannelOperator
<1>2. deed'.by = c /\ deed'.to = {c, d}
  BY DEF CmdInvite, Reply
<1>3. /\ c \in Audience(chan[ch])
      /\ "i" \in chan[ch].mode => c \in OperatorClients(chan[ch])
  BY <1>1, InChannel
<1>4. d \notin Audience(chan[ch])
  BY <1>1, RosterFacts DEF ChanInv, IsParticipant
<1>5. \/ chan' = [chan EXCEPT ![ch] = x] /\ chan[ch].invited = {}
      \/ UNCHANGED chan
  BY DEF CmdInvite
<1>6. CASE UNCHANGED chan
  BY <1>6 DEF InvitedStep, InvitedByRight
<1>7. CASE chan' = [chan EXCEPT ![ch] = x] /\ chan[ch].invited = {}
  <2>1. x.invited = {nickname[d]}
    BY DEF ChanInv, Sound, Channel
  <2> HIDE DEF x
  <2>2. chan'[ch] = x
    BY <1>7, OneChange
  <2>3. InvitedByRight(ch)
    BY <1>2, <1>3, <1>4, <1>7, <2>1, <2>2 DEF InvitedByRight
  <2> QED
    BY <1>7, <2>3, InvitedAtOne
<1> QED
  BY <1>5, <1>6, <1>7

\* JOIN takes back the name of the client that comes in.
LEMMA JoinSpends ==
  ASSUME RegInv, ChanInv, ControlInv, JoinChannel
  PROVE  InvitedStep
<1> DEFINE c     == work.by
           n     == nickname[c]
           entry == Head(work.rest)
           ch    == entry.ch
           found == IF ch \in channels THEN chan[ch]
                    ELSE AddOperator(NewChannel(entry.key), n, c)
           joined == Join(found, n, c)
<1>1. work # Idle
  BY DEF JoinChannel, Idle
<1>2. c \in Live /\ c \in Clients /\ n \in Nicks /\ ch \in ChannelNames
  BY <1>1, InProgress DEF Entry
<1>3. \/ chan' = [chan EXCEPT ![ch] = joined] /\ deed'.by = c
      \/ chan' = [chan EXCEPT ![ch] = found]
  BY DEF JoinChannel, Reply
<1>4. ch \in channels => joined = Join(chan[ch], n, c) /\ found = chan[ch]
  OBVIOUS
<1>5. nickname[c] = n
  OBVIOUS
<1> HIDE DEF joined, found, ch, entry, n, c
<1>6. ASSUME ch \in channels PROVE InvitedByRight(ch)
  <2>1. Sound(chan[ch], Live, nickname) /\ chan[ch] \in Channel
    BY <1>2 DEF ChanInv, Sound
  <2>2. CASE chan'[ch] = chan[ch]
    BY <2>2 DEF InvitedByRight
  <2>3. CASE chan'[ch] = joined /\ deed'.by = c
    <3>1. /\ joined.invited \subseteq chan[ch].invited
          /\ chan[ch].invited \ joined.invited \subseteq {n}
      <4>1. /\ Join(chan[ch], n, c).invited \subseteq chan[ch].invited
            /\ chan[ch].invited \ Join(chan[ch], n, c).invited \subseteq {n}
        BY <2>1 DEF Join, AddParticipant, RemoveInvited, Channel
      <4> QED
        BY <1>4, <1>6, <4>1
    <3>2. c \in Audience(joined)
      <4>1. \A d \in Live : nickname[d] = n <=> d = c
        BY <1>2, <1>5, OneName DEF Live
      <4>2. Audience(Join(chan[ch], n, c)) = Audience(chan[ch]) \cup {c}
        BY <1>2, <2>1, <4>1, JoinRoster
      <4> QED
        BY <1>4, <1>6, <4>2
    <3> QED
      BY <1>5, <2>3, <3>1, <3>2 DEF InvitedByRight
  <2>4. CASE chan' = [chan EXCEPT ![ch] = joined] /\ deed'.by = c
    BY <1>2, <2>3, <2>4, OneChange
  <2>5. CASE chan' = [chan EXCEPT ![ch] = found]
    BY <1>2, <1>4, <1>6, <2>2, <2>5, OneChange
  <2> QED
    BY <1>3, <2>4, <2>5
<1> QED
  BY <1>2, <1>3, <1>6, InvitedAtOne

\* An invitation is made by a participant, under +i by an operator, for a client
\* outside, who is told of it; whoever takes it back comes in under its name.
THEOREM InvitationsGuardedSo == Spec => InvitationsGuarded
<1>1. ASSUME RegInv, ChanInv, ControlInv, [Next]_vars PROVE InvitedStep
  <2>1. CASE InvitedKept
    BY <2>1 DEF InvitedKept, SameInvited, InvitedStep, InvitedByRight
  <2>2. ASSUME NEW c \in Clients, NEW ch \in ChannelNames, NEW r \in ModeRequests,
               CmdMode(c, ch, r)
        PROVE  InvitedKept
    <3>1. chan' = [chan EXCEPT ![ch] = ApplyMode(chan[ch], r, nickNameClientMap)]
      BY <2>2 DEF CmdMode
    <3>2. SameInvited(chan[ch], ApplyMode(chan[ch], r, nickNameClientMap))
      BY <1>1, ModeInvited, ServerAssumption DEF ChanInv, Sound
    <3> QED
      BY <1>1, <3>1, <3>2, InvitedByOne
  <2>3. ASSUME NEW c \in Clients, NEW ch \in ChannelNames, NEW topic \in Topics,
               CmdTopic(c, ch, topic)
        PROVE  InvitedKept
    <3>1. chan' = [chan EXCEPT ![ch] = [chan[ch] EXCEPT !.topic = topic]]
      BY <2>3 DEF CmdTopic
    <3>2. SameInvited(chan[ch], [chan[ch] EXCEPT !.topic = topic])
      BY <1>1, TopicInvited DEF ChanInv, Sound
    <3> QED
      BY <1>1, <3>1, <3>2, InvitedByOne
  <2>4. CASE ByInvite
    BY <1>1, <2>4, CmdInviteRight DEF ByInvite
  <2>5. CASE JoinChannel
    BY <1>1, <2>5, JoinSpends
  <2> QED
    BY <1>1, <2>1, <2>2, <2>3, <2>4, <2>5, WhatKeeps DEF ByMode, ByTopic
<1>2. ServerInv /\ [Next]_vars =>
        \A ch \in channels \cap channels' :
          LET made  == chan'[ch].invited \ chan[ch].invited
              spent == chan[ch].invited \ chan'[ch].invited
          IN  /\ made # {} =>
                   deed'.by \in IF "i" \in chan[ch].mode THEN OperatorClients(chan[ch])
                                ELSE Audience(chan[ch])
              /\ \A n \in made : \E d \in deed'.to \ Audience(chan[ch]) : nickname[d] = n
              /\ \A n \in spent : deed'.by \in Audience(chan'[ch]) /\ nickname[deed'.by] = n
  <2> SUFFICES ASSUME ServerInv, [Next]_vars PROVE InvitedStep
    BY DEF InvitedStep, InvitedByRight
  <2> QED
    BY <1>1, InvSplit
<1> QED
  BY <1>2, ServerCorrect, PTL DEF Spec, InvitationsGuarded

-----------------------------------------------------------------------------
(* Who comes into a channel.                                                 *)

\* Nobody comes into a channel that is there but by a turn of JOIN.
LEMMA OnlyJoinEnters ==
  ASSUME RegInv, ChanInv, ControlInv, [Next]_vars, NEW ch \in channels,
         NEW c \in Audience(chan'[ch]) \ Audience(chan[ch])
  PROVE  JoinChannel
<1>1. ch \in ChannelNames
  BY DEF ChanInv
<1>2. ~ UNCHANGED chanVars
  BY DEF chanVars
<1>3. deed'.cmd = "JOIN"
  <2>1. Move
    BY Moves
  <2>2. ~ SameRoster(ch) /\ ~ ModeMove(ch)
    BY DEF SameRoster, ModeMove
  <2>3. ~ VanishMove
    BY <1>1 DEF VanishMove
  <2>4. \A d \in Clients : ~ FoundMove(ch, d) /\ ~ DepartMove(ch, d)
    BY DEF FoundMove, DepartMove, Removes
  <2>5. PICK d \in Clients : EnterMove(ch, d)
    BY <1>1, <2>1, <2>2, <2>3, <2>4, MoveAt
  <2> QED
    BY <2>5 DEF EnterMove
<1>4. ASSUME NEW d \in Clients, NEW n \in Nicks, CmdNick(d, n) PROVE deed'.cmd = "NICK"
  BY <1>4 DEF CmdNick, Reply, Silent
<1>5. ASSUME NEW d \in Clients, NEW x \in ChannelNames,
             \/ \E n \in Nicks : CmdKick(d, x, n)
             \/ \E e \in Clients : CmdInvite(d, x, e)
             \/ \E r \in ModeRequests : CmdMode(d, x, r)
             \/ \E topic \in Topics : CmdTopic(d, x, topic)
      PROVE  deed'.cmd # "JOIN"
  BY <1>5 DEF CmdKick, CmdInvite, CmdMode, CmdTopic, Reply
<1>6. ASSUME PartChannel PROVE deed'.cmd = "PART"
  BY <1>6 DEF PartChannel, Reply
<1>7. ASSUME Cleanup PROVE deed'.cmd = "CLEANUP"
  BY <1>7 DEF Cleanup
<1>8. ASSUME UNCHANGED vars PROVE UNCHANGED chanVars
  BY <1>8 DEF vars, chanVars
<1> QED
  BY <1>2, <1>3, <1>4, <1>5, <1>6, <1>7, <1>8, OtherMoves DEF Next, Halted

\* A channel has no more clients than entries.
LEMMA AudienceSize ==
  ASSUME NEW x \in Channel
  PROVE  /\ IsFiniteSet(Audience(x)) /\ Cardinality(Audience(x)) \in Nat
         /\ Cardinality(KeysOf(x.participant)) \in Nat
         /\ Cardinality(Audience(x)) <= Cardinality(KeysOf(x.participant))
<1> DEFINE keys == KeysOf(x.participant)
           f == [n \in keys |-> x.participant[n]]
<1>1. IsFiniteSet(keys)
  BY NicksFinite, FS_Subset DEF KeysOf
<1>2. f \in Surjection(keys, Audience(x))
  <2>1. f \in [keys -> Audience(x)] /\ \A c \in Audience(x) : \E n \in keys : f[n] = c
    BY DEF Audience
  <2> QED
    BY <2>1, Fun_IsSurj
<1> HIDE DEF keys, f
<1>3. IsFiniteSet(Audience(x)) /\ Cardinality(Audience(x)) <= Cardinality(keys)
  BY <1>1, <1>2, FS_Surjection
<1> QED
  BY <1>1, <1>3, FS_CardinalityType DEF keys

EntryAllowed(ch, c) ==
  /\ "i" \in chan[ch].mode => nickname[c] \in chan[ch].invited \ chan'[ch].invited
  /\ "k" \in chan[ch].mode => Head(work.rest).key = chan[ch].key
  /\ "l" \in chan[ch].mode => Cardinality(Audience(chan'[ch])) <= chan[ch].limit

\* A turn of JOIN lets in the client that it is about, past the three checks.
LEMMA JoinAllowed ==
  ASSUME RegInv, ChanInv, ControlInv, JoinChannel, NEW ch \in channels,
         NEW c \in Audience(chan'[ch]) \ Audience(chan[ch])
  PROVE  EntryAllowed(ch, c)
<1> DEFINE n     == nickname[work.by]
           entry == Head(work.rest)
           joined == Join(chan[ch], n, work.by)
<1>1. work # Idle
  BY DEF JoinChannel, Idle
<1>2. work.by \in Live /\ work.by \in Clients /\ n \in Nicks /\ entry.ch \in ChannelNames
  BY <1>1, InProgress DEF Entry
<1>3. ch \in ChannelNames /\ entry.ch = ch
  BY DEF JoinChannel, ChanInv
<1>4. Admits(chan[ch], n, entry.key) /\ chan' = [chan EXCEPT ![ch] = joined]
  BY <1>3 DEF JoinChannel, ChanInv
<1>5. Sound(chan[ch], Live, nickname) /\ chan[ch] \in Channel
  BY <1>3 DEF ChanInv, Sound
<1> HIDE DEF entry, n
<1>6. /\ Audience(joined) = Audience(chan[ch]) \cup {work.by}
      /\ work.by \in Audience(chan[ch]) <=> n \in KeysOf(chan[ch].participant)
  <2>1. \A d \in Live : nickname[d] = n <=> d = work.by
    BY <1>2, OneName DEF Live, n
  <2> QED
    BY <1>2, <1>5, <2>1, JoinRoster
<1>7. "i" \in chan[ch].mode => joined.invited = chan[ch].invited \ {n}
  BY <1>5 DEF Join, AddParticipant, RemoveInvited, Channel
<1> HIDE DEF joined
<1>8. chan'[ch] = joined
  BY <1>3, <1>4, OneChange
<1>9. c = work.by
  BY <1>6, <1>8
<1>10. "i" \in chan[ch].mode => nickname[c] \in chan[ch].invited \ chan'[ch].invited
  BY <1>4, <1>7, <1>8, <1>9 DEF Admits, n
<1>11. "k" \in chan[ch].mode => Head(work.rest).key = chan[ch].key
  BY <1>4 DEF Admits, entry
<1>12. ASSUME "l" \in chan[ch].mode PROVE Cardinality(Audience(chan'[ch])) <= chan[ch].limit
  <2>1. chan[ch].limit \in Nat
    BY <1>5, <1>12, ChannelAssumption DEF Sound, SettingsSound, Channel
  <2> DEFINE S == Audience(chan[ch])
             size == Cardinality(KeysOf(chan[ch].participant))
  <2>2. size < chan[ch].limit
    BY <1>4, <1>12 DEF Admits
  <2>3. IsFiniteSet(S) /\ Cardinality(S) \in Nat /\ size \in Nat /\ Cardinality(S) <= size
    BY <1>5, AudienceSize
  <2> HIDE DEF S, size
  <2>4. Cardinality(S \cup {c}) = IF c \in S THEN Cardinality(S) ELSE Cardinality(S) + 1
    BY <2>3, FS_AddElement
  <2>5. Cardinality(S \cup {c}) <= chan[ch].limit
    BY <2>1, <2>2, <2>3, <2>4
  <2>6. Audience(chan'[ch]) = S \cup {c}
    BY <1>6, <1>8, <1>9 DEF S
  <2> QED
    BY <2>5, <2>6
<1> QED
  BY <1>10, <1>11, <1>12 DEF EntryAllowed

\* A client that comes into a channel that exists has an invitation under +i,
\* which is spent, the key under +k, and room under +l.
THEOREM EntryGuardedSo == Spec => EntryGuarded
<1>1. ServerInv /\ [Next]_vars =>
        \A ch \in channels : \A c \in Audience(chan'[ch]) \ Audience(chan[ch]) :
          /\ "i" \in chan[ch].mode => nickname[c] \in chan[ch].invited \ chan'[ch].invited
          /\ "k" \in chan[ch].mode => Head(work.rest).key = chan[ch].key
          /\ "l" \in chan[ch].mode => Cardinality(Audience(chan'[ch])) <= chan[ch].limit
  <2> SUFFICES ASSUME ServerInv, [Next]_vars, NEW ch \in channels,
                      NEW c \in Audience(chan'[ch]) \ Audience(chan[ch])
               PROVE  EntryAllowed(ch, c)
    BY DEF EntryAllowed
  <2>1. RegInv /\ ChanInv /\ ControlInv
    BY InvSplit
  <2> QED
    BY <2>1, OnlyJoinEnters, JoinAllowed
<1> QED
  BY <1>1, ServerCorrect, PTL DEF Spec, EntryGuarded
=============================================================================
