--------------------------- MODULE ChannelProofs ---------------------------
(***************************************************************************)
(* What the operations on one channel preserve.  A channel is sound with   *)
(* respect to the clients that are live (and registered) and to their      *)
(* nicknames; each lemma says that one operation keeps a channel sound.    *)
(***************************************************************************)
EXTENDS Channel, TLAPS

SettingsSound(x) ==
  /\ "k" \in x.mode <=> x.key # ""
  /\ "l" \in x.mode => x.limit # NoLimit

RosterSound(x, live, name) ==
  /\ \A n \in KeysOf(x.participant) :
       x.participant[n] \in live /\ name[x.participant[n]] = n
  /\ \A n \in KeysOf(x.operator) : x.operator[n] = x.participant[n]

Sound(x, live, name) == x \in Channel /\ SettingsSound(x) /\ RosterSound(x, live, name)

\* Erase and the two queries, as the proofs use them.
LEMMA EraseFacts ==
  ASSUME NEW map \in ClientMap, NEW names
  PROVE  /\ Erase(map, names) \in ClientMap
         /\ KeysOf(Erase(map, names)) = KeysOf(map) \ names
         /\ \A n \in Nicks \ names : Erase(map, names)[n] = map[n]
  BY IdentifiersAssumption DEF Erase, ClientMap, KeysOf

\* A map with one more entry.
Insert(map, n, c) == [map EXCEPT ![n] = c]

\* Putting an entry into a map of clients: what is found there afterwards.
LEMMA InsertFacts ==
  ASSUME NEW map \in ClientMap, NEW n \in Nicks, NEW c \in Clients
  PROVE  /\ Insert(map, n, c) \in ClientMap
         /\ KeysOf(Insert(map, n, c)) = KeysOf(map) \cup {n}
         /\ Insert(map, n, c)[n] = c
         /\ \A m \in Nicks : m # n => Insert(map, n, c)[m] = map[m]
  BY IdentifiersAssumption DEF ClientMap, KeysOf, Insert

\* The two insertions, field by field.
LEMMA AddOperatorFacts ==
  ASSUME NEW x \in Channel, NEW n \in Nicks, NEW c \in Clients
  PROVE  /\ AddOperator(x, n, c) \in Channel
         /\ AddOperator(x, n, c).operator = Insert(x.operator, n, c)
         /\ AddOperator(x, n, c).participant = x.participant
         /\ AddOperator(x, n, c).mode = x.mode
         /\ AddOperator(x, n, c).key = x.key
         /\ AddOperator(x, n, c).limit = x.limit
<1>1. x.operator \in ClientMap
  BY DEF Channel
<1>2. Insert(x.operator, n, c) \in ClientMap
  BY <1>1, InsertFacts
<1>3. AddOperator(x, n, c) = [x EXCEPT !.operator = Insert(x.operator, n, c)]
  BY DEF AddOperator, Insert, Channel
<1> QED
  BY <1>2, <1>3 DEF Channel

\* map::insert keeps the entry of a participant that is already there.
LEMMA AddParticipantFacts ==
  ASSUME NEW x \in Channel, NEW n \in Nicks, NEW c \in Clients
  PROVE  /\ AddParticipant(x, n, c) \in Channel
         /\ AddParticipant(x, n, c).participant =
              IF n \in KeysOf(x.participant) THEN x.participant ELSE Insert(x.participant, n, c)
         /\ AddParticipant(x, n, c).operator = x.operator
         /\ AddParticipant(x, n, c).mode = x.mode
         /\ AddParticipant(x, n, c).key = x.key
         /\ AddParticipant(x, n, c).limit = x.limit
<1>1. x.participant \in ClientMap
  BY DEF Channel
<1>2. Insert(x.participant, n, c) \in ClientMap
  BY <1>1, InsertFacts
<1>3. AddParticipant(x, n, c) = IF n \in KeysOf(x.participant) THEN x
                               ELSE [x EXCEPT !.participant = Insert(x.participant, n, c)]
  BY DEF AddParticipant, IsParticipant, Insert, Channel
<1> QED
  BY <1>2, <1>3 DEF Channel

\* A channel nobody is in is sound, whoever is live.
LEMMA EmptyChannelSound ==
  ASSUME NEW live, NEW name
  PROVE  Sound(EmptyChannel, live, name) /\ KeysOf(EmptyChannel.participant) = {}
<1>1. EmptyMap \in ClientMap /\ KeysOf(EmptyMap) = {}
  BY IdentifiersAssumption DEF EmptyMap, ClientMap, KeysOf
<1>2. EmptyChannel \in Channel
  BY <1>1 DEF EmptyChannel, Channel
<1> QED
  BY <1>1, <1>2 DEF Sound, SettingsSound, RosterSound, EmptyChannel

\* A sound channel is sound also after clients were added.
LEMMA SoundGrows ==
  ASSUME NEW x, NEW live, NEW name, NEW live2, NEW name2,
         Sound(x, live, name), live \subseteq live2, \A c \in live : name2[c] = name[c]
  PROVE  Sound(x, live2, name2)
  BY DEF Sound, RosterSound

\* Whoever leaves is taken out of both maps, so that they still agree.
LEMMA LeaveSound ==
  ASSUME NEW x, NEW live, NEW name, NEW names, Sound(x, live, name)
  PROVE  /\ Sound(Leave(x, names), live, name)
         /\ KeysOf(Leave(x, names).participant) = KeysOf(x.participant) \ names
<1> DEFINE y == Leave(x, names)
<1>1. x \in Channel /\ x.participant \in ClientMap /\ x.operator \in ClientMap
  BY DEF Sound, Channel
<1>2. /\ y.participant = Erase(x.participant, names)
      /\ y.operator = Erase(x.operator, names)
      /\ y.mode = x.mode /\ y.key = x.key /\ y.limit = x.limit
  BY <1>1 DEF Leave, Channel
<1>3. y \in Channel
  BY <1>1, EraseFacts DEF Leave, Channel
<1>4. RosterSound(y, live, name)
  <2>1. KeysOf(y.participant) \subseteq Nicks \ names /\ KeysOf(y.operator) \subseteq Nicks \ names
    BY <1>1, <1>2, EraseFacts DEF KeysOf
  <2> QED
    BY <1>1, <1>2, <2>1, EraseFacts DEF Sound, RosterSound
<1>5. SettingsSound(y)
  BY <1>2 DEF Sound, SettingsSound
<1> HIDE DEF y
<1> QED
  BY <1>1, <1>2, <1>3, <1>4, <1>5, EraseFacts DEF Sound, y

\* The teardown of clients whose names are erased.
LEMMA TeardownSound ==
  ASSUME NEW x, NEW live, NEW name, NEW gone, NEW live2, NEW name2,
         Sound(x, live, name),
         live \ gone \subseteq live2,
         \A c \in live \ gone : name2[c] = name[c]
  PROVE  Sound(Leave(x, {name[c] : c \in gone}), live2, name2)
<1> DEFINE names == {name[c] : c \in gone}
<1> HIDE DEF names
<1> DEFINE y == Leave(x, names)
<1>1. Sound(y, live, name) /\ KeysOf(y.participant) = KeysOf(x.participant) \ names
  BY LeaveSound
<1>0. \A c \in gone : name[c] \in names
  BY DEF names
<1> HIDE DEF y
<1>2. \A n \in KeysOf(y.participant) : y.participant[n] \in live \ gone
  BY <1>0, <1>1 DEF Sound, RosterSound
<1>3. Sound(y, live2, name2)
  BY <1>1, <1>2 DEF Sound, RosterSound
<1> QED
  BY <1>3 DEF y, names

\* A new channel has nobody in it, and mode k exactly if it has a key.
LEMMA NewChannelFacts ==
  ASSUME NEW key \in Keys \cup {""}
  PROVE  /\ NewChannel(key) \in Channel
         /\ SettingsSound(NewChannel(key))
         /\ NewChannel(key).participant = EmptyMap
         /\ NewChannel(key).operator = EmptyMap
         /\ NewChannel(key).mode \in {{}, {"k"}}
         /\ "k" \in NewChannel(key).mode => key # "" /\ NewChannel(key).key = key
<1>1. EmptyMap \in ClientMap
  BY IdentifiersAssumption DEF EmptyMap, ClientMap
<1>2. EmptyChannel \in Channel
  BY <1>1 DEF EmptyChannel, Channel
<1>3. CASE key \in {"", "x"}
  BY <1>2, <1>3 DEF NewChannel, EmptyChannel, SettingsSound
<1>4. CASE key \notin {"", "x"}
  BY <1>1, <1>4 DEF NewChannel, EmptyChannel, SettingsSound, Channel, Flags
<1> QED
  BY <1>3, <1>4

\* The maker of a channel is admitted to it: whoever is made operator also
\* becomes participant.
LEMMA FounderAdmitted ==
  ASSUME NEW key \in Keys \cup {""}, NEW n \in Nicks, NEW c \in Clients
  PROVE  Admits(AddOperator(NewChannel(key), n, c), n, key)
<1> DEFINE x == NewChannel(key)
           y == AddOperator(x, n, c)
<1>1. x \in Channel /\ x.mode \in {{}, {"k"}} /\ ("k" \in x.mode => key # "" /\ x.key = key)
  BY NewChannelFacts
<1> HIDE DEF x
<1>2. y.mode = x.mode /\ y.key = x.key
  BY <1>1, AddOperatorFacts
<1> HIDE DEF y
<1>4. "i" \notin x.mode /\ "l" \notin x.mode
  BY <1>1
<1>3. Admits(y, n, key)
  BY <1>1, <1>2, <1>4 DEF Admits
<1> QED
  BY <1>3 DEF x, y

\* A JOIN adds one participant, spends at most its invitation, and leaves the
\* operators and the settings alone.
LEMMA JoinFacts ==
  ASSUME NEW x \in Channel, NEW n \in Nicks, NEW c \in Clients
  PROVE  /\ Join(x, n, c) \in Channel
         /\ Join(x, n, c).participant =
              IF n \in KeysOf(x.participant) THEN x.participant ELSE Insert(x.participant, n, c)
         /\ Join(x, n, c).operator = x.operator
         /\ Join(x, n, c).mode = x.mode
         /\ Join(x, n, c).key = x.key
         /\ Join(x, n, c).limit = x.limit
<1> DEFINE y == AddParticipant(x, n, c)
<1>1. Join(x, n, c) = IF "i" \in x.mode THEN [y EXCEPT !.invited = y.invited \ {n}] ELSE y
  BY DEF Join, RemoveInvited
<1>2. y \in Channel
  BY AddParticipantFacts
<1> HIDE DEF y
<1> DEFINE z == [y EXCEPT !.invited = y.invited \ {n}]
<1>4. /\ z \in Channel
      /\ z.participant = y.participant /\ z.operator = y.operator
      /\ z.mode = y.mode /\ z.key = y.key /\ z.limit = y.limit
  BY <1>2 DEF Channel
<1>5. Join(x, n, c) \in {y, z}
  BY <1>1
<1> HIDE DEF z
<1>3. /\ Join(x, n, c) \in Channel
      /\ Join(x, n, c).participant = y.participant /\ Join(x, n, c).operator = y.operator
      /\ Join(x, n, c).mode = y.mode /\ Join(x, n, c).key = y.key /\ Join(x, n, c).limit = y.limit
  BY <1>2, <1>4, <1>5
<1> QED
  BY <1>3, AddParticipantFacts DEF y

\* A JOIN by a live client under its own name keeps the channel sound.
LEMMA JoinSound ==
  ASSUME NEW x, NEW live, NEW name, NEW c \in live \cap Clients, NEW n \in Nicks,
         Sound(x, live, name), name[c] = n
  PROVE  Sound(Join(x, n, c), live, name) /\ KeysOf(Join(x, n, c).participant) # {}
<1> DEFINE y == Join(x, n, c)
<1>1. x \in Channel /\ x.participant \in ClientMap /\ x.operator \in ClientMap
  BY DEF Sound, Channel
<1>2. /\ y \in Channel
      /\ y.participant = IF n \in KeysOf(x.participant) THEN x.participant
                         ELSE Insert(x.participant, n, c)
      /\ y.operator = x.operator
      /\ y.mode = x.mode /\ y.key = x.key /\ y.limit = x.limit
  BY <1>1, JoinFacts
<1> HIDE DEF y
<1>3. RosterSound(y, live, name)
  BY <1>1, <1>2, InsertFacts DEF Sound, RosterSound, KeysOf
<1>4. n \in KeysOf(y.participant)
  BY <1>1, <1>2, InsertFacts
<1> QED
  BY <1>2, <1>3, <1>4 DEF Sound, SettingsSound, y

\* The channel that its maker has joined is sound.
LEMMA FoundSound ==
  ASSUME NEW live, NEW name, NEW c \in live \cap Clients, NEW n \in Nicks,
         NEW key \in Keys \cup {""}, name[c] = n
  PROVE  Sound(Join(AddOperator(NewChannel(key), n, c), n, c), live, name)
<1> DEFINE w == NewChannel(key)
           x == AddOperator(w, n, c)
           y == Join(x, n, c)
           p == Insert(EmptyMap, n, c)
<1>1. EmptyMap \in ClientMap /\ KeysOf(EmptyMap) = {}
  BY IdentifiersAssumption DEF EmptyMap, ClientMap, KeysOf
<1>2. w \in Channel /\ SettingsSound(w) /\ w.participant = EmptyMap /\ w.operator = EmptyMap
  BY NewChannelFacts
<1> HIDE DEF w
<1>7. /\ x \in Channel
      /\ x.participant = w.participant
      /\ x.operator = Insert(w.operator, n, c)
      /\ x.mode = w.mode /\ x.key = w.key /\ x.limit = w.limit
  BY <1>2, AddOperatorFacts
<1> HIDE DEF x
<1>3. /\ x \in Channel
      /\ x.participant = EmptyMap
      /\ x.operator = p
      /\ SettingsSound(x)
  BY <1>2, <1>7 DEF SettingsSound
<1>4. /\ y \in Channel
      /\ y.participant = p
      /\ y.operator = p
      /\ y.mode = x.mode /\ y.key = x.key /\ y.limit = x.limit
  BY <1>1, <1>3, JoinFacts
<1>5. KeysOf(p) = {n} /\ p[n] = c
  <2>1. c \in Clients /\ EmptyMap \in ClientMap
    BY <1>1
  <2>2. KeysOf(Insert(EmptyMap, n, c)) = KeysOf(EmptyMap) \cup {n}
    BY ONLY <2>1, n \in Nicks, InsertFacts
  <2>3. Insert(EmptyMap, n, c)[n] = c
    BY ONLY <2>1, n \in Nicks, InsertFacts
  <2> QED
    BY <1>1, <2>2, <2>3
<1> HIDE DEF y, p
<1>6. Sound(y, live, name)
  BY <1>1, <1>3, <1>4, <1>5 DEF Sound, RosterSound, SettingsSound
<1> QED
  BY <1>6 DEF w, x, y

\* A rename of c, which is the one live client that is called old.
LEMMA RenameSound ==
  ASSUME NEW x, NEW live, NEW name, NEW name2, NEW c \in live \cap Clients,
         NEW old \in Nicks, NEW new \in Nicks,
         Sound(x, live, name),
         \A d \in live : name[d] = old <=> d = c,
         \A d \in live : name[d] # new,
         name2[c] = new,
         \A d \in live \ {c} : name2[d] = name[d]
  PROVE  Sound(Rename(x, old, new, c), live, name2)
<1> DEFINE y == Rename(x, old, new, c)
<1>1. x \in Channel /\ x.participant \in ClientMap /\ x.operator \in ClientMap
  BY DEF Sound, Channel
<1>2. new # old /\ new \notin KeysOf(x.participant) /\ new \notin KeysOf(x.operator)
  BY <1>1 DEF Sound, RosterSound, KeysOf
<1>3. old \in KeysOf(x.participant) => x.participant[old] = c
  BY DEF Sound, RosterSound
<1>4. old \in KeysOf(x.operator) => old \in KeysOf(x.participant)
  BY <1>1 DEF Sound, RosterSound, KeysOf
<1>5. CASE old \notin KeysOf(x.participant)
  <2>1. y = x
    BY <1>5 DEF Rename, IsParticipant
  <2>2. \A n \in KeysOf(x.participant) : x.participant[n] # c
    BY <1>5 DEF Sound, RosterSound
  <2> QED
    BY <2>1, <2>2 DEF Sound, RosterSound
<1>6. CASE old \in KeysOf(x.participant)
  <2> DEFINE p == Insert(Erase(x.participant, {old}), new, c)
             q == Insert(Erase(x.operator, {old}), new, c)
  <2>1. /\ p \in ClientMap /\ KeysOf(p) = (KeysOf(x.participant) \ {old}) \cup {new}
        /\ p[new] = c /\ \A m \in Nicks \ {old, new} : p[m] = x.participant[m]
    BY <1>1, EraseFacts, InsertFacts
  <2>2. /\ q \in ClientMap /\ KeysOf(q) = (KeysOf(x.operator) \ {old}) \cup {new}
        /\ q[new] = c /\ \A m \in Nicks \ {old, new} : q[m] = x.operator[m]
    BY <1>1, EraseFacts, InsertFacts
  <2>3. new \notin KeysOf(Erase(x.participant, {old}))
    BY <1>1, <1>2, EraseFacts
  <2> DEFINE z == [x EXCEPT !.participant = Erase(@, {old})]
             j == AddParticipant(z, new, c)
  <2>4. /\ j \in Channel /\ j.participant = p /\ j.operator = x.operator
        /\ j.mode = x.mode /\ j.key = x.key /\ j.limit = x.limit
    <3>1. /\ z \in Channel /\ z.participant = Erase(x.participant, {old}) /\ z.operator = x.operator
          /\ z.mode = x.mode /\ z.key = x.key /\ z.limit = x.limit
      BY <1>1, EraseFacts DEF Channel
    <3> HIDE DEF z
    <3> QED
      BY <3>1, <2>3, AddParticipantFacts
  <2>5. KeysOf(x.participant) \subseteq Nicks /\ KeysOf(x.operator) \subseteq Nicks
    BY DEF KeysOf
  <2>6. \A n \in KeysOf(p) : p[n] \in live /\ name2[p[n]] = n
    <3> SUFFICES ASSUME NEW n \in KeysOf(p) PROVE p[n] \in live /\ name2[p[n]] = n
      OBVIOUS
    <3>1. CASE n = new
      BY <3>1, <2>1
    <3>2. CASE n # new
      <4>1. n \in KeysOf(x.participant) /\ n # old /\ p[n] = x.participant[n]
        BY <3>2, <2>1, <2>5
      <4> QED
        BY <4>1 DEF Sound, RosterSound
    <3> QED
      BY <3>1, <3>2
  <2>7. CASE old \notin KeysOf(x.operator)
    <3>1. y = j
      BY <1>6, <2>7 DEF Rename, IsParticipant, IsOperator
    <3>2. \A n \in KeysOf(x.operator) : x.operator[n] = p[n]
      BY <1>2, <2>1, <2>5, <2>7 DEF Sound, RosterSound
    <3> HIDE DEF j, p
    <3>3. Sound(j, live, name2)
      BY <3>2, <2>4, <2>6 DEF Sound, RosterSound, SettingsSound
    <3> QED
      BY <3>1, <3>3
  <2>8. CASE old \in KeysOf(x.operator)
    <3> DEFINE k == [j EXCEPT !.operator = Erase(@, {old})]
    <3>1. y = AddOperator(k, new, c)
      BY <1>6, <2>8 DEF Rename, IsParticipant, IsOperator
    <3> HIDE DEF j
    <3>4. Erase(x.operator, {old}) \in ClientMap
      BY <1>1, EraseFacts
    <3>5. /\ k \in Channel /\ k.participant = p /\ k.operator = Erase(x.operator, {old})
          /\ k.mode = x.mode /\ k.key = x.key /\ k.limit = x.limit
      BY <2>4, <3>4 DEF Channel
    <3> HIDE DEF k
    <3>2. /\ y \in Channel /\ y.participant = p /\ y.operator = q
          /\ y.mode = x.mode /\ y.key = x.key /\ y.limit = x.limit
      BY <3>1, <3>5, AddOperatorFacts
    <3>3. \A n \in KeysOf(q) : q[n] = p[n]
      <4> HIDE DEF p, q
      <4> SUFFICES ASSUME NEW n \in KeysOf(q), n # new PROVE q[n] = p[n]
        BY <2>1, <2>2
      <4>1. n \in KeysOf(x.operator) /\ n # old /\ n \in Nicks
        BY <2>2, <2>5
      <4>2. x.operator[n] = x.participant[n]
        BY <4>1 DEF Sound, RosterSound
      <4> QED
        BY <4>1, <4>2, <2>1, <2>2
    <3> HIDE DEF y, p, q
    <3> QED
      BY <3>2, <3>3, <2>6 DEF Sound, RosterSound, SettingsSound, y
  <2> QED
    BY <2>7, <2>8
<1> QED
  BY <1>5, <1>6

\* +o finds the participants' own pointers in the index, so that it makes
\* operators of participants only.
LEMMA ApplyModeSound ==
  ASSUME NEW x, NEW live, NEW name, NEW r \in ModeRequest, NEW index \in ClientMap,
         Sound(x, live, name), ModeAccepted(x, r),
         \A n \in KeysOf(x.participant) : index[n] = x.participant[n]
  PROVE  /\ Sound(ApplyMode(x, r, index), live, name)
         /\ ApplyMode(x, r, index).participant = x.participant
<1> DEFINE y == ApplyMode(x, r, index)
<1>1. x \in Channel /\ x.participant \in ClientMap /\ x.operator \in ClientMap
  BY DEF Sound, Channel
<1>2. /\ r.flags \subseteq Flags /\ r.key \in Keys /\ r.key # ""
      /\ r.limit \in Limits /\ r.limit # NoLimit /\ r.add \in BOOLEAN
  BY ChannelAssumption DEF ModeRequest
<1>3. CASE r.add
  <2> DEFINE q == [n \in Nicks |-> IF n \in r.ops THEN index[n] ELSE x.operator[n]]
  <2>1. q \in ClientMap
    BY <1>1 DEF ClientMap
  <2>2. /\ y \in Channel /\ y.participant = x.participant /\ y.operator = q
        /\ y.mode = x.mode \cup r.flags
        /\ y.key = IF "k" \in r.flags THEN r.key ELSE x.key
        /\ y.limit = IF "l" \in r.flags THEN r.limit ELSE x.limit
    BY <1>1, <1>2, <1>3, <2>1 DEF ApplyMode, Channel
  <2>3. \A n \in KeysOf(q) : q[n] = x.participant[n]
    BY <1>3 DEF KeysOf, ModeAccepted, IsParticipant, Sound, RosterSound
  <2> HIDE DEF y, q
  <2> QED
    BY <1>2, <2>2, <2>3 DEF Sound, RosterSound, SettingsSound, y
<1>4. CASE ~r.add
  <2>1. /\ y \in Channel /\ y.participant = x.participant
        /\ y.operator = Erase(x.operator, r.ops)
        /\ y.mode = x.mode \ r.flags
        /\ y.key = IF "k" \in r.flags THEN "" ELSE x.key
        /\ y.limit = x.limit
    BY <1>1, <1>2, <1>4, EraseFacts DEF ApplyMode, Channel
  <2>2. \A n \in KeysOf(y.operator) : y.operator[n] = x.participant[n]
    <3> DEFINE q == Erase(x.operator, r.ops)
    <3>1. KeysOf(q) = KeysOf(x.operator) \ r.ops /\ \A n \in Nicks \ r.ops : q[n] = x.operator[n]
      BY <1>1, EraseFacts
    <3>2. KeysOf(x.operator) \subseteq Nicks
      BY DEF KeysOf
    <3> HIDE DEF y, q
    <3>3. \A n \in KeysOf(q) : q[n] = x.participant[n]
      BY <3>1, <3>2 DEF Sound, RosterSound
    <3> QED
      BY <2>1, <3>3 DEF q
  <2> HIDE DEF y
  <2> QED
    BY <2>1, <2>2 DEF Sound, RosterSound, SettingsSound, y
<1> QED
  BY <1>2, <1>3, <1>4

\* Invitations and the topic are not part of what makes a channel sound.
LEMMA InviteSound ==
  ASSUME NEW x, NEW live, NEW name, Sound(x, live, name), NEW n \in Nicks \cup {NoNick}
  PROVE  Sound([x EXCEPT !.invited = {n}], live, name)
  BY DEF Sound, SettingsSound, RosterSound, Channel

\* The same of the topic.
LEMMA TopicSound ==
  ASSUME NEW x, NEW live, NEW name, Sound(x, live, name), NEW topic \in Topics
  PROVE  Sound([x EXCEPT !.topic = topic], live, name)
  BY DEF Sound, SettingsSound, RosterSound, Channel

\* Messages to a sound channel go to live clients.
LEMMA AudienceLive ==
  ASSUME NEW x, NEW live, NEW name, Sound(x, live, name)
  PROVE  Audience(x) \subseteq live /\ OperatorClients(x) \subseteq Audience(x)
<1>1. x.participant \in ClientMap /\ x.operator \in ClientMap
  BY DEF Sound, Channel
<1>2. \A n \in KeysOf(x.operator) : n \in KeysOf(x.participant)
  BY <1>1 DEF Sound, RosterSound, KeysOf
<1> QED
  BY <1>2 DEF Sound, RosterSound, Audience, OperatorClients

-----------------------------------------------------------------------------
(* Who is in a channel afterwards: the operations on maps keyed by nickname, *)
(* seen as operations on sets of clients.                                    *)

Values(map) == {map[n] : n \in KeysOf(map)}

\* A sound channel holds each of its clients under the client's own name.
LEMMA RosterFacts ==
  ASSUME NEW x, NEW live, NEW name, Sound(x, live, name)
  PROVE  /\ \A c \in Audience(x) :
              c \in live /\ name[c] \in KeysOf(x.participant) /\ x.participant[name[c]] = c
         /\ \A c \in OperatorClients(x) :
              c \in live /\ name[c] \in KeysOf(x.operator) /\ x.operator[name[c]] = c
         /\ OperatorClients(x) \subseteq Audience(x)
<1>1. OperatorClients(x) \subseteq Audience(x)
  BY AudienceLive
<1>2. \A n \in KeysOf(x.participant) : x.participant[n] \in live /\ name[x.participant[n]] = n
  BY DEF Sound, RosterSound
<1>3. \A n \in KeysOf(x.operator) : n \in KeysOf(x.participant) /\ x.operator[n] = x.participant[n]
  BY DEF Sound, RosterSound, KeysOf
<1>4. ASSUME NEW c \in Audience(x)
      PROVE  c \in live /\ name[c] \in KeysOf(x.participant) /\ x.participant[name[c]] = c
  <2> PICK n \in KeysOf(x.participant) : c = x.participant[n]
    BY DEF Audience
  <2> QED
    BY <1>2
<1>5. ASSUME NEW c \in OperatorClients(x)
      PROVE  c \in live /\ name[c] \in KeysOf(x.operator) /\ x.operator[name[c]] = c
  <2> PICK n \in KeysOf(x.operator) : c = x.operator[n]
    BY DEF OperatorClients
  <2> QED
    BY <1>2, <1>3
<1> QED
  BY <1>1, <1>4, <1>5

\* Whoever has one of the names leaves, everybody else stays what it was.
LEMMA LeaveRoster ==
  ASSUME NEW x, NEW live, NEW name, NEW names, Sound(x, live, name)
  PROVE  /\ Audience(Leave(x, names)) = {c \in Audience(x) : name[c] \notin names}
         /\ OperatorClients(Leave(x, names)) = {c \in OperatorClients(x) : name[c] \notin names}
<1> DEFINE y == Leave(x, names)
<1>1. x \in Channel /\ x.participant \in ClientMap /\ x.operator \in ClientMap
  BY DEF Sound, Channel
<1>2. y.participant = Erase(x.participant, names) /\ y.operator = Erase(x.operator, names)
  BY <1>1 DEF Leave, Channel
<1> HIDE DEF y
<1>3. /\ KeysOf(y.participant) = KeysOf(x.participant) \ names
      /\ KeysOf(y.operator) = KeysOf(x.operator) \ names
      /\ \A n \in KeysOf(y.participant) : y.participant[n] = x.participant[n]
      /\ \A n \in KeysOf(y.operator) : y.operator[n] = x.operator[n]
  BY <1>1, <1>2, EraseFacts DEF KeysOf
<1>4. Audience(y) = {c \in Audience(x) : name[c] \notin names}
  BY <1>3 DEF Audience, Sound, RosterSound
<1>5. OperatorClients(y) = {c \in OperatorClients(x) : name[c] \notin names}
  <2>1. \A n \in KeysOf(x.operator) : name[x.operator[n]] = n
    BY <1>1 DEF Sound, RosterSound, KeysOf
  <2> QED
    BY <1>3, <2>1 DEF OperatorClients
<1> QED
  BY <1>4, <1>5 DEF y

\* A JOIN lets one client in and makes nobody operator.
LEMMA JoinRoster ==
  ASSUME NEW x, NEW live, NEW name, NEW c \in live \cap Clients, NEW n \in Nicks,
         Sound(x, live, name), \A d \in live : name[d] = n <=> d = c
  PROVE  /\ Audience(Join(x, n, c)) = Audience(x) \cup {c}
         /\ OperatorClients(Join(x, n, c)) = OperatorClients(x)
         /\ c \in Audience(x) <=> n \in KeysOf(x.participant)
<1> DEFINE y == Join(x, n, c)
<1>1. x \in Channel /\ x.participant \in ClientMap /\ x.operator \in ClientMap
  BY DEF Sound, Channel
<1>2. /\ y.operator = x.operator
      /\ y.participant = IF n \in KeysOf(x.participant) THEN x.participant
                         ELSE Insert(x.participant, n, c)
  BY <1>1, JoinFacts
<1> HIDE DEF y
<1>3. n \in KeysOf(x.participant) => x.participant[n] = c
  BY DEF Sound, RosterSound
<1>4. c \in Audience(x) <=> n \in KeysOf(x.participant)
  BY <1>3, RosterFacts DEF Audience
<1>5. CASE n \in KeysOf(x.participant)
  BY <1>2, <1>4, <1>5 DEF Audience, OperatorClients, y
<1>6. CASE n \notin KeysOf(x.participant)
  <2> DEFINE p == Insert(x.participant, n, c)
  <2>1. /\ KeysOf(p) = KeysOf(x.participant) \cup {n} /\ p[n] = c
        /\ \A m \in Nicks : m # n => p[m] = x.participant[m]
    BY <1>1, InsertFacts
  <2>2. y.participant = p
    BY <1>2, <1>6
  <2> HIDE DEF p
  <2>3. \A m \in KeysOf(x.participant) : p[m] = x.participant[m]
    BY <1>6, <2>1 DEF KeysOf
  <2>4. Audience(y) = Audience(x) \cup {c}
    BY <2>1, <2>2, <2>3 DEF Audience
  <2> QED
    BY <1>2, <1>4, <2>4 DEF OperatorClients, y
<1> QED
  BY <1>5, <1>6

\* The maker of a channel is its one participant and its one operator.
LEMMA FoundRoster ==
  ASSUME NEW n \in Nicks, NEW c \in Clients, NEW key \in Keys \cup {""}
  PROVE  /\ Audience(Join(AddOperator(NewChannel(key), n, c), n, c)) = {c}
         /\ OperatorClients(Join(AddOperator(NewChannel(key), n, c), n, c)) = {c}
<1> DEFINE w == NewChannel(key)
           x == AddOperator(w, n, c)
           y == Join(x, n, c)
           p == Insert(EmptyMap, n, c)
<1>1. EmptyMap \in ClientMap /\ KeysOf(EmptyMap) = {}
  BY IdentifiersAssumption DEF EmptyMap, ClientMap, KeysOf
<1>2. w \in Channel /\ w.participant = EmptyMap /\ w.operator = EmptyMap
  BY NewChannelFacts
<1> HIDE DEF w
<1>3. x \in Channel /\ x.participant = w.participant /\ x.operator = Insert(w.operator, n, c)
  BY <1>2, AddOperatorFacts
<1> HIDE DEF x
<1>4. y.participant = p /\ y.operator = p
  <2>1. x \in Channel /\ x.participant = EmptyMap /\ x.operator = p
    BY <1>2, <1>3
  <2> QED
    BY <1>1, <2>1, JoinFacts
<1>5. KeysOf(p) = {n} /\ p[n] = c
  <2>1. EmptyMap \in ClientMap
    BY <1>1
  <2>2. KeysOf(p) = KeysOf(EmptyMap) \cup {n} /\ p[n] = c
    BY ONLY <2>1, n \in Nicks, c \in Clients, InsertFacts
  <2> QED
    BY <1>1, <2>2
<1> HIDE DEF y, p
<1>6. Audience(y) = {c} /\ OperatorClients(y) = {c}
  <2>1. Values(p) = {c}
    BY <1>5 DEF Values
  <2>2. Audience(y) = Values(p) /\ OperatorClients(y) = Values(p)
    BY <1>4 DEF Audience, OperatorClients, Values
  <2> QED
    BY <2>1, <2>2
<1> QED
  BY <1>6 DEF w, x, y

\* An entry that moves to another name is still there.
LEMMA MovedEntry ==
  ASSUME NEW map \in ClientMap, NEW old \in KeysOf(map), NEW new \in Nicks \ KeysOf(map),
         NEW c \in Clients, map[old] = c
  PROVE  Values(Insert(Erase(map, {old}), new, c)) = Values(map)
<1> DEFINE e == Erase(map, {old})
           p == Insert(e, new, c)
<1>1. /\ e \in ClientMap
      /\ KeysOf(e) = KeysOf(map) \ {old}
      /\ \A n \in Nicks \ {old} : e[n] = map[n]
  BY EraseFacts
<1> HIDE DEF e
<1>2. /\ KeysOf(p) = KeysOf(e) \cup {new} /\ p[new] = c
      /\ \A m \in Nicks : m # new => p[m] = e[m]
  BY <1>1, InsertFacts
<1> HIDE DEF p
<1>3. KeysOf(map) \subseteq Nicks
  BY DEF KeysOf
<1>4. \A n \in KeysOf(map) \ {old} : p[n] = map[n]
  BY <1>1, <1>2, <1>3
<1>5. KeysOf(p) = (KeysOf(map) \ {old}) \cup {new}
  BY <1>1, <1>2
<1>6. Values(p) \subseteq Values(map)
  BY <1>2, <1>4, <1>5 DEF Values
<1>7. Values(map) \subseteq Values(p)
  BY <1>2, <1>4, <1>5 DEF Values
<1> QED
  BY <1>6, <1>7 DEF p, e

\* A rename moves nobody.
LEMMA RenameRoster ==
  ASSUME NEW x, NEW live, NEW name, NEW c \in live \cap Clients,
         NEW old \in Nicks, NEW new \in Nicks,
         Sound(x, live, name),
         \A d \in live : name[d] = old <=> d = c,
         \A d \in live : name[d] # new
  PROVE  /\ Audience(Rename(x, old, new, c)) = Audience(x)
         /\ OperatorClients(Rename(x, old, new, c)) = OperatorClients(x)
<1> DEFINE y == Rename(x, old, new, c)
           p == Insert(Erase(x.participant, {old}), new, c)
           q == Insert(Erase(x.operator, {old}), new, c)
<1>1. x \in Channel /\ x.participant \in ClientMap /\ x.operator \in ClientMap
  BY DEF Sound, Channel
<1>2. /\ KeysOf(x.operator) \subseteq KeysOf(x.participant)
      /\ \A n \in KeysOf(x.operator) : x.operator[n] = x.participant[n]
      /\ \A n \in KeysOf(x.participant) : x.participant[n] \in live /\ name[x.participant[n]] = n
  BY DEF Sound, RosterSound, KeysOf
<1>3. new # old /\ new \notin KeysOf(x.participant) /\ new \notin KeysOf(x.operator)
  <2>1. name[c] = old /\ name[c] # new
    OBVIOUS
  <2> QED
    BY <1>2, <2>1
<1>4. CASE old \notin KeysOf(x.participant)
  <2>1. y = x
    BY <1>4 DEF Rename, IsParticipant
  <2> QED
    BY <2>1
<1>5. CASE old \in KeysOf(x.participant)
  <2> DEFINE z == [x EXCEPT !.participant = Erase(@, {old})]
             j == AddParticipant(z, new, c)
  <2>1. x.participant[old] = c /\ (old \in KeysOf(x.operator) => x.operator[old] = c)
    BY <1>2, <1>5
  <2>2. Values(p) = Values(x.participant)
    <3>1. /\ x.participant \in ClientMap /\ old \in KeysOf(x.participant)
          /\ new \in Nicks \ KeysOf(x.participant) /\ c \in Clients /\ x.participant[old] = c
      BY <1>1, <1>3, <1>5, <2>1
    <3> QED
      BY ONLY <3>1, MovedEntry
  <2>3. old \in KeysOf(x.operator) => Values(q) = Values(x.operator)
    BY <1>1, <1>3, <2>1, MovedEntry
  <2>4. j \in Channel /\ j.participant = p /\ j.operator = x.operator
    <3>1. Erase(x.participant, {old}) \in ClientMap /\ new \notin KeysOf(Erase(x.participant, {old}))
      BY <1>1, <1>3, EraseFacts
    <3>2. z \in Channel /\ z.participant = Erase(x.participant, {old}) /\ z.operator = x.operator
      BY <1>1, <3>1 DEF Channel
    <3> HIDE DEF z
    <3> QED
      BY <3>1, <3>2, AddParticipantFacts
  <2>5. y.participant = p
        /\ y.operator = IF old \in KeysOf(x.operator) THEN q ELSE x.operator
    <3>1. CASE old \notin KeysOf(x.operator)
      <4>1. y = j
        BY <1>5, <3>1 DEF Rename, IsParticipant, IsOperator
      <4> QED
        BY <2>4, <3>1, <4>1
    <3>2. CASE old \in KeysOf(x.operator)
      <4> DEFINE k == [j EXCEPT !.operator = Erase(@, {old})]
      <4>1. y = AddOperator(k, new, c)
        BY <1>5, <3>2 DEF Rename, IsParticipant, IsOperator
      <4> HIDE DEF j
      <4>2. Erase(x.operator, {old}) \in ClientMap
        BY <1>1, EraseFacts
      <4>3. k \in Channel /\ k.participant = p /\ k.operator = Erase(x.operator, {old})
        BY <2>4, <4>2 DEF Channel
      <4> HIDE DEF k
      <4> QED
        BY <3>2, <4>1, <4>3, AddOperatorFacts
    <3> QED
      BY <3>1, <3>2
  <2> HIDE DEF y, p, q
  <2> QED
    BY <2>2, <2>3, <2>5 DEF Audience, OperatorClients, Values, y
<1> QED
  BY <1>4, <1>5

\* +o makes operators of the named participants, -o takes the named operators
\* away, and the other letters touch neither.
LEMMA ModeRoster ==
  ASSUME NEW x, NEW live, NEW name, NEW r \in ModeRequest, NEW index \in ClientMap,
         Sound(x, live, name), ModeAccepted(x, r),
         \A n \in KeysOf(x.participant) : index[n] = x.participant[n]
  PROVE  /\ Audience(ApplyMode(x, r, index)) = Audience(x)
         /\ r.add => \E S \in SUBSET Audience(x) :
              OperatorClients(ApplyMode(x, r, index)) = OperatorClients(x) \cup S
         /\ ~r.add => \E S \in SUBSET OperatorClients(x) :
              OperatorClients(ApplyMode(x, r, index)) = OperatorClients(x) \ S
<1> DEFINE y == ApplyMode(x, r, index)
<1>1. x \in Channel /\ x.participant \in ClientMap /\ x.operator \in ClientMap
      /\ r.ops \subseteq Nicks /\ r.add \in BOOLEAN
  BY DEF Sound, Channel, ModeRequest
<1>2. Audience(y) = Audience(x)
  BY ApplyModeSound DEF Audience
<1>3. ASSUME r.add
      PROVE  \E S \in SUBSET Audience(x) : OperatorClients(y) = OperatorClients(x) \cup S
  <2> DEFINE q == [n \in Nicks |-> IF n \in r.ops THEN index[n] ELSE x.operator[n]]
             S == {x.participant[n] : n \in r.ops}
  <2>1. y.operator = q
    BY <1>1, <1>3 DEF ApplyMode, Channel
  <2>2. r.ops \subseteq KeysOf(x.participant)
    BY <1>3 DEF ModeAccepted, IsParticipant
  <2>3. \A n \in r.ops : n \in KeysOf(x.operator) => x.operator[n] = x.participant[n]
    BY DEF Sound, RosterSound
  <2>4. /\ KeysOf(q) = KeysOf(x.operator) \cup r.ops
        /\ \A n \in r.ops : q[n] = x.participant[n]
        /\ \A n \in KeysOf(x.operator) : q[n] = x.operator[n]
    BY <1>1, <2>2, <2>3 DEF KeysOf
  <2> HIDE DEF q, y
  <2>5. OperatorClients(y) = Values(q) /\ OperatorClients(x) = Values(x.operator)
    BY <2>1 DEF OperatorClients, Values
  <2>6. Values(q) = Values(x.operator) \cup S
    BY <2>4 DEF Values
  <2>7. S \in SUBSET Audience(x)
    BY <2>2 DEF Audience
  <2> QED
    BY <2>5, <2>6, <2>7
<1>4. ASSUME ~r.add
      PROVE  \E S \in SUBSET OperatorClients(x) : OperatorClients(y) = OperatorClients(x) \ S
  <2> DEFINE q == Erase(x.operator, r.ops)
             S == {x.operator[n] : n \in r.ops}
  <2>1. y.operator = q
    BY <1>1, <1>4 DEF ApplyMode, Channel
  <2>2. r.ops \subseteq KeysOf(x.operator)
    BY <1>4 DEF ModeAccepted, IsOperator
  <2>3. /\ KeysOf(q) = KeysOf(x.operator) \ r.ops
        /\ \A n \in KeysOf(q) : q[n] = x.operator[n]
    BY <1>1, EraseFacts DEF KeysOf
  <2>4. \A n \in KeysOf(x.operator) : name[x.operator[n]] = n
    BY DEF Sound, RosterSound, KeysOf
  <2> HIDE DEF q, y
  <2>5. OperatorClients(y) = Values(q) /\ OperatorClients(x) = Values(x.operator)
    BY <2>1 DEF OperatorClients, Values
  <2>6. Values(q) = Values(x.operator) \ S
    <3>1. \A n \in KeysOf(q) : x.operator[n] \notin S
      BY <2>2, <2>3, <2>4
    <3> QED
      BY <2>3, <3>1 DEF Values
  <2>7. S \in SUBSET OperatorClients(x)
    BY <2>2 DEF OperatorClients
  <2> QED
    BY <2>5, <2>6, <2>7
<1> QED
  BY <1>2, <1>3, <1>4

-----------------------------------------------------------------------------
(* What the operations leave of the settings.                                *)

SameSettings(x, y) == y.mode = x.mode /\ y.key = x.key /\ y.limit = x.limit /\ y.topic = x.topic
SameInvited(x, y) == y.invited = x.invited

\* No PART, KICK or teardown changes a setting or an invitation.
LEMMA LeaveSettings ==
  ASSUME NEW x \in Channel, NEW names
  PROVE  SameSettings(x, Leave(x, names)) /\ SameInvited(x, Leave(x, names))
  BY DEF Channel, SameSettings, SameInvited, Leave

\* No JOIN changes a setting.
LEMMA JoinSettings ==
  ASSUME NEW x \in Channel, NEW n \in Nicks, NEW c \in Clients
  PROVE  SameSettings(x, Join(x, n, c))
  BY DEF Channel, SameSettings, Join, AddParticipant, RemoveInvited

\* No NICK changes a setting or an invitation.
LEMMA RenameSettings ==
  ASSUME NEW x \in Channel, NEW old \in Nicks, NEW new \in Nicks, NEW c \in Clients
  PROVE  SameSettings(x, Rename(x, old, new, c)) /\ SameInvited(x, Rename(x, old, new, c))
  BY DEF Channel, SameSettings, SameInvited, Rename, AddParticipant, AddOperator

\* MODE and TOPIC leave the invitations alone.
LEMMA ModeInvited ==
  ASSUME NEW x \in Channel, NEW r \in ModeRequest, NEW index
  PROVE  SameInvited(x, ApplyMode(x, r, index))
  BY DEF Channel, SameInvited, ApplyMode

LEMMA TopicInvited ==
  ASSUME NEW x \in Channel, NEW topic
  PROVE  SameInvited(x, [x EXCEPT !.topic = topic])
  BY DEF Channel, SameInvited

\* Nor does an INVITE.
LEMMA InviteSettings ==
  ASSUME NEW x \in Channel, NEW S
  PROVE  SameSettings(x, [x EXCEPT !.invited = S])
  BY DEF Channel, SameSettings
=============================================================================
