--------------------------- MODULE RegistryProofs ---------------------------
(***************************************************************************)
(* RegInv holds in every reachable state of the registry, for any sets of  *)
(* descriptors and nicknames and any MAX_CLIENTS.  It is inductive: one    *)
(* lemma per operation shows that the operation preserves it.              *)
(***************************************************************************)
EXTENDS Registry, TLAPS

\* The registry before the first connection.
LEMMA RegInitInv == RegInit => RegInv
<1> SUFFICES ASSUME RegInit PROVE RegInv
  OBVIOUS
<1> USE IdentifiersAssumption DEF RegInit
<1>1. RegTypeOK
  BY DEF RegTypeOK, ClientMap, EmptyMap
<1>2. /\ UniqueNicks /\ NickIndexed /\ RegisteredComplete
      /\ FreeSlotsClear /\ NickStatusExact
  BY DEF UniqueNicks, NickIndexed, RegisteredComplete, FreeSlotsClear, NickStatusExact
<1> QED
  BY <1>1, <1>2 DEF RegInv

\* A step of the server that does not touch the registry.
LEMMA RegStutter == RegInv /\ UNCHANGED regVars => RegInv'
  BY DEF RegInv, RegTypeOK, UniqueNicks, NickIndexed, RegisteredComplete,
         FreeSlotsClear, NickStatusExact, regVars, identity

\* acceptClient: the slot of a new client is clear (FreeSlotsClear), so that it
\* brings no nickname along.
LEMMA AcceptClientInv ==
  ASSUME RegInv, NEW c \in Clients, AcceptClient(c)
  PROVE  RegInv'
<1> USE IdentifiersAssumption DEF RegInv, AcceptClient, identity
<1>1. RegTypeOK'
  BY DEF RegTypeOK
<1>2. UniqueNicks'
  BY DEF UniqueNicks, FreeSlotsClear
<1>3. NickIndexed'
  BY DEF NickIndexed, FreeSlotsClear
<1>4. RegisteredComplete' /\ FreeSlotsClear' /\ NickStatusExact'
  BY DEF RegisteredComplete, FreeSlotsClear, NickStatusExact
<1> QED
  BY <1>1, <1>2, <1>3, <1>4

\* markClientForRemoval.
LEMMA MarkInv ==
  ASSUME RegInv, NEW S, Mark(S), UNCHANGED <<clients, identity>>
  PROVE  RegInv'
  BY DEF RegInv, RegTypeOK, UniqueNicks, NickIndexed, RegisteredComplete,
         FreeSlotsClear, NickStatusExact, Mark, identity

\* PASS.
LEMMA SetPassInv ==
  ASSUME RegInv, NEW c \in clients, SetPass(c), NEW S, Mark(S)
  PROVE  RegInv'
<1> USE IdentifiersAssumption DEF RegInv, SetPass, Mark
<1>1. RegTypeOK'
  BY DEF RegTypeOK
<1>2. UniqueNicks' /\ NickIndexed' /\ NickStatusExact'
  BY DEF UniqueNicks, NickIndexed, NickStatusExact
<1>3. RegisteredComplete' /\ FreeSlotsClear'
  BY DEF RegisteredComplete, FreeSlotsClear
<1> QED
  BY <1>1, <1>2, <1>3

\* NICK: the name was nobody's (NickInUse), and the old one leaves the index only
\* when no other client can be found under it.
LEMMA SetNickInv ==
  ASSUME RegInv, NEW c \in clients, NEW n \in Nicks, SetNick(c, n), NEW S, Mark(S)
  PROVE  RegInv'
<1> USE IdentifiersAssumption DEF RegInv
<1>1. c \in Clients /\ n # NoNick /\ \A d \in clients : nickname[d] # n
  BY DEF RegTypeOK, SetNick, NickInUse
<1>2. RegTypeOK'
  BY <1>1 DEF RegTypeOK, SetNick, Mark, ClientMap
<1>3. /\ clients' = clients
      /\ nickname' = [nickname EXCEPT ![c] = n]
      /\ nickname \in [Clients -> Nicks \cup {NoNick}]
      /\ nickStatus' = nickStatus \cup {c}
      /\ passStatus' = passStatus /\ userStatus' = userStatus
      /\ registeredStatus' = registeredStatus
  BY DEF SetNick, RegTypeOK
<1>4. clients \subseteq Clients
  BY DEF RegTypeOK
<1>5. UniqueNicks'
  BY <1>1, <1>3, <1>4 DEF UniqueNicks
<1>6. NickIndexed'
  \* The erased entry is that of the old name, which nobody else holds.
  <2> SUFFICES ASSUME NEW d \in clients, nickname'[d] # NoNick
               PROVE  nickNameClientMap'[nickname'[d]] = d
    BY <1>3 DEF NickIndexed
  <2>1. nickNameClientMap \in [Nicks -> Clients \cup {NoClient}]
    BY DEF RegTypeOK, ClientMap
  <2>2. nickNameClientMap'[n] = c
    BY <2>1 DEF SetNick
  <2>3. CASE d = c
    BY <2>2, <2>3, <1>1, <1>3
  <2>4. CASE d # c
    <3>1. nickname'[d] = nickname[d] /\ nickname[d] \in Nicks /\ nickname[d] # n
      BY <2>4, <1>1, <1>3, <1>4
    <3>2. nickname[d] # nickname[c]
      BY <2>4, <3>1 DEF UniqueNicks
    <3>3. nickNameClientMap'[nickname[d]] = nickNameClientMap[nickname[d]]
      BY <2>1, <3>1, <3>2 DEF SetNick
    <3> QED
      BY <3>1, <3>3 DEF NickIndexed
  <2> QED
    BY <2>3, <2>4
<1>7. RegisteredComplete'
  BY <1>1, <1>3 DEF RegisteredComplete, SetNick, RegTypeOK
<1>8. FreeSlotsClear' /\ NickStatusExact'
  BY <1>1, <1>3 DEF FreeSlotsClear, NickStatusExact
<1> QED
  BY <1>2, <1>5, <1>6, <1>7, <1>8

\* USER: the prefix is made from the nickname, which is there if NICK succeeded
\* (NickStatusExact).
LEMMA SetUserInv ==
  ASSUME RegInv, NEW c \in clients, SetUser(c), NEW S, Mark(S)
  PROVE  RegInv'
<1> USE IdentifiersAssumption DEF RegInv, SetUser, Mark
<1>1. RegTypeOK'
  BY DEF RegTypeOK
<1>2. UniqueNicks' /\ NickIndexed' /\ NickStatusExact'
  BY DEF UniqueNicks, NickIndexed, NickStatusExact
<1>3. RegisteredComplete'
  BY DEF RegisteredComplete, NickStatusExact, RegTypeOK
<1>4. FreeSlotsClear'
  BY DEF FreeSlotsClear
<1> QED
  BY <1>1, <1>2, <1>3, <1>4

\* cleanupMarkedClients: the names erased from the index are those of the clients
\* that go, and of nobody else (UniqueNicks).
LEMMA RemoveMarkedInv ==
  ASSUME RegInv, RemoveMarked
  PROVE  RegInv'
<1> USE IdentifiersAssumption DEF RegInv, RemoveMarked
<1>1. RegTypeOK'
  BY DEF RegTypeOK, ClientMap, Erase
<1>2. UniqueNicks'
  BY DEF UniqueNicks, RegTypeOK
<1>3. NickIndexed'
  \* The names that are erased belong to nobody who stays.
  <2> SUFFICES ASSUME NEW d \in clients', nickname'[d] # NoNick
               PROVE  nickNameClientMap'[nickname'[d]] = d
    BY DEF NickIndexed
  <2>1. d \in clients /\ d \notin toRemove /\ d \in Clients
    BY DEF RegTypeOK
  <2>2. nickname'[d] = nickname[d] /\ nickname[d] \in Nicks
    BY <2>1 DEF RegTypeOK
  <2>3. nickname[d] \notin {nickname[c] : c \in toRemove}
    BY <2>1, <2>2 DEF UniqueNicks, RegTypeOK
  <2>4. nickNameClientMap'[nickname[d]] = nickNameClientMap[nickname[d]]
    BY <2>2, <2>3 DEF Erase
  <2> QED
    BY <2>1, <2>2, <2>4 DEF NickIndexed
<1>4. RegisteredComplete'
  BY DEF RegisteredComplete, RegTypeOK
<1>5. FreeSlotsClear' /\ NickStatusExact'
  BY DEF FreeSlotsClear, NickStatusExact, RegTypeOK
<1> QED
  BY <1>1, <1>2, <1>3, <1>4, <1>5

\* All operations together.
LEMMA RegNextInv == RegInv /\ [RegNext]_regVars => RegInv'
<1> SUFFICES ASSUME RegInv, [RegNext]_regVars PROVE RegInv'
  OBVIOUS
<1>1. CASE \E c \in Clients : AcceptClient(c)
  BY <1>1, AcceptClientInv
<1>2. CASE \E c \in Served : SetPass(c) /\ UNCHANGED toRemove
  BY <1>2, SetPassInv DEF Served, Mark
<1>3. CASE \E c \in Served, n \in Nicks, lost \in SUBSET clients : SetNick(c, n) /\ Mark(lost)
  BY <1>3, SetNickInv DEF Served
<1>4. CASE \E c \in Served, lost \in SUBSET clients : SetUser(c) /\ Mark(lost)
  BY <1>4, SetUserInv DEF Served
<1>5. CASE \E S \in SUBSET clients : Mark(S) /\ UNCHANGED <<clients, identity>>
  BY <1>5, MarkInv
<1>6. CASE RemoveMarked
  BY <1>6, RemoveMarkedInv
<1>7. CASE UNCHANGED regVars
  BY <1>7, RegStutter
<1> QED
  BY <1>1, <1>2, <1>3, <1>4, <1>5, <1>6, <1>7 DEF RegNext

\* Every reachable state of the registry satisfies RegInv: among others, no two
\* connections share a nickname, the index finds every client that has one, and
\* a registered client went through PASS, NICK and USER.
THEOREM RegistryCorrect == RegSpec => []RegInv
<1>1. RegInit => RegInv
  BY RegInitInv
<1>2. RegInv /\ [RegNext]_regVars => RegInv'
  BY RegNextInv
<1> QED
  BY <1>1, <1>2, PTL DEF RegSpec

\* Nicknames are unique among all connections, those that wait for teardown
\* included.
THEOREM NicksAreUnique == RegSpec => []UniqueNicks
<1>1. RegInv => UniqueNicks
  BY DEF RegInv
<1> QED
  BY <1>1, RegistryCorrect, PTL

\* Every client that has a nickname is found under it.
THEOREM NicksAreIndexed == RegSpec => []NickIndexed
<1>1. RegInv => NickIndexed
  BY DEF RegInv
<1> QED
  BY <1>1, RegistryCorrect, PTL

\* Registered clients have passed all three steps and speak under their own name.
THEOREM RegistrationIsComplete == RegSpec => []RegisteredComplete
<1>1. RegInv => RegisteredComplete
  BY DEF RegInv
<1> QED
  BY <1>1, RegistryCorrect, PTL

\* The maps hold what their types say, for any number of clients and names.
THEOREM RegistryTypes == RegSpec => []RegTypeOK
<1>1. RegInv => RegTypeOK
  BY DEF RegInv
<1> QED
  BY <1>1, RegistryCorrect, PTL
=============================================================================
