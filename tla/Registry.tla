------------------------------ MODULE Registry ------------------------------
(***************************************************************************)
(* The client registry of IrcServer: the map _clients, the nickname index  *)
(* nickNameClientMap, the set _toRemove of clients waiting for teardown,   *)
(* and of every Client its nickname, its prefix and its registration       *)
(* flags.  The handlers PASS, NICK and USER appear here with what they do  *)
(* to this state; module IrcServer conjoins what they do to the channels.  *)
(***************************************************************************)
EXTENDS Identifiers, Naturals, FiniteSets

CONSTANT MaxClients    \* MAX_CLIENTS

ASSUME RegistryAssumption == MaxClients \in Nat

VARIABLES
  clients,             \* the keys of _clients
  toRemove,            \* _toRemove
  passStatus,          \* the clients with _registerStatus.pass set, and so on
  nickStatus,
  userStatus,
  registeredStatus,
  nickname,            \* Client::_nickname
  prefix,              \* the nickname inside Client::_prefix
  nickNameClientMap

identity == <<passStatus, nickStatus, userStatus, registeredStatus,
              nickname, prefix, nickNameClientMap>>
regVars == <<clients, toRemove, identity>>

\* Types: the maps of the registry, with the deleted clients' fields as cleared.
\* Only live clients wait for teardown: a mark never stays behind for the next
\* client of a descriptor.
RegTypeOK ==
  /\ clients \subseteq Clients
  /\ toRemove \subseteq clients
  /\ passStatus \subseteq Clients
  /\ nickStatus \subseteq Clients
  /\ userStatus \subseteq Clients
  /\ registeredStatus \subseteq Clients
  /\ nickname \in [Clients -> Nicks \cup {NoNick}]
  /\ prefix \in [Clients -> Nicks \cup {NoNick}]
  /\ nickNameClientMap \in ClientMap

RegInit ==
  /\ clients = {}
  /\ toRemove = {}
  /\ passStatus = {}
  /\ nickStatus = {}
  /\ userStatus = {}
  /\ registeredStatus = {}
  /\ nickname = [c \in Clients |-> NoNick]
  /\ prefix = [c \in Clients |-> NoNick]
  /\ nickNameClientMap = EmptyMap

-----------------------------------------------------------------------------

NickInUse_Unmarked(n) == \E c \in clients \ toRemove : nickname[c] = n
NickInUse_Registered(n) == \E c \in registeredStatus : nickname[c] = n

\* Server.cpp getClient(nickname): marked clients still hold their nickname.
NickInUse(n) == \E c \in clients : nickname[c] = n

\* markClientForRemoval on each of S: only known clients, twice is once.
Mark(S) == toRemove' = toRemove \cup (S \cap clients)

\* The connections the poll loop still reads commands from.
Served == clients \ toRemove

\* acceptClient.  A marked client keeps its slot in _fds until the cleanup, so
\* the slots in use are those of clients.  At the limit the new socket is
\* closed and nothing changes.
AcceptClient(c) ==
  /\ c \notin clients
  /\ Cardinality(clients) < MaxClients
  /\ clients' = clients \cup {c}
  /\ UNCHANGED <<toRemove, identity>>

\* cmdPass, past its checks.
SetPass(c) ==
  /\ c \notin passStatus
  /\ passStatus' = passStatus \cup {c}
  /\ UNCHANGED <<clients, nickStatus, userStatus, registeredStatus,
                 nickname, prefix, nickNameClientMap>>

SetNick_PrefixLater(c, n) ==
  /\ c \in passStatus
  /\ ~NickInUse(n)
  /\ nickname' = [nickname EXCEPT ![c] = n]
  /\ nickStatus' = nickStatus \cup {c}
  /\ nickNameClientMap' = [Erase(nickNameClientMap, {nickname[c]}) EXCEPT ![n] = c]
  /\ UNCHANGED <<clients, passStatus, userStatus, registeredStatus, prefix>>

SetNick_OnlyUnregisteredIndexed(c, n) ==
  /\ c \in passStatus
  /\ ~NickInUse(n)
  /\ nickname' = [nickname EXCEPT ![c] = n]
  /\ nickStatus' = nickStatus \cup {c}
  /\ prefix' = IF c \in registeredStatus THEN [prefix EXCEPT ![c] = n] ELSE prefix
  /\ nickNameClientMap' = IF c \in registeredStatus THEN nickNameClientMap
                          ELSE [nickNameClientMap EXCEPT ![n] = c]
  /\ UNCHANGED <<clients, passStatus, userStatus, registeredStatus>>

\* cmdNick, past its checks: only a registered client has its prefix rebuilt
\* and its old name taken out of the index.
SetNick(c, n) ==
  /\ c \in passStatus
  /\ ~NickInUse(n)
  /\ nickname' = [nickname EXCEPT ![c] = n]
  /\ nickStatus' = nickStatus \cup {c}
  /\ IF c \in registeredStatus
     THEN /\ prefix' = [prefix EXCEPT ![c] = n]
          /\ nickNameClientMap' = [nickNameClientMap EXCEPT ![nickname[c]] = NoClient,
                                                            ![n] = c]
     ELSE /\ nickNameClientMap' = [nickNameClientMap EXCEPT ![n] = c]
          /\ UNCHANGED prefix
  /\ UNCHANGED <<clients, passStatus, userStatus, registeredStatus>>

\* cmdUser, past its checks: USER is the one command that completes a
\* registration, NICK never does.
SetUser(c) ==
  /\ c \in passStatus \ registeredStatus
  /\ prefix' = [prefix EXCEPT ![c] = nickname[c]]
  /\ userStatus' = userStatus \cup {c}
  /\ registeredStatus' = registeredStatus \cup ({c} \cap nickStatus)
  /\ UNCHANGED <<clients, passStatus, nickStatus, nickname, nickNameClientMap>>

RemoveMarked_KeepsMarks ==
  /\ toRemove # {}
  /\ clients' = clients \ toRemove
  /\ passStatus' = passStatus \ toRemove
  /\ nickStatus' = nickStatus \ toRemove
  /\ userStatus' = userStatus \ toRemove
  /\ registeredStatus' = registeredStatus \ toRemove
  /\ nickname' = [c \in Clients |-> IF c \in toRemove THEN NoNick ELSE nickname[c]]
  /\ prefix' = [c \in Clients |-> IF c \in toRemove THEN NoNick ELSE prefix[c]]
  /\ nickNameClientMap' = Erase(nickNameClientMap, {nickname[c] : c \in toRemove})
  /\ UNCHANGED toRemove

\* cleanupMarkedClients: removeClientFromServer for every marked client, which
\* erases it from both maps and deletes it.  A deleted object's fields take the
\* values that Client::Client gives the next object of that descriptor.
RemoveMarked ==
  /\ toRemove # {}
  /\ clients' = clients \ toRemove
  /\ toRemove' = {}
  /\ passStatus' = passStatus \ toRemove
  /\ nickStatus' = nickStatus \ toRemove
  /\ userStatus' = userStatus \ toRemove
  /\ registeredStatus' = registeredStatus \ toRemove
  /\ nickname' = [c \in Clients |-> IF c \in toRemove THEN NoNick ELSE nickname[c]]
  /\ prefix' = [c \in Clients |-> IF c \in toRemove THEN NoNick ELSE prefix[c]]
  /\ nickNameClientMap' = Erase(nickNameClientMap, {nickname[c] : c \in toRemove})

-----------------------------------------------------------------------------

\* The registry by itself.  Whatever ends a connection (QUIT, a lost socket, a
\* ping timeout, a refused command, a failed send) is a Mark.
RegNext ==
  \/ \E c \in Clients : AcceptClient(c)
  \/ \E c \in Served : SetPass(c) /\ UNCHANGED toRemove
  \/ \E c \in Served, n \in Nicks, lost \in SUBSET clients : SetNick(c, n) /\ Mark(lost)
  \/ \E c \in Served, lost \in SUBSET clients : SetUser(c) /\ Mark(lost)
  \/ \E S \in SUBSET clients : Mark(S) /\ UNCHANGED <<clients, identity>>
  \/ RemoveMarked

RegSpec == RegInit /\ [][RegNext]_regVars

-----------------------------------------------------------------------------

\* No two connections hold the same nickname, also while one of them waits for
\* teardown and over reconnects and renames (checkNick's INUSE check).
UniqueNicks ==
  \A c, d \in clients : nickname[c] = nickname[d] /\ nickname[c] # NoNick => c = d

\* The index finds every client that has a nickname, whatever sequence of NICK,
\* disconnects and reuses of the name led here (addChannelOperator trusts it).
NickIndexed ==
  \A c \in clients : nickname[c] # NoNick => nickNameClientMap[nickname[c]] = c

\* A registered client went through PASS, NICK and USER, and what it sends goes
\* out under the nickname it has now (the prefix is a cached copy).
RegisteredComplete ==
  \A c \in registeredStatus :
    /\ c \in clients \cap passStatus \cap nickStatus \cap userStatus
    /\ nickname[c] # NoNick
    /\ prefix[c] = nickname[c]

\* What a deleted Client leaves behind in its slot.
FreeSlotsClear ==
  \A c \in Clients \ clients :
    /\ c \notin passStatus \cup nickStatus \cup userStatus \cup registeredStatus
    /\ nickname[c] = NoNick

\* A nickname is there exactly when a NICK succeeded.
NickStatusExact == \A c \in Clients : c \in nickStatus <=> nickname[c] # NoNick

\* The inductive invariant of the registry: the last two parts are what a new
\* client and a USER rely on.
RegInv ==
  /\ RegTypeOK
  /\ UniqueNicks
  /\ NickIndexed
  /\ RegisteredComplete
  /\ FreeSlotsClear
  /\ NickStatusExact

\* README: the single cleanup point covers the nickname map, so that nothing is
\* used after it was freed: every entry of the index is a live client.
IndexHoldsOnlyLive == \A n \in Nicks : nickNameClientMap[n] \in clients \cup {NoClient}
=============================================================================
