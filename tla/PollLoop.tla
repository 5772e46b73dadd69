------------------------------ MODULE PollLoop ------------------------------
(***************************************************************************)
(* The loop of IrcServer::run: ping timeouts, poll, one pass over _fds,    *)
(* one cleanup.  The listening socket is the first slot of _fds; a marked  *)
(* client's slot is -1 until the cleanup takes it out; a new client's slot *)
(* is added at the end while the pass goes on.  What the commands do to    *)
(* nicknames and channels is below this level (module IrcServer), and so   *)
(* are the bytes of a connection (module Connection).                      *)
(***************************************************************************)
EXTENDS Naturals, Sequences, FiniteSets

CONSTANTS
  Clients,      \* the descriptors of accepted connections
  Server,       \* the listening socket, this->_fd
  None,         \* the -1 of a marked client's slot
  MaxClients    \* MAX_CLIENTS

ASSUME LoopAssumption ==
  /\ MaxClients \in Nat
  /\ Clients \subseteq Nat
  /\ Server \notin Clients
  /\ None \notin Clients \cup {Server}

VARIABLES
  \* the server
  clients,      \* the keys of _clients
  toRemove,     \* _toRemove
  fds,          \* _fds: descriptor and revents of each slot
  pc,           \* where run is: "check", "poll", "pass", "stopped"
  slot,         \* the index of the pass
  \* its peers and the clock
  knocking,     \* a connection waits to be accepted
  inbox,        \* what waits to be received from each client
  broken,       \* the clients whose socket is dead
  late,         \* those silent for more than WAIT_FOR_PING_MAX
  \* history
  unread,       \* reported readable by this poll, and not read since
  aborted       \* the last pass was left by an exception

serverVars == <<clients, toRemove, fds, pc, slot>>
peerVars == <<knocking, inbox, broken, late>>
vars == <<serverVars, peerVars, unread, aborted>>

\* What can wait in a socket.
Waiting == {"nothing", "commands", "end"}

Slot(fd, revents) == [fd |-> fd, revents |-> revents]

Init ==
  /\ clients = {} /\ toRemove = {}
  /\ fds = <<Slot(Server, {})>>
  /\ pc = "check" /\ slot = 1
  /\ knocking = FALSE
  /\ inbox = [c \in Clients |-> "nothing"]
  /\ broken = {} /\ late = {}
  /\ unread = {} /\ aborted = FALSE

-----------------------------------------------------------------------------

Unmarked == clients \ toRemove

Mark_EraseSlot(S) ==
  /\ toRemove' = toRemove \cup (S \cap clients)
  /\ fds' = SelectSeq(fds, LAMBDA s : s.fd \notin S)

\* markClientForRemoval on each of S: only known clients, twice is once, and
\* the slot stays where it is.
Mark(S) ==
  /\ toRemove' = toRemove \cup (S \cap clients)
  /\ fds' = [k \in 1..Len(fds) |->
               IF fds[k].fd \in S THEN [fds[k] EXCEPT !.fd = None] ELSE fds[k]]

\* checkPingTimeOut.
CheckPingTimeOut ==
  /\ pc = "check"
  /\ Mark(late \cap clients)
  /\ pc' = "poll"
  /\ UNCHANGED <<clients, slot, peerVars, unread, aborted>>

\* What poll reports of a slot.  POLLOUT is asked for and reported for any of
\* the clients (module SendPath says when).
Revents(fd, out) ==
  {e \in {"in", "out", "err"} :
     \/ e = "in"  /\ fd = Server /\ knocking
     \/ e = "in"  /\ fd \in Clients /\ inbox[fd] # "nothing"
     \/ e = "out" /\ fd \in out
     \/ e = "err" /\ fd \in broken}

PollReturns(out) ==
  /\ pc = "poll"
  /\ fds' = [k \in 1..Len(fds) |-> [fds[k] EXCEPT !.revents = Revents(fds[k].fd, out)]]
  /\ pc' = "pass"
  /\ slot' = 1
  /\ unread' = {c \in Unmarked : inbox[c] # "nothing"}
  /\ aborted' = FALSE
  /\ UNCHANGED <<clients, toRemove, peerVars>>

\* EINTR, or an error of poll that run recovers from.
PollInterrupted ==
  /\ pc = "poll"
  /\ pc' = "check"
  /\ UNCHANGED <<clients, toRemove, fds, slot, peerVars, unread, aborted>>

-----------------------------------------------------------------------------

\* The errors of acceptClient.
AcceptErrors ==
  {"socket creation", "client acceptance", "client socket non-blocking"}

\* canRecover: an error whose text names the socket ends the server.
CanRecover(error) == error = "client acceptance"

ProcessServerEvent_Error_Passed(error) == error

\* processServerEvent catches every error of acceptClient; run then throws
\* ERR_ACCEPT_CLIENT itself.
ProcessServerEvent_Error(error) == "client acceptance"

\* The exception leaves the pass: the slots behind and the cleanup are skipped.
Throw(error) ==
  /\ aborted' = TRUE
  /\ pc' = IF CanRecover(error) THEN "check" ELSE "stopped"
  /\ UNCHANGED <<clients, toRemove, fds, slot, inbox, broken, late, unread>>

InPass(fd) == pc = "pass" /\ slot <= Len(fds) /\ fds[slot].fd = fd
Reported(e) == e \in fds[slot].revents
NextSlot == slot' = slot + 1 /\ UNCHANGED <<pc, aborted>>

\* The descriptor that accept returns.
LowestFree(c) == c \notin clients /\ \A d \in Clients : d < c => d \in clients

AcceptClient_GarbageRevents(c) ==
  /\ InPass(Server) /\ Reported("in") /\ knocking
  /\ Len(fds) - 1 < MaxClients
  /\ LowestFree(c)
  /\ clients' = clients \cup {c}
  /\ fds' = Append(fds, Slot(c, fds[slot].revents))
  /\ knocking' = FALSE
  /\ NextSlot
  /\ UNCHANGED <<toRemove, inbox, broken, late, unread>>

AcceptClient_CountsUnmarked(c) ==
  /\ InPass(Server) /\ Reported("in") /\ knocking
  /\ Cardinality(Unmarked) < MaxClients
  /\ LowestFree(c)
  /\ clients' = clients \cup {c}
  /\ fds' = Append(fds, Slot(c, {}))
  /\ knocking' = FALSE
  /\ NextSlot
  /\ UNCHANGED <<toRemove, inbox, broken, late, unread>>

AcceptClient_SameSlotAgain(c) ==
  /\ InPass(Server) /\ Reported("in") /\ knocking
  /\ Len(fds) - 1 < MaxClients
  /\ LowestFree(c)
  /\ clients' = clients \cup {c}
  /\ fds' = Append(fds, Slot(c, {}))
  /\ knocking' = FALSE
  /\ UNCHANGED <<toRemove, inbox, broken, late, unread, slot, pc, aborted>>

\* acceptClient: the new slot has no events.  The limit counts slots, those of
\* marked clients too.
AcceptClient(c) ==
  /\ InPass(Server) /\ Reported("in") /\ knocking
  /\ Len(fds) - 1 < MaxClients
  /\ LowestFree(c)
  /\ clients' = clients \cup {c}
  /\ fds' = Append(fds, Slot(c, {}))
  /\ knocking' = FALSE
  /\ NextSlot
  /\ UNCHANGED <<toRemove, inbox, broken, late, unread>>

\* acceptClient at the limit, where the new connection is closed, or any of its
\* errors, after which the connection may still be waiting.
RefuseClient ==
  /\ InPass(Server) /\ Reported("in")
  /\ \E error \in AcceptErrors : Throw(ProcessServerEvent_Error(error))
  /\ IF Len(fds) - 1 < MaxClients THEN knocking' \in {FALSE, knocking} ELSE knocking' = FALSE

-----------------------------------------------------------------------------

\* processClientRead takes what waits.  Here the commands do no more than lose
\* clients: their own, by QUIT or a refusal before registration, and those to
\* which something is sent in vain.  If a PING is among them the client is late
\* no more.
Read(c, lost) ==
  /\ Reported("in")
  /\ unread' = unread \ {c}
  /\ inbox' = [inbox EXCEPT ![c] = "nothing"]
  /\ IF c \in broken \/ inbox[c] \in {"end", "nothing"}
     THEN lost = {c} /\ UNCHANGED late
     ELSE /\ lost \subseteq broken \cup {c}
          /\ late' \in {late, late \ {c}}

DoNotRead == ~Reported("in") /\ UNCHANGED <<inbox, late, unread>>

ServeClient_NoErrorBranch(c) ==
  /\ InPass(c)
  /\ \E lost \in SUBSET Clients :
       /\ Read(c, lost) \/ (DoNotRead /\ lost = {})
       /\ Mark(lost \cup {d \in {c} : Reported("out") /\ c \in broken})
  /\ NextSlot
  /\ UNCHANGED <<clients, knocking, broken>>

ServeClient_ReadsOrWrites(c) ==
  /\ InPass(c)
  /\ \E lost \in SUBSET Clients :
       /\ \/ ~Reported("out") /\ Read(c, lost)
          \/ lost = {} /\ UNCHANGED <<inbox, late, unread>> /\ (Reported("out") \/ ~Reported("in"))
       /\ Mark(lost \cup {d \in {c} : Reported("err") \/ (Reported("out") /\ c \in broken)})
  /\ NextSlot
  /\ UNCHANGED <<clients, knocking, broken>>

\* run, one slot of a client: read, write, then look for errors.  A write fails
\* exactly on a dead socket.
ServeClient(c) ==
  /\ InPass(c)
  /\ \E lost \in SUBSET Clients :
       /\ Read(c, lost) \/ (DoNotRead /\ lost = {})
       /\ Mark(lost \cup {d \in {c} : Reported("err") \/ (Reported("out") /\ c \in broken)})
  /\ NextSlot
  /\ UNCHANGED <<clients, knocking, broken>>

\* A slot without events, and the slot of a client that was marked earlier in
\* this pass and may still have some: getClient(-1) finds nobody.
SkipSlot ==
  /\ InPass(None) \/ (pc = "pass" /\ slot <= Len(fds) /\ fds[slot].revents = {})
  /\ NextSlot
  /\ UNCHANGED <<clients, toRemove, fds, peerVars, unread>>

\* The elements of K in their order.
Increasing(K) ==
  CHOOSE f \in [1..Cardinality(K) -> K] :
    \A i, j \in 1..Cardinality(K) : i < j => f[i] < f[j]

\* The slots that are not -1, in their order.
UsedSlots == {k \in 1..Len(fds) : fds[k].fd # None}
Compressed == [j \in 1..Cardinality(UsedSlots) |-> fds[Increasing(UsedSlots)[j]]]

CleanupMarkedClients_KeepsMarks ==
  /\ pc = "pass" /\ slot > Len(fds)
  /\ clients' = clients \ toRemove
  /\ fds' = Compressed
  /\ pc' = "check"
  /\ slot' = 1
  /\ UNCHANGED <<toRemove, peerVars, unread, aborted>>

CleanupMarkedClients_SlotsStay ==
  /\ pc = "pass" /\ slot > Len(fds)
  /\ clients' = clients \ toRemove
  /\ toRemove' = {}
  /\ pc' = "check"
  /\ slot' = 1
  /\ inbox' = [c \in Clients |-> IF c \in toRemove THEN "nothing" ELSE inbox[c]]
  /\ broken' = broken \ toRemove
  /\ late' = late \ toRemove
  /\ unread' = unread \ toRemove
  /\ UNCHANGED <<fds, knocking, aborted>>

\* cleanupMarkedClients, at the end of the pass: the marked clients are deleted
\* and their sockets closed, the slots that are -1 are taken out.
CleanupMarkedClients ==
  /\ pc = "pass" /\ slot > Len(fds)
  /\ clients' = clients \ toRemove
  /\ toRemove' = {}
  /\ fds' = Compressed
  /\ pc' = "check"
  /\ slot' = 1
  /\ inbox' = [c \in Clients |-> IF c \in toRemove THEN "nothing" ELSE inbox[c]]
  /\ broken' = broken \ toRemove
  /\ late' = late \ toRemove
  /\ unread' = unread \ toRemove
  /\ UNCHANGED <<knocking, aborted>>

Run ==
  \/ CheckPingTimeOut
  \/ \E out \in SUBSET Unmarked : PollReturns(out)
  \/ PollInterrupted
  \/ \E c \in Clients : AcceptClient(c) \/ ServeClient(c)
  \/ RefuseClient
  \/ SkipSlot
  \/ CleanupMarkedClients

\* The peers, and time.
Knock == ~knocking /\ knocking' = TRUE /\ UNCHANGED <<inbox, broken, late>>
Arrive(c) ==
  /\ inbox[c] = "nothing" /\ c \notin broken
  /\ \E what \in Waiting \ {"nothing"} : inbox' = [inbox EXCEPT ![c] = what]
  /\ UNCHANGED <<knocking, broken, late>>
Break(c) == c \notin broken /\ broken' = broken \cup {c} /\ UNCHANGED <<knocking, inbox, late>>
TurnLate(c) == c \notin late /\ late' = late \cup {c} /\ UNCHANGED <<knocking, inbox, broken>>

Outside ==
  /\ Knock \/ \E c \in clients : Arrive(c) \/ Break(c) \/ TurnLate(c)
  /\ UNCHANGED <<serverVars, unread, aborted>>

Next == Run \/ Outside

Spec == Init /\ [][Next]_vars

\* run never rests, and poll is not interrupted for ever.
Fairness ==
  /\ WF_vars(Run)
  /\ SF_vars(\E out \in SUBSET Unmarked : PollReturns(out))

FairSpec == Spec /\ Fairness

-----------------------------------------------------------------------------

TypeOK ==
  /\ clients \subseteq Clients /\ toRemove \subseteq clients
  /\ fds \in Seq([fd : Clients \cup {Server, None}, revents : SUBSET {"in", "out", "err"}])
  /\ pc \in {"check", "poll", "pass", "stopped"} /\ slot \in Nat
  /\ knocking \in BOOLEAN /\ aborted \in BOOLEAN
  /\ inbox \in [Clients -> Waiting]
  /\ broken \subseteq clients /\ late \subseteq clients /\ unread \subseteq clients

\* The slots are those of the clients: the socket of every client is polled
\* until it is marked, each in one slot, and a marked client's slot counts until
\* the cleanup, whatever was accepted, marked or skipped in the meantime.
SlotsMatch ==
  /\ fds[1].fd = Server
  /\ Len(fds) = 1 + Cardinality(clients)
  /\ \A c \in clients : c \in toRemove <=> \A k \in 2..Len(fds) : fds[k].fd # c
  /\ \A j, k \in 1..Len(fds) : fds[j].fd = fds[k].fd /\ fds[j].fd # None => j = k

\* A pass that ran to its end has read from everybody who had something to read
\* and was not marked: no mark and no new slot makes it step over a client.  So
\* a PING that poll reported saves its client from the next timeout.
PassServesAll == pc = "check" /\ ~aborted => unread \subseteq toRemove

\* No error of accept ends the server.
KeepsRunning == pc # "stopped"

\* A client is marked only for something it sent, a dead socket or its silence.
\* A client that has just come is not taken for one that poll reported.
NoneDroppedWithoutCause ==
  [][\A c \in toRemove' \ toRemove : c \in broken \cup late \/ inbox[c] # "nothing"]_vars

\* What a pass may still look at: the slots ahead of it, and the one that the
\* listening socket may add.
ToGo == Len(fds) + 1 - slot + (IF slot = 1 THEN 1 ELSE 0)

\* A pass ends: it walks a vector that grows under it, and yet every step of it
\* leaves less to go, whatever is accepted, marked and sent meanwhile.  Peers
\* that keep connecting do not make it endless (a refusal only cuts it short).
PassEnds ==
  [][pc = "pass" /\ pc' = "pass" =>
       (ToGo \in Nat /\ ToGo' < ToGo) \/ UNCHANGED serverVars]_vars

\* At this level the registry accepts, marks and removes clients.
Reg == INSTANCE Registry WITH
  Nicks <- {}, NoNick <- None, NoClient <- None,
  passStatus <- {}, nickStatus <- {}, userStatus <- {}, registeredStatus <- {},
  nickname <- [c \in Clients |-> None], prefix <- [c \in Clients |-> None],
  nickNameClientMap <- [n \in {} |-> None]

\* The loop implements the registry: the limit in slots is the limit in clients,
\* marks only add, and clients go all at once when they are all marked.
ImplementsRegistry == Reg!RegSpec

\* Once no pass is left by an exception any more, no client stays marked, dead
\* or silent for ever: it is removed in the end, or lets itself be heard...
CalmSometime == <>[]~aborted
LostAreRemoved ==
  CalmSometime => \A c \in Clients : []<>(c \notin toRemove \cup broken \cup late)

\* ...and nothing that a client has sent stays unread for ever.
SendersAreHeard == CalmSometime => \A c \in Clients : []<>(inbox[c] = "nothing")

-----------------------------------------------------------------------------

\* canRecover: errors of accept are ignored and the server carries on.  For its
\* clients that would mean that what they send is read and that the marked ones
\* go, also while connections keep being refused.
AcceptErrorsAreIgnored ==
  \A c \in Clients : []<>(c \notin toRemove) /\ []<>(inbox[c] = "nothing")
=============================================================================
