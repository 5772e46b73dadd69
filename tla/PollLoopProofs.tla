--------------------------- MODULE PollLoopProofs ---------------------------
(***************************************************************************)
(* The slots of the poll loop are those of its clients, and a whole pass   *)
(* leaves nobody unread, for any number of clients and any limit.          *)
(***************************************************************************)
EXTENDS PollLoop, WellOrder, FiniteSetTheorems

\* f enumerates K in its order.
Enumerates(f, K) ==
  /\ f \in [1..Cardinality(K) -> K]
  /\ \A i, j \in 1..Cardinality(K) : i < j => f[i] < f[j]

\* Every finite set of positions can be enumerated: of a smallest set that cannot
\* be, take the smallest element away.
LEMMA EnumerationExists ==
  ASSUME NEW N \in Nat, NEW K \in SUBSET (1..N)
  PROVE  IsFiniteSet(K) /\ Cardinality(K) \in Nat /\ \E f : Enumerates(f, K)
<1>1. ASSUME NEW L \in SUBSET (1..N)
      PROVE  IsFiniteSet(L) /\ Cardinality(L) \in Nat /\ \A k \in L : k \in Nat
  <2>1. 1 \in Int /\ N \in Int
    OBVIOUS
  <2>2. IsFiniteSet(1..N)
    BY <2>1, FS_Interval
  <2>3. IsFiniteSet(L)
    BY <2>2, FS_Subset
  <2>4. Cardinality(L) \in Nat
    BY <2>3, FS_CardinalityType
  <2> QED
    BY <2>3, <2>4
<1> DEFINE Bad == {n \in Nat : \E L \in SUBSET (1..N) :
                                  Cardinality(L) = n /\ ~\E f : Enumerates(f, L)}
<1>2. ASSUME Bad # {} PROVE FALSE
  <2>1. PICK n \in Bad : \A m \in Bad : n <= m
    BY <1>2, Smallest
  <2>2. PICK L \in SUBSET (1..N) : Cardinality(L) = n /\ ~\E f : Enumerates(f, L)
    BY <2>1
  <2>3. n \in Nat
    BY <2>1
  <2>4. CASE L = {}
    <3>1. Cardinality(L) = 0
      BY <2>4, FS_EmptySet
    <3>2. [i \in 1..0 |-> 0] \in [1..0 -> L]
      OBVIOUS
    <3>3. Enumerates([i \in 1..0 |-> 0], L)
      BY <3>1, <3>2 DEF Enumerates
    <3> QED
      BY <2>2, <3>3
  <2>5. CASE L # {}
    <3>1. PICK m \in L : \A k \in L : m <= k
      BY <2>5, Smallest
    <3>2. L \ {m} \in SUBSET (1..N) /\ Cardinality(L \ {m}) = n - 1
      BY <1>1, <2>2, <3>1, FS_RemoveElement
    <3>3. n - 1 \in Nat
      BY <1>1, <3>2
    <3>4. n - 1 \notin Bad
      BY <2>1, <2>3
    <3>5. PICK g : Enumerates(g, L \ {m})
      BY <3>2, <3>3, <3>4
    <3>6. /\ g \in [1..(n - 1) -> L \ {m}]
          /\ \A i, j \in 1..(n - 1) : i < j => g[i] < g[j]
      BY <3>2, <3>5 DEF Enumerates
    <3> DEFINE f == [i \in 1..n |-> IF i = 1 THEN m ELSE g[i - 1]]
    <3>7. ASSUME NEW i \in 1..n, i # 1 PROVE i - 1 \in 1..(n - 1)
      BY <2>3, <3>7
    <3>8. f \in [1..n -> L]
      BY <3>6, <3>7
    <3>9. ASSUME NEW i \in 1..n, NEW j \in 1..n, i < j PROVE f[i] < f[j]
      <4>1. j # 1 /\ f[j] = g[j - 1] /\ j - 1 \in 1..(n - 1)
        BY <3>7, <3>9
      <4>2. g[j - 1] \in L \ {m}
        BY <3>6, <4>1
      <4>3. CASE i = 1
        <5>1. f[i] = m /\ m <= g[j - 1] /\ m # g[j - 1]
          BY <3>1, <4>2, <4>3
        <5>2. m \in Nat /\ g[j - 1] \in Nat
          BY <1>1, <2>2, <3>1, <4>2
        <5> QED
          BY <4>1, <5>1, <5>2
      <4>4. CASE i # 1
        <5>1. f[i] = g[i - 1] /\ i - 1 \in 1..(n - 1) /\ i - 1 < j - 1
          BY <3>7, <3>9, <4>4
        <5> QED
          BY <3>6, <4>1, <5>1
      <4> QED
        BY <4>3, <4>4
    <3>10. Enumerates(f, L)
      BY <2>2, <3>8, <3>9 DEF Enumerates
    <3> QED
      BY <2>2, <3>10
  <2> QED
    BY <2>4, <2>5
<1>3. Cardinality(K) \notin Bad
  BY <1>2
<1> QED
  BY <1>1, <1>3

\* So Increasing is such an enumeration, and no element is left out of it.
LEMMA IncreasingEnumerates ==
  ASSUME NEW N \in Nat, NEW K \in SUBSET (1..N)
  PROVE  /\ Enumerates(Increasing(K), K)
         /\ \A k \in K : \E i \in 1..Cardinality(K) : Increasing(K)[i] = k
<1>1. IsFiniteSet(K) /\ Cardinality(K) \in Nat
  BY EnumerationExists
<1>2. PICK f : Enumerates(f, K)
  BY EnumerationExists
<1>3. Enumerates(Increasing(K), K)
  BY <1>2 DEF Increasing, Enumerates
<1>4. PICK order \in [1..Cardinality(K) -> K] :
        /\ order = Increasing(K)
        /\ \A i, j \in 1..Cardinality(K) : i < j => order[i] < order[j]
  BY <1>3 DEF Enumerates
<1>5. \A i, j \in 1..Cardinality(K) : order[i] = order[j] => i = j
  <2> SUFFICES ASSUME NEW i \in 1..Cardinality(K), NEW j \in 1..Cardinality(K), i # j
               PROVE  order[i] # order[j]
    OBVIOUS
  <2>1. i < j \/ j < i
    BY <1>1
  <2>2. order[i] \in Nat /\ order[j] \in Nat
    <3>1. order[i] \in K /\ order[j] \in K
      BY <1>4
    <3>2. \A k \in K : k \in Nat
      OBVIOUS
    <3> QED
      BY <3>1, <3>2
  <2>3. order[i] < order[j] \/ order[j] < order[i]
    BY <1>4, <2>1
  <2> QED
    BY <2>2, <2>3
<1>6. order \in Injection(1..Cardinality(K), K)
  BY <1>4, <1>5 DEF Injection, IsInjective
<1>7. Cardinality(1..Cardinality(K)) = Cardinality(K)
  BY <1>1, FS_Interval
<1>8. order \in Surjection(1..Cardinality(K), K)
  BY <1>1, <1>6, <1>7, FS_Injection
<1> QED
  BY <1>3, <1>4, <1>8 DEF Surjection

-----------------------------------------------------------------------------

SlotType == [fd : Clients \cup {Server, None}, revents : SUBSET {"in", "out", "err"}]

\* The invariant, first part: the slots, the clients and the marks.
Slots ==
  /\ fds \in Seq(SlotType)
  /\ clients \subseteq Clients /\ toRemove \subseteq clients
  /\ IsFiniteSet(clients)
  /\ SlotsMatch
  /\ \A k \in 1..Len(fds) : fds[k].fd \in clients \cup {Server, None}

\* Second part: everything else has its type, and the loop runs.
Others ==
  /\ pc \in {"check", "poll", "pass"} /\ slot \in Nat \ {0}
  /\ knocking \in BOOLEAN /\ aborted \in BOOLEAN
  /\ inbox \in [Clients -> Waiting]
  /\ broken \subseteq clients /\ late \subseteq clients /\ unread \subseteq clients

\* Third part: ahead of the pass is the slot of everybody who is still to be read,
\* and what poll reported there is still true.
Ahead ==
  /\ pc \in {"check", "poll"} /\ ~aborted => unread \subseteq toRemove
  /\ pc = "pass" =>
       /\ \A c \in unread \ toRemove :
            \E k \in slot..Len(fds) : fds[k].fd = c /\ "in" \in fds[k].revents
       /\ \A k \in slot..Len(fds) : \A c \in Clients :
            fds[k].fd = c => /\ "in" \in fds[k].revents => inbox[c] # "nothing"
                             /\ "err" \in fds[k].revents => c \in broken

LoopInv == Slots /\ Others /\ Ahead

LEMMA LoopInvImplies == LoopInv => TypeOK /\ SlotsMatch /\ PassServesAll /\ KeepsRunning
<1> SUFFICES ASSUME LoopInv PROVE TypeOK /\ SlotsMatch /\ PassServesAll /\ KeepsRunning
  OBVIOUS
<1>1. TypeOK
  BY DEF LoopInv, Slots, Others, SlotType, TypeOK
<1>2. SlotsMatch
  BY DEF LoopInv, Slots
<1>3. PassServesAll
  BY DEF LoopInv, Ahead, PassServesAll
<1>4. KeepsRunning
  BY DEF LoopInv, Others, KeepsRunning
<1> QED
  BY <1>1, <1>2, <1>3, <1>4

LEMMA LoopInitInv == Init => LoopInv
<1> SUFFICES ASSUME Init PROVE LoopInv
  OBVIOUS
<1>1. fds = <<[fd |-> Server, revents |-> {}]>> /\ clients = {} /\ toRemove = {}
  BY DEF Init, Slot
<1>2. /\ fds \in Seq(SlotType) /\ Len(fds) = 1 /\ fds[1].fd = Server
  BY <1>1 DEF SlotType
<1>3. IsFiniteSet(clients) /\ Cardinality(clients) = 0
  BY <1>1, FS_EmptySet
<1>4. SlotsMatch
  BY <1>1, <1>2, <1>3 DEF SlotsMatch
<1>5. Slots
  BY <1>1, <1>2, <1>3, <1>4 DEF Slots
<1>6. Others
  <2>1. pc \in {"check", "poll", "pass"} /\ slot \in Nat \ {0}
    BY DEF Init
  <2>2. knocking \in BOOLEAN /\ aborted \in BOOLEAN
    BY DEF Init
  <2>3. inbox \in [Clients -> Waiting]
    BY DEF Init, Waiting
  <2>4. broken \subseteq clients /\ late \subseteq clients /\ unread \subseteq clients
    BY DEF Init
  <2> QED
    BY <2>1, <2>2, <2>3, <2>4 DEF Others
<1>7. Ahead
  BY DEF Init, Ahead
<1> QED
  BY <1>5, <1>6, <1>7 DEF LoopInv

-----------------------------------------------------------------------------

\* What a mark does to the slots, one by one.
LEMMA MarkSlots ==
  ASSUME fds \in Seq(SlotType), NEW S, Mark(S)
  PROVE  /\ fds' \in Seq(SlotType) /\ Len(fds') = Len(fds)
         /\ \A k \in 1..Len(fds) :
              /\ fds'[k].fd = IF fds[k].fd \in S THEN None ELSE fds[k].fd
              /\ fds'[k].revents = fds[k].revents
<1>1. \A k \in 1..Len(fds) : fds[k] \in SlotType
  OBVIOUS
<1>2. Len(fds) \in Nat
  OBVIOUS
<1>3. fds' = [k \in 1..Len(fds) |->
                IF fds[k].fd \in S THEN [fds[k] EXCEPT !.fd = None] ELSE fds[k]]
  BY DEF Mark
<1>4. \A k \in 1..Len(fds) :
        /\ fds'[k] \in SlotType
        /\ fds'[k].fd = IF fds[k].fd \in S THEN None ELSE fds[k].fd
        /\ fds'[k].revents = fds[k].revents
  BY <1>1, <1>3 DEF SlotType
<1>5. fds' \in Seq(SlotType) /\ Len(fds') = Len(fds)
  BY <1>2, <1>3, <1>4
<1> QED
  BY <1>4, <1>5

\* Marks keep the slots those of the clients.
LEMMA MarkKeepsSlots ==
  ASSUME Slots, NEW S \in SUBSET Clients, Mark(S), UNCHANGED clients
  PROVE  Slots'
<1> USE LoopAssumption
<1>1. /\ fds \in Seq(SlotType) /\ clients \subseteq Clients /\ toRemove \subseteq clients
      /\ IsFiniteSet(clients) /\ SlotsMatch
      /\ \A k \in 1..Len(fds) : fds[k].fd \in clients \cup {Server, None}
  BY DEF Slots
<1>2. /\ fds' \in Seq(SlotType) /\ Len(fds') = Len(fds)
      /\ \A k \in 1..Len(fds) :
           fds'[k].fd = IF fds[k].fd \in S THEN None ELSE fds[k].fd
  BY <1>1, MarkSlots
<1>3. toRemove' = toRemove \cup (S \cap clients) /\ clients' = clients
  BY DEF Mark
<1>4. fds[1].fd = Server /\ Len(fds) = 1 + Cardinality(clients)
  BY <1>1 DEF SlotsMatch
<1>5. Len(fds) \in Nat /\ Len(fds) >= 1
  BY <1>1, <1>4, FS_CardinalityType
<1>6. fds'[1].fd = Server /\ Len(fds') = 1 + Cardinality(clients')
  <2>1. Server \notin S
    OBVIOUS
  <2>2. 1 \in 1..Len(fds)
    BY <1>5
  <2>3. fds'[1].fd = Server
    BY <1>2, <1>4, <2>1, <2>2
  <2> QED
    BY <1>2, <1>3, <1>4, <2>3
<1>7. \A c \in clients' : c \in toRemove' <=> \A k \in 2..Len(fds') : fds'[k].fd # c
  BY <1>1, <1>2, <1>3, <1>5 DEF SlotsMatch
<1>8. \A j, k \in 1..Len(fds') : fds'[j].fd = fds'[k].fd /\ fds'[j].fd # None => j = k
  BY <1>1, <1>2 DEF SlotsMatch
<1>9. SlotsMatch'
  BY <1>6, <1>7, <1>8 DEF SlotsMatch
<1>10. \A k \in 1..Len(fds') : fds'[k].fd \in clients' \cup {Server, None}
  BY <1>1, <1>2, <1>3
<1> QED
  BY <1>1, <1>2, <1>3, <1>9, <1>10 DEF Slots

\* Slots that are not touched stay those of the clients.
LEMMA SlotsStay == Slots /\ UNCHANGED <<clients, toRemove, fds>> => Slots'
BY DEF Slots, SlotsMatch

\* poll writes the revents and nothing else.
LEMMA PollKeepsSlots ==
  ASSUME LoopInv, NEW out \in SUBSET Unmarked, PollReturns(out)
  PROVE  /\ Slots'
         /\ Len(fds') = Len(fds)
         /\ \A k \in 1..Len(fds) : /\ fds'[k].fd = fds[k].fd
                                   /\ fds'[k].revents = Revents(fds[k].fd, out)
<1>1. /\ fds \in Seq(SlotType) /\ clients \subseteq Clients /\ toRemove \subseteq clients
      /\ IsFiniteSet(clients) /\ SlotsMatch
      /\ \A k \in 1..Len(fds) : fds[k].fd \in clients \cup {Server, None}
  BY DEF LoopInv, Slots
<1>2. /\ fds' = [k \in 1..Len(fds) |-> [fds[k] EXCEPT !.revents = Revents(fds[k].fd, out)]]
      /\ clients' = clients /\ toRemove' = toRemove
  BY DEF PollReturns
<1>3. \A k \in 1..Len(fds) : fds[k] \in SlotType /\ Revents(fds[k].fd, out) \in SUBSET {"in", "out", "err"}
  BY <1>1 DEF Revents
<1>4. \A k \in 1..Len(fds) : /\ fds'[k] \in SlotType
                             /\ fds'[k].fd = fds[k].fd
                             /\ fds'[k].revents = Revents(fds[k].fd, out)
  <2> HIDE DEF Revents
  <2> QED
    BY <1>2, <1>3 DEF SlotType
<1>5. Len(fds) \in Nat
  BY <1>1
<1>6. fds' \in Seq(SlotType) /\ Len(fds') = Len(fds)
  BY <1>2, <1>4, <1>5
<1>7. fds[1].fd = Server /\ Len(fds) = 1 + Cardinality(clients) /\ Len(fds) >= 1
  BY <1>1, FS_CardinalityType DEF SlotsMatch
<1>8. SlotsMatch'
  <2>1. 1 \in 1..Len(fds)
    BY <1>5, <1>7
  <2>2. fds'[1].fd = Server /\ Len(fds') = 1 + Cardinality(clients')
    BY <1>2, <1>4, <1>6, <1>7, <2>1
  <2>3. \A k \in 2..Len(fds) : fds'[k].fd = fds[k].fd
    BY <1>4, <1>5
  <2>4. \A c \in clients' : c \in toRemove' <=> \A k \in 2..Len(fds') : fds'[k].fd # c
    <3>1. \A c \in clients : c \in toRemove <=> \A k \in 2..Len(fds) : fds[k].fd # c
      BY <1>1 DEF SlotsMatch
    <3>2. \A c : (\A k \in 2..Len(fds) : fds[k].fd # c) <=> \A k \in 2..Len(fds') : fds'[k].fd # c
      BY <1>6, <2>3
    <3> QED
      BY <1>2, <3>1, <3>2
  <2>5. \A j, k \in 1..Len(fds') : fds'[j].fd = fds'[k].fd /\ fds'[j].fd # None => j = k
    BY <1>1, <1>4, <1>6 DEF SlotsMatch
  <2> QED
    BY <2>2, <2>4, <2>5 DEF SlotsMatch
<1>9. Slots'
  BY <1>1, <1>2, <1>4, <1>6, <1>8 DEF Slots
<1> QED
  BY <1>4, <1>6, <1>9

\* A new client's slot is the last one.
LEMMA AcceptKeepsSlots ==
  ASSUME LoopInv, NEW c \in Clients, AcceptClient(c)
  PROVE  /\ Slots'
         /\ Len(fds') = Len(fds) + 1
         /\ \A k \in 1..Len(fds) : fds'[k] = fds[k]
         /\ fds'[Len(fds) + 1] = Slot(c, {})
<1> USE LoopAssumption
<1>1. /\ fds \in Seq(SlotType) /\ clients \subseteq Clients /\ toRemove \subseteq clients
      /\ IsFiniteSet(clients) /\ SlotsMatch
      /\ \A k \in 1..Len(fds) : fds[k].fd \in clients \cup {Server, None}
  BY DEF LoopInv, Slots
<1>2. /\ clients' = clients \cup {c} /\ c \notin clients /\ toRemove' = toRemove
      /\ fds' = Append(fds, Slot(c, {}))
  BY DEF AcceptClient, LowestFree
<1>3. Slot(c, {}) \in SlotType /\ Slot(c, {}).fd = c
  BY DEF Slot, SlotType
<1>4. /\ fds' \in Seq(SlotType) /\ Len(fds') = Len(fds) + 1
      /\ \A k \in 1..Len(fds) : fds'[k] = fds[k]
      /\ fds'[Len(fds) + 1] = Slot(c, {})
  BY <1>1, <1>2, <1>3
<1>5. /\ IsFiniteSet(clients') /\ Cardinality(clients') = Cardinality(clients) + 1
      /\ Cardinality(clients) \in Nat
  BY <1>1, <1>2, FS_AddElement, FS_CardinalityType
<1>6. fds[1].fd = Server /\ Len(fds) = 1 + Cardinality(clients)
  BY <1>1 DEF SlotsMatch
<1>7. Len(fds) \in Nat /\ Len(fds) >= 1
  BY <1>5, <1>6
<1>8. fds'[1].fd = Server /\ Len(fds') = 1 + Cardinality(clients')
  BY <1>4, <1>5, <1>6, <1>7
<1>9. \A d \in clients' : d \in toRemove' <=> \A k \in 2..Len(fds') : fds'[k].fd # d
  <2>1. Len(fds) + 1 \in 2..Len(fds') /\ fds'[Len(fds) + 1].fd = c /\ c \notin toRemove
    BY <1>1, <1>2, <1>3, <1>4, <1>7
  <2>2. ASSUME NEW d \in clients
        PROVE  d \in toRemove' <=> \A k \in 2..Len(fds') : fds'[k].fd # d
    <3>1. d # c
      BY <1>2
    <3>2. \A k \in 2..Len(fds') : k \in 2..Len(fds) \/ k = Len(fds) + 1
      BY <1>4, <1>7
    <3>3. \A k \in 2..Len(fds) : k \in 2..Len(fds') /\ fds'[k] = fds[k]
      BY <1>4, <1>7
    <3>4. d \in toRemove <=> \A k \in 2..Len(fds) : fds[k].fd # d
      BY <1>1 DEF SlotsMatch
    <3>5. (\A k \in 2..Len(fds) : fds[k].fd # d) <=> \A k \in 2..Len(fds') : fds'[k].fd # d
      BY <2>1, <3>1, <3>2, <3>3
    <3> QED
      BY <1>2, <3>4, <3>5
  <2> QED
    BY <1>2, <2>1, <2>2
<1>10. ASSUME NEW j \in 1..Len(fds'), NEW k \in 1..Len(fds'),
              fds'[j].fd = fds'[k].fd, fds'[j].fd # None
       PROVE  j = k
  <2>1. \A l \in 1..Len(fds) : fds'[l].fd = fds[l].fd /\ fds[l].fd # c
    BY <1>1, <1>2, <1>4
  <2>2. \A l \in 1..Len(fds') : l \in 1..Len(fds) \/ l = Len(fds) + 1
    BY <1>4, <1>7
  <2>3. fds'[Len(fds) + 1].fd = c
    BY <1>3, <1>4
  <2> QED
    BY <1>1, <1>10, <2>1, <2>2, <2>3 DEF SlotsMatch
<1>11. SlotsMatch'
  BY <1>8, <1>9, <1>10 DEF SlotsMatch
<1>12. \A k \in 1..Len(fds') : fds'[k].fd \in clients' \cup {Server, None}
  <2>1. \A k \in 1..Len(fds') : k \in 1..Len(fds) \/ k = Len(fds) + 1
    BY <1>4, <1>7
  <2> QED
    BY <1>1, <1>2, <1>3, <1>4, <2>1
<1>13. clients' \subseteq Clients /\ toRemove' \subseteq clients'
  BY <1>1, <1>2
<1> QED
  BY <1>4, <1>5, <1>11, <1>12, <1>13 DEF Slots

\* The cleanup takes out the slots of the marked clients and no others.
LEMMA CleanupKeepsSlots == LoopInv /\ CleanupMarkedClients => Slots'
<1> SUFFICES ASSUME LoopInv, CleanupMarkedClients PROVE Slots'
  OBVIOUS
<1> USE LoopAssumption
<1>1. /\ fds \in Seq(SlotType) /\ clients \subseteq Clients /\ toRemove \subseteq clients
      /\ IsFiniteSet(clients) /\ SlotsMatch
      /\ \A k \in 1..Len(fds) : fds[k].fd \in clients \cup {Server, None}
  BY DEF LoopInv, Slots
<1>2. Len(fds) \in Nat /\ UsedSlots \in SUBSET (1..Len(fds))
  BY <1>1 DEF UsedSlots
<1>3. PICK n \in Nat : n = Cardinality(UsedSlots)
  BY <1>2, EnumerationExists
<1>4. IsFiniteSet(UsedSlots)
  BY <1>2, EnumerationExists
<1>5. PICK order \in [1..n -> UsedSlots] :
        /\ order = Increasing(UsedSlots)
        /\ \A i, j \in 1..n : i < j => order[i] < order[j]
        /\ \A k \in UsedSlots : \E i \in 1..n : order[i] = k
  <2>1. Enumerates(Increasing(UsedSlots), UsedSlots)
    BY <1>2, IncreasingEnumerates
  <2>2. \A k \in UsedSlots : \E i \in 1..Cardinality(UsedSlots) : Increasing(UsedSlots)[i] = k
    BY <1>2, IncreasingEnumerates
  <2> QED
    BY <1>3, <2>1, <2>2 DEF Enumerates
<1>6. /\ fds' = [j \in 1..n |-> fds[order[j]]]
      /\ clients' = clients \ toRemove /\ toRemove' = {}
  BY <1>3, <1>5 DEF CleanupMarkedClients, Compressed
<1>7. \A i \in 1..n : order[i] \in 1..Len(fds) /\ fds'[i] = fds[order[i]] /\ fds[order[i]].fd # None
  BY <1>2, <1>5, <1>6 DEF UsedSlots
<1>8. fds' \in Seq(SlotType) /\ Len(fds') = n
  <2>1. \A i \in 1..n : fds'[i] \in SlotType
    BY <1>1, <1>7
  <2> QED
    BY <1>3, <1>6, <2>1
<1>9. fds[1].fd = Server /\ 1 \in UsedSlots
  <2>1. fds[1].fd = Server /\ Len(fds) = 1 + Cardinality(clients) /\ Cardinality(clients) \in Nat
    BY <1>1, FS_CardinalityType DEF SlotsMatch
  <2>2. 1 \in 1..Len(fds)
    BY <1>2, <2>1
  <2> QED
    BY <2>1, <2>2 DEF UsedSlots
<1>10. 1 \in 1..n /\ order[1] = 1
  <2>1. PICK i \in 1..n : order[i] = 1
    BY <1>5, <1>9
  <2>2. 1 \in 1..n
    BY <1>3, <2>1
  <2>3. order[1] \in 1..Len(fds)
    BY <1>7, <2>2
  <2>4. i = 1 \/ 1 < i
    BY <1>3
  <2>5. CASE 1 < i
    <3>1. order[1] < 1
      BY <1>5, <2>1, <2>2, <2>5
    <3> QED
      BY <1>2, <2>3, <3>1
  <2> QED
    BY <2>1, <2>2, <2>4, <2>5
<1>11. ASSUME NEW c \in clients'
       PROVE  \E i \in 2..n : fds'[i].fd = c
  <2>1. PICK k \in 2..Len(fds) : fds[k].fd = c
    BY <1>1, <1>6 DEF SlotsMatch
  <2>2. c # None /\ k \in 1..Len(fds) /\ k # 1
    BY <1>1, <1>2, <1>6
  <2>3. k \in UsedSlots
    BY <2>1, <2>2 DEF UsedSlots
  <2>4. PICK i \in 1..n : order[i] = k
    BY <1>5, <2>3
  <2>5. i # 1
    BY <1>10, <2>2, <2>4
  <2>6. i \in 2..n
    BY <1>3, <2>5
  <2>7. fds'[i].fd = c
    BY <1>7, <2>1, <2>4
  <2> QED
    BY <2>6, <2>7
<1>12. ASSUME NEW k \in UsedSlots, k # 1
       PROVE  fds[k].fd \in clients'
  <2>1. k \in 1..Len(fds) /\ fds[k].fd # None
    BY DEF UsedSlots
  <2>2. k \in 2..Len(fds)
    BY <1>2, <1>12, <2>1
  <2>3. fds[k].fd # Server
    BY <1>1, <1>2, <1>9, <1>12, <2>1 DEF SlotsMatch, UsedSlots
  <2>4. fds[k].fd \in clients
    BY <1>1, <2>1, <2>3
  <2>5. fds[k].fd \notin toRemove
    BY <1>1, <2>2, <2>4 DEF SlotsMatch
  <2> QED
    BY <1>6, <2>4, <2>5
<1>13. IsFiniteSet(clients') /\ n = 1 + Cardinality(clients')
  <2> DEFINE behind == UsedSlots \ {1}
             owner == [k \in behind |-> fds[k].fd]
  <2>1. IsFiniteSet(behind) /\ Cardinality(behind) = n - 1
    BY <1>3, <1>4, <1>9, FS_RemoveElement
  <2>2. owner \in [behind -> clients']
    BY <1>12
  <2>3. ASSUME NEW j \in behind, NEW k \in behind, owner[j] = owner[k] PROVE j = k
    <3>1. j \in 1..Len(fds) /\ k \in 1..Len(fds) /\ fds[j].fd = fds[k].fd /\ fds[j].fd # None
      BY <2>3 DEF UsedSlots
    <3> QED
      BY <1>1, <3>1 DEF SlotsMatch
  <2>4. ASSUME NEW c \in clients' PROVE \E k \in behind : owner[k] = c
    <3>1. PICK i \in 2..n : fds'[i].fd = c
      BY <1>11
    <3>2. i \in 1..n /\ 1 < i
      BY <1>3
    <3>3. order[1] < order[i] /\ order[i] \in UsedSlots
      BY <1>5, <1>10, <3>2
    <3>4. order[i] \in behind
      BY <1>2, <1>10, <3>3
    <3>5. fds[order[i]].fd = c
      BY <1>7, <3>1, <3>2
    <3> QED
      BY <3>4, <3>5
  <2>5. owner \in Bijection(behind, clients')
    BY <2>2, <2>3, <2>4 DEF Bijection, Injection, Surjection, IsInjective
  <2>6. IsFiniteSet(clients') /\ Cardinality(clients') = n - 1
    <3> HIDE DEF behind, owner
    <3> QED
      BY <2>1, <2>5, FS_Bijection DEF ExistsBijection
  <2> QED
    BY <1>3, <2>6
<1>14. ASSUME NEW i \in 1..n, NEW j \in 1..n, fds'[i].fd = fds'[j].fd PROVE i = j
  <2>1. order[i] = order[j]
    BY <1>1, <1>7, <1>14 DEF SlotsMatch
  <2>2. order[i] \in Nat
    BY <1>2, <1>7
  <2>3. i < j \/ j < i \/ i = j
    BY <1>3
  <2>4. ~(i < j) /\ ~(j < i)
    BY <1>5, <2>1, <2>2
  <2> QED
    BY <2>3, <2>4
<1>15. SlotsMatch'
  <2>1. fds'[1].fd = Server
    BY <1>7, <1>9, <1>10
  <2>2. Len(fds') = 1 + Cardinality(clients')
    BY <1>8, <1>13
  <2>3. \A c \in clients' : c \in toRemove' <=> \A k \in 2..Len(fds') : fds'[k].fd # c
    BY <1>6, <1>8, <1>11
  <2>4. \A j, k \in 1..Len(fds') : fds'[j].fd = fds'[k].fd /\ fds'[j].fd # None => j = k
    BY <1>8, <1>14
  <2> QED
    BY <2>1, <2>2, <2>3, <2>4 DEF SlotsMatch
<1>16. \A k \in 1..Len(fds') : fds'[k].fd \in clients' \cup {Server, None}
  <2> SUFFICES ASSUME NEW k \in 1..n PROVE fds'[k].fd \in clients' \cup {Server, None}
    BY <1>8
  <2>1. order[k] \in UsedSlots /\ fds'[k].fd = fds[order[k]].fd
    BY <1>5, <1>7
  <2>2. order[k] = 1 \/ fds[order[k]].fd \in clients'
    BY <1>12, <2>1
  <2> QED
    BY <1>9, <2>1, <2>2
<1>17. clients' \subseteq Clients /\ toRemove' \subseteq clients'
  BY <1>1, <1>6
<1> QED
  BY <1>8, <1>13, <1>15, <1>16, <1>17 DEF Slots

-----------------------------------------------------------------------------

\* The rest of the invariant, action by action.
LEMMA CheckKeepsInv == LoopInv /\ CheckPingTimeOut => LoopInv'
<1> SUFFICES ASSUME LoopInv, CheckPingTimeOut PROVE LoopInv'
  OBVIOUS
<1>1. late \cap clients \in SUBSET Clients /\ Mark(late \cap clients) /\ UNCHANGED clients
  BY DEF LoopInv, Slots, CheckPingTimeOut
<1>2. Slots'
  BY <1>1, MarkKeepsSlots DEF LoopInv
<1>3. Others'
  BY DEF LoopInv, Others, CheckPingTimeOut, peerVars
<1>4. Ahead'
  BY <1>1 DEF LoopInv, Ahead, CheckPingTimeOut, Mark
<1> QED
  BY <1>2, <1>3, <1>4 DEF LoopInv

LEMMA PollKeepsInv ==
  ASSUME LoopInv, NEW out \in SUBSET Unmarked, PollReturns(out)
  PROVE  LoopInv'
<1> USE LoopAssumption
<1>1. /\ pc' = "pass" /\ slot' = 1 /\ aborted' = FALSE
      /\ unread' = {c \in Unmarked : inbox[c] # "nothing"}
      /\ UNCHANGED <<clients, toRemove, knocking, inbox, broken, late>>
  BY DEF PollReturns, peerVars
<1>2. /\ Slots' /\ Len(fds') = Len(fds)
      /\ \A k \in 1..Len(fds) : /\ fds'[k].fd = fds[k].fd
                                /\ fds'[k].revents = Revents(fds[k].fd, out)
  BY PollKeepsSlots
<1>3. Others'
  <2>1. knocking' \in BOOLEAN /\ aborted' \in BOOLEAN
    BY <1>1 DEF LoopInv, Others
  <2> QED
    BY <1>1, <2>1 DEF LoopInv, Others, Unmarked
<1>4. ASSUME NEW c \in unread' \ toRemove'
      PROVE  \E k \in slot'..Len(fds') : fds'[k].fd = c /\ "in" \in fds'[k].revents
  <2>1. c \in clients /\ c \in Clients /\ c \notin toRemove /\ inbox[c] # "nothing"
    BY <1>1 DEF Unmarked, LoopInv, Slots
  <2>2. PICK k \in 2..Len(fds) : fds[k].fd = c
    BY <2>1 DEF LoopInv, Slots, SlotsMatch
  <2>3. k \in 1..Len(fds)
    BY DEF LoopInv, Slots
  <2>4. "in" \in Revents(c, out)
    BY <2>1 DEF Revents
  <2> QED
    BY <1>1, <1>2, <2>2, <2>3, <2>4
<1>5. ASSUME NEW k \in slot'..Len(fds'), NEW c \in Clients, fds'[k].fd = c
      PROVE  /\ "in" \in fds'[k].revents => inbox'[c] # "nothing"
             /\ "err" \in fds'[k].revents => c \in broken'
  <2>1. k \in 1..Len(fds) /\ fds'[k].revents = Revents(c, out)
    BY <1>1, <1>2, <1>5
  <2>2. "in" \in Revents(c, out) => inbox[c] # "nothing"
    BY DEF Revents
  <2>3. "err" \in Revents(c, out) => c \in broken
    BY DEF Revents
  <2> QED
    BY <1>1, <2>1, <2>2, <2>3
<1>6. Ahead'
  BY <1>1, <1>4, <1>5 DEF Ahead
<1> QED
  BY <1>2, <1>3, <1>6 DEF LoopInv

LEMMA InterruptedKeepsInv == LoopInv /\ PollInterrupted => LoopInv'
<1> SUFFICES ASSUME LoopInv, PollInterrupted PROVE LoopInv'
  OBVIOUS
<1>1. Slots'
  BY SlotsStay DEF LoopInv, PollInterrupted
<1>2. Others'
  BY DEF LoopInv, Others, PollInterrupted, peerVars
<1>3. Ahead'
  BY DEF LoopInv, Ahead, PollInterrupted
<1> QED
  BY <1>1, <1>2, <1>3 DEF LoopInv

LEMMA AcceptKeepsInv ==
  ASSUME LoopInv, NEW c \in Clients, AcceptClient(c)
  PROVE  LoopInv'
<1> USE LoopAssumption
<1>1. /\ pc = "pass" /\ pc' = "pass" /\ slot' = slot + 1 /\ fds[slot].fd = Server
      /\ slot <= Len(fds) /\ knocking' = FALSE
      /\ clients' = clients \cup {c}
      /\ UNCHANGED <<toRemove, inbox, broken, late, unread, aborted>>
  BY DEF AcceptClient, InPass, NextSlot
<1>2. /\ Slots' /\ Len(fds') = Len(fds) + 1
      /\ \A k \in 1..Len(fds) : fds'[k] = fds[k]
      /\ fds'[Len(fds) + 1] = Slot(c, {})
  BY AcceptKeepsSlots
<1>3. fds \in Seq(SlotType) /\ slot \in Nat \ {0} /\ Len(fds) \in Nat
  BY DEF LoopInv, Slots, Others
<1>4. Others'
  <2>1. knocking' \in BOOLEAN /\ aborted' \in BOOLEAN
    BY <1>1 DEF LoopInv, Others
  <2> QED
    BY <1>1, <1>3, <2>1 DEF LoopInv, Others
<1>5. ASSUME NEW d \in unread' \ toRemove'
      PROVE  \E k \in slot'..Len(fds') : fds'[k].fd = d /\ "in" \in fds'[k].revents
  <2>1. PICK k \in slot..Len(fds) : fds[k].fd = d /\ "in" \in fds[k].revents
    BY <1>1 DEF LoopInv, Ahead
  <2>2. d # Server
    BY <1>1 DEF LoopInv, Others, Slots
  <2>3. k # slot
    BY <1>1, <2>1, <2>2
  <2>4. k \in slot'..Len(fds') /\ k \in 1..Len(fds)
    BY <1>1, <1>2, <1>3, <2>3
  <2> QED
    BY <1>2, <2>1, <2>4
<1>6. ASSUME NEW k \in slot'..Len(fds'), NEW d \in Clients, fds'[k].fd = d
      PROVE  /\ "in" \in fds'[k].revents => inbox'[d] # "nothing"
             /\ "err" \in fds'[k].revents => d \in broken'
  <2>1. k \in slot..Len(fds) \/ k = Len(fds) + 1
    BY <1>1, <1>2, <1>3
  <2>2. CASE k \in slot..Len(fds)
    <3>1. k \in 1..Len(fds) /\ fds'[k] = fds[k]
      BY <1>2, <1>3, <2>2
    <3> QED
      BY <1>1, <1>6, <2>2, <3>1 DEF LoopInv, Ahead
  <2>3. CASE k = Len(fds) + 1
    <3>1. fds'[k].revents = {}
      BY <1>2, <2>3 DEF Slot
    <3> QED
      BY <3>1
  <2> QED
    BY <2>1, <2>2, <2>3
<1>7. Ahead'
  BY <1>1, <1>5, <1>6 DEF Ahead
<1> QED
  BY <1>2, <1>4, <1>7 DEF LoopInv

LEMMA RefuseKeepsInv == LoopInv /\ RefuseClient => LoopInv'
<1> SUFFICES ASSUME LoopInv, RefuseClient PROVE LoopInv'
  OBVIOUS
<1>1. /\ aborted' = TRUE /\ pc' = "check"
      /\ UNCHANGED <<clients, toRemove, fds, slot, inbox, broken, late, unread>>
  BY DEF RefuseClient, Throw, CanRecover, ProcessServerEvent_Error
<1>2. knocking' \in BOOLEAN
  <2>1. knocking' \in {FALSE, knocking} \/ knocking' = FALSE
    BY DEF RefuseClient
  <2> QED
    BY <2>1 DEF LoopInv, Others
<1>3. Slots'
  BY <1>1, SlotsStay DEF LoopInv
<1>4. Others'
  <2>1. aborted' \in BOOLEAN
    BY <1>1
  <2> QED
    BY <1>1, <1>2, <2>1 DEF LoopInv, Others
<1>5. Ahead'
  BY <1>1 DEF Ahead
<1> QED
  BY <1>3, <1>4, <1>5 DEF LoopInv

LEMMA SkipKeepsInv == LoopInv /\ SkipSlot => LoopInv'
<1> SUFFICES ASSUME LoopInv, SkipSlot PROVE LoopInv'
  OBVIOUS
<1> USE LoopAssumption
<1>1. /\ pc = "pass" /\ pc' = "pass" /\ slot' = slot + 1 /\ slot <= Len(fds)
      /\ fds[slot].fd = None \/ fds[slot].revents = {}
      /\ UNCHANGED <<clients, toRemove, fds, knocking, inbox, broken, late, unread, aborted>>
  BY DEF SkipSlot, InPass, NextSlot, peerVars
<1>2. Slots'
  BY <1>1, SlotsStay DEF LoopInv
<1>3. fds \in Seq(SlotType) /\ slot \in Nat \ {0} /\ Len(fds) \in Nat
  BY DEF LoopInv, Slots, Others
<1>4. Others'
  <2>1. knocking' \in BOOLEAN /\ aborted' \in BOOLEAN
    BY <1>1 DEF LoopInv, Others
  <2> QED
    BY <1>1, <1>3, <2>1 DEF LoopInv, Others
<1>5. ASSUME NEW d \in unread' \ toRemove'
      PROVE  \E k \in slot'..Len(fds') : fds'[k].fd = d /\ "in" \in fds'[k].revents
  <2>1. PICK k \in slot..Len(fds) : fds[k].fd = d /\ "in" \in fds[k].revents
    BY <1>1 DEF LoopInv, Ahead
  <2>2. d # None
    BY <1>1 DEF LoopInv, Others, Slots
  <2>3. k # slot
    BY <1>1, <2>1, <2>2
  <2> QED
    BY <1>1, <1>3, <2>1, <2>3
<1>6. ASSUME NEW k \in slot'..Len(fds'), NEW d \in Clients, fds'[k].fd = d
      PROVE  /\ "in" \in fds'[k].revents => inbox'[d] # "nothing"
             /\ "err" \in fds'[k].revents => d \in broken'
  <2>1. k \in slot..Len(fds)
    BY <1>1, <1>3
  <2> QED
    BY <1>1, <1>6, <2>1 DEF LoopInv, Ahead
<1>7. Ahead'
  BY <1>1, <1>5, <1>6 DEF Ahead
<1> QED
  BY <1>2, <1>4, <1>7 DEF LoopInv

LEMMA CleanupKeepsInv == LoopInv /\ CleanupMarkedClients => LoopInv'
<1> SUFFICES ASSUME LoopInv, CleanupMarkedClients PROVE LoopInv'
  OBVIOUS
<1>1. /\ pc = "pass" /\ slot > Len(fds) /\ pc' = "check" /\ slot' = 1
      /\ clients' = clients \ toRemove /\ toRemove' = {}
      /\ inbox' = [c \in Clients |-> IF c \in toRemove THEN "nothing" ELSE inbox[c]]
      /\ broken' = broken \ toRemove /\ late' = late \ toRemove
      /\ unread' = unread \ toRemove
      /\ UNCHANGED <<knocking, aborted>>
  BY DEF CleanupMarkedClients
<1>2. Slots'
  BY CleanupKeepsSlots
<1>3. Others'
  <2>1. knocking' \in BOOLEAN /\ aborted' \in BOOLEAN
    BY <1>1 DEF LoopInv, Others
  <2>2. inbox' \in [Clients -> Waiting]
    BY <1>1 DEF LoopInv, Others, Waiting
  <2>3. broken' \subseteq clients' /\ late' \subseteq clients' /\ unread' \subseteq clients'
    BY <1>1 DEF LoopInv, Others
  <2> QED
    BY <1>1, <2>1, <2>2, <2>3 DEF Others
<1>4. unread' = {}
  <2>1. \A k \in slot..Len(fds) : FALSE
    BY <1>1 DEF LoopInv, Slots, Others
  <2> QED
    BY <1>1, <2>1 DEF LoopInv, Ahead
<1>5. Ahead'
  BY <1>1, <1>4 DEF Ahead
<1> QED
  BY <1>2, <1>3, <1>5 DEF LoopInv

\* A pass that serves a client marks only clients and moves on by one slot.  What
\* it read is that client's, and if it did not read, nothing was reported.
LEMMA ServeStep ==
  ASSUME LoopInv, NEW c \in Clients, ServeClient(c)
  PROVE  \E S \in SUBSET Clients :
           /\ Mark(S)
           /\ pc = "pass" /\ pc' = "pass" /\ slot' = slot + 1
           /\ slot <= Len(fds) /\ fds[slot].fd = c
           /\ UNCHANGED <<clients, knocking, broken, aborted>>
           /\ inbox' \in [Clients -> Waiting] /\ late' \subseteq late
           /\ \A d \in Clients \ {c} : inbox'[d] = inbox[d]
           /\ \/ unread' = unread \ {c}
              \/ unread' = unread /\ "in" \notin fds[slot].revents
<1>1. PICK lost \in SUBSET Clients :
        /\ Read(c, lost) \/ (DoNotRead /\ lost = {})
        /\ Mark(lost \cup {d \in {c} : Reported("err") \/ (Reported("out") /\ c \in broken)})
  BY DEF ServeClient
<1>2. lost \cup {d \in {c} : Reported("err") \/ (Reported("out") /\ c \in broken)} \in SUBSET Clients
  OBVIOUS
<1>3. /\ pc = "pass" /\ pc' = "pass" /\ slot' = slot + 1
      /\ slot <= Len(fds) /\ fds[slot].fd = c
      /\ UNCHANGED <<clients, knocking, broken, aborted>>
  BY DEF ServeClient, InPass, NextSlot
<1>4. inbox \in [Clients -> Waiting]
  BY DEF LoopInv, Others
<1>5. CASE Read(c, lost)
  <2>1. unread' = unread \ {c} /\ inbox' = [inbox EXCEPT ![c] = "nothing"]
    BY <1>5 DEF Read
  <2>2. late' = late \/ late' \in {late, late \ {c}}
    BY <1>5 DEF Read
  <2>3. inbox' \in [Clients -> Waiting] /\ \A d \in Clients \ {c} : inbox'[d] = inbox[d]
    BY <1>4, <2>1 DEF Waiting
  <2> QED
    BY <1>1, <1>2, <1>3, <2>1, <2>2, <2>3
<1>6. CASE DoNotRead
  BY <1>1, <1>2, <1>3, <1>4, <1>6 DEF DoNotRead, Reported
<1> QED
  BY <1>1, <1>5, <1>6

LEMMA ServeKeepsInv ==
  ASSUME LoopInv, NEW c \in Clients, ServeClient(c)
  PROVE  LoopInv'
<1> USE LoopAssumption
<1>1. PICK S \in SUBSET Clients :
        /\ Mark(S)
        /\ pc = "pass" /\ pc' = "pass" /\ slot' = slot + 1
        /\ slot <= Len(fds) /\ fds[slot].fd = c
        /\ UNCHANGED <<clients, knocking, broken, aborted>>
        /\ inbox' \in [Clients -> Waiting] /\ late' \subseteq late
        /\ \A d \in Clients \ {c} : inbox'[d] = inbox[d]
        /\ \/ unread' = unread \ {c}
           \/ unread' = unread /\ "in" \notin fds[slot].revents
  BY ServeStep
<1>2. Slots'
  BY <1>1, MarkKeepsSlots DEF LoopInv
<1>3. fds \in Seq(SlotType) /\ slot \in Nat \ {0} /\ Len(fds) \in Nat
  BY DEF LoopInv, Slots, Others
<1>4. /\ Len(fds') = Len(fds)
      /\ \A k \in 1..Len(fds) :
           /\ fds'[k].fd = IF fds[k].fd \in S THEN None ELSE fds[k].fd
           /\ fds'[k].revents = fds[k].revents
  BY <1>1, <1>3, MarkSlots
<1>5. Others'
  <2>1. knocking' \in BOOLEAN /\ aborted' \in BOOLEAN
    BY <1>1 DEF LoopInv, Others
  <2>2. broken' \subseteq clients' /\ late' \subseteq clients' /\ unread' \subseteq clients'
    BY <1>1 DEF LoopInv, Others
  <2>3. pc' \in {"check", "poll", "pass"} /\ slot' \in Nat \ {0}
    BY <1>1, <1>3
  <2> QED
    BY <1>1, <2>1, <2>2, <2>3 DEF Others
<1>6. ASSUME NEW d \in unread' \ toRemove'
      PROVE  \E k \in slot'..Len(fds') : fds'[k].fd = d /\ "in" \in fds'[k].revents
  <2>1. d \in unread \ toRemove /\ d \notin S /\ d \in Clients
    BY <1>1 DEF LoopInv, Others, Slots, Mark
  <2>2. PICK k \in slot..Len(fds) : fds[k].fd = d /\ "in" \in fds[k].revents
    BY <1>1, <2>1 DEF LoopInv, Ahead
  <2>3. k # slot
    BY <1>1, <2>2
  <2>4. k \in slot'..Len(fds') /\ k \in 1..Len(fds)
    BY <1>1, <1>3, <1>4, <2>3
  <2> QED
    BY <1>4, <2>1, <2>2, <2>4
<1>7. ASSUME NEW k \in slot'..Len(fds'), NEW d \in Clients, fds'[k].fd = d
      PROVE  /\ "in" \in fds'[k].revents => inbox'[d] # "nothing"
             /\ "err" \in fds'[k].revents => d \in broken'
  <2>1. k \in slot..Len(fds) /\ k \in 1..Len(fds) /\ k # slot
    BY <1>1, <1>3, <1>4
  <2>2. fds[k].fd = d /\ fds'[k].revents = fds[k].revents
    BY <1>4, <1>7, <2>1
  <2>3. d # c
    <3>1. slot \in 1..Len(fds) /\ d # None
      BY <1>1, <1>3
    <3> QED
      BY <1>1, <2>1, <2>2, <3>1 DEF LoopInv, Slots, SlotsMatch
  <2>4. inbox'[d] = inbox[d]
    BY <1>1, <2>3
  <2> QED
    BY <1>1, <2>1, <2>2, <2>4 DEF LoopInv, Ahead
<1>8. Ahead'
  BY <1>1, <1>6, <1>7 DEF Ahead
<1> QED
  BY <1>2, <1>5, <1>8 DEF LoopInv

\* Nothing that the peers do makes a report of poll untrue.
LEMMA OutsideKeepsInv == LoopInv /\ Outside => LoopInv'
<1> SUFFICES ASSUME LoopInv, Outside PROVE LoopInv'
  OBVIOUS
<1>1. UNCHANGED <<clients, toRemove, fds, pc, slot, unread, aborted>>
  BY DEF Outside, serverVars
<1>2. Slots'
  BY <1>1, SlotsStay DEF LoopInv
<1>3. /\ clients \subseteq Clients /\ inbox \in [Clients -> Waiting]
      /\ broken \subseteq clients /\ late \subseteq clients
  BY DEF LoopInv, Slots, Others
<1>4. /\ knocking' = knocking \/ knocking' = TRUE
      /\ inbox' \in [Clients -> Waiting]
      /\ \A d \in Clients : inbox[d] # "nothing" => inbox'[d] # "nothing"
      /\ broken \subseteq broken' /\ broken' \subseteq clients /\ late' \subseteq clients
  <2>1. CASE Knock
    BY <1>3, <2>1 DEF Knock
  <2>2. ASSUME NEW c \in clients, Arrive(c)
        PROVE  /\ inbox' \in [Clients -> Waiting] /\ UNCHANGED <<knocking, broken, late>>
               /\ \A d \in Clients : inbox[d] # "nothing" => inbox'[d] # "nothing"
    <3>1. PICK what \in Waiting \ {"nothing"} : inbox' = [inbox EXCEPT ![c] = what]
      BY <2>2 DEF Arrive
    <3>2. UNCHANGED <<knocking, broken, late>>
      BY <2>2 DEF Arrive
    <3> QED
      BY <1>3, <3>1, <3>2
  <2>3. ASSUME NEW c \in clients, Break(c)
        PROVE  broken' = broken \cup {c} /\ UNCHANGED <<knocking, inbox, late>>
    BY <2>3 DEF Break
  <2>4. ASSUME NEW c \in clients, TurnLate(c)
        PROVE  late' = late \cup {c} /\ UNCHANGED <<knocking, inbox, broken>>
    BY <2>4 DEF TurnLate
  <2> QED
    BY <1>3, <2>1, <2>2, <2>3, <2>4 DEF Outside
<1>5. Others'
  <2>1. knocking' \in BOOLEAN /\ aborted' \in BOOLEAN
    BY <1>1, <1>4 DEF LoopInv, Others
  <2> QED
    BY <1>1, <1>4, <2>1 DEF LoopInv, Others
<1>6. Ahead'
  BY <1>1, <1>4 DEF LoopInv, Ahead
<1> QED
  BY <1>2, <1>5, <1>6 DEF LoopInv

LEMMA LoopNextInv == LoopInv /\ [Next]_vars => LoopInv'
<1> SUFFICES ASSUME LoopInv, [Next]_vars PROVE LoopInv'
  OBVIOUS
<1>1. CASE UNCHANGED vars
  <2>1. UNCHANGED <<clients, toRemove, fds, pc, slot, knocking, inbox, broken, late, unread, aborted>>
    BY <1>1 DEF vars, serverVars, peerVars
  <2>2. Slots'
    BY <2>1, SlotsStay DEF LoopInv
  <2>3. Others'
    BY <2>1 DEF LoopInv, Others
  <2>4. Ahead'
    BY <2>1 DEF LoopInv, Ahead
  <2> QED
    BY <2>2, <2>3, <2>4 DEF LoopInv
<1>2. CASE Run
  BY <1>2, CheckKeepsInv, PollKeepsInv, InterruptedKeepsInv, AcceptKeepsInv, ServeKeepsInv,
     RefuseKeepsInv, SkipKeepsInv, CleanupKeepsInv DEF Run
<1>3. CASE Outside
  BY <1>3, OutsideKeepsInv
<1> QED
  BY <1>1, <1>2, <1>3 DEF Next

\* The state of the loop has its types, in every reachable state.
THEOREM LoopTypes == Spec => []TypeOK
<1>1. LoopInv => TypeOK
  BY LoopInvImplies
<1> QED
  BY <1>1, LoopInitInv, LoopNextInv, PTL DEF Spec

\* The slots are those of the clients, through every accept, mark, exception and
\* cleanup, for any number of clients.
THEOREM SlotsAlwaysMatch == Spec => []SlotsMatch
<1>1. LoopInv => SlotsMatch
  BY LoopInvImplies
<1> QED
  BY <1>1, LoopInitInv, LoopNextInv, PTL DEF Spec

\* A pass that ran to its end has read from every client that poll reported and
\* that was not marked.
THEOREM PassesServeAll == Spec => []PassServesAll
<1>1. LoopInv => PassServesAll
  BY LoopInvImplies
<1> QED
  BY <1>1, LoopInitInv, LoopNextInv, PTL DEF Spec

\* No error of accept ends the server.
THEOREM ServerKeepsRunning == Spec => []KeepsRunning
<1>1. LoopInv => KeepsRunning
  BY LoopInvImplies
<1> QED
  BY <1>1, LoopInitInv, LoopNextInv, PTL DEF Spec

-----------------------------------------------------------------------------

\* A client has a cause for its mark.
Cause(c) == c \in broken \cup late \/ inbox[c] # "nothing"

LEMMA ServeHasCause ==
  ASSUME LoopInv, NEW c \in Clients, ServeClient(c), NEW d \in toRemove' \ toRemove
  PROVE  Cause(d)
<1>1. PICK lost \in SUBSET Clients :
        /\ Read(c, lost) \/ (DoNotRead /\ lost = {})
        /\ Mark(lost \cup {e \in {c} : Reported("err") \/ (Reported("out") /\ c \in broken)})
  BY DEF ServeClient
<1>2. d \in lost \/ (d = c /\ (Reported("err") \/ c \in broken))
  BY <1>1 DEF Mark
<1>3. /\ pc = "pass" /\ slot \in slot..Len(fds) /\ fds[slot].fd = c
  BY DEF ServeClient, InPass, LoopInv, Slots, Others
<1>4. Reported("err") => c \in broken
  BY <1>3 DEF LoopInv, Ahead, Reported
<1>5. Reported("in") => inbox[c] # "nothing"
  BY <1>3 DEF LoopInv, Ahead, Reported
<1>6. CASE d \in lost
  <2>1. Read(c, lost)
    BY <1>1, <1>6
  <2>2. Reported("in")
    BY <2>1 DEF Read
  <2>3. lost = {c} \/ lost \subseteq broken \cup {c}
    BY <2>1 DEF Read
  <2>4. d \in broken \/ d = c
    BY <1>6, <2>3
  <2> QED
    BY <1>5, <2>2, <2>4 DEF Cause
<1>7. CASE d = c /\ (Reported("err") \/ c \in broken)
  BY <1>4, <1>7 DEF Cause
<1> QED
  BY <1>2, <1>6, <1>7

\* A client is marked only for its silence, a dead socket or what it sent.
THEOREM NoneDropped == Spec => NoneDroppedWithoutCause
<1> DEFINE Caused == \A c \in toRemove' \ toRemove : c \in broken \cup late \/ inbox[c] # "nothing"
<1>1. ASSUME LoopInv, [Next]_vars PROVE [Caused]_vars
  <2> SUFFICES ASSUME NEW d \in toRemove' \ toRemove PROVE Cause(d)
    BY DEF Cause
  <2>1. CASE CheckPingTimeOut
    BY <2>1 DEF CheckPingTimeOut, Mark, Cause
  <2>2. ASSUME NEW c \in Clients, ServeClient(c) PROVE Cause(d)
    BY <1>1, <2>2, ServeHasCause
  <2>3. ASSUME NEW out \in SUBSET Unmarked, PollReturns(out) PROVE FALSE
    BY <2>3 DEF PollReturns
  <2>4. CASE PollInterrupted \/ SkipSlot
    BY <2>4 DEF PollInterrupted, SkipSlot
  <2>5. ASSUME NEW c \in Clients, AcceptClient(c) PROVE FALSE
    BY <2>5 DEF AcceptClient
  <2>6. CASE RefuseClient
    BY <2>6 DEF RefuseClient, Throw
  <2>7. CASE CleanupMarkedClients
    BY <2>7 DEF CleanupMarkedClients
  <2>8. CASE Outside \/ UNCHANGED vars
    BY <2>8 DEF Outside, vars, serverVars
  <2> QED
    BY <1>1, <2>1, <2>2, <2>3, <2>4, <2>5, <2>6, <2>7, <2>8 DEF Next, Run
<1> QED
  BY <1>1, LoopInitInv, LoopNextInv, PTL DEF Spec, NoneDroppedWithoutCause

-----------------------------------------------------------------------------

\* A pass is never more than one slot behind the last one.
PassWithin == pc = "pass" => slot <= Len(fds) + 1

\* What a step does to the place of the pass and to the number of slots.
LEMMA PassStep ==
  ASSUME LoopInv, [Next]_vars, pc' = "pass"
  PROVE  \/ pc = "poll" /\ slot' = 1 /\ Len(fds') = Len(fds)
         \/ pc = "pass" /\ UNCHANGED serverVars
         \/ /\ pc = "pass" /\ slot <= Len(fds) /\ slot' = slot + 1
            /\ Len(fds') = Len(fds) \/ (Len(fds') = Len(fds) + 1 /\ slot = 1)
<1>1. fds \in Seq(SlotType) /\ SlotsMatch
  BY DEF LoopInv, Slots
<1>2. ASSUME NEW out \in SUBSET Unmarked, PollReturns(out)
      PROVE  pc = "poll" /\ slot' = 1 /\ Len(fds') = Len(fds)
  BY <1>2, PollKeepsSlots DEF PollReturns
<1>3. ASSUME NEW c \in Clients, AcceptClient(c)
      PROVE  /\ pc = "pass" /\ slot <= Len(fds) /\ slot' = slot + 1
             /\ Len(fds') = Len(fds) + 1 /\ slot = 1
  <2>1. pc = "pass" /\ slot <= Len(fds) /\ fds[slot].fd = Server /\ slot' = slot + 1
    BY <1>3 DEF AcceptClient, InPass, NextSlot
  <2>2. slot \in 1..Len(fds) /\ 1 \in 1..Len(fds)
    BY <1>1, <2>1 DEF LoopInv, Others
  <2>3. slot = 1
    BY <2>1, <2>2, <1>1, LoopAssumption DEF SlotsMatch
  <2> QED
    BY <1>3, <2>1, <2>3, AcceptKeepsSlots
<1>4. ASSUME NEW c \in Clients, ServeClient(c)
      PROVE  pc = "pass" /\ slot <= Len(fds) /\ slot' = slot + 1 /\ Len(fds') = Len(fds)
  <2>1. PICK S \in SUBSET Clients :
          /\ Mark(S)
          /\ pc = "pass" /\ pc' = "pass" /\ slot' = slot + 1
          /\ slot <= Len(fds) /\ fds[slot].fd = c
    BY <1>4, ServeStep
  <2>2. Len(fds') = Len(fds)
    BY <1>1, <2>1, MarkSlots
  <2> QED
    BY <2>1, <2>2
<1>5. CASE SkipSlot
  BY <1>1, <1>5 DEF SkipSlot, InPass, NextSlot
<1>6. CASE CheckPingTimeOut \/ PollInterrupted \/ CleanupMarkedClients
  BY <1>6 DEF CheckPingTimeOut, PollInterrupted, CleanupMarkedClients
<1>7. CASE RefuseClient
  BY <1>7 DEF RefuseClient, Throw
<1>8. CASE Outside \/ UNCHANGED vars
  <2>1. UNCHANGED serverVars
    BY <1>8 DEF Outside, vars
  <2> QED
    BY <2>1 DEF serverVars
<1> QED
  BY <1>2, <1>3, <1>4, <1>5, <1>6, <1>7, <1>8 DEF Next, Run

LEMMA PassWithinStep == LoopInv /\ PassWithin /\ [Next]_vars => PassWithin'
<1> SUFFICES ASSUME LoopInv, PassWithin, [Next]_vars, pc' = "pass"
             PROVE  slot' <= Len(fds') + 1
  BY DEF PassWithin
<1>1. fds \in Seq(SlotType) /\ slot \in Nat
  BY DEF LoopInv, Slots, Others
<1>2. CASE UNCHANGED serverVars
  BY <1>2 DEF PassWithin, serverVars
<1> QED
  BY <1>1, <1>2, PassStep DEF PassWithin

\* Every step of a pass leaves less of it: from poll to the cleanup it takes no
\* more steps than there are slots, and one for a new client.
THEOREM PassesEnd == Spec => PassEnds
<1> DEFINE Less == pc = "pass" /\ pc' = "pass" =>
                     (ToGo \in Nat /\ ToGo' < ToGo) \/ UNCHANGED serverVars
<1>1. Init => PassWithin
  BY DEF Init, PassWithin
<1>2. ASSUME LoopInv, PassWithin, [Next]_vars PROVE Less
  <2> SUFFICES ASSUME pc = "pass", pc' = "pass" PROVE Less
    OBVIOUS
  <2>1. fds \in Seq(SlotType) /\ slot \in Nat \ {0} /\ slot <= Len(fds) + 1
    BY <1>2 DEF LoopInv, Slots, Others, PassWithin
  <2>2. ToGo \in Nat
    BY <2>1 DEF ToGo
  <2>3. CASE /\ slot <= Len(fds) /\ slot' = slot + 1
             /\ Len(fds') = Len(fds) \/ (Len(fds') = Len(fds) + 1 /\ slot = 1)
    <3>1. ToGo' = Len(fds') + 1 - (slot + 1)
      BY <2>1, <2>3 DEF ToGo
    <3>2. ToGo' < ToGo
      BY <2>1, <2>3, <3>1 DEF ToGo
    <3> QED
      BY <2>2, <3>2
  <2> QED
    BY <1>2, <2>3, PassStep
<1>3. LoopInv /\ PassWithin /\ [Next]_vars => [Less]_vars
  BY <1>2
<1> QED
  BY <1>1, <1>3, PassWithinStep, LoopInitInv, LoopNextInv, PTL DEF Spec, PassEnds

-----------------------------------------------------------------------------

\* Of the registry's variables the loop has clients and toRemove; the rest of
\* them is constant.
LEMMA IdentityStays == UNCHANGED Reg!identity
BY DEF Reg!identity

LEMMA LoopInitRegistry == Init => Reg!RegInit
BY DEF Init, Reg!RegInit, Reg!EmptyMap

\* Every step of the loop is one of the registry, or leaves it alone.
LEMMA LoopStepRegistry ==
  ASSUME LoopInv, [Next]_vars
  PROVE  [Reg!RegNext]_(Reg!regVars)
<1>1. UNCHANGED Reg!identity
  BY IdentityStays
<1>2. ASSUME UNCHANGED <<clients, toRemove>> PROVE [Reg!RegNext]_(Reg!regVars)
  BY <1>1, <1>2 DEF Reg!regVars
<1>3. ASSUME NEW S, Mark(S), UNCHANGED clients PROVE [Reg!RegNext]_(Reg!regVars)
  <2>1. Reg!Mark(S \cap clients) /\ S \cap clients \in SUBSET clients
    BY <1>3 DEF Mark, Reg!Mark
  <2>2. Reg!RegNext
    BY <1>1, <1>3, <2>1 DEF Reg!RegNext
  <2> QED
    BY <2>2
<1>4. CASE CheckPingTimeOut
  BY <1>3, <1>4 DEF CheckPingTimeOut
<1>5. ASSUME NEW c \in Clients, ServeClient(c) PROVE [Reg!RegNext]_(Reg!regVars)
  <2>1. PICK S \in SUBSET Clients : Mark(S) /\ UNCHANGED clients
    BY <1>5, ServeStep
  <2> QED
    BY <1>3, <2>1
<1>6. ASSUME NEW c \in Clients, AcceptClient(c) PROVE [Reg!RegNext]_(Reg!regVars)
  <2>1. Len(fds) = 1 + Cardinality(clients) /\ Cardinality(clients) \in Nat
    BY FS_CardinalityType DEF LoopInv, Slots, SlotsMatch
  <2>2. Cardinality(clients) < MaxClients
    BY <1>6, <2>1 DEF AcceptClient
  <2>3. Reg!Cardinality(clients) = Cardinality(clients)
    BY Zenon DEF Cardinality, Reg!Cardinality
  <2>4. Reg!AcceptClient(c)
    BY <1>1, <1>6, <2>2, <2>3 DEF AcceptClient, LowestFree, Reg!AcceptClient
  <2> QED
    BY <2>4 DEF Reg!RegNext
<1>7. CASE CleanupMarkedClients
  <2>1. clients' = clients \ toRemove /\ toRemove' = {}
    BY <1>7 DEF CleanupMarkedClients
  <2>2. CASE toRemove = {}
    BY <1>2, <2>1, <2>2
  <2>3. CASE toRemove # {}
    <3>1. Reg!RemoveMarked
      BY <2>1, <2>3 DEF Reg!RemoveMarked, Reg!Erase
    <3> QED
      BY <3>1 DEF Reg!RegNext
  <2> QED
    BY <2>2, <2>3
<1>8. ASSUME NEW out \in SUBSET Unmarked, PollReturns(out) PROVE UNCHANGED <<clients, toRemove>>
  BY <1>8 DEF PollReturns
<1>9. CASE PollInterrupted \/ RefuseClient \/ SkipSlot
  BY <1>2, <1>9 DEF PollInterrupted, RefuseClient, Throw, SkipSlot
<1>10. CASE Outside \/ UNCHANGED vars
  BY <1>2, <1>10 DEF Outside, vars, serverVars
<1> QED
  BY <1>2, <1>4, <1>5, <1>6, <1>7, <1>8, <1>9, <1>10 DEF Next, Run

\* The loop implements the registry: the limit in slots is the limit in clients,
\* and a marked client is one until all that are marked go.
THEOREM LoopImplementsRegistry == Spec => ImplementsRegistry
<1>1. Init => Reg!RegInit
  BY LoopInitRegistry
<1>2. LoopInv /\ [Next]_vars => [Reg!RegNext]_(Reg!regVars)
  BY LoopStepRegistry
<1> QED
  BY <1>1, <1>2, LoopInitInv, LoopNextInv, PTL DEF Spec, ImplementsRegistry, Reg!RegSpec
=============================================================================
