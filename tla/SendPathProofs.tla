--------------------------- MODULE SendPathProofs ---------------------------
(***************************************************************************)
(* POLLOUT is on while something waits to be sent, and the peer reads the  *)
(* stream exactly until a send over a backlog is partial, for any room in  *)
(* the kernel and messages of any sizes.                                   *)
(***************************************************************************)
EXTENDS SendPath, TLAPS, SequenceTheorems

\* r, w and b are consecutive parts of the stream that ends with byte n.
Parts(r, w, b, n) ==
  /\ Len(r) + Len(w) + Len(b) = n
  /\ \A i \in 1..Len(r) : r[i] = i
  /\ \A i \in 1..Len(w) : w[i] = Len(r) + i
  /\ \A i \in 1..Len(b) : b[i] = Len(r) + Len(w) + i

\* Parts put together are the stream.
LEMMA PartsAreStream ==
  ASSUME NEW r \in Seq(Nat), NEW w \in Seq(Nat), NEW b \in Seq(Nat), NEW n \in Nat,
         Parts(r, w, b, n)
  PROVE  r \o w \o b = Stream(n)
<1>1. /\ r \o w \o b \in Seq(Nat)
      /\ Len(r \o w \o b) = n
  BY DEF Parts
<1>2. ASSUME NEW i \in 1..n PROVE (r \o w \o b)[i] = i
  <2>1. CASE i <= Len(r)
    BY <2>1 DEF Parts
  <2>2. CASE Len(r) < i /\ i <= Len(r) + Len(w)
    <3>1. i - Len(r) \in 1..Len(w)
      BY <2>2
    <3>2. (r \o w \o b)[i] = w[i - Len(r)]
      BY <2>2, <3>1
    <3>3. w[i - Len(r)] = Len(r) + (i - Len(r))
      BY <3>1 DEF Parts
    <3> QED
      BY <3>2, <3>3
  <2>3. CASE Len(r) + Len(w) < i
    <3>1. i - Len(r) - Len(w) \in 1..Len(b)
      BY <2>3 DEF Parts
    <3>2. (r \o w \o b)[i] = b[i - Len(r) - Len(w)]
      BY <2>3, <3>1 DEF Parts
    <3>3. b[i - Len(r) - Len(w)] = Len(r) + Len(w) + (i - Len(r) - Len(w))
      BY <3>1 DEF Parts
    <3> QED
      BY <3>2, <3>3
  <2>4. \/ i <= Len(r)
        \/ Len(r) < i /\ i <= Len(r) + Len(w)
        \/ Len(r) + Len(w) < i
    OBVIOUS
  <2> QED
    BY <2>1, <2>2, <2>3, <2>4
<1>3. Stream(n) \in Seq(Nat) /\ Len(Stream(n)) = n /\ \A i \in 1..n : Stream(n)[i] = i
  BY DEF Stream
<1> QED
  BY <1>1, <1>2, <1>3, SeqEqual

\* A message is cast, and the kernel has taken nothing of it yet.
LEMMA PartsExtend ==
  ASSUME NEW r \in Seq(Nat), NEW w \in Seq(Nat), NEW b \in Seq(Nat), NEW n \in Nat,
         NEW message \in Seq(Nat), \A i \in 1..Len(message) : message[i] = n + i,
         Parts(r, w, b, n)
  PROVE  Parts(r, w, b \o message, n + Len(message))
<1>1. /\ b \o message \in Seq(Nat)
      /\ Len(b \o message) = Len(b) + Len(message)
  OBVIOUS
<1>2. ASSUME NEW i \in 1..(Len(b) + Len(message))
      PROVE  (b \o message)[i] = Len(r) + Len(w) + i
  <2>1. CASE i <= Len(b)
    BY <2>1 DEF Parts
  <2>2. CASE Len(b) < i
    <3>1. i - Len(b) \in 1..Len(message)
      BY <2>2
    <3>2. (b \o message)[i] = message[i - Len(b)]
      BY <2>2, <3>1
    <3>3. message[i - Len(b)] = n + (i - Len(b))
      BY <3>1
    <3>4. n = Len(r) + Len(w) + Len(b)
      BY DEF Parts
    <3> QED
      BY <3>2, <3>3, <3>4
  <2>3. i <= Len(b) \/ Len(b) < i
    OBVIOUS
  <2> QED
    BY <2>1, <2>2, <2>3
<1>3. Len(r) + Len(w) + Len(b \o message) = n + Len(message)
  <2>1. n = Len(r) + Len(w) + Len(b)
    BY DEF Parts
  <2>2. Len(r) \in Nat /\ Len(w) \in Nat /\ Len(b) \in Nat /\ Len(message) \in Nat
    OBVIOUS
  <2> QED
    BY <1>1, <2>1, <2>2
<1> QED
  BY <1>1, <1>2, <1>3 DEF Parts

\* The kernel takes the beginning of what waits.
LEMMA PartsSplit ==
  ASSUME NEW r \in Seq(Nat), NEW w \in Seq(Nat), NEW b \in Seq(Nat), NEW n \in Nat,
         NEW head \in Seq(Nat), NEW rest \in Seq(Nat),
         Len(b) = Len(head) + Len(rest),
         \A i \in 1..Len(head) : head[i] = b[i],
         \A i \in 1..Len(rest) : rest[i] = b[Len(head) + i],
         Parts(r, w, b, n)
  PROVE  Parts(r, w \o head, rest, n)
<1>1. /\ w \o head \in Seq(Nat)
      /\ Len(w \o head) = Len(w) + Len(head)
  OBVIOUS
<1>2. ASSUME NEW i \in 1..(Len(w) + Len(head))
      PROVE  (w \o head)[i] = Len(r) + i
  <2>1. CASE i <= Len(w)
    BY <2>1 DEF Parts
  <2>2. CASE Len(w) < i
    <3>1. i - Len(w) \in 1..Len(head) /\ i - Len(w) \in 1..Len(b)
      BY <2>2
    <3>2. (w \o head)[i] = head[i - Len(w)]
      BY <2>2, <3>1
    <3>3. b[i - Len(w)] = Len(r) + Len(w) + (i - Len(w))
      BY <3>1 DEF Parts
    <3>4. head[i - Len(w)] = b[i - Len(w)]
      BY <3>1
    <3> QED
      BY <3>2, <3>3, <3>4
  <2>3. i <= Len(w) \/ Len(w) < i
    OBVIOUS
  <2> QED
    BY <2>1, <2>2, <2>3
<1>3. ASSUME NEW i \in 1..Len(rest) PROVE rest[i] = Len(r) + (Len(w) + Len(head)) + i
  <2>1. Len(head) + i \in 1..Len(b)
    OBVIOUS
  <2>2. b[Len(head) + i] = Len(r) + Len(w) + (Len(head) + i)
    BY <2>1 DEF Parts
  <2> QED
    BY <2>2
<1>4. Len(r) + (Len(w) + Len(head)) + Len(rest) = n
  BY DEF Parts
<1>5. \A i \in 1..Len(r) : r[i] = i
  BY DEF Parts
<1> QED
  BY <1>1, <1>2, <1>3, <1>4, <1>5 DEF Parts

LEMMA PartsTaken ==
  ASSUME NEW r \in Seq(Nat), NEW w \in Seq(Nat), NEW b \in Seq(Nat), NEW n \in Nat,
         NEW k \in 0..Len(b), Parts(r, w, b, n)
  PROVE  Parts(r, w \o SubSeq(b, 1, k), Drop(b, k), n)
<1>1. /\ SubSeq(b, 1, k) \in Seq(Nat)
      /\ Len(SubSeq(b, 1, k)) = k
      /\ \A i \in 1..k : SubSeq(b, 1, k)[i] = b[i]
  OBVIOUS
<1>2. /\ Drop(b, k) \in Seq(Nat)
      /\ Len(Drop(b, k)) = Len(b) - k
      /\ \A i \in 1..(Len(b) - k) : Drop(b, k)[i] = b[k + i]
  BY DEF Drop
<1>3. PICK head \in Seq(Nat) : head = SubSeq(b, 1, k)
  BY <1>1
<1>4. PICK rest \in Seq(Nat) : rest = Drop(b, k)
  BY <1>2
<1>5. Len(head) = k /\ \A i \in 1..k : head[i] = b[i]
  BY <1>1, <1>3
<1>6. Len(rest) = Len(b) - k /\ \A i \in 1..(Len(b) - k) : rest[i] = b[k + i]
  BY <1>2, <1>4
<1>7. Len(b) = Len(head) + Len(rest)
  BY <1>5, <1>6
<1>8. Parts(r, w \o head, rest, n)
  BY <1>5, <1>6, <1>7, PartsSplit
<1> QED
  BY <1>3, <1>4, <1>8

\* The peer reads one byte.
LEMMA PartsRead ==
  ASSUME NEW r \in Seq(Nat), NEW w \in Seq(Nat), NEW b \in Seq(Nat), NEW n \in Nat,
         Parts(r, w, b, n), w # <<>>
  PROVE  /\ Parts(Append(r, Head(w)), Tail(w), b, n)
         /\ Append(r, Head(w)) \in Seq(Nat)
         /\ Tail(w) \in Seq(Nat)
         /\ Len(Append(r, Head(w))) + Len(Tail(w)) = Len(r) + Len(w)
<1>1. /\ Append(r, Head(w)) \in Seq(Nat)
      /\ Len(Append(r, Head(w))) = Len(r) + 1
      /\ \A i \in 1..Len(r) : Append(r, Head(w))[i] = r[i]
      /\ Append(r, Head(w))[Len(r) + 1] = w[1]
  OBVIOUS
<1>2. /\ Tail(w) \in Seq(Nat)
      /\ Len(Tail(w)) = Len(w) - 1
      /\ \A i \in 1..(Len(w) - 1) : Tail(w)[i] = w[i + 1]
  OBVIOUS
<1>3. w[1] = Len(r) + 1
  BY DEF Parts
<1>4. \A i \in 1..(Len(r) + 1) : Append(r, Head(w))[i] = i
  BY <1>1, <1>3 DEF Parts
<1>5. ASSUME NEW i \in 1..(Len(w) - 1) PROVE Tail(w)[i] = (Len(r) + 1) + i
  <2>1. i + 1 \in 1..Len(w)
    OBVIOUS
  <2> QED
    BY <1>2, <2>1 DEF Parts
<1>6. \A i \in 1..Len(b) : b[i] = (Len(r) + 1) + (Len(w) - 1) + i
  BY DEF Parts
<1>7. (Len(r) + 1) + (Len(w) - 1) + Len(b) = n
  <2>1. n = Len(r) + Len(w) + Len(b)
    BY DEF Parts
  <2>2. Len(r) \in Nat /\ Len(w) \in Nat /\ Len(b) \in Nat
    OBVIOUS
  <2> QED
    BY <2>1, <2>2
<1> QED
  BY <1>1, <1>2, <1>4, <1>5, <1>6, <1>7 DEF Parts

-----------------------------------------------------------------------------

\* What is read and what is under way is the beginning of the stream; while the
\* peer is there, what waits is the rest of it.
StreamParts ==
  ~overtaken =>
    /\ Parts(received, wire, <<>>, Len(received) + Len(wire))
    /\ ~gone => Parts(received, wire, sendBuffer, cast)

SendInv == SendTypeOK /\ PollOutArmed /\ StreamParts

\* The first conjunct of StreamParts follows from the second.
LEMMA PartsBegin ==
  ASSUME NEW r \in Seq(Nat), NEW w \in Seq(Nat), NEW b \in Seq(Nat), NEW n \in Nat,
         Parts(r, w, b, n)
  PROVE  Parts(r, w, <<>>, Len(r) + Len(w))
BY DEF Parts

LEMMA SendInitInv == SendInit => SendInv
<1> SUFFICES ASSUME SendInit PROVE SendInv
  OBVIOUS
<1>1. SendTypeOK
  <2>1. <<>> \in Seq(Nat)
    OBVIOUS
  <2> QED
    BY <2>1 DEF SendInit, SendTypeOK
<1>a. PollOutArmed
  BY DEF SendInit, PollOutArmed
<1>2. Parts(<<>>, <<>>, <<>>, 0) /\ Len(<<>>) + Len(<<>>) = 0
  BY DEF Parts
<1>3. StreamParts
  BY <1>2 DEF SendInit, StreamParts
<1> QED
  BY <1>1, <1>a, <1>3 DEF SendInv

LEMMA SendStutter == SendInv /\ UNCHANGED sendVars => SendInv'
BY DEF SendInv, SendTypeOK, PollOutArmed, StreamParts, Parts, sendVars

\* castMsg.  Unless a send over a backlog is partial, what is kept is what was
\* offered and not taken: either there was no backlog, or all was taken.
LEMMA CastMsgInv ==
  ASSUME SendInv, NEW n \in Nat \ {0}, CastMsg(n)
  PROVE  SendInv'
<1> USE SendAssumption
<1>0. SendTypeOK /\ PollOutArmed /\ StreamParts
  BY DEF SendInv
<1>a. /\ sendBuffer \in Seq(Nat) /\ wire \in Seq(Nat) /\ received \in Seq(Nat)
      /\ cast \in Nat /\ n \in Nat
  BY <1>0 DEF SendTypeOK
<1>b. Message(n) \in Seq(Nat)
  BY <1>a DEF Message
<1>1. PICK message \in Seq(Nat) : message = Message(n)
  BY <1>b
<1>2. Len(message) = n /\ \A i \in 1..Len(message) : message[i] = cast + i
  BY <1>a, <1>1 DEF Message
<1>c. sendBuffer \o message \in Seq(Nat) /\ Len(sendBuffer \o message) = Len(sendBuffer) + n
  <2>1. sendBuffer \o message \in Seq(Nat) /\ Len(sendBuffer \o message) = Len(sendBuffer) + Len(message)
    BY <1>a, <1>1
  <2> QED
    BY <1>2, <2>1
<1>3. PICK data \in Seq(Nat) : data = sendBuffer \o message
  BY <1>c
<1>4. Len(data) = Len(sendBuffer) + n
  BY <1>c, <1>3
<1>5. ~overtaken /\ ~gone => Parts(received, wire, data, cast + n)
  BY <1>0, <1>a, <1>2, <1>3, PartsExtend DEF StreamParts
<1>6. cast' = cast + n /\ UNCHANGED <<writable, received, gone>> /\ cast' \in Nat
  BY <1>0 DEF CastMsg, SendTypeOK
<1>7. ASSUME NEW k \in Taken(data), ~gone,
             wire' = wire \o SubSeq(data, 1, k),
             KeepRest(n, k),
             overtaken' = (overtaken \/ (sendBuffer # <<>> /\ k < Len(sendBuffer) + n)),
             UNCHANGED marked
      PROVE  SendInv'
  <2>1. k \in 1..Len(data)
    BY DEF Taken
  <2>2. SubSeq(data, 1, k) \in Seq(Nat) /\ Drop(data, k) \in Seq(Nat)
    BY <2>1 DEF Drop
  <2>3. Drop(sendBuffer, k) \in Seq(Nat)
    BY <1>0, <2>1 DEF Drop, SendTypeOK
  <2>4. SendTypeOK'
    <3>1. sendBuffer' \in Seq(Nat)
      <4>1. sendBuffer \o Drop(data, k) \in Seq(Nat)
        BY <1>a, <2>2
      <4> QED
        BY <1>1, <1>3, <1>7, <2>3, <4>1 DEF KeepRest
    <3>2. wire' \in Seq(Nat)
      BY <1>a, <1>7, <2>2
    <3>3. pollOut' \in BOOLEAN /\ overtaken' \in BOOLEAN /\ marked' \in BOOLEAN
      BY <1>0, <1>7 DEF KeepRest, EnablePollOutEvent, SendTypeOK
    <3> QED
      BY <1>0, <1>6, <3>1, <3>2, <3>3 DEF SendTypeOK
  <2>5. PollOutArmed'
    <3>1. CASE k < n
      BY <1>7, <3>1 DEF KeepRest, EnablePollOutEvent, PollOutArmed
    <3>2. CASE ~(k < n)
      <4>1. sendBuffer = <<>> => Drop(sendBuffer, k) = <<>>
        BY <2>1 DEF Drop
      <4> QED
        BY <1>0, <1>7, <3>2, <4>1 DEF KeepRest, PollOutArmed
    <3> QED
      BY <3>1, <3>2
  <2>6. ASSUME ~overtaken' PROVE sendBuffer' = Drop(data, k)
    <3>1. CASE sendBuffer = <<>>
      <4>1. data = message /\ Len(data) = n
        BY <1>2, <1>3, <3>1
      <4>2. CASE k < n
        BY <1>1, <1>3, <1>7, <2>2, <3>1, <4>2 DEF KeepRest
      <4>3. CASE ~(k < n)
        BY <1>7, <2>1, <3>1, <4>1, <4>3 DEF KeepRest, Drop
      <4> QED
        BY <4>2, <4>3
    <3>2. CASE sendBuffer # <<>>
      <4>1. k = Len(data)
        <5>1. ~(k < Len(data))
          BY <1>4, <1>7, <2>6, <3>2
        <5> QED
          BY <2>1, <5>1
      <4>2. ~(k < n) /\ k >= Len(sendBuffer)
        BY <1>a, <1>4, <4>1
      <4>3. Drop(sendBuffer, k) = <<>> /\ Drop(data, k) = <<>>
        BY <1>a, <4>1, <4>2 DEF Drop
      <4> QED
        BY <1>7, <4>2, <4>3 DEF KeepRest
    <3> QED
      BY <3>1, <3>2
  <2>7. StreamParts'
    <3> SUFFICES ASSUME ~overtaken' PROVE Parts(received', wire', <<>>, Len(received') + Len(wire'))
                                         /\ Parts(received', wire', sendBuffer', cast')
      BY DEF StreamParts
    <3>1. Parts(received, wire, data, cast + n)
      BY <1>5, <1>7
    <3>2. Parts(received, wire \o SubSeq(data, 1, k), Drop(data, k), cast + n)
      BY <1>0, <1>6, <2>1, <3>1, PartsTaken DEF SendTypeOK
    <3>3. Parts(received', wire', sendBuffer', cast')
      BY <1>6, <1>7, <2>6, <3>2
    <3> QED
      BY <2>4, <3>3, PartsBegin DEF SendTypeOK
  <2> QED
    BY <2>4, <2>5, <2>7 DEF SendInv
<1>8. ASSUME ~gone, sendBuffer' = sendBuffer \o Message(n), EnablePollOutEvent,
             UNCHANGED <<marked, wire, overtaken>>
      PROVE  SendInv'
  <2>1. sendBuffer' = data
    BY <1>1, <1>3, <1>8
  <2>2. SendTypeOK'
    BY <1>0, <1>6, <1>8, <2>1 DEF SendTypeOK, EnablePollOutEvent
  <2>3. PollOutArmed'
    BY <1>8 DEF PollOutArmed, EnablePollOutEvent
  <2>4. StreamParts'
    BY <1>0, <1>5, <1>6, <1>8, <2>1 DEF StreamParts
  <2> QED
    BY <2>2, <2>3, <2>4 DEF SendInv
<1>9. ASSUME gone, UNCHANGED <<sendBuffer, pollOut, wire, overtaken>>,
             marked' = TRUE \/ UNCHANGED marked
      PROVE  SendInv'
  <2>1. SendTypeOK'
    BY <1>0, <1>6, <1>9 DEF SendTypeOK
  <2>2. PollOutArmed'
    BY <1>0, <1>9 DEF PollOutArmed
  <2>3. StreamParts'
    BY <1>0, <1>6, <1>9 DEF StreamParts
  <2> QED
    BY <2>1, <2>2, <2>3 DEF SendInv
<1> QED
  BY <1>1, <1>3, <1>7, <1>8, <1>9 DEF CastMsg

\* processClientWrite: POLLOUT goes off with the last byte and not before.
LEMMA ProcessClientWriteInv ==
  ASSUME SendInv, ProcessClientWrite
  PROVE  SendInv'
<1>1. SendTypeOK /\ PollOutArmed /\ StreamParts
  BY DEF SendInv
<1>2. /\ sendBuffer \in Seq(Nat) /\ wire \in Seq(Nat) /\ received \in Seq(Nat) /\ cast \in Nat
  BY <1>1 DEF SendTypeOK
<1>3. writable' = FALSE /\ UNCHANGED <<received, gone, cast, overtaken>>
  BY DEF ProcessClientWrite
<1>4. ASSUME ~gone \/ sendBuffer = <<>>,
             NEW k \in IF Taken(sendBuffer) = {} THEN {0} ELSE Taken(sendBuffer),
             wire' = wire \o SubSeq(sendBuffer, 1, k),
             sendBuffer' = Drop(sendBuffer, k),
             pollOut' = (sendBuffer' # <<>>),
             UNCHANGED marked
      PROVE  SendInv'
  <2>1. k \in 0..Len(sendBuffer)
    BY <1>2 DEF Taken
  <2>2. SubSeq(sendBuffer, 1, k) \in Seq(Nat) /\ Drop(sendBuffer, k) \in Seq(Nat)
    BY <1>2, <2>1 DEF Drop
  <2>3. wire' \in Seq(Nat) /\ sendBuffer' \in Seq(Nat)
    BY <1>2, <1>4, <2>2
  <2>4. SendTypeOK'
    BY <1>1, <1>3, <1>4, <2>3 DEF SendTypeOK
  <2>5. PollOutArmed'
    BY <1>4 DEF PollOutArmed
  <2>6. StreamParts'
    <3>1. CASE ~gone
      <4>1. ~overtaken => Parts(received, wire', sendBuffer', cast)
        BY <1>1, <1>2, <1>4, <2>1, <3>1, PartsTaken DEF StreamParts
      <4> QED
        BY <1>2, <1>3, <2>3, <4>1, PartsBegin DEF StreamParts
    <3>2. CASE gone
      <4>1. sendBuffer = <<>> /\ k = 0
        BY <1>4, <2>1, <3>2
      <4>2. wire' = wire
        BY <1>2, <1>4, <4>1
      <4> QED
        BY <1>1, <1>3, <3>2, <4>2 DEF StreamParts
    <3> QED
      BY <3>1, <3>2
  <2> QED
    BY <2>4, <2>5, <2>6 DEF SendInv
<1>5. ASSUME marked' = TRUE, UNCHANGED <<sendBuffer, pollOut, wire>>
      PROVE  SendInv'
  BY <1>1, <1>3, <1>5 DEF SendInv, SendTypeOK, PollOutArmed, StreamParts
<1> QED
  BY <1>4, <1>5 DEF ProcessClientWrite

LEMMA PeerReadsInv ==
  ASSUME SendInv, PeerReads
  PROVE  SendInv'
<1>1. SendTypeOK /\ PollOutArmed /\ StreamParts
  BY DEF SendInv
<1>2. /\ sendBuffer \in Seq(Nat) /\ wire \in Seq(Nat) /\ received \in Seq(Nat) /\ cast \in Nat
  BY <1>1 DEF SendTypeOK
<1>3. /\ wire # <<>> /\ ~gone
      /\ received' = Append(received, Head(wire))
      /\ wire' = Tail(wire)
      /\ UNCHANGED <<sendBuffer, pollOut, writable, marked, gone, cast, overtaken>>
  BY DEF PeerReads
<1>4. received' \in Seq(Nat) /\ wire' \in Seq(Nat)
  BY <1>2, <1>3
<1>5. ~overtaken => Parts(received', wire', sendBuffer, cast)
  BY <1>1, <1>2, <1>3, PartsRead DEF StreamParts
<1>6. SendTypeOK'
  BY <1>1, <1>3, <1>4 DEF SendTypeOK
<1>7. PollOutArmed'
  BY <1>1, <1>3 DEF PollOutArmed
<1>8. StreamParts'
  BY <1>2, <1>3, <1>4, <1>5, PartsBegin DEF StreamParts
<1> QED
  BY <1>6, <1>7, <1>8 DEF SendInv

\* The steps that move no bytes, and the teardown.
LEMMA OtherSendStepsInv ==
  ASSUME SendInv, Poll \/ MarkClientForRemoval \/ PeerGoes \/ TearDown
  PROVE  SendInv'
<1>1. SendTypeOK /\ PollOutArmed /\ StreamParts
  BY DEF SendInv
<1>2. CASE Poll
  BY <1>1, <1>2 DEF Poll, SendInv, SendTypeOK, PollOutArmed, StreamParts
<1>3. CASE MarkClientForRemoval
  BY <1>1, <1>3 DEF MarkClientForRemoval, SendInv, SendTypeOK, PollOutArmed, StreamParts
<1>4. CASE PeerGoes
  BY <1>1, <1>4 DEF PeerGoes, SendInv, SendTypeOK, PollOutArmed, StreamParts
<1>5. CASE TearDown
  <2>1. <<>> \in Seq(Nat) /\ Parts(<<>>, <<>>, <<>>, 0) /\ Len(<<>>) + Len(<<>>) = 0
    BY DEF Parts
  <2>2. SendTypeOK' /\ PollOutArmed'
    BY <1>5, <2>1 DEF TearDown, SendTypeOK, PollOutArmed
  <2>3. StreamParts'
    BY <1>5, <2>1 DEF TearDown, StreamParts
  <2> QED
    BY <2>2, <2>3 DEF SendInv
<1> QED
  BY <1>2, <1>3, <1>4, <1>5

LEMMA SendNextInv == SendInv /\ [SendNext]_sendVars => SendInv'
BY SendStutter, CastMsgInv, ProcessClientWriteInv, PeerReadsInv, OtherSendStepsInv DEF SendNext

LEMMA SendInvImplies == SendInv => PollOutArmed /\ StreamExact
<1> SUFFICES ASSUME SendInv, ~overtaken
             PROVE  /\ received \o wire = Stream(Len(received) + Len(wire))
                    /\ ~gone => received \o wire \o sendBuffer = Stream(cast)
  BY DEF SendInv, StreamExact
<1>1. /\ sendBuffer \in Seq(Nat) /\ wire \in Seq(Nat) /\ received \in Seq(Nat) /\ cast \in Nat
      /\ <<>> \in Seq(Nat)
  BY DEF SendInv, SendTypeOK
<1>2. received \o wire \o <<>> = Stream(Len(received) + Len(wire))
  <2>1. Parts(received, wire, <<>>, Len(received) + Len(wire))
    BY DEF SendInv, StreamParts
  <2>2. Len(received) + Len(wire) \in Nat
    BY <1>1
  <2> QED
    BY <1>1, <2>1, <2>2, PartsAreStream
<1>3. received \o wire \o <<>> = received \o wire
  BY <1>1
<1>4. ~gone => received \o wire \o sendBuffer = Stream(cast)
  BY <1>1, PartsAreStream DEF SendInv, StreamParts
<1> QED
  BY <1>2, <1>3, <1>4

\* The send path by itself, with messages of any size: POLLOUT is on while
\* something waits.
THEOREM SendPathCorrect == SendSpec => [](PollOutArmed /\ StreamExact)
<1>1. SendInit => SendInv
  BY SendInitInv
<1>2. SendInv /\ [SendNext]_sendVars => SendInv'
  BY SendNextInv
<1>3. SendInv => PollOutArmed /\ StreamExact
  BY SendInvImplies
<1> QED
  BY <1>1, <1>2, <1>3, PTL DEF SendSpec
=============================================================================
