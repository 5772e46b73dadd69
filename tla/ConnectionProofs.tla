-------------------------- MODULE ConnectionProofs --------------------------
(***************************************************************************)
(* What holds of a send path and of a receive buffer by themselves holds   *)
(* of both on one connection, for any chunks, replies and bounds.          *)
(***************************************************************************)
EXTENDS Connection, SendPathProofs, RecvFramingProofs

\* Every step of the connection is a step of its send path.
LEMMA SendStep == [Next]_vars => [SendNext]_sendVars
<1> SUFFICES ASSUME [Next]_vars PROVE [SendNext]_sendVars
  OBVIOUS
<1> USE ConnectionAssumption
<1>1. ASSUME NEW n \in ReplySizes, Reply(n) PROVE [SendNext]_sendVars
  BY <1>1 DEF Reply, SendNext
<1>2. CASE HandleLine
  BY <1>1, <1>2 DEF HandleLine, SendNext
<1>3. ASSUME NEW n \in CastSizes, CastMore(n) PROVE [SendNext]_sendVars
  BY <1>3 DEF CastMore, SendNext
<1>4. CASE \/ PollAgain \/ WriteClient \/ Lose \/ Cleanup \/ PeerRead \/ PeerGo
  BY <1>4 DEF PollAgain, WriteClient, Lose, Cleanup, PeerRead, PeerGo, SendNext
<1>5. ASSUME NEW m \in 1..ChunkMax, NEW chunk \in [1..m -> Bytes], Receive(chunk)
      PROVE  UNCHANGED sendVars
  BY <1>5 DEF Receive
<1>6. CASE DrainDone \/ UNCHANGED vars
  BY <1>6 DEF DrainDone, vars
<1> QED
  BY <1>2, <1>3, <1>4, <1>5, <1>6 DEF Next

\* With the receive buffer, the dispatcher and the cleanup around it, castMsg,
\* processClientWrite and poll do nothing that the send path by itself may not.
THEOREM ConnectionImplementsSendPath == Spec => SendSpec
<1>1. Init => SendInit
  BY DEF Init
<1>2. [Next]_vars => [SendNext]_sendVars
  BY SendStep
<1> QED
  BY <1>1, <1>2, PTL DEF Spec, SendSpec

\* On a connection, POLLOUT is on while something waits to be sent.
THEOREM PollOutStaysArmed == Spec => []PollOutArmed
<1>1. Init => SendInv
  BY SendInitInv DEF Init
<1>2. SendInv /\ [Next]_vars => SendInv'
  BY SendStep, SendNextInv
<1>3. SendInv => PollOutArmed
  BY SendInvImplies
<1> QED
  BY <1>1, <1>2, <1>3, PTL DEF Spec

\* The peer of a connection reads the stream of what was cast to it, until a
\* send over a backlog is partial.
THEOREM StreamStaysExact == Spec => []StreamExact
<1>1. Init => SendInv
  BY SendInitInv DEF Init
<1>2. SendInv /\ [Next]_vars => SendInv'
  BY SendStep, SendNextInv
<1>3. SendInv => StreamExact
  BY SendInvImplies
<1> QED
  BY <1>1, <1>2, <1>3, PTL DEF Spec

-----------------------------------------------------------------------------

\* No step of the connection spoils the receive buffer or a line.
LEMMA RecvStep == RecvInv /\ [Next]_vars => RecvInv'
<1> SUFFICES ASSUME RecvInv, [Next]_vars PROVE RecvInv'
  OBVIOUS
<1>1. ASSUME NEW m \in 1..ChunkMax, NEW chunk \in [1..m -> Bytes], Receive(chunk)
      PROVE  RecvInv'
  <2>1. chunk \in Seq(Bytes)
    BY SeqDef
  <2> QED
    BY <1>1, <2>1, RecvKeepsInv DEF Receive
<1>2. CASE HandleLine
  BY <1>2, ExtractKeepsInv DEF HandleLine
<1>3. CASE Cleanup
  <2>1. RecvInit'
    BY <1>3 DEF Cleanup, RecvInit
  <2>2. recvBuffer' = <<>> /\ heard' = <<>> /\ lines' = <<>>
    BY <2>1 DEF RecvInit
  <2> QED
    BY <2>2 DEF RecvInv, RecvTypeOK, LinesClean
<1>4. CASE UNCHANGED recvVars
  BY <1>4 DEF recvVars, RecvInv, RecvTypeOK, LinesClean, CRLFAt
<1>5. ASSUME NEW n \in CastSizes, CastMore(n) PROVE UNCHANGED recvVars
  BY <1>5 DEF CastMore
<1>6. CASE DrainDone \/ PollAgain \/ WriteClient \/ Lose \/ PeerRead \/ PeerGo \/ UNCHANGED vars
  <2>1. UNCHANGED recvVars
    BY <1>6 DEF DrainDone, PollAgain, WriteClient, Lose, PeerRead, PeerGo, vars
  <2> QED
    BY <1>4, <2>1
<1> QED
  BY <1>1, <1>2, <1>3, <1>4, <1>5, <1>6 DEF Next

\* Whatever bytes arrive in whatever chunks, a handler gets lines that are not
\* too long and have no CRLF and no NUL.
THEOREM LinesAreClean == Spec => []LinesClean
<1>1. Init => RecvInv
  BY RecvInitInv DEF Init
<1>2. RecvInv /\ [Next]_vars => RecvInv'
  BY RecvStep
<1>3. RecvInv => LinesClean
  BY DEF RecvInv
<1> QED
  BY <1>1, <1>2, <1>3, PTL DEF Spec

\* Once a client is marked, no more of its bytes are read and no more of its
\* lines are handled before the teardown.
THEOREM MarkedStaysUnserved == Spec => MarkedIsNotServed
<1>1. ASSUME [Next]_vars, marked, marked' PROVE UNCHANGED <<lines, heard>>
  <2>1. ~ HandleLine /\ \A m \in 1..ChunkMax : \A chunk \in [1..m -> Bytes] : ~ Receive(chunk)
    BY <1>1 DEF HandleLine, Receive
  <2>2. ~ Cleanup
    BY <1>1 DEF Cleanup, TearDown
  <2>3. ASSUME \/ DrainDone \/ (\E n \in CastSizes : CastMore(n))
               \/ PollAgain \/ WriteClient \/ Lose \/ PeerRead \/ PeerGo
        PROVE  UNCHANGED recvVars
    BY <2>3 DEF DrainDone, CastMore, PollAgain, WriteClient, Lose, PeerRead, PeerGo
  <2> QED
    BY <1>1, <2>1, <2>2, <2>3 DEF Next, vars, recvVars
<1>2. [Next]_vars => [marked /\ marked' => UNCHANGED <<lines, heard>>]_vars
  BY <1>1
<1> QED
  BY <1>2, PTL DEF Spec, MarkedIsNotServed

\* A recv finds the buffer drained, and cutting lines off only shortens it.
LEMMA BoundStep == RecvInv /\ BufferBounded /\ [Next]_vars => BufferBounded'
<1> SUFFICES ASSUME RecvInv, BufferBounded, [Next]_vars PROVE BufferBounded'
  OBVIOUS
<1> USE ConnectionAssumption, FramingAssumption
<1>a. recvBuffer \in Seq(Bytes)
  BY DEF RecvInv, RecvTypeOK
<1>1. ASSUME NEW m \in 1..ChunkMax, NEW chunk \in [1..m -> Bytes], Receive(chunk)
      PROVE  BufferBounded'
  <2>1. chunk \in Seq(Bytes) /\ Len(chunk) = m /\ m \in Nat /\ m <= ChunkMax
    <3>1. m \in Nat /\ m <= ChunkMax
      OBVIOUS
    <3>2. chunk \in Seq(Bytes)
      BY <3>1, SeqDef
    <3>3. Len(chunk) = m
      BY <3>1, <3>2
    <3> QED
      BY <3>1, <3>2, <3>3
  <2>2. Len(recvBuffer') <= Len(recvBuffer) + m /\ Len(recvBuffer') \in Nat
    <3>1. recvBuffer' \in Seq(Bytes)
      BY <1>1, <2>1, RecvKeepsInv DEF Receive, RecvInv, RecvTypeOK
    <3> QED
      BY <1>1, <2>1, <3>1, RecvAddsChunk DEF Receive
  <2>3. Len(recvBuffer) <= LineMax + 1
    BY <1>1 DEF Receive, BufferBounded
  <2>4. draining'
    BY <1>1 DEF Receive
  <2>5. Len(recvBuffer') <= LineMax + 1 + ChunkMax
    BY <1>a, <2>1, <2>2, <2>3
  <2> QED
    BY <2>4, <2>5 DEF BufferBounded
<1>2. CASE HandleLine
  <2>1. Len(recvBuffer') <= Len(recvBuffer) /\ Len(recvBuffer') \in Nat
    <3>1. recvBuffer' \in Seq(Bytes)
      BY <1>2, ExtractKeepsInv DEF HandleLine, RecvInv, RecvTypeOK
    <3> QED
      BY <1>2, <3>1, ExtractShortens DEF HandleLine
  <2>2. draining /\ draining'
    BY <1>2 DEF HandleLine
  <2> QED
    BY <1>a, <2>1, <2>2 DEF BufferBounded
<1>3. CASE DrainDone
  <2>1. recvBuffer' = recvBuffer /\ marked' = marked /\ ~draining'
    BY <1>3 DEF DrainDone, recvVars, sendVars
  <2>2. draining /\ (marked \/ ~HasLine)
    BY <1>3 DEF DrainDone
  <2>3. ~HasLine => Len(recvBuffer) <= LineMax + 1
    BY <1>a DEF HasLine
  <2> QED
    BY <1>a, <2>1, <2>2, <2>3 DEF BufferBounded
<1>4. CASE Cleanup
  <2>1. recvBuffer' = <<>>
    BY <1>4 DEF Cleanup
  <2> QED
    BY <2>1 DEF BufferBounded
<1>5. CASE \/ \E n \in CastSizes : CastMore(n)
           \/ PollAgain \/ WriteClient \/ Lose \/ PeerRead \/ PeerGo \/ UNCHANGED vars
  <2>1. recvBuffer' = recvBuffer /\ draining' = draining
    BY <1>5 DEF CastMore, PollAgain, WriteClient, Lose, PeerRead, PeerGo, vars, recvVars
  <2>2. marked => marked'
    BY <1>5 DEF CastMore, PollAgain, WriteClient, Lose, PeerRead, PeerGo, vars, sendVars,
                CastMsg, Poll, ProcessClientWrite, MarkClientForRemoval, PeerReads, PeerGoes
  <2> QED
    BY <1>a, <2>1, <2>2 DEF BufferBounded
<1> QED
  BY <1>1, <1>2, <1>3, <1>4, <1>5 DEF Next

\* A client without line ends costs at most a line and a recv.
THEOREM BufferStaysBounded == Spec => []BufferBounded
<1>1. Init => RecvInv /\ BufferBounded
  <2>1. Init => RecvInv
    BY RecvInitInv DEF Init
  <2>2. Init => BufferBounded
    BY ConnectionAssumption, FramingAssumption DEF Init, RecvInit, BufferBounded
  <2> QED
    BY <2>1, <2>2
<1>2. RecvInv /\ BufferBounded /\ [Next]_vars => (RecvInv /\ BufferBounded)'
  BY RecvStep, BoundStep
<1> QED
  BY <1>1, <1>2, PTL DEF Spec

-----------------------------------------------------------------------------

\* The buffer is a rest of the stream, and between two reads it holds no line.
FramedInv == RecvInv /\ Framed /\ (~draining /\ ~marked => ~HasLine)

\* A new connection has it, also behind an old one on the same file descriptor.
LEMMA FramedInit == RecvInit => FramedInv
<1> SUFFICES ASSUME RecvInit PROVE FramedInv
  OBVIOUS
<1>1. RecvInv /\ Framed
  BY RecvInitInv, RecvInitFramed
<1>2. ~HasLine
  <2>1. recvBuffer = <<>>
    BY DEF RecvInit
  <2>2. Len(recvBuffer) = 0 /\ \A i \in Nat : ~CRLFAt(recvBuffer, i)
    BY <2>1 DEF CRLFAt
  <2> QED
    BY <2>2, FramingAssumption DEF HasLine, FirstCRLF
<1> QED
  BY <1>1, <1>2 DEF FramedInv

LEMMA FramedStep == FramedInv /\ [Next]_vars => FramedInv'
<1> SUFFICES ASSUME FramedInv, [Next]_vars PROVE FramedInv'
  OBVIOUS
<1>a. RecvInv /\ Framed /\ (~draining /\ ~marked => ~HasLine) /\ RecvInv'
  BY RecvStep DEF FramedInv
<1>1. ASSUME NEW m \in 1..ChunkMax, NEW chunk \in [1..m -> Bytes], Receive(chunk)
      PROVE  FramedInv'
  <2>1. chunk \in Seq(Bytes)
    BY SeqDef
  <2>2. Framed' /\ draining'
    BY <1>1, <1>a, <2>1, RecvKeepsFramed DEF Receive
  <2> QED
    BY <1>a, <2>2 DEF FramedInv
<1>2. CASE HandleLine
  <2>1. Framed' /\ draining'
    BY <1>2, <1>a, ExtractKeepsFramed DEF HandleLine
  <2> QED
    BY <1>a, <2>1 DEF FramedInv
<1>3. CASE DrainDone
  <2>1. UNCHANGED recvVars /\ marked' = marked /\ (marked \/ ~HasLine)
    BY <1>3 DEF DrainDone, sendVars
  <2>2. Framed' /\ (HasLine' <=> HasLine)
    BY <1>a, <2>1 DEF Framed, recvVars, HasLine, FirstCRLF, CRLFAt
  <2> QED
    BY <1>a, <2>1, <2>2 DEF FramedInv
<1>4. CASE Cleanup
  <2>1. RecvInit'
    BY <1>4 DEF Cleanup, RecvInit
  <2>2. RecvInit' => FramedInv'
    BY FramedInit, PTL
  <2> QED
    BY <2>1, <2>2
<1>5. CASE \/ \E n \in CastSizes : CastMore(n)
           \/ PollAgain \/ WriteClient \/ Lose \/ PeerRead \/ PeerGo \/ UNCHANGED vars
  <2>1. UNCHANGED recvVars /\ draining' = draining
    BY <1>5 DEF CastMore, PollAgain, WriteClient, Lose, PeerRead, PeerGo, vars
  <2>2. marked => marked'
    BY <1>5 DEF CastMore, PollAgain, WriteClient, Lose, PeerRead, PeerGo, vars, sendVars,
                CastMsg, Poll, ProcessClientWrite, MarkClientForRemoval, PeerReads, PeerGoes
  <2>3. Framed' /\ (HasLine' <=> HasLine)
    BY <1>a, <2>1 DEF Framed, recvVars, HasLine, FirstCRLF, CRLFAt
  <2> QED
    BY <1>a, <2>1, <2>2, <2>3 DEF FramedInv
<1> QED
  BY <1>1, <1>2, <1>3, <1>4, <1>5 DEF Next

\* However the network and the reads cut the bytes up, the lines are those of
\* the stream, in their order, and all that have come are handled before the
\* next read.
THEOREM FramingStaysExact == Spec => []FramingExact
<1>1. Init => FramedInv
  BY FramedInit DEF Init
<1>2. FramedInv /\ [Next]_vars => FramedInv'
  BY FramedStep
<1>3. FramedInv => FramingExact
  BY FramedIsExact DEF FramedInv, FramingExact
<1> QED
  BY <1>1, <1>2, <1>3, PTL DEF Spec
-----------------------------------------------------------------------------

\* The lengths of what the kernel takes and of what is left.
LEMMA SplitLengths ==
  ASSUME NEW s \in Seq(Nat), NEW w \in Seq(Nat), NEW k \in Nat
  PROVE  /\ k <= Len(s) => Len(w \o SubSeq(s, 1, k)) = Len(w) + k
         /\ Drop(s, k) \in Seq(Nat)
         /\ Len(Drop(s, k)) = IF Len(s) > k THEN Len(s) - k ELSE 0
<1>1. CASE k <= Len(s)
  <2>1. SubSeq(s, 1, k) \in Seq(Nat) /\ Len(SubSeq(s, 1, k)) = k
    BY <1>1
  <2>2. Len(w \o SubSeq(s, 1, k)) = Len(w) + k
    BY <2>1
  <2>3. Drop(s, k) \in Seq(Nat) /\ Len(Drop(s, k)) = Len(s) - k
    BY <1>1 DEF Drop
  <2> QED
    BY <1>1, <2>2, <2>3
<1>2. CASE k > Len(s)
  <2>1. Drop(s, k) = <<>> /\ <<>> \in Seq(Nat)
    BY <1>2 DEF Drop
  <2> QED
    BY <1>2, <2>1
<1> QED
  BY <1>1, <1>2

\* castMsg moves as many bytes as Cast says, and switches POLLOUT as it says.
LEMMA CastLengths ==
  ASSUME SendTypeOK, NEW n \in Nat \ {0}, CastMsg(n)
  PROVE  Progress!Cast(n)
<1>1. sendBuffer \in Seq(Nat) /\ wire \in Seq(Nat) /\ cast \in Nat
  BY DEF SendTypeOK
<1>2. Message(n) \in Seq(Nat) /\ Len(Message(n)) = n
  BY <1>1 DEF Message
<1>3. PICK message \in Seq(Nat) : message = Message(n)
  BY <1>2
<1>a. /\ sendBuffer \o message \in Seq(Nat)
      /\ Len(sendBuffer \o message) = Len(sendBuffer) + Len(message)
  BY <1>1, <1>3
<1>4. PICK data \in Seq(Nat) : data = sendBuffer \o message
  BY <1>a
<1>5. Len(data) = Len(sendBuffer) + n /\ Len(sendBuffer) \in Nat
  BY <1>1, <1>2, <1>3, <1>4, <1>a
<1>6. UNCHANGED <<writable, gone>>
  BY DEF CastMsg
<1>7. ASSUME NEW k \in Taken(data), ~gone,
             wire' = wire \o SubSeq(data, 1, k),
             KeepRest(n, k),
             UNCHANGED marked
      PROVE  Progress!Cast(n)
  <2>1. k \in Nat /\ k <= Len(data) /\ k \in Progress!Takes(Len(sendBuffer) + n)
    BY <1>5 DEF Taken, Progress!Takes
  <2>2. Len(wire') = Len(wire) + k
    BY <1>1, <1>7, <2>1, SplitLengths
  <2>3. Progress!Keep(n, k)
    <3>1. CASE k < n
      <4>1. /\ Drop(data, k) \in Seq(Nat)
            /\ Len(Drop(data, k)) = IF Len(data) > k THEN Len(data) - k ELSE 0
        BY <1>4, <2>1, SplitLengths
      <4>2. PICK rest \in Seq(Nat) : rest = Drop(data, k)
        BY <4>1
      <4>3. Len(rest) = Len(sendBuffer) + n - k
        BY <1>5, <2>1, <3>1, <4>1, <4>2
      <4>4. sendBuffer' = sendBuffer \o rest /\ EnablePollOutEvent
        BY <1>3, <1>4, <1>7, <3>1, <4>2 DEF KeepRest
      <4>5. Len(sendBuffer \o rest) = Len(sendBuffer) + Len(rest)
        BY <1>1, <4>2
      <4>6. Len(sendBuffer') = Len(sendBuffer) + (Len(sendBuffer) + n - k)
        BY <4>3, <4>4, <4>5
      <4> QED
        BY <3>1, <4>4, <4>6 DEF EnablePollOutEvent, Progress!Keep, Progress!Arm
    <3>2. CASE ~(k < n)
      <4>1. sendBuffer' = Drop(sendBuffer, k) /\ UNCHANGED pollOut
        BY <1>7, <3>2 DEF KeepRest
      <4>2. Len(sendBuffer') = IF Len(sendBuffer) > k THEN Len(sendBuffer) - k ELSE 0
        BY <1>1, <2>1, <4>1, SplitLengths
      <4>3. k >= n
        BY <2>1, <3>2
      <4> QED
        BY <4>1, <4>2, <4>3 DEF Progress!Keep
    <3> QED
      BY <3>1, <3>2
  <2> QED
    BY <1>6, <1>7, <2>1, <2>2, <2>3 DEF Progress!Cast
<1>8. ASSUME ~gone, Len(wire) = Room, sendBuffer' = data, EnablePollOutEvent,
             UNCHANGED <<marked, wire>>
      PROVE  Progress!Cast(n)
  <2>1. Len(sendBuffer') = Len(sendBuffer) + n
    BY <1>5, <1>8
  <2> QED
    BY <1>6, <1>8, <2>1 DEF EnablePollOutEvent, Progress!Cast, Progress!Arm
<1>9. ASSUME gone, UNCHANGED <<sendBuffer, pollOut, wire>>, marked' = TRUE \/ UNCHANGED marked
      PROVE  Progress!Cast(n)
  BY <1>6, <1>9 DEF Progress!Cast
<1> QED
  BY <1>3, <1>4, <1>7, <1>8, <1>9 DEF CastMsg

\* So does processClientWrite.
LEMMA WriteLengths ==
  ASSUME SendTypeOK, ProcessClientWrite
  PROVE  Progress!Write
<1>1. sendBuffer \in Seq(Nat) /\ wire \in Seq(Nat)
  BY DEF SendTypeOK
<1>2. writable /\ ~marked /\ writable' = FALSE /\ UNCHANGED gone
  BY DEF ProcessClientWrite
<1>3. (sendBuffer = <<>> <=> Len(sendBuffer) = 0) /\ Len(sendBuffer) \in Nat
  BY <1>1
<1>4. ASSUME ~gone \/ sendBuffer = <<>>,
             NEW k \in IF Taken(sendBuffer) = {} THEN {0} ELSE Taken(sendBuffer),
             wire' = wire \o SubSeq(sendBuffer, 1, k),
             sendBuffer' = Drop(sendBuffer, k),
             pollOut' = (sendBuffer' # <<>>),
             UNCHANGED marked
      PROVE  Progress!Write
  <2>1. Progress!Takes(Len(sendBuffer)) = Taken(sendBuffer)
    BY DEF Taken, Progress!Takes
  <2>2. k \in Nat /\ k <= Len(sendBuffer)
    BY <1>3 DEF Taken
  <2>3. Len(wire') = Len(wire) + k
    BY <1>1, <1>4, <2>2, SplitLengths
  <2>4. sendBuffer' \in Seq(Nat) /\ Len(sendBuffer') = Len(sendBuffer) - k
    <3>1. /\ Drop(sendBuffer, k) \in Seq(Nat)
          /\ Len(Drop(sendBuffer, k)) = IF Len(sendBuffer) > k THEN Len(sendBuffer) - k ELSE 0
      BY <1>1, <2>2, SplitLengths
    <3> QED
      BY <1>3, <1>4, <2>2, <3>1
  <2>5. pollOut' = (Len(sendBuffer) > k)
    <3>1. sendBuffer' # <<>> <=> Len(sendBuffer) > k
      BY <1>3, <2>2, <2>4
    <3> QED
      BY <1>4, <3>1
  <2> QED
    BY <1>2, <1>3, <1>4, <2>1, <2>3, <2>4, <2>5 DEF Progress!Write
<1>5. ASSUME gone, sendBuffer # <<>>, marked' = TRUE, UNCHANGED <<sendBuffer, pollOut, wire>>
      PROVE  Progress!Write
  <2>1. Len(sendBuffer) > 0
    BY <1>3, <1>5
  <2> QED
    BY <1>2, <1>5, <2>1 DEF Progress!Write
<1> QED
  BY <1>4, <1>5 DEF ProcessClientWrite

\* The steps that cast and write nothing.
LEMMA OtherLengths ==
  ASSUME SendTypeOK,
         Poll \/ MarkClientForRemoval \/ TearDown \/ PeerReads \/ PeerGoes \/ UNCHANGED sendVars
  PROVE  [Progress!Next]_(Progress!vars)
<1>1. sendBuffer \in Seq(Nat) /\ wire \in Seq(Nat)
  BY DEF SendTypeOK
<1>2. CASE Poll
  BY <1>2 DEF Poll, Progress!Next, Progress!Poll
<1>3. CASE MarkClientForRemoval
  BY <1>3 DEF MarkClientForRemoval, Progress!Next, Progress!Mark
<1>4. CASE TearDown
  <2>1. Len(sendBuffer') = 0 /\ Len(wire') = 0
    BY <1>4 DEF TearDown
  <2> QED
    BY <1>4, <2>1 DEF TearDown, Progress!Next, Progress!TearDown
<1>5. CASE PeerReads
  <2>1. Len(wire) > 0 /\ Len(wire') = Len(wire) - 1
    BY <1>1, <1>5 DEF PeerReads
  <2> QED
    BY <1>5, <2>1 DEF PeerReads, Progress!Next, Progress!PeerReads
<1>6. CASE PeerGoes
  BY <1>6 DEF PeerGoes, Progress!Next, Progress!PeerGoes
<1>7. CASE UNCHANGED sendVars
  BY <1>7 DEF sendVars, Progress!vars
<1> QED
  BY <1>2, <1>3, <1>4, <1>5, <1>6, <1>7

LEMMA ProgressStep == SendTypeOK /\ [Next]_vars => [Progress!Next]_(Progress!vars)
<1> SUFFICES ASSUME SendTypeOK, [Next]_vars PROVE [Progress!Next]_(Progress!vars)
  OBVIOUS
<1>1. ASSUME NEW n \in (ReplySizes \cup CastSizes) \ {0}, CastMsg(n)
      PROVE  [Progress!Next]_(Progress!vars)
  <2>1. n \in Nat \ {0}
    BY ConnectionAssumption
  <2> QED
    BY <1>1, <2>1, CastLengths DEF Progress!Next
<1>2. CASE HandleLine
  <2>1. ASSUME NEW n \in ReplySizes, Reply(n) PROVE [Progress!Next]_(Progress!vars)
    BY <1>1, <2>1, OtherLengths DEF Reply
  <2> QED
    BY <1>2, <2>1, OtherLengths DEF HandleLine
<1>3. ASSUME NEW n \in CastSizes, CastMore(n) PROVE [Progress!Next]_(Progress!vars)
  BY <1>1, <1>3, ConnectionAssumption DEF CastMore
<1>4. CASE WriteClient
  BY <1>4, WriteLengths DEF WriteClient, Progress!Next
<1>5. CASE PollAgain \/ Lose \/ Cleanup \/ PeerRead \/ PeerGo
  BY <1>5, OtherLengths DEF PollAgain, Lose, Cleanup, PeerRead, PeerGo
<1>6. ASSUME NEW m \in 1..ChunkMax, NEW chunk \in [1..m -> Bytes], Receive(chunk)
      PROVE  UNCHANGED sendVars
  BY <1>6 DEF Receive
<1>7. CASE DrainDone \/ UNCHANGED vars
  BY <1>7, OtherLengths DEF DrainDone, vars
<1> QED
  BY <1>2, <1>3, <1>4, <1>5, <1>6, <1>7, OtherLengths DEF Next

\* In the lengths of its buffers every behaviour of a connection, with any lines,
\* replies and casts, is one of SendProgress.
THEOREM ConnectionImplementsSendProgress == Spec => ImplementsSendProgress
<1>1. Init => SendInv
  BY SendInitInv DEF Init
<1>2. SendInv /\ [Next]_vars => SendInv'
  BY SendStep, SendNextInv
<1>3. Init => Progress!Init
  BY DEF Init, SendInit, Progress!Init
<1>4. SendInv /\ [Next]_vars => [Progress!Next]_(Progress!vars)
  BY ProgressStep DEF SendInv
<1> QED
  BY <1>1, <1>2, <1>3, <1>4, PTL DEF Spec, ImplementsSendProgress, Progress!Spec
=============================================================================
