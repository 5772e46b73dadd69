----------------------------- MODULE Connection -----------------------------
(***************************************************************************)
(* One connection from end to end: the poll loop reads bytes, cuts them    *)
(* into lines and answers each line through castMsg, while other clients'  *)
(* commands cast to the same connection and the peer reads or goes away.   *)
(***************************************************************************)
EXTENDS RecvFraming, SendPath

CONSTANTS
  ReplySizes,   \* how long the answer to a line may be; 0: no answer
  CastSizes,    \* how long further messages to it may be
  ChunkMax      \* BUFFER_SIZE - 1, what one recv returns

ASSUME ConnectionAssumption ==
  /\ ReplySizes \subseteq Nat
  /\ CastSizes \subseteq Nat \ {0}
  /\ ChunkMax \in Nat

VARIABLE draining   \* processClientRead is in its loop over the lines

vars == <<recvVars, sendVars, draining>>

Init == RecvInit /\ SendInit /\ draining = FALSE

-----------------------------------------------------------------------------

\* What the handler of a line sends to the client itself.
Reply(n) == IF n = 0 THEN UNCHANGED sendVars ELSE CastMsg(n)

\* recv on a connection that is neither marked nor lost.
Receive(chunk) ==
  /\ ~draining /\ ~marked /\ ~gone
  /\ Recv(chunk)
  /\ draining' = TRUE
  /\ UNCHANGED sendVars

HandleLine_AlsoMarked ==
  /\ draining
  /\ ExtractMessage
  /\ UNCHANGED draining
  /\ (\E n \in ReplySizes : Reply(n)) \/ MarkClientForRemoval

\* One turn of the loop: a line is handled, which answers it or ends the
\* connection (QUIT, a refusal before registration).
HandleLine ==
  /\ draining /\ ~marked
  /\ ExtractMessage
  /\ UNCHANGED draining
  /\ (\E n \in ReplySizes : Reply(n)) \/ MarkClientForRemoval

\* The loop ends.
DrainDone ==
  /\ draining
  /\ marked \/ ~HasLine
  /\ draining' = FALSE
  /\ UNCHANGED <<recvVars, sendVars>>

\* Further casts to this connection: other clients' commands, and the handler of
\* a line that sends more than one message.  A marked client still gets them.
CastMore(n) == CastMsg(n) /\ UNCHANGED <<recvVars, draining>>

\* The rest of the pass.
PollAgain == ~draining /\ Poll /\ UNCHANGED <<recvVars, draining>>
WriteClient == ~draining /\ ProcessClientWrite /\ UNCHANGED <<recvVars, draining>>
Lose == ~draining /\ ~marked /\ MarkClientForRemoval /\ UNCHANGED <<recvVars, draining>>

\* cleanupMarkedClients: the receive buffer goes with the client, too.
Cleanup ==
  /\ ~draining
  /\ TearDown
  /\ recvBuffer' = <<>> /\ heard' = <<>> /\ lines' = <<>>
  /\ UNCHANGED draining

PeerRead == PeerReads /\ UNCHANGED <<recvVars, draining>>
PeerGo == ~gone /\ PeerGoes /\ UNCHANGED <<recvVars, draining>>

Next ==
  \/ \E m \in 1..ChunkMax : \E chunk \in [1..m -> Bytes] : Receive(chunk)
  \/ HandleLine
  \/ DrainDone
  \/ \E n \in CastSizes : CastMore(n)
  \/ PollAgain \/ WriteClient \/ Lose \/ Cleanup
  \/ PeerRead \/ PeerGo

Spec == Init /\ [][Next]_vars

-----------------------------------------------------------------------------

\* The lines are those of the stream, however it was cut up by the network and
\* the reads, and none of them is still waiting when the loop is done.  (A NUL
\* hides bytes, and which ones does depend on the cuts.)
FramingExact ==
  NulFree(heard) =>
    /\ Len(lines) <= Len(Split!Lines(heard))
    /\ lines = SubSeq(Split!Lines(heard), 1, Len(lines))
    /\ ~draining /\ ~marked => Len(lines) = Len(Split!Lines(heard))

TypeOK == RecvTypeOK /\ SendTypeOK /\ draining \in BOOLEAN

\* A client that never ends its line costs the server less than a line and its
\* CRLF, and no more than one recv on top of it while its lines are handled or
\* once it is marked.
BufferBounded ==
  Len(recvBuffer) <= LineMax + 1 + (IF draining \/ marked THEN ChunkMax ELSE 0)

\* processClientRead: of a client that has been marked no more lines are
\* handled, also when the line that marked it was followed by others.
MarkedIsNotServed == [][marked /\ marked' => UNCHANGED <<lines, heard>>]_vars

\* In the lengths of its two buffers the connection is SendProgress, of which
\* liveness is checked.
Progress == INSTANCE SendProgress WITH
  Sizes   <- (ReplySizes \cup CastSizes) \ {0},
  backlog <- Len(sendBuffer),
  kernel  <- Len(wire)

\* castMsg, processClientWrite and poll, byte by byte and between recvs, lines
\* and cleanups, keep to what SendProgress says of lengths and POLLOUT.
ImplementsSendProgress == Progress!Spec
=============================================================================
