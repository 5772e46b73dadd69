------------------------------ MODULE SendPath ------------------------------
(***************************************************************************)
(* What the server sends to one connection: castMsg offers the send buffer *)
(* and the new message to the socket and keeps what it thinks is left,     *)
(* and the poll loop drains the buffer whenever poll reports that there    *)
(* is room.  The bytes of all messages are numbered in the order in which  *)
(* they were cast, so that the peer is to read 1, 2, 3 and so on.          *)
(***************************************************************************)
EXTENDS Naturals, Sequences

CONSTANT Room    \* what the kernel holds for a peer that does not read

ASSUME SendAssumption == Room \in Nat \ {0}

VARIABLES
  sendBuffer,    \* Client::_sendBuffer
  pollOut,       \* POLLOUT is set in the events of the client's slot
  writable,      \* poll reported POLLOUT in this pass
  marked,        \* in _toRemove: its slot is -1
  wire,          \* taken by the kernel, not yet read by the peer
  received,      \* read by the peer
  gone,          \* the peer is gone: sends fail
  cast,          \* history: how many bytes were given to castMsg
  overtaken      \* history: a send over a backlog took only a part

sendVars == <<sendBuffer, pollOut, writable, marked, wire, received, gone, cast, overtaken>>

SendInit ==
  /\ sendBuffer = <<>>
  /\ pollOut = FALSE
  /\ writable = FALSE
  /\ marked = FALSE
  /\ wire = <<>>
  /\ received = <<>>
  /\ gone = FALSE
  /\ cast = 0
  /\ overtaken = FALSE

-----------------------------------------------------------------------------

\* The bytes after the first k, for any k (std::string::erase, substr).
Drop(s, k) == SubSeq(s, k + 1, Len(s))

\* The next n bytes to be cast.
Message(n) == [i \in 1..n |-> cast + i]

\* send() may take any part of data that the kernel has room for.
Taken(data) == {k \in 1..Len(data) : Len(wire) + k <= Room}

EnablePollOutEvent == pollOut' = (pollOut \/ ~marked)

\* The branches of castMsg, for a message of n bytes of which, together with
\* the buffer before it, send took k.
KeepRest_Forgotten(n, k) ==
  IF k < n
  THEN sendBuffer' = <<>> /\ UNCHANGED pollOut
  ELSE sendBuffer' = Drop(sendBuffer, k) /\ UNCHANGED pollOut

KeepRest_NotArmed(n, k) ==
  IF k < n
  THEN sendBuffer' = sendBuffer \o Drop(sendBuffer \o Message(n), k) /\ UNCHANGED pollOut
  ELSE sendBuffer' = Drop(sendBuffer, k) /\ UNCHANGED pollOut

KeepRest(n, k) ==
  IF k < n
  THEN sendBuffer' = sendBuffer \o Drop(sendBuffer \o Message(n), k) /\ EnablePollOutEvent
  ELSE sendBuffer' = Drop(sendBuffer, k) /\ UNCHANGED pollOut

\* castMsg.  The last disjunct is a send that fails with an error that castMsg
\* does not name, such as ETIMEDOUT: the message is dropped, nobody is marked.
CastMsg(n) ==
  /\ cast' = cast + n
  /\ UNCHANGED <<writable, received, gone>>
  /\ \/ \E k \in Taken(sendBuffer \o Message(n)) :
          /\ ~gone
          /\ wire' = wire \o SubSeq(sendBuffer \o Message(n), 1, k)
          /\ KeepRest(n, k)
          /\ overtaken' = (overtaken \/ (sendBuffer # <<>> /\ k < Len(sendBuffer) + n))
          /\ UNCHANGED marked
     \/ /\ ~gone
        /\ Len(wire) = Room
        /\ sendBuffer' = sendBuffer \o Message(n)
        /\ EnablePollOutEvent
        /\ UNCHANGED <<marked, wire, overtaken>>
     \/ /\ gone
        /\ marked' = TRUE
        /\ UNCHANGED <<sendBuffer, pollOut, wire, overtaken>>
     \/ /\ gone
        /\ UNCHANGED <<sendBuffer, pollOut, marked, wire, overtaken>>

\* poll: a marked client's slot is not polled.  A pass that was left by an
\* exception is followed by the next poll just as well.
Poll ==
  /\ writable' = (pollOut /\ ~marked /\ (gone \/ Len(wire) < Room))
  /\ UNCHANGED <<sendBuffer, pollOut, marked, wire, received, gone, cast, overtaken>>

ProcessClientWrite_AlwaysDisarms ==
  /\ writable /\ ~marked
  /\ writable' = FALSE
  /\ pollOut' = FALSE
  /\ UNCHANGED <<marked, received, gone, cast, overtaken>>
  /\ \E k \in Taken(sendBuffer) \cup {0} :
       /\ wire' = wire \o SubSeq(sendBuffer, 1, k)
       /\ sendBuffer' = Drop(sendBuffer, k)

\* processClientWrite, for the POLLOUT that poll reported: other sends may have
\* filled the room or emptied the buffer since.
ProcessClientWrite ==
  /\ writable /\ ~marked
  /\ writable' = FALSE
  /\ UNCHANGED <<received, gone, cast, overtaken>>
  /\ \/ /\ ~gone \/ sendBuffer = <<>>
        /\ \E k \in IF Taken(sendBuffer) = {} THEN {0} ELSE Taken(sendBuffer) :
             /\ wire' = wire \o SubSeq(sendBuffer, 1, k)
             /\ sendBuffer' = Drop(sendBuffer, k)
        /\ pollOut' = (sendBuffer' # <<>>)
        /\ UNCHANGED marked
     \/ /\ gone
        /\ sendBuffer # <<>>
        /\ marked' = TRUE
        /\ UNCHANGED <<sendBuffer, pollOut, wire>>

\* The client is marked for any other reason: QUIT, end of file, a ping timeout,
\* POLLERR or POLLHUP.
MarkClientForRemoval ==
  /\ marked' = TRUE
  /\ UNCHANGED <<sendBuffer, pollOut, writable, wire, received, gone, cast, overtaken>>

\* cleanupMarkedClients deletes the client; the descriptor's next client is a
\* new object with a new slot.
TearDown ==
  /\ marked
  /\ sendBuffer' = <<>>
  /\ pollOut' = FALSE
  /\ writable' = FALSE
  /\ marked' = FALSE
  /\ wire' = <<>>
  /\ received' = <<>>
  /\ gone' = FALSE
  /\ cast' = 0
  /\ overtaken' = FALSE

PeerReads ==
  /\ wire # <<>> /\ ~gone
  /\ received' = Append(received, Head(wire))
  /\ wire' = Tail(wire)
  /\ UNCHANGED <<sendBuffer, pollOut, writable, marked, gone, cast, overtaken>>

PeerGoes ==
  /\ gone' = TRUE
  /\ UNCHANGED <<sendBuffer, pollOut, writable, marked, wire, received, cast, overtaken>>

\* The send path by itself, with messages of any size at any time.
SendNext ==
  \/ \E n \in Nat \ {0} : CastMsg(n)
  \/ Poll \/ ProcessClientWrite \/ MarkClientForRemoval \/ TearDown
  \/ PeerReads \/ PeerGoes

SendSpec == SendInit /\ [][SendNext]_sendVars

-----------------------------------------------------------------------------

SendTypeOK ==
  /\ sendBuffer \in Seq(Nat)
  /\ wire \in Seq(Nat)
  /\ received \in Seq(Nat)
  /\ cast \in Nat
  /\ pollOut \in BOOLEAN /\ writable \in BOOLEAN /\ marked \in BOOLEAN
  /\ gone \in BOOLEAN /\ overtaken \in BOOLEAN

\* Whatever waits in the send buffer is waited for: POLLOUT is on, although it
\* is switched in two places and the buffer is changed in four.
PollOutArmed == sendBuffer # <<>> /\ ~marked => pollOut

\* The first n bytes, each once, in the order of their casts.
Stream(n) == [i \in 1..n |-> i]

\* The peer reads what was cast, without gap, repetition or exchange, and while
\* it is there nothing is lost: it has been read, is on its way or is waiting.
\* This holds until a send over a backlog takes only a part of it.
StreamExact ==
  ~overtaken =>
    /\ received \o wire = Stream(Len(received) + Len(wire))
    /\ ~gone => received \o wire \o sendBuffer = Stream(cast)

\* Server.cpp:309 calls the last branch of castMsg "all Data Clear": when send
\* took at least the length of the message, nothing is left to be sent.
AllDataClear ==
  [][cast' > cast /\ Len(wire') - Len(wire) >= cast' - cast => sendBuffer' = <<>>]_sendVars
=============================================================================
