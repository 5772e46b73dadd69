---------------------------- MODULE SendProgress ----------------------------
(***************************************************************************)
(* What the send path of one connection promises of its progress.  Of the  *)
(* bytes only the numbers are left, those in the send buffer and those in  *)
(* the kernel, so that casts need never end.  Module SendPath has the      *)
(* bytes, and implements this one.                                         *)
(***************************************************************************)
EXTENDS Naturals

CONSTANTS
  Room,     \* what the kernel holds for a peer that does not read
  Sizes     \* how long messages may be

ASSUME ProgressAssumption ==
  /\ Room \in Nat \ {0}
  /\ Sizes \subseteq Nat \ {0}

VARIABLES
  backlog,    \* the length of Client::_sendBuffer
  kernel,     \* taken by the kernel, not yet read by the peer
  pollOut,    \* POLLOUT is set in the events of the client's slot
  writable,   \* poll reported POLLOUT in this pass
  marked,     \* in _toRemove: its slot is -1
  gone        \* the peer is gone: sends fail

vars == <<backlog, kernel, pollOut, writable, marked, gone>>

Init ==
  /\ backlog = 0
  /\ kernel = 0
  /\ pollOut = FALSE
  /\ writable = FALSE
  /\ marked = FALSE
  /\ gone = FALSE

-----------------------------------------------------------------------------

\* send() may take any part of n bytes that the kernel has room for.
Takes(n) == {k \in 1..n : kernel + k <= Room}

Arm == pollOut' = (pollOut \/ ~marked)

Keep_NotArmed(n, k) ==
  /\ backlog' = IF k < n THEN backlog + (backlog + n - k) ELSE IF backlog > k THEN backlog - k ELSE 0
  /\ UNCHANGED pollOut

\* castMsg after send took k bytes of the buffer and a message of n: fewer than
\* the message has, and what is left of both goes behind the buffer; otherwise
\* the buffer loses k.
Keep(n, k) ==
  \/ k < n /\ backlog' = backlog + (backlog + n - k) /\ Arm
  \/ k >= n /\ backlog' = (IF backlog > k THEN backlog - k ELSE 0) /\ UNCHANGED pollOut

\* castMsg: send takes something; the kernel is full; the peer is gone.
Cast(n) ==
  /\ UNCHANGED <<writable, gone>>
  /\ \/ \E k \in Takes(backlog + n) :
          ~gone /\ kernel' = kernel + k /\ Keep(n, k) /\ UNCHANGED marked
     \/ ~gone /\ kernel = Room /\ backlog' = backlog + n /\ Arm /\ UNCHANGED <<kernel, marked>>
     \/ gone /\ marked' \in {TRUE, marked} /\ UNCHANGED <<backlog, kernel, pollOut>>

\* poll; a marked client's slot is not polled.
Poll ==
  /\ writable' = (pollOut /\ ~marked /\ (gone \/ kernel < Room))
  /\ UNCHANGED <<backlog, kernel, pollOut, marked, gone>>

Write_KeepsSent ==
  /\ writable /\ ~marked
  /\ writable' = FALSE
  /\ \/ /\ ~gone \/ backlog = 0
        /\ \E k \in IF Takes(backlog) = {} THEN {0} ELSE Takes(backlog) :
             kernel' = kernel + k /\ pollOut' = (backlog # 0)
        /\ UNCHANGED <<backlog, marked>>
     \/ gone /\ backlog > 0 /\ marked' = TRUE /\ UNCHANGED <<backlog, kernel, pollOut>>
  /\ UNCHANGED gone

\* processClientWrite, for the POLLOUT that poll reported earlier in the pass.
Write ==
  /\ writable /\ ~marked
  /\ writable' = FALSE
  /\ \/ /\ ~gone \/ backlog = 0
        /\ \E k \in IF Takes(backlog) = {} THEN {0} ELSE Takes(backlog) :
             backlog' = backlog - k /\ kernel' = kernel + k /\ pollOut' = (backlog > k)
        /\ UNCHANGED marked
     \/ gone /\ backlog > 0 /\ marked' = TRUE /\ UNCHANGED <<backlog, kernel, pollOut>>
  /\ UNCHANGED gone

\* The client is marked for any other reason.
Mark == marked' = TRUE /\ UNCHANGED <<backlog, kernel, pollOut, writable, gone>>

\* cleanupMarkedClients: the descriptor's next client starts anew.
TearDown ==
  /\ marked
  /\ backlog' = 0 /\ kernel' = 0
  /\ pollOut' = FALSE /\ writable' = FALSE /\ marked' = FALSE /\ gone' = FALSE

PeerReads == kernel > 0 /\ ~gone /\ kernel' = kernel - 1 /\ UNCHANGED <<backlog, pollOut, writable, marked, gone>>
PeerGoes == gone' = TRUE /\ UNCHANGED <<backlog, kernel, pollOut, writable, marked>>

Next == (\E n \in Sizes : Cast(n)) \/ Poll \/ Write \/ Mark \/ TearDown \/ PeerReads \/ PeerGoes

Spec == Init /\ [][Next]_vars

\* run polls again and again, each time for a second at most, also when passes
\* are cut short; and the peer reads, the one thing assumed about it.
Fairness == WF_vars(Poll) /\ WF_vars(PeerReads)

-----------------------------------------------------------------------------

\* A premise, not a fact: the passes do come by the client's slot.  While a peer
\* keeps connecting at MAX_CLIENTS they do not, since each refusal throws.
PassesComeBy == WF_vars(Write)

\* Whatever is cast meanwhile, and for however long, output is never stuck:
\* unless nothing waits now and then, or the connection is given up, bytes keep
\* going out.  (With lasting casts the buffer itself need never be empty.)
OutputFlows ==
  PassesComeBy => \/ []<>(backlog = 0 \/ marked \/ gone)
                  \/ []<><<kernel' > kernel>>_vars

\* When from some time on casts leave nothing behind in the buffer, it is emptied.
Drains ==
  PassesComeBy /\ <>[][backlog' <= backlog]_vars => []<>(backlog = 0 \/ marked \/ gone)
=============================================================================
