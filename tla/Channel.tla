------------------------------ MODULE Channel ------------------------------
(***************************************************************************)
(* Class Channel and the part of the commands that reads and writes one    *)
(* channel: pure operators from a channel to the channel afterwards.       *)
(*                                                                         *)
(* _mode holds the letters i, t, k and l.  Its letter o is written with    *)
(* every +o and -o and read by nobody (the operators are those in          *)
(* _operator), so it is left out.                                          *)
(***************************************************************************)
EXTENDS Identifiers, Naturals, FiniteSets

CONSTANTS Keys,        \* the passwords a channel may have
          Limits,      \* the numbers that +l may carry
          NoLimit,     \* _limit before the first +l: never initialised
          Topics       \* the texts that TOPIC may set

ASSUME ChannelAssumption ==
  /\ "" \notin Keys
  /\ "" \notin Topics
  /\ Limits \subseteq Nat
  /\ NoLimit \notin Limits

Flags == {"i", "t", "k", "l"}

Channel == [participant : ClientMap,
            operator    : ClientMap,
            invited     : SUBSET (Nicks \cup {NoNick}),
            mode        : SUBSET Flags,
            key         : Keys \cup {""},
            limit       : Limits \cup {NoLimit},
            topic       : Topics \cup {""}]

\* A MODE line that parses: + or -, the letters without o, the parameters of
\* its o's as a set, and the parameters of k and l (read only with the letter).
ModeRequest == [add   : BOOLEAN,
                flags : SUBSET Flags,
                ops   : SUBSET Nicks,
                key   : Keys,
                limit : Limits]

-----------------------------------------------------------------------------

EmptyChannel == [participant |-> EmptyMap, operator |-> EmptyMap, invited |-> {},
                 mode |-> {}, key |-> "", limit |-> NoLimit, topic |-> ""]

\* cmdJoin's call of setChannels: a key of "x" stands for no key.
NewChannel(key) ==
  IF key \in {"", "x"} THEN EmptyChannel
  ELSE [EmptyChannel EXCEPT !.key = key, !.mode = {"k"}]

IsParticipant(ch, n) == n \in KeysOf(ch.participant)
IsOperator(ch, n) == n \in KeysOf(ch.operator)

\* The clients that broadcastMsg reaches.
Audience(ch) == {ch.participant[n] : n \in KeysOf(ch.participant)}
OperatorClients(ch) == {ch.operator[n] : n \in KeysOf(ch.operator)}

\* map::insert keeps the entry that is there, operator[] overwrites it.
AddParticipant(ch, n, c) ==
  IF IsParticipant(ch, n) THEN ch ELSE [ch EXCEPT !.participant[n] = c]
AddOperator(ch, n, c) == [ch EXCEPT !.operator[n] = c]

Leave_OperatorStays(ch, names) == [ch EXCEPT !.participant = Erase(@, names)]

\* removeParticipant and removeOperator, which always come together.
Leave(ch, names) ==
  [ch EXCEPT !.participant = Erase(@, names), !.operator = Erase(@, names)]

RemoveInvited(ch, n) == [ch EXCEPT !.invited = @ \ {n}]

Rename_OperatorStays(ch, old, new, c) ==
  IF IsParticipant(ch, old)
  THEN AddParticipant([ch EXCEPT !.participant = Erase(@, {old})], new, c) ELSE ch

\* cmdNick on one channel of the client.
Rename(ch, old, new, c) ==
  LET joined == AddParticipant([ch EXCEPT !.participant = Erase(@, {old})], new, c)
  IN  CASE ~IsParticipant(ch, old) -> ch
        [] IsParticipant(ch, old) /\ ~IsOperator(ch, old) -> joined
        [] OTHER -> AddOperator([joined EXCEPT !.operator = Erase(@, {old})], new, c)

\* cmdJoin's three checks.  The limit also holds for a client that is inside.
Admits(ch, n, key) ==
  /\ "i" \in ch.mode => n \in ch.invited
  /\ "k" \in ch.mode => key # "" /\ key = ch.key
  /\ "l" \in ch.mode => Cardinality(KeysOf(ch.participant)) < ch.limit

Join_KeepsInvitation(ch, n, c) == AddParticipant(ch, n, c)

\* cmdJoin past the checks: the invitation is spent only while +i is set.
Join(ch, n, c) ==
  LET joined == AddParticipant(ch, n, c)
  IN  IF "i" \in ch.mode THEN RemoveInvited(joined, n) ELSE joined

\* The parameters that the letters of r call for: at most three.
ParamCount(r) ==
  Cardinality(r.ops) + Cardinality(r.flags \cap (IF r.add THEN {"k", "l"} ELSE {"k"}))

\* validationNickName and validationKey, over all parameters before any effect.
ModeAccepted(ch, r) ==
  /\ ParamCount(r) <= 3
  /\ \A n \in r.ops : IF r.add THEN IsParticipant(ch, n) ELSE IsOperator(ch, n)
  /\ "k" \in r.flags => ch.key = IF r.add THEN "" ELSE r.key

ApplyMode_KeepsKey(ch, r, index) ==
  IF r.add
  THEN [ch EXCEPT !.mode = @ \cup r.flags,
                  !.key = IF "k" \in r.flags THEN r.key ELSE @,
                  !.limit = IF "l" \in r.flags THEN r.limit ELSE @]
  ELSE [ch EXCEPT !.mode = @ \ r.flags, !.operator = Erase(@, r.ops)]

\* addChannelOperator takes the client from the nickname index.  -l leaves
\* _limit as it is: removeChannelUserLimit is called by nobody.
ApplyMode(ch, r, index) ==
  IF r.add
  THEN [ch EXCEPT !.mode = @ \cup r.flags,
                  !.key = IF "k" \in r.flags THEN r.key ELSE @,
                  !.limit = IF "l" \in r.flags THEN r.limit ELSE @,
                  !.operator = [n \in Nicks |-> IF n \in r.ops THEN index[n] ELSE @[n]]]
  ELSE [ch EXCEPT !.mode = @ \ r.flags,
                  !.key = IF "k" \in r.flags THEN "" ELSE @,
                  !.operator = Erase(@, r.ops)]
=============================================================================
