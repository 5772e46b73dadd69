# A verification of the ft_irc server

The repository holds an IRC server in C++98: one process, one thread, one `poll()` loop. This
directory models it in TLA+, model-checks the models with TLC on small instances and proves their
main invariants with TLAPS for instances of any size. `PROJECT.json` lists the components, runs,
mutants, findings, hazards and theorems, and maps each definition to the lines it models. Paths
below are relative to `src/src/` unless they start with `src/`.

## The system

| Part | Code | State | Operations | What makes it correct |
|---|---|---|---|---|
| Client registry | `Server.cpp`, `Client.cpp`, `Cmd/CmdPass.cpp`, `CmdNick.cpp`, `CmdUser.cpp` | `_clients`, `nickNameClientMap`, `_toRemove`; nickname, prefix and four registration flags per client | accept, PASS, NICK, USER, mark, teardown | nicknames are unique; the index finds every client that has one; registered means PASS, NICK and USER; the cached prefix is current |
| Channel | `Channel.cpp`, `src/include/Channel.hpp` | `_participant`, `_operator` (maps from nickname to client), `_invited`, `_mode`, `_key`, `_limit`, `_topic` | add, remove, rename, invite, MODE, TOPIC | both maps agree and point to live clients; the key and mode k agree; `_limit` is not read before it is set |
| Commands | `Cmd/*.cpp` | `_channels` | CAP PASS NICK USER PING JOIN PART PRIVMSG KICK INVITE MODE TOPIC QUIT | who enters and leaves, who may change what, who is told, who is disconnected |
| Poll loop | `Server.cpp` `run`, `acceptClient`, `processClientRead`, `checkPingTimeOut`, `cleanupMarkedClients` | `_fds`, revents, ping times | a pass over the descriptors, then one cleanup | a marked client is served no more and torn down in the end |
| Send path | `Server.cpp` `castMsg`, `broadcastMsg`, `processClientWrite` | a send buffer and the POLLOUT bit per client | send, buffer, drain | bytes leave in order, once; POLLOUT is on while something waits |
| Receive framing | `Client.cpp` `extractMessage`, `Server.cpp` `processClientRead` | a receive buffer per client | append, cut off a line | every line once, none longer than 510 bytes; the buffer stays short |
| Startup, shutdown | `main.cpp`, constructor, `init`, destructor | port, password, listening socket | | |
| `ArgParser`, replies, logging, goat | | none | | |

**Interactions.** `run` takes one descriptor after another. `processClientRead` cuts the received
bytes into lines and gives each to a `Cmd`, whose `handleClientCmd` calls one handler. Handlers
change the registry and the channels directly and send through `castMsg`. Errors travel as
`CmdException` to the catch in `handleClientCmd`, which answers and, if the sender has not
registered, marks it. Whatever ends a connection only *marks* it (`_toRemove`). The one teardown,
`cleanupMarkedClients`, runs after the pass and takes the client out of all channels and maps.

**What is hard here.** There is one thread, so that nothing overlaps; but a broadcast can mark any
receiver at any message, also the client whose command is in progress, and a marked client stays in
every map, under its nickname, until the pass ends. Membership and operator rights are keyed by
nickname, in two maps per channel and one index, while nicknames change, are freed and are taken
again. JOIN and PART walk lists and may stop half-way. Some handlers have undefined behaviour. The
pass walks `_fds` by index while accepts append to it and marks turn slots into -1, and an exception may
leave it half-way. POLLOUT is switched in two functions and the buffer it stands for is changed in
more, between one poll and the next. The network cuts bytes anywhere, and a peer may stop reading.

## Modules

| Module | Models |
|---|---|
| `Identifiers` | clients, nicknames and the maps keyed by nickname |
| `Registry` | the client registry and its operations; `RegSpec` is the registry by itself |
| `Channel` | one channel: operators from a channel to the channel afterwards |
| `IrcServer` | the whole server between two command lines: registry, channels, every command (`Spec`) |
| `Membership` | abstract: who is in a channel and who operates it, without nicknames, maps or messages |
| `RecvFraming` | one client's receive buffer and the cut into lines |
| `SendPath` | one client's send buffer, POLLOUT, and the socket behind it; `SendSpec` is the send path by itself |
| `Connection` | one connection from end to end: `RecvFraming` and `SendPath` joined by the loop of `processClientRead` |
| `SendProgress` | abstract: the send path in lengths only, where casts need never end; its liveness |
| `LineSplitting` | reference: the lines of a byte stream, without a buffer or an order of arrival |
| `PollLoop` | `run`: timeouts, poll, the pass over `_fds` slot by slot, exceptions, cleanup |
| `MCRegistry`, `MCMembers`, `MCSettings`, `MCLists`, `MCInvitations`, `MCConnection`, `MCSendProgress`, `MCPollLoop` | instances for TLC |
| `RegistryProofs`, `ChannelProofs`, `IrcServerProofs`, `RecvFramingProofs`, `SendPathProofs`, `ConnectionProofs`, `PollLoopProofs`, `WellOrder` | theorems and their proofs |

`IrcServer` extends `Registry` and `Channel`: its action for NICK conjoins `SetNick` of the registry
with `Rename` on every channel, and so on. It instantiates `Membership` with the sets of clients
behind the two maps of each channel. `Connection` extends `RecvFraming` and `SendPath`, and instantiates
`SendProgress` with the lengths of the send buffer and of what is in the kernel. `PollLoop`
instantiates `Registry`, with nobody named: what it accepts, marks and removes is what the registry
accepts, marks and removes, and so it is with `IrcServer`, which implements the same `RegSpec`. The two
therefore agree about clients: `PollLoop` says when, `IrcServer` says what a command does.

**State of the server.** `clients`, `toRemove`, `nickname`, `prefix`, `nickNameClientMap` and the four sets of
flags are the fields of that name; `channels` and `chan` are `_channels`. A member of `Clients` is a
descriptor with the Client object it names: when the object is deleted the descriptor is free again,
and so is the model value. A deleted object's fields return to what the constructor sets. `work` is
the local state of a JOIN or PART in progress: its sender and the entries left. `fault` names the
command whose undefined behaviour ended the program. `deed` records the last step and its output (who
did what, who was sent something, whose socket failed at it); no action reads it, properties do.

**Actions of the server.** One action is a command line from extraction to the return of its handler, with its
sends. JOIN and PART take one step per channel (`JoinChannel`, `PartChannel`), because that is where
a list can stop, and nothing else happens between these steps, as in the code. `Throw` is the catch of
`handleClientCmd`; `RefuseCmd` is any line that a handler rejects, since all rejections have the same
effect on the state. `Reply` is a set of `castMsg` calls: it chooses which of the receivers turn out
to be gone, and marks them. `Disconnect` is QUIT, a closed or failed connection and a ping timeout.
`Cleanup` is the teardown; in the code it comes at the end of a pass, in the model between any two
lines, which includes the code's order.

**`Connection`.** `recvBuffer`, `sendBuffer` and `pollOut` are fields of the client and its slot;
`draining` says that `processClientRead` is in its loop over the lines. `wire`, `received` and `gone`
are the kernel's buffer and the peer. The bytes cast to a client are numbered, so that repetition, gap
and exchange can be told from each other. `heard`, `lines`, `cast` and `overtaken` are history.
`Receive` is everything up to the loop, `HandleLine` one turn of it: a line is cut off (`ExtractMessage`)
and answered, or it ends the connection. `CastMsg` has one disjunct for each outcome of `send`: any part
is taken, nothing is (EAGAIN), the peer is gone and the client is marked, or the error is none of those
that are named, and the message is dropped. `CastMore` are further casts at any time, also from inside
other clients' commands, without a limit as in `castMsg`; `ProcessClientWrite` acts on what poll reported
*earlier*.

**`SendProgress`.** `backlog` and `kernel` are the lengths of the send buffer and of what the kernel holds.
What castMsg keeps depends on lengths alone (`Keep`), so that nothing is lost by leaving the bytes out, and
the state stays finite although casts go on for ever.

**`PollLoop`.** `fds` is `_fds` with the revents of each slot, `pc` and `slot` are where `run` is.
`knocking`, `inbox`, `broken` and `late` are the peers and the clock, and change at any time; `unread` and
`aborted` are history. `CheckPingTimeOut`, `PollReturns`, `PollInterrupted`, one action per kind of
slot (`AcceptClient`, `RefuseClient`, `ServeClient`, `SkipSlot`) and `CleanupMarkedClients` follow the
code's order. `RefuseClient` is a connection refused at `MAX_CLIENTS` or any error of `accept` and
`fcntl`: `processServerEvent` hides which, `run` throws, and the rest of the pass and its cleanup are
skipped (`Throw`). A command is reduced here to whom it loses: its own client or any whose socket is
dead. `accept` returns the lowest free descriptor, as POSIX has it.

**Undefined behaviour.** The outcomes that a build can produce are modelled as alternatives:

- `CmdMode.cpp:262` reads the first token of an empty vector: `CrashMode`.
- `CmdPrivmsg.cpp:141-149` compares an iterator of a copied map with the end of the original. A channel
  that exists is found; one that does not is dereferenced past the end: `CrashPrivmsg`, or a refusal.
- `CmdInvite.cpp:64` mixes three copies of the invitation vector. With an empty list all three are
  null and the name is recorded; otherwise it is not (`CmdInvite`), or the search runs off
  (`CrashInvite`).
- `_limit` is uninitialised until the first `+l`: the value `NoLimit`, which is never to be read.
- `CmdMode.cpp:78` follows `find` unchecked. Here the model needs no alternative, because
  `GrantsFindTheParticipant` shows that the entry is there and is the right one.

**Left out.** Texts of replies; user, host and real names; the letter `o` in `_mode`, which nobody
reads; repeated letters in a MODE line (a set of letters stands for them: the last wins in the code,
and the request chosen is that one); the width of the number of `+l`. At `MAX_CLIENTS` the new socket
is closed and the maps stay as they are, so that this is no step of `IrcServer`; `PollLoop` models
what it does to the pass. A PRIVMSG is sent to all receivers
in one step, after all of them were checked, as in the code.

## Runs

Every property of a passing run has a mutant, a slip that a programmer could make (the `_Slip`
operators beside the definitions), which makes the run fail.

| Run | Instance | Distinct states | Shows |
|---|---|---|---|
| `members` | 3 clients, 3 names, 1 channel, MODE +o and -o | 42084 | unique names, complete index, registration; membership, operators, notifications, disconnections, refinement of `Membership` |
| `settings` | 2 clients, 2 names, 1 channel, MODE lines of up to 2 letters, keys `x` and `key`, limits 0 and 1, one topic | 306239 | settings and invitations, the right to change them, who is told, entry |
| `lists` | 2 clients, 2 names, 2 channels, lists of up to 2 entries, mode i | 317926 | the inductive invariant and the refinement across channels |
| `connection` | lines of 2 bytes, room for 2 bytes, recvs of up to 3, answers of 0 or 2, casts of 1 or 2 | 254804 | framing, the stream of replies, POLLOUT, what a marked client still gets, refinement of `SendProgress` |
| `progress` | messages of 1 to 3 bytes, room for 3, up to 9 bytes waiting, casts without end | 408 | output flows, and is emptied once casts leave nothing behind |
| `loop` | 3 descriptors, `MAX_CLIENTS` 2 | 208087 | slots, who is served, that passes end, refusals, interrupts, removal in the end |

The properties, in words:

- `UniqueNicks`, `NickIndexed`, `RegisteredComplete`: the registry's correctness as in the table above.
  `RegTypeOK` is its type invariant; what it says beyond types is that only clients are marked.
- `MembersLive`: a participant entry points to a live, registered client under its present name, so
  that `broadcastMsg` and the NAMES reply never follow a deleted pointer.
- `OperatorsAreMembers`, `GrantsFindTheParticipant`: the two maps and the index agree.
- `MembershipEnds`, `OperatorsChange`: the only ways to lose a membership and to gain or lose rights.
- `MembersAreTold`: whoever was or is in the channel is told of a JOIN, PART or KICK. A teardown is
  not announced: the code sends nothing then.
- `MessagesReachLive`: no reply, broadcast or PRIVMSG goes through a pointer to a deleted Client. It needs
  that the teardown erases by the names the clients have by then, and before they are reset.
- `OnlyFailuresDisconnect`: a registered client is marked only when its socket failed or it quit.
- `SettingsGuarded`, `EntryGuarded`: who changes a channel's settings, and whom they let in. An
  invitation is spent by coming in.
- `InvitationsGuarded`: an invitation is made by a participant, under +i by an operator, for a client
  outside, who is told; it is taken back only by coming in under that name, not by a PART, a KICK or a
  teardown. That an invitation outlives its client is what the code does, and a finding.
- `ChangesAreTold`: who stays in a channel is told of every change of its modes, key, limit, topic and
  operators. Only a departure takes operators away without a message of its own.
- `SettingsConsistent`: mode k and the key agree; a limit is set before it is compared with.
- `ServerInv`: the inductive invariant. Besides the above it says that no teardown comes under a JOIN or PART
  in progress, even if its client was lost meanwhile (`WorkerStays`), and that a deleted channel leaves
  nothing to the next of its name.
- `ImplementsMembership`: the server implements `Membership`.
- `LinesClean`: a line has at most 510 bytes, no CRLF a reply could break at, and no NUL.
- `FramingExact`: however the network cut the bytes, the lines are those of `LineSplitting`, each once,
  and when the loop is done none is waiting.
- `BufferBounded`: a client that never ends its line costs a line and a CRLF, and one recv on top while
  its lines are handled or once it is marked.
- `PollOutArmed`: whatever waits to be sent is waited for.
- `ImplementsSendProgress`: a connection, byte by byte, is `SendProgress` in its lengths.
- `OutputFlows`: however many casts come, and for however long, output is never stuck: either nothing waits
  now and then, or bytes keep going out, until the connection is given up. Under lasting broadcasts the
  buffer need not become empty; `Drains`: once casts leave nothing behind in it, it does.
- `StreamExact`: the peer reads each byte once and in order, and nothing is lost while it is there,
  until a send over a backlog is partial (what happens then is a finding, below).
- `MarkedIsNotServed`: lines behind a QUIT in the same recv are not handled.
- `SlotsMatch`: one slot per client, marked ones included, whatever is appended or marked in a pass.
- `PassServesAll`: a pass that ends by itself has read from everybody poll reported, so that a PING in
  the socket saves its client from the timeout that is checked next.
- `PassEnds`: every step of a pass brings its end nearer, although accepting adds a slot behind it. (The
  listening socket is first and one connection is accepted per pass; `ToGo` counts that slot twice.)
- `KeepsRunning`: no error of `accept` ends the server, although `canRecover` takes two of them for fatal.
- `NoneDroppedWithoutCause`: a newcomer is not served with leftover revents and dropped.
- `ImplementsRegistry`: the limit in slots is the limit in clients; clients go all at once.
- `LostAreRemoved`, `SendersAreHeard`: nobody stays marked, dead or silent, and nothing stays unread.

**Bounds.** A client that leaves and one that takes its name need two names and two clients; a third client is a
bystander, an operator while two others trade names, or the one that comes in later. Descriptors are reused with
any number of them; in `MCPollLoop`, and in the four descriptors with a limit of three of `MCRegistry` (the
instance of the finding `stale_index`), a newcomer waits for a slot. Two channels are enough for a client to
have different rights in two places and for a list with a first and a rest. Two letters per MODE line include
every pair that shares a parameter list; the limits 0 and 1 give a full channel with and without somebody in it.
`MCSettings` leaves out the third client: the settings checks read one client and one channel.

`Budget` bounds the bytes of one connection, received and cast together, to 6, in `MCConnection` alone and
for safety properties alone (`Connection` itself knows no bound): three answers of two
bytes, so that the second finds the room full and the third a backlog, or a line that is too long
and its rest with the CRLF split between two recvs. One text byte is enough, as the code compares bytes
with CR, LF and NUL only. `MCSendProgress` bounds what waits, not the traffic: its casts never end. In
`MCPollLoop` two clients fill the limit, the third connection is refused, a marked
slot counts until the cleanup, and a descriptor is used again. The theorems hold without these bounds.

`VIEW` drops `deed`, which nothing reads, and folds the halted states into one. Action properties are
evaluated on every step, so that they do see `deed'`. Clients and nicknames are symmetric: the
specification compares them with nothing but each other. (The refinement and the action properties
are safety properties and symmetric in both sets.)

**Fairness.** `IrcServer` and `Connection` claim no liveness. `PollLoop` assumes that `run` goes on: it is one
thread that never blocks but in `poll`, which returns after a second at the latest, so that *some* step of it
is always taken (`WF_vars(Run)`). Which one is up to the code: no single handler or slot is assumed to get its
turn. That poll is not interrupted for ever is strong fairness of `PollReturns`, since each interrupt sends
the loop back to the timeouts. Nothing is assumed about who connects, sends, breaks or grows silent.

`LostAreRemoved` and `SendersAreHeard` have the premise `CalmSometime`: from some time on no pass is left
by an exception. The code does not guarantee it. At `MAX_CLIENTS` a peer that keeps connecting has every
pass thrown out at slot 0, the clients behind it are never read from, and a marked one is never torn down
to make room: this is the finding `refusals`, whose run has the same fairness and no premise.

`SendProgress` assumes that `run` polls again and again, which it does also when passes are cut short, and
of the environment that the peer reads what has arrived; a peer that does not read never gets its bytes. That
a pass also comes by the client's slot is no part of the fairness. It is a premise of `OutputFlows` and
`Drains`, `PassesComeBy`, for the same reason as above: refusals keep passes from it. Without the premise TLC
finds both violated.

**Deadlock** is checked in every run. `Halted` lets a program that has ended stay ended.

## Findings

Six runs expect a violation, each of a statement in the repository:

- `stale_index`: a second NICK before registration leaves an entry in `nickNameClientMap` that no
  teardown erases (`CmdNick.cpp:111`, `Server.cpp:418`), against `src/README.md:88`. No command follows
  it, as `GrantsAreSound` proves.
- `join_list`: the first refusal ends a JOIN list (`CmdJoin.cpp:119`, 124, 129), against
  `CmdJoin.cpp:9-10`. PART does go on.
- `first_participant`: a teardown leaves an empty channel behind (`Server.cpp:404`), and the next to
  come is no operator, against `src/test/test_operator.py:7`.
- `backlog`: `Server.cpp:306` compares what `send` took of backlog *and* message with the length of the
  message alone. A partial send over a backlog then drops bytes in the branch that line 309 calls "all
  Data Clear", or sends some twice in the one that line 305 calls "Only partial data was sent".
- `inherited_invitation`: an invitation is kept as a nickname (`CmdJoin.cpp:118`) and outlives the NICK or the
  teardown of the client it was sent to. Whoever takes the name comes into a channel with mode i uninvited,
  against `src/include/ReplyCode.hpp:126` and `CmdJoin.cpp:19-20`. `MCInvitations` adds the history of whom
  invitations were sent to, which the state of the code does not have. (`EntryGuarded` and
  `InvitationsGuarded` are about names and hold.)
- `refusals`: connections refused pass after pass starve everybody (`Server.cpp:185`), against
  `Server.cpp:684-685` and 490, by which errors of accept are ignored and the server carries on.

Two defects are modelled and have no run, since a single command shows them. A PRIVMSG to a channel that does
not exist may end the program (`CmdPrivmsg.cpp:145`, `CrashPrivmsg`), where the comment on line 27 promises
a 401. A second invitation to a channel is announced and not recorded, or ends the program
(`CmdInvite.cpp:64`, `CrashInvite`), where the comment on line 63 says that it is recorded.

## Proofs

All proofs are checked by `tlapm` from nothing. The assumptions are the named ones in the modules: `NoNick` and
`NoClient` are no names and no clients; `MaxClients`, the limits and the sizes of recvs, answers and casts are
natural numbers, lines and the kernel's room are not empty; CR, LF and NUL are different and NUL is no text;
descriptors are numbers, different from the listening socket and from -1; the empty string is no key and no
topic; lists and requests are of their types. The nicknames are finitely many (`NicksFinite`: `checkNick` bounds
their length), which only `EntryGuardedSo` needs, to compare a number of participants with a limit. Clients and
channels need not be finite.

`RegistryProofs` proves that `RegInv` is inductive. The properties to be shown are not inductive by themselves.
`NickIndexed` survives a teardown because the erased names belong to nobody else (`UniqueNicks`). `UniqueNicks`
survives an accept because the new object's nickname is empty (`FreeSlotsClear`). `RegisteredComplete` survives
USER because the flag of NICK means that there is a nickname (`NickStatusExact`). That only clients are marked
(in `RegTypeOK`) keeps teardown and clients in step. There is one lemma per operation.

`ChannelProofs` calls a channel `Sound` if it has its type, its settings agree and its two maps agree
and point to live clients under their names. There is one lemma per operation: rename needs that the old
name is one client's and the new one nobody's; `+o` needs that the index agrees with the
participants; the maker of a channel is always admitted to it (`FounderAdmitted`), so that an operator
who is no participant cannot arise from the order in which `cmdJoin` adds them.

`IrcServerProofs` takes `ServerInv` apart into registry, channels and thread of control (`InvSplit`) and
shows for each action that it is a step of `Registry` and preserves the other two (`StepInv`). From that
follow `ServerCorrect` (`Spec => []ServerInv`), `ServerImplementsRegistry` (`Spec => RegSpec`, so
that the theorems on the registry hold in the server), and `MembersAreLive`,
`OperatorsStayMembers`, `GrantsAreSound` and `SettingsAreConsistent`. `WorkerStays`, a part of the invariant, is
needed for `JoinChannel`: the client it adds must still be live and registered.

The same module proves the action properties and the refinement. Every step of the server is, for the
sets of clients behind the maps, one of six moves: nothing, a teardown, a founding, an entry, a
departure, a MODE of an operator (`MovesAlways`). For each handler this uses `ServerInv`: erasing a name
erases a client only because the entries agree with the nicknames that the clients have by then. From the moves
follow `MembershipEndsSo`, `OperatorsChangeSo`, `MembersAreToldSo` and `ServerImplementsMembership`, each by
cases. `OnlyFailuresDisconnectSo` comes from a table of whom each step marks (`StepMarks`),
`MessagesReachLiveSo` from one of whom it sends to, where a turn of JOIN again needs `WorkerStays`.
`WhatKeeps` says which steps leave settings and invitations alone: all but MODE, TOPIC, INVITE and a turn of
JOIN. With a lemma for each of these four it gives `SettingsGuardedSo` and `InvitationsGuardedSo`, and, with
the moves for the operators, `ChangesAreToldSo`. `EntryGuardedSo` comes from `OnlyJoinEnters` and `JoinAllowed`.
`MembershipIsSafe` shows that the abstract specification is worth implementing: in all its behaviours
operators are members, and nobody is in a channel that is not there.

`SendPathProofs`: `SendInv` says that the parts of the stream (read, in the kernel, in the buffer) follow
each other in the numbers, which makes `StreamExact` inductive as long as nothing was overtaken.
`RecvFramingProofs`: lines stay clean because a cut at the first CRLF, or before it at the limit, leaves
only parts of a buffer that has no NUL.

The same module holds the argument for `FramingExact`. `LineSplitting` defines the lines of a stream as a
whole: the stream is split at its CRLFs into pieces, each piece into blocks of the length of a line, and
the lines are the blocks that are known to end, in the order of the places where they begin. The code sees
the stream in parts and decides at once. The two agree because no decision is ever revoked: a place where
the buffer begins is `Settled` (a block begins there, and it is behind a CRLF or has bytes behind it), and
later bytes change neither that nor any block in front of it (`SettledStays`), although a CR at the end of a
recv may yet become half of a CRLF. The inductive invariant `Framed` says that the buffer is the stream from
a settled place on, and that the lines told are the reference's blocks before that place, in number and in
content (`Told`). A recv adds bytes behind (`RecvKeepsFramed`); one turn of the loop adds the next line
(`ExtractKeepsFramed`): a line up to the first CRLF and one that is cut because it is full are the two ways
in which the reference ends one. Lines are numbered by counting the blocks in front (`Rank`, `RankCounts`),
which needs no induction over the stream; lengths are found with a smallest counterexample.
`FramingStaysExact` carries the result over to `Connection`, where a mark may
stop the loop with lines waiting.

`ConnectionProofs` shows that every step of a connection is one of `SendSpec` (`SendStep`) and one that keeps
`RecvInv` (`RecvStep`), and takes the results over. `ConnectionImplementsSendPath` (`Spec => SendSpec`) states
the first of the two as a refinement. `ConnectionImplementsSendProgress` maps every step to one of
`SendProgress` or a stutter: the lengths of what the kernel takes and of what `erase` and `substr` leave
(`SplitLengths`) decide castMsg (`CastLengths`) and processClientWrite (`WriteLengths`). `BufferBounded` is
inductive by itself once `HasLine` is known to hold of every long buffer.

`PollLoopProofs`: `LoopInv` adds to the properties that the clients are finitely many and, in
`Ahead`, that who is unread and unmarked has a slot with its event that the pass has yet to reach, and
that what poll reported of the slots ahead is still true. The cleanup compresses the slots, so that their
increasing enumeration has to be shown to exist (`EnumerationExists`); a smallest counterexample (`WellOrder`)
takes the place of an induction there. `LoopImplementsRegistry` follows from `SlotsMatch` by counting,
`PassesEnd` from `PassWithin`: in a pass the slot is never more than one behind
the last of `_fds`, although accepting a client adds a slot during the pass.

**Model-checked only**: `OutputFlows`, `Drains`, `LostAreRemoved` and `SendersAreHeard`, since liveness is
beyond the prover. Two theorems are safety halves of them: `PassesEnd` (a pass ends) and `PollOutStaysArmed`
(what waits is waited for). Every other property of a passing run is a theorem. The six findings are TLC's
counterexamples.

## Plan

What is left is small. `MCLists` with three clients, and MODE lines of three letters, are beyond a
short run; the theorems cover them. A connection whose peer stops reading could be given a limit on its
send buffer: that would be a change of the code, with a property next to `BufferBounded` for it. If poll is
kept from starving at the limit (`RefuseClient` continuing the pass), the premise `CalmSometime` can go.

## Not modelled

- Startup: argument checks and socket setup in `main.cpp` and the constructor are straight-line code that
  runs once, before there is a client. SIGPIPE is ignored (`main.cpp:18`), which `CastMsg` relies on.
- Shutdown: the destructor runs when `run` returns. `KeepsRunning` shows that no error of `accept` makes it
  return; an error of `poll` never does (`canRecover`), and the flag of `shouldExitServer` is constant.
- `ArgParser` (unused), reply texts and logging, and code nobody calls: `handleSocketRead`,
  `handleSocketWrite`, `removeChannelUserLimit`.
- Five hazards have no property. The lookups in `CmdPrivmsg.cpp:145` and `CmdInvite.cpp:64` are modelled and go
  wrong at the first occasion (see Findings). The empty MODE (`CmdMode.cpp:262`) is modelled, and no document says
  what it should do. The width of `+l` (`CmdMode.cpp:104`) is abstracted by `Limits`. The send buffer of a
  peer that does not read (`Server.cpp:307`) has no limit in the code that could be stated.
