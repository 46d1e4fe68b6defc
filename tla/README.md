# Verification of the CPE 464 network programs

The repository holds three C programs: `Program2`, a chat server and client;
`Lab2`, the echo server and client it grew out of; `Program1`, a printer of
captured packets. This directory models the chat first, because it is the
program with concurrency, shared state and failures, then the transport under
it, the layout of its messages, the echo service and the packet trace. TLC
checks the models on small instances. TLAPS proves, for every value of the
constants, each invariant that a passing run checks, the action properties, the
implementation of the handle directory and the safety half of the channel that
the framing implements. Liveness, and the refinement of ChatService, rest on TLC.

1. The system
2. The modules and the code
3. Runs: what is checked and what it shows
4. Proofs
5. Where the code and what is said of it disagree
6. What is not modelled
7. Plan

## 1. The system

### Chat (Program2)

| Component | State | Operations | What makes it correct |
|---|---|---|---|
| Handle table, `handleTable.c` | array indexed by socket number, capacity, `numValid` | initialize, add (with one doubling), remove, findSocket, getValids, getHandleAtIndex | a handle on at most one socket; entries survive growth; no access outside the array; the count agrees with the content |
| Poll set, `pollLib.c` | array of `pollfd` indexed by descriptor, its size, `maxFileDescriptor` | setup, add (with growth), remove, pollCall | polls exactly the open sockets; returns a ready one; starves nobody it need not |
| Server, `server.c` | the two above, the descriptors the kernel gave it | accept, and one handler for each flag 1, 5, 6, 8, 10 and for the end of a connection | routes to the addressee only, in order, once; answers every request; cleans up completely; outlives its clients |
| Client, `cclient.c` | phase of the process | connect, register, `%m`, `%c`, `%l`, `%e`, one receive handler per flag | registers first; leaves when refused, acknowledged or abandoned, and only then |
| PDU transport, `pdu.c` | none beyond the TCP stream | sendPDU, recvPDU | whole PDUs, in order, none invented; the end of the stream is told apart from data |
| Codec, in `server.c` and `cclient.c` | buffers of 100, 200 and 1400 bytes | packMessage, extract*, getMessageOffset, sendErrorPacket, processMulticast, unpackMulticast | what is unpacked is what was packed, for every length allowed |
| Setup, `networks.c`, `gethostbyname.c`, `safeUtil.c` | none | socket, bind, listen, connect, look-up, allocation wrappers | straight-line calls that exit on failure |

The server is one thread: it polls, takes one PDU from the lowest socket that
is ready and runs its handler to the end. Clients are processes of their own;
they share nothing with the server but one TCP connection each. Hard to test
are therefore the interleavings of several clients with a handler that sends
to several sockets, descriptors that are closed and given out again, the ways
a connection ends (orderly, reset, during a handler), `SIGPIPE`, growth of two
arrays by two different rules, starvation by lowest-first service, a server
that blocks in `send` for one client, a limit on descriptors, a standard input that
the poll set watches by accident, and the boundaries of the codec.

### Echo (Lab2)

`server.c` echoes each PDU to its sender, `cclient.c` sends each line typed.
`pollLib.c`, `safeUtil.c` and `gethostbyname.c` are the files of Program2,
`pdu.c` differs in that it allocates its buffer and caps no length. The hard
parts are that an empty line is a PDU of length zero, which the receiver
cannot tell from the end of the connection, and that the client polls
descriptor 0 but reads the buffer of stdio.

### Packet trace (Program1)

`trace.c` reads a capture file with libpcap and prints each header. It is
sequential and stateless from packet to packet; correctness is about offsets,
lengths, byte order and checksums.

## 2. The modules and the code

```
HandleDirectory <-- HandleTable ---------+
  (abstract)                             |
                                         +--> ChatServer --+
                    PollSet -------------+        ^        +--> ChatSystem --> ChatService
                      |    \                      |        |                    (abstract)
                    PollLoop \     ChatPdus --> ChatNet    |                        ^
                                \       \           v       |                        |
                                 \       \      ChatClient -+                        |
                                  \       +-----------------------------------------+
MessageChannel <-- PduStream       +--> EchoLab          Codec          Trace
  (abstract)
```

`<--` and the arrow from ChatSystem to ChatService are "is implemented by" and
"implements"; the other arrows read "is used by". `MCHandleTable`,
`MCPollLoop`, `MCChat`, `MCPduStream`, `MCEcho`, `MCCodec` and `MCTrace` give the
constants their values. The theorems about a module are in the module of its name
with `Proofs` behind it; those about ChatSystem are in `ChatProofs` and, built on
that, `ChatDeliveryProofs`.

**HandleTable** (`handleTable.c`). `table`, `capacity` and `numValid` are the
variables of that name in the file; an entry's `validFlag` and `handle` are set
and cleared together, so one value stands for both. `AddHandle` is `addHandle`
with its growth, its search and each of its failures: a refusal, `malloc` of
the copy returning NULL after the array has grown, `realloc` ending the
process, and the write past an array that one doubling did not make large
enough (`Overrun`; what C leaves undefined becomes `status = "undefined"`,
after which nothing is claimed). `RemoveHandle` leaves `numValid` alone, as the
code does. `Next` calls the operations on any socket in any order, so what holds
here holds for every caller. **HandleDirectory** is what a caller may rely on:
a partial injective map from sockets to handles without storage.

**PollSet** (`pollLib.c`) has the array, its size and `maxFileDescriptor`.
A slot that is not in use is a `pollfd` for descriptor 0 without events; poll
reports a hang-up whatever the events are, so `Reported` takes the
descriptors that hung up as well as those with input. **PollLoop** is the
loop of `serverControl` around it with any descriptors that join, leave
and become ready at any time.

**ChatPdus** has the flags and PDUs of the chat and how a text is relayed.
**ChatNet** adds what the two programs share: one connection per client. A
stream is the sequence of every PDU sent on it with a
counter of those received, so the history the properties speak of is part of
the state. Arrival is immediate, because a PDU that travels cannot be told
from one that is sent later. `link` is the client's end (`fin` after an
orderly close, `rst` after a close with data unread, `half` after a kill that
left one byte of a header behind); `LateReset` is the reset
the client's kernel sends when data reaches a socket already closed. Each
direction holds `Room` PDUs. Beyond that `send` blocks: a client is `InSend` when
its last PDU did not fit, and then neither types nor receives; the server keeps
the PDU in its `outbox` while the connection is `Full`.

A client killed `InSend` leaves its last PDU cut (`KilledInSend`). What `recvPDU`
then makes of the end of the stream is what PduStream finds for its bytes. With
nothing, or the header alone, it returns 0. With half a header the second byte of
the length is whatever the stack held, so that it returns 0 or ends the server
(`pdu.c:54`, in `RecvFails`). With a beginning of the data it returns a shorter PDU
(`CutLast`), which the server takes for whole: a text that ends early, from
`TextStart`, or no text and a handle that ends early, from `HandleStart`, which may
be the handle of somebody else.

**ChatClient** (`Program2/cclient.c`). `proc` is the phase of the process.
There is one action for connecting, registering, each command, receiving, the
end of the server, and the end of the client between sends or inside one.

**ChatServer** (`Program2/server.c`) instantiates HandleTable and PollSet on
its own variables, so every step of them here is theirs. `owner` is the
kernel's table of open descriptors; `accept` returns the lowest free one below
`limit`, or fails (`AcceptFails`) and leaves the connection queued. A
handler changes the table in the step that takes the PDU; its sends are then
made one per step from `outbox`, since clients act between two sends, and the
next poll comes after the last. `AckExit` is the second half of flag 8, which
alone disconnects after its send and exits when it fails. **ChatSystem**
interleaves server, clients and environment, and states the properties.

**ChatService** is what the chat promises: requests are answered one by one,
each in one step, into a mailbox per client; there are no sockets, poll set,
table or handlers that stop half way. A name has one holder; a message goes
to the holder or back to its sender; of a multicast the copies for names nobody
has are dropped in silence; a list is consecutive and has each name once, after
the count of all registrations ever made; name and connection are given back
together; only a reset loses mail and only its own client's; a request that its
client breaks off may be lost or taken as a shorter one. ChatSystem
implements it under the mapping `Service`: the mailbox of a client is what was
sent to it and what the outbox still holds for it, its name is the table's entry
for the socket it owns. An answer thus happens in the step that takes the
request, the sends from the outbox are stutters, and a send that fails in the
middle of a handler is the loss of one piece of mail.

Texts are values: `Empty`, short ones, and long ones (more than 200
characters), for which `ChunkFlags` gives the first byte of each piece the
server cuts them into, the one byte of a text that anything depends on. How long texts
and handles may be is the subject of **Codec** (`server.c`, `cclient.c`): one text on
its three hops, from the line typed to the screens of its addressees. Strings are
lengths and a part of a text is a place and a number of characters, because
every offset is computed from lengths and every buffer bounds one. Each function
that packs or unpacks a text or a multicast is an operator, with the places it
writes to and their room; a write outside a buffer makes `stage` "undefined".
A piece of a long text is unpacked by the client as the PDU its first byte names.
`control` says whether a piece begins with byte 5, 7 or 12, which the client follows
by copying as many bytes as the second byte says.

**PduStream** (`pdu.c`) is byte by byte: the two length bytes, `MSG_WAITALL`
receives, the 16-bit length, every value `recv` returns. **MessageChannel** is
what it implements: a first-in first-out channel whose last message may be cut
short when the sender breaks off and that a message without data ends, once
something follows it where an empty `recv` waits (`EmptyRecvWaits`). This is
what ChatNet takes a connection to be, for messages that are never empty and
with the broken connection spelled out in `link`.

**EchoLab** (`Lab2/server.c`, `Lab2/cclient.c`). Text is counted, not spelled:
a line is its number of characters. `input` is descriptor 0 and `stdio` the
buffer of the library, because the client polls the one and reads the other.
`Terminals`, `Lines` and `PduMayFail` are given per client, so that one run has
a client whose input and memory misbehave next to one that must not notice.
Connections hold `Room` PDUs each way, as in the chat: an echo is taken in one step
(`TakeData`) and sent in another (`Echo`), which waits while the client does not read.
`accept` fails at the limit of descriptors.

**Trace** (`Program1/trace.c`) has one action per header. The bytes a header
function reads and those a checksum covers are followed as ranges of the packet;
of the fields only those are there that later offsets or printed lines depend
on. `in_cksum` and libpcap are outside the repository's own code.

### Where platforms differ

Three facts are constants, since the code compiles and runs on both macOS and
Linux and behaves differently:

| Constant | TRUE | FALSE |
|---|---|---|
| `HupOnEof` | poll reports POLLHUP for a socket whose peer closed (macOS) | only POLLIN, until the connection is reset (Linux) |
| `EmptyRecvWaits` | `recv` of 0 bytes waits for input (Linux) | it returns 0 at once (macOS) |
| `c \in Terminals` | `read` returns one line, and the end of the input is POLLIN (terminal) | `read` returns all there is, and the end is POLLHUP alone (pipe on Linux) |

## 3. Runs: what is checked and what it shows

A property about the server's promises is stated while `status` is `running`:
after `exited` there is no server and after `undefined` the C standard says
nothing. Deadlock is not checked: in every model the counters bounding the
input run out and the system stops, and a server that has exited takes no steps.

| Run | Specification, size | Properties | What it shows |
|---|---|---|---|
| `handle_table` | HandleTable, 1551 states | TypeOK, HandlesUnique, CountCoversTable, DirectorySpec, OverrunNeedsLargeSocket | after any sequence of adds and removes, with growth and failures, handles are unique, the count is never too small, an overrun needs a socket of twice the initial size, and the table implements the directory |
| `poll_loop` | PollLoop, 1631 states | TypeOK, WatchesMembers, OnlyStdinMasksSockets, StarvedOnlyByLower | exactly the open sockets are polled; what is returned is ready unless the standard input hung up; a socket waits for ever only behind lower ones |
| `chat_rivals` | ChatSystem, 1.1 million states | TypeOK, DescriptorsAgree, MessagesReachTheirAddressee, VerdictFirst, DeliveredOrReported, HandleKeptWhileConnected, LimitEndsService | two clients want one handle while a third is never registered (its handle is too long); descriptors are reused or run out, both arrays grow, allocations fail |
| `chat_pair` | ChatSystem, 1.0 million states | OrderedPerSender, ListIsFramed, StopHasCause, ServiceSpec | every kind of PDU and text, kills and resets between any two sends of a handler and kills inside a PDU, a hang-up of the server's standard input; lists are whole, every exit has one of four causes, the system implements ChatService |
| `chat_live` | ChatSystem with fairness, 150 000 states | RequestsServed, ExitCompletes, ClientsNoticeServerStop | over connections that hold one PDU each way nobody is left waiting, but for a standoff, with a client that may be killed at any point |
| `pdu_stream` | PduStream with fairness, 7465 states | TypeOK, ExitOnlyAfterCut, ChannelSpec | framing implements the channel, liveness included |
| `echo` | EchoLab with fairness, 155 000 states | TypeOK, LinesSentAsTyped, EchoesInOrder, DisconnectHasCause, EveryLineComesBack, RequestsServed | one client is fed by a pipe, with empty and over-long lines and failing allocations; every line of the other, at a terminal, comes back, and every PDU is taken, unless an empty line, a standoff or the limit of descriptors holds the server |
| `codec` | Codec, 47 000 states | TypeOK, StaysInside, ShownAsTyped, EndTravels, PiecesMakeTheRest | within the limits `WithinLimits` names nothing is written outside a buffer, what is shown of a text of one PDU begins with all of it, the pieces of a long one lack at most its first character |
| `trace` | Trace, 6208 states | ReadsInsideFrame, ChecksumsCoverTheirData, FieldsAsSent | of a well-formed packet nothing is read past its end; checksums leave out padding and take in options; ports and the flags FIN, SYN, RST and ACK are printed as sent |
| `poll_stdin_hangup`, `chat_tab`, `echo_blank` | | one each | the disagreements of section 5 |

### Bounds, and why they are enough

- `handle_table`: `InitialSize` 2 and sockets 1 to 6, so that there are
  sockets inside the first array, sockets that one doubling reaches (2, 3),
  sockets that the first doubling does not reach and the second does (4 to 6),
  and each order of meeting them. `MaxAdds` 5 stops calls of `addHandle` when
  `numValid` is 5: enough to register, remove and register all three handles.
- `poll_loop`: `POLL_SET_SIZE` 2 (10 in the code) with sockets 1, 2, 5, 6:
  inside the first array, the first that makes it grow, one that makes it grow
  by more than a slot, and the next, which the slack must hold.
- `chat_rivals`: three clients, because it takes two for a refusal and a third
  to be affected by it. Registered rivals may send one PDU more, the
  unregistered client one; no property of this run needs two messages of one
  sender. `Limits` 4 and 5 make the third connection fail or succeed. `InitialSize`
  2 makes sockets 2 and 3 need growth and 4 overrun;
  swapping the rivals is a symmetry because their handles and bounds are equal.
- `chat_pair`: two clients; the first sends three PDUs of any kind, the second only
  registers, so that there is one sender of messages; OrderedPerSender for several is proved (section 4). Three PDUs are the least with which a sender
  registers and has two messages, or a list and an exit, in flight. Texts are
  empty or long: a short one differs from the empty one only in a multicast, where
  the long one is relayed too. Multicasts name an absent handle before a present
  one, or one handle twice. `InitialSize` 3 with sockets 2 and 3: the
  overrun is the other run's subject. `Room` is 2, so that the third PDU can be in
  `send` when its client is killed. The first handle begins the second, so that a cut
  message can be misrouted. In `chat_rivals` `Room` is more than is ever in flight.
- `chat_live`: a registration and one request for one client, two for the
  other, over connections with `Room` 1, so that both sends can block and the
  standoff is reached. The client that may be killed is the one with fewer
  requests. No symmetry is used.
- `pdu_stream`: bytes of 4 values, so that a PDU of 4 data bytes needs a carry
  into the high length byte, and the largest length a receiver is asked for
  lies above its buffer. The payloads are empty, of one byte, of two, and longer than
  `MaxData`; three sends have a PDU before and after any other; the connection
  holds 3 bytes, fewer than a PDU, so that sender and receiver alternate.
- `echo`: `MAXBUF` 4, so a line of 3 is one too many and
  leaves a piece that is only its newline. Two lines of the pipe client can be read
  by stdio together and can follow an empty one. The terminal client has four,
  the number with which both directions of a connection of `Room` 1 are full
  and the server and the client are in `send` (`Standoff`). The pipe client has all the
  faults and the terminal client ends its input.
- `codec`: the sizes are those of the code. Handles have 1, 99, 100 or 101
  characters; texts lie on both sides of 200, of each number of pieces, and of what a
  PDU of 1398 or a line of 1400 bytes leaves room for; multicasts name 2, 3 or 9
  handles, with sums on both sides of 500.
- `trace`: two packets, so that the second begins with what the first left;
  headers with and without options, frames cut short or padded, total
  lengths below the header, true, and beyond the frame, with each flag set and
  clear. 6208 states are all combinations of these.

`MaxSends`, `MaxLines`, `MaxAdds`, `MaxPackets` and `MayQuit` are the only bounds
in guards, each marked where it is declared; `MayEnd`, `PduMayFail`, `Limits` and
`Room` choose what the environment does.

### Fairness, and why the code justifies it

- `WF(Serve)` in PollLoop, `WF(Server)` in ChatSystem and EchoLab: the server
  is a loop that does nothing but poll and handle. There is no fairness
  between its sockets; lowest first is in the model.
- `WF` for what a client does without its user: registering, receiving,
  seeing that the server went. These too are a loop. In EchoLab the line at hand
  is sent as well. Typing, connecting and quitting are never assumed.
- `WF(Transfer)` and `WF(Receive)` in PduStream: a connection that is not
  reset delivers, and the receiver is a loop of `recvPDU`. That a sender closes
  or sends is not assumed. Hence an empty message is reported by MessageChannel only once something
  follows it (`Followed`): an empty `recv` may wait for that.
- Nothing is assumed of the environment: standard input need not hang up and
  resets need not come. No strong fairness is used.

The liveness properties hold under conditions found by taking them away:

- `ClientsNoticeServerStop` needs `HupOnEof` (otherwise the client's loop reads 0
  for ever, `cclient.c:322`). The run has it TRUE: it shows the property on macOS and
  says nothing of Linux, where it fails.
- `RequestsServed` and `ExitCompletes` of the chat end in `Standoff`: the server
  blocked in `send` to a client that is blocked in `send` to the server. With
  one thread on each side neither gets on, and every other client waits too.
- `RequestsServed` and `EveryLineComesBack` of the echo service end in `Stuck`, which
  is one of three states. `WaitsInRecv`: on Linux the empty `recv` of a PDU without
  data holds the server's one thread. `Standoff`: as in the chat. `AtLimit`: a client
  that cannot be accepted is reported before those that can be served. The properties
  say that there is no fourth.
- `EveryLineComesBack` is about terminals: of two lines that arrive together in a
  pipe the second stays in the buffer of stdio until more arrives.

With the constant turned or the exception left out, TLC finds each violated. The
safety side of the same kind is `LimitEndsService`: once a connection waits and no
descriptor is free, no request is ever served again, because the listening socket
is reported before every client and those who leave are not noticed.

## 4. Proofs

`tlapm` proves the following for every value of the constants that meets the
named ASSUMEs of the modules. These say what the code takes for granted:

- `InitialSize` and `POLL_SET_SIZE` are positive, sockets are natural numbers
  above the listening one, and `NoHandle`, `NoClient` and `NoText` are no handle,
  client or text.
- A multicast names 2 to 9 handles, a connection has room for a PDU, an empty text
  is not cut into pieces.
- Texts and handles begin with those that `TextStart` and `HandleStart` name, a text
  with itself and the empty one.
- PduStream: the length of a PDU fits two bytes, and the receiver's buffer holds
  what `sendPDU` may send.
- Codec: a handle buffer is at most 255 bytes (its length is one byte), and a PDU
  has room for two handles of any length and a text of 200 characters. No other
  size is fixed.
- Trace: the fields of a header have the widths of their types.

The bounds of the models (`MaxAdds`, `MaxSends`, `MaxLines`, `MaxPackets`,
`MayQuit`) are in guards only, and no proof uses anything about them: the results
hold for runs of any length.

**HandleTableProofs**

- `TypeCorrect`: TypeOK is inductive as it stands. The interesting part is
  that growth yields a function on exactly the new range of sockets
  (`GrowthKeepsEntries`).
- `HandlesStayUnique`: inductive together with TypeOK; `GrowKeepsHandles` says
  that growth adds no holder of a handle, so the store after a failed search
  adds the only one.
- `CountStaysAbove`: needs that the set of entries in use is finite and that a
  store adds at most one (`StoreAddsOne`).
- `OverrunOnlyFromLargeSocket`: needs the invariant that the capacity never
  falls below `InitialSize`; one doubling then makes room for every smaller
  socket.
- `ImplementsDirectory`: every step of the table is a step of HandleDirectory
  or leaves it unchanged. Growth alone stutters; `StoreHandle` is `Register`,
  for which the search has shown that nobody holds the handle; a removal is
  `Unregister`; an exit or an overrun is `Stop`.

The proofs about a step share `EveryStep`, which splits `Next` once.

**PollLoopProofs**. `TypeCorrect` and `WatchedAreMembers` come from
`IInv == TypeOK /\ WatchesMembers`: neither is inductive alone, since that a
returned descriptor is a member needs that slots hold their own number, and
that needs the shape of the array. `AddTakesOwnSlot` says what adding does to
the array in all three cases of growth, `PollCallReturns` what the search
finds. From them `OnlyStdinMasks`, and `ReturnsReady`: if the standard input
never hangs up, pollCall returns only sockets with input. It is the
property `poll_stdin_hangup` violates, with the hypothesis it needs.

**ChatProofs**. HandleTable and PollSet are instantiated by ChatServer on its own
variables, so the first lemmas (`AddHandleDoes`, `RemoveHandleDoes`,
`FindSocketFinds`, `PollReturnsReady`) say what their operations do to those.
`ClientForms` and `ServerForms` then reduce `Next` to the few forms a step can
take: a client sends a request, leaves or breaks off (`CutStream` says what is left of
its stream), the server accepts, answers, hangs up or
sends. Every invariant is shown to survive the forms, not the handlers. The
inductive invariant `IInv` has six parts, none of them inductive alone:

- `TypeOK`;
- `RequestsInv`: a client's first PDU is its registration and its only one, and every
  request has its sender and its place in it;
- `ConnectionsInv`: a connection is in the queue of accept or on one socket, never
  both, and its end at the client follows the client's process;
- `PollInv`: the poll set watches the open sockets and the listening one, each in
  its own slot (without the slots, pollCall could return a number that is no
  socket);
- `SocketsInv`: entries of the table are on open sockets and carry the handle of
  that client (needs RequestsInv: flag 1 registers what its PDU says);
- `AckInv`: the acknowledgement of an exit is alone in the outbox (else `AckExit`
  could hang up on a client for which more is to be sent).

From it follow `TypeCorrect` and `DescriptorsStayAgreed`;
`HandlesStayWithClients` by a case for each form; `ServerStopsForCause`, with the
lemma that causes last (one of them is the half header at which `recvPDU` itself
exits); and `NoServiceAtLimit`, in which the listening socket, the
lowest in the poll set, stays ready once accept fails.

**ChatDeliveryProofs** follows a PDU from the request that caused it through the
outbox to the stream of a client. `StreamsGrow` says that only the head of the
outbox ever enters a stream, `HandlersAnswer` what each handler puts there.

- `MailInv` (`TableInv`, `VerdictInv`, `OutboxInv`, `StreamsInv`): a handle in the
  table belongs to a client whose verdict is sent or next to be sent, nothing comes
  before the verdict, and what is in the outbox or a stream is addressed as its
  request said. Gives `MessagesStayAddressed` and `VerdictComesFirst`.
- `OrderInv`: what is in the outbox comes from the request taken last and follows all
  that was sent before. Gives `SendersStayInOrder`.
- `UniqueInv`, `ListInv`, `RestInv` and `TailInv`: no handle is twice in the table; an
  entry or the end of a list in the outbox has only entries of the same list and the
  count before it; a list in the outbox goes on to its end; and when the last that was
  sent to a client is a count or an entry, the head of the outbox continues that list,
  unless a reset has discarded it. That every handle has its entry comes from
  `EveryoneHasAPlace`: the numbering of the entries reaches each socket in use. Gives
  `ListsStayFramed`, all three parts of ListIsFramed.
- `DeliverInv`: while no connection is reset a short message that was taken is at the
  head of the outbox or has been sent, exactly once. Gives
  `EveryMessageHasOneOutcome`.
- `LeaveInv`: gives `OnlyPiecesForgeExits`. Two flags end a client, 3 and 9. If no
  piece of a long text begins with either (`NoPieceEndsClients`), a PDU with flag 9
  goes to a client that asked to exit, which is the property `chat_tab` violates, and
  one with flag 3 is the first that client gets and answers its registration
  (`RefusedWhenAsked`). So the cut into pieces is the only cause of that finding.

**PduStreamProofs**. The bytes of all PDUs are numbered: `start[i]` of them
precede message i, `r` have been received. `Placed(start, r)` says that sender,
connection and receiver hold the bytes with the numbers that follow each other;
`PlaceInv` that such a numbering exists until the receiver meets the end of a
connection that was broken off (`Broken`). `Digits` is the arithmetic of the two
length bytes. From it `TypeCorrect`; `ExitsOnlyAfterCut`: the length read is one
that `sendPDU` wrote, unless its second byte never came; and
`FramingImplementsChannel`, the safety half of ChannelSpec: every step is a step
of MessageChannel or a stutter.

**EchoLabProofs**. `IInv` is `TypeOK` with `ConnectionsInv` and `PollInv` as in
the chat, `WaitInv` (a `recv` waits only for a client whose last PDU was empty, a
`send` runs only for one whose last PDU has data) and `CauseInv` (who was hung up on had left or sent an empty line). `DisconnectsHaveCause`
follows; `EchoesStayInOrder` is inductive on top of it, since an echo takes the
place of the PDU taken last. `LinesStaySentAsTyped` comes from `FlowInv`: what a
client typed is what it sent, then what stdio holds, then what descriptor 0 holds.

**CodecProofs**. `IInv` adds to the five properties `StageInv` (what the server
took is what the sender's buffer left of the text) and `WholeInv` (a text relayed
whole fits every buffer on the way), from which the next hop's writes are bounded.
Two operators are recursive over the list of handles: the sum of the lengths and
`Kept`, the loop that sends the copies. That their recursions have a value, and the
bounds on it, is proved by the least counterexample (`LowestExists`, from the
well-founded order of the naturals; `EveryNumber`), since the library's induction
rules cannot be instantiated. `WritesStayInside` covers what the client does with a
piece, by the last part of `WithinLimits`: a text that is cut has no piece that begins
with byte 5, 7 or 12. `PiecesAreComplete` rests on the division that gives
the number of pieces (`RoundedUp`, `PiecesBefore`).

**TraceProofs**. `HeaderInv` says that a header is announced by those before it,
`TransportIsThere` that a well-formed packet has room for it; the rest is the
arithmetic of offsets. `FieldsStayAsSent` needs `PortsAsSent` (the two conversions of
a port agree) and `FlagsUnderTheirNames`.

Only model-checked:

- liveness, with the fairness it needs: `StarvedOnlyByLower`, `RequestsServed`,
  `ExitCompletes`, `ClientsNoticeServerStop`, `EveryLineComesBack`, and that a
  channel delivers (the fair half of `ChannelSpec`);
- the refinement `ServiceSpec`. Its mapping selects from the outbox with `SelectSeq`,
  of which the provers know nothing; see the plan;
- the three runs that expect a violation: a counterexample is for TLC to find.

## 5. Where the code and what is said of it disagree

1. `poll_stdin_hangup` (`pollLib.c:33`). `setupPollSet` zeroes every slot and
   `removeFromPollSet` does so again, and a slot of zeroes is a `pollfd` for
   descriptor 0. When the server's standard input hangs up, pollCall returns 0
   instead of a ready socket, `recv` on it fails, and the server exits. This
   happens with a pipe on Linux or a terminal that is closed; a server with a
   standard input that is a file or `/dev/null` is not affected.
2. `chat_tab` (`server.c:166`). A text of more than 200 characters is relayed
   in pieces without flag and handles. The receiver takes the first byte of a
   piece for the flag; a horizontal tab is flag 9, and the client exits. With
   letters there (`chat_pair`) nobody is made to leave, by ServiceSpec;
   `OnlyPiecesForgeExits` proves that it takes such a piece.
3. `echo_blank` (`Lab2/pdu.c:64`). An empty line makes the server disconnect a
   client that is still there.

Seen while modelling, each stated or excluded by a property, without a run of
its own:

- `removeHandle` does not count down (`handleTable.c:89`), so a list announces every
  registration there ever was: `registered` in ChatService. `CountCoversTable` is
  what remains true of the table.
- The failures at the end of section 3, and the descriptor limit.
- The overrun of the table for a socket of at least twice its size
  (`OverrunNeedsLargeSocket` says exactly when).
- The server exits because one client left without reading, or was killed when half a
  header had gone (`StopHasCause` lists the causes). A message cut by a kill is relayed
  as far as it came, and one cut inside a handle goes to whoever has the shorter
  handle (`Beginnings`; the broken-off request of ChatService).
- `getMessageOffset` (`server.c:337`) is one byte too far, so a long text loses its
  first character. `PiecesMakeTheRest` allows this and no more, and would also hold of
  the code with the offset put right.
- The limits of `WithinLimits` are narrower than those the programs enforce: a
  handle of exactly 100 characters is terminated outside its buffer
  (`server.c:362`), and a multicast is never cut, so that a text of more than
  200 characters does not fit the receiving client's buffer. A piece that begins with
  byte 5, 7 or 12 (`Mistaken`) makes the client copy up to 255 bytes into a buffer of
  100, or a text to its next 0 into one of 200.
- A text printed by the client is not terminated by what it copies
  (`cclient.c:431`): `ends` of `screen` may be FALSE. ShownAsTyped is about the
  beginning of what is printed and does not say that nothing follows.
- A packet whose total length is less than its headers makes `trace.c:62` wrap and
  read past the frame: WellFormed excludes it from ReadsInsideFrame.

## 6. What is not modelled

- Which bytes of a list, a registration or an acknowledgement go where: their only
  field of variable length is one handle, whose limits Codec has.
- The count of a list that wraps after 65536 registrations: it is in the model
  (`Count`), but no instance is that large.
- Bytes and characters themselves, but for the first of a piece.
- The set-up of sockets, name look-up (`networks.c`, `gethostbyname.c`) and the
  command line: straight-line calls that exit on failure, before the first poll;
  their result is the initial state, and no interleaving or order of calls is
  left to ask about.
- `fgets` in the chat client, which has the same buffering as the echo client,
  where it is modelled; printing, but for what a message shows.
- What `Program1` prints of fields nothing depends on (addresses, TTL, window), and
  libpcap and `in_cksum`, which it is given.
- Signals to the servers. A client may be killed at any point in the chat; in the echo
  service a client leaves by the end of its input or a failed `send`, and half a PDU
  is left to PduStream.
- A last line of input without a newline, of which `Lab2/cclient.c:84` cuts the last
  character: every line of EchoLab has its newline.
- An allocation that fails for an entry that was valid (`handleTable.c:70`): the entry
  keeps a null pointer and the model ends with status "undefined".
- Functions nobody calls: `processStdin`, `sendToServer` and `readFromStdin` in
  Lab2, the wrappers of `safeUtil.c` other than `srealloc` and `sCalloc`.

`PROJECT.json` lists every component with its status, the lines each
definition stands for, and the hazards of the code at their lines with the
properties that watch them or the reason why none does.

## 7. Plan

Done: every component of section 1 but the set-up, and the proofs of section 4.
Nothing more of the system keeps state that a model could tell apart. Left to prove:

1. The safety half of the refinement of ChatService: every step of ChatSystem maps to
   a step of the service or a stutter, from `IInv`, `MailInv` and `UniqueInv`. First
   `Pending` needs a form with a recursive function, as `Kept` of Codec has, because
   `SelectSeq` cannot be reasoned about.
2. That the handle table inside ChatServer implements HandleDirectory there too,
   where callers follow the protocol of the server.
