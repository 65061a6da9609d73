# Verification of JP4Agent

JP4Agent is a P4Runtime agent: controllers push a pipeline and table entries
over gRPC, the agent turns them into AFI objects, and a *target* binds those
objects to a forwarding device. Packets travel between controllers and the
device over the P4Runtime stream channel and a UDP "hostpath". A command line
client talks to a debug server of the agent. This directory holds TLA+ modules
for the concurrent core of the agent and for its command line, TLC runs on
small instances, and TLAPS proofs for all instances.

## Inventory

| Part | State | Operations | Interaction |
|---|---|---|---|
| Controller connection (`ControllerConnection.h`) | `scm`, `stream_` | set_stream, clear_stream, send_pkt_in | shared by every StreamChannel handler and the hostpath thread |
| StreamChannel RPC (`P4RuntimeService.cpp:482`) | the stream, on the handler's stack | read loop: arbitration, packet-out, other | one gRPC thread per call |
| Hostpath (`Hostpath.cpp`) | UDP socket | receive and punt; inject | one detached thread; packet-outs run on handler threads |
| DeviceHPPacket (`DeviceHPPacket.*`) | an 8-byte header, a 16-bit length | createTransmit, createReceive, headerSerialize, headerParse | used by the hostpath in both directions |
| P4Runtime Write, SetForwardingPipelineConfig | `P4Info` maps | tableInsert, pipeline push | call the AFI core from any server thread, no lock |
| CLI service (`CLIService.cpp`) | - | add-table, add-table-entry, show-afi-objects | a second gRPC server, same AFI core |
| AFI core (`Afi.cpp`, `AfiDevice.*`) | `_objectsMap` | create, insert, look up, bind | calls `bind()` of the target's objects, which look up other objects |
| AFT target (`targets/aft`) | tokens in AftTree; the sandbox's nodes, routes and ports | addTable, setIngressStart, addEtherEncapNode, addRoute | external AFT sandbox |
| AfiCap (`AfiCap.cpp`) | - | createChildJsonRes: the match, action and entry objects of a table entry | called by the AFI core for a Write, which then handles the objects |
| Broadcom target (`targets/brcm`) | field processor groups, rules, routes | bind of caps, cap entries, tree entries | external SDK; `bind()` looks up other objects |
| Null target | a text file | bind appends a line | tests |
| CLI client (`cli.py`) | the line being sent | prompt loop, send_cmd | one blocking gRPC call per line, no deadline |
| Startup (`JP4Agent.cpp`, `Main.cpp`) | the device pointer | servers first, then the device; exit on a signal | calls may come before the device; nothing is kept over a restart |
| Utilities | - | base64, hex, uint128 | |

What is hard: nothing but `stream_` is protected by a lock. Handlers of old
and new streams overlap when a controller reconnects; a blocked Write is made
with the mutex held; `_objectsMap` is read, extended and iterated by several
threads; a lookup that fails changes the map; objects are bound in the order of
their names; all entries of a table share the names of their objects; a push
that fails half-way leaves what it had inserted; an uncaught exception, a null
object or a call before the device exists ends the process under all its
clients. Each of
these is a hazard in `PROJECT.json`, at its line, with the properties that
cover it.

## Modules

**StreamChannel** - handlers, hostpath thread, and their environment.
A member of `Streams` is one RPC: `hpc` is the program counter of its handler,
`conn` what the controller did with it, `sent`/`nread` and `outbox`/`taken` the
two directions of the stream. `set_stream` and `clear_stream` are two actions
each (lock, then access and unlock), `send_pkt_in` is three (lock, null check,
Write and unlock). Both directions go through DeviceHPPacket and through the
cpu header, whose port is two bytes: a punt carries its length and port, is cut
to the receive buffer, and becomes a packet-in with `Htons` of the port that
`headerParse` found; a packet-out becomes the header bytes, with `Ntohs` of the
port in its cpu header, and the size of the datagram sent. `Write` of gRPC is
external: it waits for flow control (`Window` unread responses), and returns at
once on a cancelled call. A Read fails when the stream is half-closed and
drained, or cancelled; a message that was already received may still be read
after a cancellation. Payloads are lengths; `zeroed` says whether a packet-out
starts with eight zero bytes.

A packet-out may be as long as gRPC lets a message be (`MaxMessage`). The code
adds the header to its length in 16 bits, and copies the full length into the
buffer: `Inject` keeps the 16-bit sum, and the overrun is an outcome. So is the
overrun of the hex dump, which `getHex` makes for more than 3265 bytes because it
does not count the line break after every 16 of them. An overrun is undefined:
either the process ends (`PacketOutEnds`) or the step goes on as if nothing had
happened (`SendPacketOut`). `send_to` and `receive_from` throw on an error, the
first also on what is longer than a datagram; nothing catches it, and the process
ends (`PacketOutEnds`, `ReceiveFromThrows`). `crashed` says that it has ended; a
restart is not part of this module, since nothing of its state survives one.

`arrived` holds the datagrams in the order in which they reach the socket. UDP
may lose, repeat or reorder what the device sends, and all of that happens
before arrival: a datagram that comes twice is two arrivals. What the agent
answers for starts there. A full socket drops a datagram that arrives. The `SUD`
build option, which strips five bytes from punts, is not modelled.

**DeviceHPPacket** - the device header as eight bytes, with the shifts, masks
and byte orders of the code written as arithmetic, and the 16-bit sums of
`createTransmit` and `createReceive`. The direction is one bit of the first
byte; version and reason are zero.

**ControllerChannel** - the promise of the controller connection without
threads or locks: at most one stream is attached, packets go to the attached
stream only, an ended stream is not attached. It does not promise that ending
one stream leaves another attached, because the code does not keep that.

**AfiDevice** - the AFI core and the calls that drive it. A thread takes one
step per access to `_objectsMap`; single map operations are taken as atomic
(the code has no lock, so a real data race inside `std::map` is worse than
anything the model shows). `heap` holds every object ever created, a pointer is
an index. `objectsMap[n]` is `ABSENT`, `NULL` (the entry `operator[]` adds on a
failed lookup) or a pointer. Names are numbers, in the order in which
`std::map` iterates. One update of a Write is one call: the code runs the
updates of a request one after the other and ignores their results. A push whose
device data is not JSON (`Unparsed`) changes P4Info and then ends the process
(`UnparsedConfig`): the stream operator throws and nothing catches it. Updates
other than INSERT, default actions, and malformed CLI commands change nothing
and are left out.

**AftTarget** - AfiDevice with the AFT target's `bind()`: `AftTree::_bind`
pushes a table, stores its token, reads it again and points the input ports to
it one by one; `AftTreeEntry::_bind` looks its parent up, reads its token,
pushes an encap node and then the route. The sandbox is external: it gives a
new token to every node. The `no-aft-server` debug mode is left out.

**BrcmTarget** - AfiDevice with the Broadcom target's `bind()`. `found` holds
the objects a `bind()` has looked up so far, one step per lookup, in the order
of the code: a cap looks up its match and action sets, a cap entry its cap, its
match set and its action set, a tree entry its tree. Then the SDK is called:
`addGroup`, a rule, or a route. The SDK is external, and its groups, rules and
routes are sets. Left out are the bytes that are copied for them: a prefix that is
not four bytes long is copied into an address of four, and the MAC address is read
uninitialised for an address that is not one of the four; no property depends on either. The `key` of an object stands for what its protobuf holds: a
group id, match fields, action parameters, or one of four numbered addresses;
for any other address `port` is uninitialised and the model takes every value
the code can tell apart. Objects that AfiCap creates for an entry get the same
`key`, which is how a rule made of two entries is recognised. The lines written
to a file for the tests are left out.

**CliSession** - clients, the agent process, and the calls between them.
A line is the sequence of the tokens between its blanks: `cli.py` looks at the
words of a line (`Words`), the server at all tokens, and an empty token tells
the two apart. `history` keeps every line that was sent, with the answer the
client printed and the runs of the agent that carried it out; `call` is how far
the RPC of a client has come. `Start`, `RunGrpcServer` and `AfiInit` are the
steps of startup: the server listens and the device exists in either order.
`Exit` ends the process and loses `objects`; it happens on a signal, when
`std::stoi` throws (the gRPC release the build installs, v1.8.1, does not catch
exceptions of a handler), when a command finds no device, and when
`show-afi-objects` meets a null object. A call the agent had taken then fails
with UNAVAILABLE, and so may one that never reached it. Adding an entry is two
steps, because its `bind()` looks the table up in a map other threads change.
`installed` holds the lines whose `bind()` set something up in the target: that of
a table always does, that of an entry only if it finds `ipv4_lpm` (the code looks
that name up whatever table the line names). What it sets up there, and the text
of answers, are left out: the former is in AftTarget and BrcmTarget. Calls of P4Runtime are not part of this
module, so its map holds only what the command line adds.

**MCStreamChannel**, **MCAftTarget**, **MCBrcmTarget**, **MCCliSession** -
constants for TLC. **DeviceHPPacketProofs**, **StreamChannelProofs**,
**AftTargetProofs**, **BrcmTargetProofs**, **CliSessionProofs** - the theorems
about the module each is named after. **AfiDeviceProofs** - lemmas about the AFI
core that both targets' proofs rest on.

Operators described as a mutant or "a bug to compare with" are faulty variants
of the definition they precede. No specification uses them; each shows that a
property can fail.

## Runs

| Run | Instance | Shows |
|---|---|---|
| `stream_data` | 2 RPCs, one connected at a time, 2 requests of 8 kinds, punts around the buffer's size, symmetry | `TypeOK`, `PacketOutFaithful`, `PuntFaithful`, `ArbitrationAnswered` |
| `stream_threads` | 2 RPCs at once, 1 arbitration, 2 punts of 2 lengths, fair | `LockInv`, `NoDanglingStream`, `WriteToLiveStream`, `PuntsOnceInOrder`, `ClosedStreamReturns`, `HostPathDrains`, `ImplementsChannel` |
| `stream_reconnect` | 2 RPCs, one connected at a time | violates `OpenStreamHasHandle` |
| `stream_writers` | one stream and one punt | violates `SingleWriter` |
| `aft_concurrent` | 2 threads, 3 calls, 2 ports, complete configurations, fair | `TypeOK`, `NoNullDeref`, `QuietTreesBound`, `RouteOwnsEncap`, `EveryCallReturns` |
| `aft_sequential` | 1 thread, 4 calls, 3 ports, failing, incomplete and unparsable configurations, show | `IngressIsLatest`, `NamesKeepObjects` |
| `aft_ports` | 2 threads, 2 calls | violates `IdlePortsAgree` |
| `aft_route_table` | 1 thread, 2 calls | violates `RouteTableExists` |
| `aft_null_object` | 1 thread, 3 calls, incomplete configuration | violates `NoNullDeref` |
| `brcm_sequential` | 1 thread, 4 calls, 2 configurations that differ in the group, 2 cap entries and an invalid one, routes, CLI | `TypeOK`, `NoNullDeref`, `RulePaired`, `RuleHasGroup`, `EntriesInstalled` |
| `brcm_pairing` | 2 threads, 3 calls, 1 configuration, 2 cap entries | violates `RulePaired` |
| `cli_session` | 2 clients, 2 lines sent out of 11, 3 starts of the agent, fair | `TypeOK`, `AnsweredTruthfully`, `ShowSeesAdded`, `NoNullAfterTable`, `CommandAnswered` |

Bounds. Two streams are what a race between an old and a new handler needs; a
third only repeats it. `Window = 1` makes every second Write block. The request
kinds cover each case of the switch, both sides of each length check, the longest
packet-out that makes a datagram, the next one, and one whose length wraps 16
bits; the datagram lengths both sides of the header check and of the buffer. Two threads and three calls
let a push overlap with a second push, a Write or a CLI command and leave one
more call to run on what they left behind; with one thread, four calls allow
push, write, push and show. Two ports are enough to split them, three to tell
"one too few" from "only the first". Three names give an entry, its parent and
an unrelated table, on both sides of the order in which they are bound. On
Broadcom the eight names are a cap, the three objects of its entries, its two
sets, `entry1` and `ipv4_lpm`; four calls allow push, two entries, and a second
push that binds the last entry again, in the group of the new cap. Port 258 (bytes 1 and 2) has
two different bytes, neither of them zero, so that a swapped or shifted field
shows, and a conversion that is left out in either header. In `cli_session` two lines are what every property relates (an entry and
its table, an addition and a show, a command that ends the agent and one that
suffers from it); three starts allow one before, one during and one after a
call; the lines take every branch of the client and of the server.

`NoNullDeref` needs `CompleteConfigs` (every configuration parses and has a
creatable object for each name that is ever looked up) and no `show-afi-objects`: the run
`aft_concurrent` satisfies both, as does `brcm_sequential`, the run
`aft_null_object` drops the first. The theorems about rules ask two more things
of the configurations, both of them stated in BrcmTarget: `NamesApart` (the
device creates the objects of an entry, no configuration does, and their names,
`<table>_entry_match_1233458` and so on, are those of no other object) and
`TypedSets` (what a cap names as its match and action set is such a set in every
configuration). MCBrcmTarget has TLC evaluate all three on its configurations.

Fairness. Threads of the agent keep running (`WF` on each handler, on the
hostpath thread, on each server thread): the operating system schedules them
and `scm` is held only for finitely many steps. A controller that stays
connected keeps reading (`WF` on `Receive`): this is an assumption about
clients, and without it the agent really blocks, because `send_pkt_in` holds
`scm` across a Write. In CliSession a call that was made reaches the agent or
fails, the threads of a running agent go on, and a client takes the answer it is
sent. Nobody is obliged to open, send, close, punt, call, type a line, or start
the agent.

## Disagreements between the code and its comments

1. `stream_reconnect`: a controller cancels, reconnects, and the old handler's
   `clear_stream` removes the new stream. Punts are dropped although the one
   controller is connected.
2. `stream_writers`: the arbitration response is written without `scm`.
3. `aft_ports`: overlapping `setIngressStart` loops leave ports split.
4. `aft_route_table`: a Write before the push leaves `entry1`, which the push
   binds before `ipv4_lpm` has a token; the route goes to token NONE. A second
   push does the same to the last entry written.
5. `aft_null_object`: a refused Write leaves a null object; the next push
   dereferences it.
6. `brcm_pairing`: the objects of every entry of a table have the same names
   (`AfiCap.cpp:85` fixes the id), so two overlapping Writes pair the match
   fields of one entry with the parameters of the other.

What `cli_session` shows of surprising answers. "Couldn't connect to JP4Agent"
says nothing about whether the command was carried out: `AnsweredTruthfully`
promises nothing for it, except that it was not carried out twice. "Added entry to
table X" is printed also when `bind()` found no table and added no route
(`AftTreeEntry.cpp:74`), and X plays no part in what is looked up. The property
therefore promises that the object is in the map, and that the target has the
entry when the table `ipv4_lpm` had been acknowledged, by the run of the agent that
carried the line out, before the line was typed (`Ready`); for an entry that comes
before its table it promises no route. The repository does not say what the
answer means, so this is not listed as a disagreement.

## Proofs

`DeviceHPPacketProofs` proves `HeaderRoundTrip`: `headerParse` gives back what
`headerSerialize` wrote, for every 16-bit length, sandbox and port. It rests on
`Halves`: the two bytes of a 16-bit number are bytes and make it up again.
`HtonsNtohs` and `NtohsHtons` say that the conversions undo each other. Two
lemmas (`TransmitAll`, `ReceiveAll`) say that the 16-bit sums do not wrap for
the sizes that occur, so that the whole packet fits the buffer.

`StreamChannelProofs` proves, for any sets of streams, requests and lengths
and any bounds that satisfy the named assumptions of StreamChannel. A step of `Next`
is one of `Steps`, or leaves everything but `crashed` alone (`StepShape`), so that
the invariants, which do not speak of `crashed`, are proved over `[Steps]_chanVars`:

* `TypeCorrect`: `Spec => []TypeOK`. Besides types, `TypeOK` bounds the read
  positions and says that a datagram being punted is longer than its header,
  so that the lengths computed from them are naturals, and that what is sent to
  the device has the length of a datagram.
* `LockOwned`, `PointerSafe`, `WriterSafe`: `Spec => []LockInv`, and the same of
  `NoDanglingStream` and `WriteToLiveStream`. They come out of one invariant,
  `IInv`, because none of the three is inductive alone: that the pointer stays
  live during a punt's Write rests on the hostpath thread holding `scm`, hence on
  `LockInv`; that a returning handler leaves no dangling pointer rests on it
  holding `scm` too. A fourth conjunct, `Started`, says that a stream is unopened
  exactly while its handler is idle, so that opening one cannot revive a handler.
* `Refinement`: `Spec => ImplementsChannel`. Initial states map to initial
  states, and under the invariant every step maps to a step of ControllerChannel
  or to a stutter: `SetStream` to Attach, `ClearStream` to End, the two Writes
  to Reply and Deliver, `Open` to Begin.
* `PuntsFaithful`: `Spec => []PuntFaithful`. Only `outbox` is observed, but a
  packet-in is made from a datagram that was taken off the socket several steps
  earlier: the inductive invariant also says that every datagram waiting on the
  socket (`SockInv`) and the one being punted (`PktInv`) is one that has
  arrived, and that `outbox` holds packet-ins of such datagrams (`OutboxInv`). With
  `TypeOK`, which gives the lengths, the round trip of the device header and
  `HtonsNtohs` for the cpu header do the rest.
* `PuntsOrdered`: `Spec => []PuntsOnceInOrder`. `OrderInv` adds where the ids
  are: those in the streams are below the one the hostpath thread holds, all of
  them below those on the socket, and the socket is in order.
* `ArbitrationsAnswered` and `PacketOutsFaithful`: `Spec` implies that
  `ArbitrationAnswered` and `PacketOutFaithful` hold always. Both properties
  speak of the set of requests a handler has served (`Served`), the first by
  counting, the second by an order-preserving bijection from the well-formed
  packet-outs among them to the packets of that stream in the device; a step
  adds at most one pair to it. `HandlerInv` says that a handler about to answer
  or to forward has just read such a request. `InjectCarries` is the lemma about
  data: for any length the datagram has the bytes of the port and announces its own
  size, and it holds all of the data when the 16-bit sum does not wrap.

`AfiDeviceProofs` holds what AftTarget and BrcmTarget share. `Shape` is the
state of the core for any configuration: every object is a well-formed resource,
the map has each object under its own name, a thread inside `bind()` has an
object. `NullFree` is what keeps null entries away: a name that any object or
any object still to be handled refers to either has an object or is one of the
names that a push provides, and while a push is past its insertions all of those
have objects. `Staged` and `WillBind` say which objects a thread has still to
bind: in a push, those it has not inserted yet and those whose names come after
its cursor.

`AftTargetProofs`, for any threads, names, configurations and writes:

* `TypeCorrect`. `TypeOK` with `Shape` and `HasEncap` (a thread between
  `addEtherEncapNode` and `addRoute` has a node).
* `NullSafe`: from `CompleteConfigs` and no `show-afi-objects`, `NoNullDeref`, by
  `NullFree`. The hypotheses are needed: the run `aft_null_object` is the
  counterexample without the first, and listing the objects after an entry was
  added before its table is one without the second.
* `ObjectsStay`: the action property `NamesKeepObjects`.
* `EncapsOwned`: `RouteOwnsEncap`. Its strengthening, `EncapPrivate`, says that a
  node a thread is about to route to is in no route and in no other thread's
  hands.
* `TreesBound`: `QuietTreesBound`, when no configuration has an object of a type
  the device cannot create (such an object ends a push before it binds, and the
  trees it had inserted stay unbound). `TreesOwned`: some thread is going to bind
  every tree that has no table, so none is unbound when all are idle. That
  another call may replace the tree in between is what makes the owner change.
* `IngressLatest`: with one server thread, `IngressIsLatest`. `LatestAt` follows
  the newest token from `bind()` into the loop over the ports. With two threads
  the statement is false (run `aft_ports` splits the ports).

`BrcmTargetProofs`, likewise:

* `TypeCorrect` and `NullSafe`, as for AftTarget and by the same `Shape` and
  `NullFree`. `TypeOK` bounds the objects a `bind()` holds by its references while
  the process has not crashed.
* `RulesPaired` and `EntriesHaveRules`: with one server thread and `NamesApart`,
  `RulePaired` and `EntriesInstalled`. `RuleInv` says where each object comes from
  (`HeapOrigin`), that the match and action sets in the map are those of the
  entry in the map, except for the table whose entry is being added, of which
  the thread has exactly the missing objects left to handle (`TodoInv`), that
  what is bound is what its name has (`BindsLatest`), that what its `bind()` has
  looked up has its key (`LookedUp`), and that an entry without a rule is the one
  being bound and will find its cap (`Installed`). With two threads `RulePaired`
  is false (run `brcm_pairing`).
* `RulesHaveGroups`: with `CompleteConfigs`, `TypedSets` and no
  `show-afi-objects` besides, `RuleHasGroup`. A cap creates its group only after
  its own two lookups, so this needs that those succeed (`NullFree`) and find
  sets; `CapsOwned` then says that a cap in the map has its group or is still to
  be bound by the push, which handles names in order, the cap's before those of
  its entries.

`CliSessionProofs`, for any clients, lines, names and numbers of starts:

* `TypeCorrect`: `TypeOK`, with the answers and runs recorded in `history`.
* `AnswersTrue`: `AnsweredTruthfully`. Only answered lines are observed, but a
  line is carried out several steps before: `StageInv` says how often the line of
  a call has been carried out at each stage of the call, and `CallInv` that no
  two calls are for the same line, so that one client's step cannot carry out
  another's line again. That an entry whose table was acknowledged is installed
  needs `InstallInv`: a line that is looking its table up was carried out by the
  present run (`LookUpInv`), in whose map what it acknowledged still is (`MapInv`),
  so the lookup finds it; `ReplyInstalled` and `AnswerInstalled` carry that over to the
  reply on its way and to the answer, and over the end of the run.
* `NullsGone`: `NoNullAfterTable`. `MapInv`: what the running agent was told to add
  is in its map, and only the name that entries look up can be null.
* `ShowsAdded`: `ShowSeesAdded`. `ReplyInv` says of a reply on its way what the
  property says of the answer: it has all that was answered before the line was
  typed, provided the same run of the agent added it.

Every safety invariant of a passing run, the action property and the refinement
are thus proved. Only model-checked: `ClosedStreamReturns`, `HostPathDrains`,
`EveryCallReturns` and `CommandAnswered`. They are liveness properties, and the
prover has no rules for fairness, whose definition needs ENABLED. The runs that
expect a violation show counterexamples; there is nothing to prove there.

The two properties that speak of a bijection or of cardinalities
(`PacketOutFaithful`, `ArbitrationAnswered`) are stated with sets of positions
rather than with filtered sequences: a filter is defined by recursion, about
which nothing can be proved here for sequences of any length.

## Plan

Done: StreamChannel and DeviceHPPacket, AfiDevice with AftTarget and
BrcmTarget, CliSession, and the proofs of all their safety properties.

1. A configuration with several cap tables; `RulesPaired` already covers it.
2. The groups of four characters of base64 as operators, with a round trip.
3. An abstract specification of the forwarding state that AftTarget implements
   when calls do not overlap, and its refinement.
4. What the names of an entry's objects guarantee when two Writes to different
   tables overlap: `RulesPaired` for several threads with disjoint tables.

## Not modelled

Logging and tracing, the text of CLI replies, the YANG and protobuf data model,
the test controller and the gtests; `AfiEncap` and `AfiTreeEncap`, which no
target creates; `AftClient` operations without a caller; `Read` and
`GetForwardingPipelineConfig`, which touch no state; the Null target, which only
appends lines to a file for the tests; reading the configuration file; the restart
of the process in StreamChannel, and the `SUD` build; base64, a conversion
between two forms of an object that the models do not tell apart, and `uint128`,
which nothing computes with.

Python code: of the five `.py` files only `cli.py` is a part of the program, and
CliSession models it. `tools/scripts/cpplint.py` is Google's style checker,
vendored; `jp4cli_pb2.py` and `jp4cli_pb2_grpc.py` are generated by protoc;
`http_server.py` starts the CGI server of the regression pages. The agent itself
is C++, and that is what the other modules model. Reasons for each part are in
`PROJECT.json`.
