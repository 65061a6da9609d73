---------------------------- MODULE StreamChannel ----------------------------
(***************************************************************************)
(* The P4Runtime stream channel of JP4Agent: every StreamChannel RPC runs  *)
(* P4RuntimeServiceImpl::StreamChannel on a gRPC thread of its own, and    *)
(* one detached thread runs Hostpath::hostPathUDPServer.  They share       *)
(* controller_conn, whose mutex scm guards the pointer stream_ to the      *)
(* stream that punted packets are written to.                              *)
(*                                                                         *)
(* A member of Streams stands for one RPC: its handler thread, and the     *)
(* StreamChannelReaderWriter that lives until the handler returns.         *)
(***************************************************************************)
EXTENDS DeviceHPPacket, FiniteSets

CONSTANTS
    Streams,      \* the StreamChannel RPCs
    Requests,     \* the requests a controller may send: see RequestOK
    Lengths,      \* the lengths of the datagrams the device may punt
    Ports,        \* the ports it may punt packets from
    HostPath,     \* the UDP thread, as an owner of scm
    NULL,         \* nullptr, and the owner of a free mutex
    Window,       \* flow control: responses in flight before Write blocks
    MaxOpen,      \* how many RPCs controllers are connected through at a time
    MaxRequests,  \* bound: requests sent, on all streams
    MaxPunts      \* bound: datagrams that arrive from the device

CpuHeaderSize == 12      \* sizeof(cpu_header_t)
BufferSize == 2000       \* the buffer of handlePacketFromDevice
MaxDatagram == 65507     \* of UDP
MaxMessage == 4194304    \* gRPC's limit on the length of a message it receives

\* len is the length of the payload, zeroed says whether it starts with eight
\* zero bytes, and port is the two bytes of the port in its cpu header.
RequestTypes == {"arbitration", "packet", "other"}
RequestOK(r) ==
    r \in [type : RequestTypes, len : 0..MaxMessage, zeroed : BOOLEAN, port : Byte \X Byte]

ASSUME NullAssumption == NULL \notin Streams \cup {HostPath} /\ HostPath \notin Streams
ASSUME RequestsAssumption == \A r \in Requests : RequestOK(r)
ASSUME LengthsAssumption == Lengths \subseteq 0..MaxDatagram /\ Ports \subseteq Uint16
ASSUME BoundsAssumption == {Window, MaxOpen, MaxRequests, MaxPunts} \subseteq Nat

VARIABLES
    conn,     \* the controller's side of each RPC
    sent,     \* every request the controller has sent on it, in order
    nread,    \* how many of them the handler has read
    outbox,   \* every response written to the stream, in order
    taken,    \* how many of them the controller has read
    hpc,      \* where each handler is
    scm,      \* the owner of the mutex
    stream_,  \* the registered stream
    sock,     \* datagrams waiting on the hostpath UDP socket
    arrived,  \* every datagram that has reached the socket, in order
    upc,      \* where the hostpath thread is
    pkt,      \* the datagram the hostpath thread is punting
    device,   \* packets injected into the device, in order
    crashed   \* the process has ended

connVars == <<conn, sent, taken>>
handlerVars == <<hpc, nread>>
lockVars == <<scm, stream_>>
hostVars == <<sock, arrived, upc, pkt>>
chanVars == <<conn, sent, nread, outbox, taken, hpc, scm, stream_, sock, arrived,
              upc, pkt, device>>
vars == <<chanVars, crashed>>

HandlerPCs == {"idle", "setLock", "set", "read", "write", "packetOut",
               "clearLock", "clear", "returned"}
\* The handlers that have registered their stream and not yet returned.
Registered == {"read", "write", "packetOut", "clearLock", "clear"}

ArbitrationOK == [type |-> "arbitration"]
Datagrams == [id : 1..MaxPunts, len : Lengths, port : Ports]
\* The header the device gives a datagram.
DeviceHeader(d) ==
    <<8 * PacketDirReceive, 0, High(d.len), Low(d.len), 0, 0, High(d.port), Low(d.port)>>
\* What receive_from copies of a datagram: the rest of a longer one is lost.
RecvLen(d) == IF d.len < BufferSize THEN d.len ELSE BufferSize
\* Mutant: htons is forgotten, and the port has the bytes of the host's order.
PacketInHostOrder(d) ==
    LET port == HeaderParse(DeviceHeader(d)).port IN
    [type |-> "packet", id |-> d.id, port |-> <<Low(port), High(port)>>,
     len |-> CpuHeaderSize + CreateReceive(RecvLen(d) - HeaderSize)]

\* handlePacketFromDevice replaces the device header by a cpu header; port is
\* the two bytes of the port in it.
PacketIn(d) ==
    [type |-> "packet", id |-> d.id, port |-> Htons(HeaderParse(DeviceHeader(d)).port),
     len |-> CpuHeaderSize + CreateReceive(RecvLen(d) - HeaderSize)]
Responses == {ArbitrationOK} \cup {PacketIn(d) : d \in Datagrams}

Init ==
    /\ conn = [s \in Streams |-> "none"]
    /\ sent = [s \in Streams |-> <<>>]
    /\ nread = [s \in Streams |-> 0]
    /\ outbox = [s \in Streams |-> <<>>]
    /\ taken = [s \in Streams |-> 0]
    /\ hpc = [s \in Streams |-> "idle"]
    /\ scm = NULL
    /\ stream_ = NULL
    /\ sock = <<>>
    /\ arrived = <<>>
    /\ upc = "recv"
    /\ pkt = NULL
    /\ device = <<>>
    /\ crashed = FALSE

-----------------------------------------------------------------------------
(* The controllers and the device: external, as the code relies on them.   *)

\* The RPCs a controller is connected through: a client that half-closes
\* still waits for the call to finish.
Connected == {s \in Streams : \/ conn[s] = "open"
                              \/ conn[s] = "done" /\ hpc[s] # "returned"}

\* A controller opens a StreamChannel RPC: gRPC starts the handler.
Open(s) ==
    /\ conn[s] = "none"
    /\ Cardinality(Connected) < MaxOpen
    /\ conn' = [conn EXCEPT ![s] = "open"]
    /\ hpc' = [hpc EXCEPT ![s] = "setLock"]
    /\ UNCHANGED <<sent, nread, outbox, taken, lockVars, hostVars, device>>

RequestsSent == {e \in Streams \X (1..MaxRequests) : e[2] <= Len(sent[e[1]])}

Send(s, r) ==
    /\ conn[s] = "open"
    /\ Cardinality(RequestsSent) < MaxRequests
    /\ sent' = [sent EXCEPT ![s] = Append(@, r)]
    /\ UNCHANGED <<conn, outbox, taken, handlerVars, lockVars, hostVars, device>>

WritesDone(s) ==
    /\ conn[s] = "open"
    /\ conn' = [conn EXCEPT ![s] = "done"]
    /\ UNCHANGED <<sent, outbox, taken, handlerVars, lockVars, hostVars, device>>

\* The client goes away, with or without half-closing first.
Cancel(s) ==
    /\ conn[s] \in {"open", "done"}
    /\ conn' = [conn EXCEPT ![s] = "cancelled"]
    /\ UNCHANGED <<sent, outbox, taken, handlerVars, lockVars, hostVars, device>>

Receive(s) ==
    /\ conn[s] \in {"open", "done"}
    /\ taken[s] < Len(outbox[s])
    /\ taken' = [taken EXCEPT ![s] = @ + 1]
    /\ UNCHANGED <<conn, sent, outbox, handlerVars, lockVars, hostVars, device>>

\* A datagram of the device reaches the socket, or is dropped there when the
\* buffer of the socket is full.  UDP may lose, repeat and reorder what the
\* device sends: ids count arrivals, and one that comes twice arrives twice.
Punt(len, port) ==
    /\ Len(arrived) < MaxPunts
    /\ LET d == [id |-> Len(arrived) + 1, len |-> len, port |-> port] IN
       /\ arrived' = Append(arrived, d)
       /\ sock' = Append(sock, d) \/ UNCHANGED sock
    /\ UNCHANGED <<connVars, outbox, handlerVars, lockVars, upc, pkt, device>>

\* A server-side Write returns once flow control lets the message go, or at
\* once when the call is cancelled; no caller looks at its result.
Write(s, m) ==
    \/ /\ conn[s] = "cancelled"
       /\ UNCHANGED outbox
    \/ /\ conn[s] # "cancelled"
       /\ Len(outbox[s]) - taken[s] < Window
       /\ outbox' = [outbox EXCEPT ![s] = Append(@, m)]

-----------------------------------------------------------------------------
(* P4RuntimeServiceImpl::StreamChannel.                                    *)

Goto(s, label) == hpc' = [hpc EXCEPT ![s] = label]

SetStreamLock(s) ==
    /\ hpc[s] = "setLock"
    /\ scm = NULL
    /\ scm' = s
    /\ Goto(s, "set")
    /\ UNCHANGED <<connVars, nread, outbox, stream_, hostVars, device>>

SetStream(s) ==
    /\ hpc[s] = "set"
    /\ stream_' = s
    /\ scm' = NULL
    /\ Goto(s, "read")
    /\ UNCHANGED <<connVars, nread, outbox, hostVars, device>>

\* The cases of the switch, by request.update_case().
Case == [arbitration |-> "write", packet |-> "packetOut", other |-> "read"]

\* stream->Read returns a request, and the switch picks its case.
ReadRequest(s) ==
    /\ hpc[s] = "read"
    /\ nread[s] < Len(sent[s])
    /\ nread' = [nread EXCEPT ![s] = @ + 1]
    /\ Goto(s, Case[sent[s][nread[s] + 1].type])
    /\ UNCHANGED <<connVars, outbox, lockVars, hostVars, device>>

\* Mutant: a cancelled call is taken for one that may still send.
ReadEndHalfCloseOnly(s) ==
    /\ hpc[s] = "read"
    /\ conn[s] = "done" /\ nread[s] = Len(sent[s])
    /\ Goto(s, "clearLock")
    /\ UNCHANGED <<connVars, nread, outbox, lockVars, hostVars, device>>

\* stream->Read returns false: half-closed and drained, or cancelled.
ReadEnd(s) ==
    /\ hpc[s] = "read"
    /\ \/ conn[s] = "done" /\ nread[s] = Len(sent[s])
       \/ conn[s] = "cancelled"
    /\ Goto(s, "clearLock")
    /\ UNCHANGED <<connVars, nread, outbox, lockVars, hostVars, device>>

\* Mutant: the reply goes out only on the registered stream.
WriteArbitrationIfRegistered(s) ==
    /\ hpc[s] = "write"
    /\ IF stream_ = s THEN Write(s, ArbitrationOK) ELSE UNCHANGED outbox
    /\ Goto(s, "read")
    /\ UNCHANGED <<connVars, nread, lockVars, hostVars, device>>

\* Arbitration is always answered OK, by a Write that does not take scm.
WriteArbitration(s) ==
    /\ hpc[s] = "write"
    /\ Write(s, ArbitrationOK)
    /\ Goto(s, "read")
    /\ UNCHANGED <<connVars, nread, lockVars, hostVars, device>>

\* Mutant: ntohs is forgotten, and the port is read in the host's order.
InjectHostOrder(s, p) ==
    LET pkt_ == CreateTransmit(p.len - CpuHeaderSize, 0, 256 * p.port[2] + p.port[1]) IN
    [from |-> s, hdr |-> pkt_.hdr, size |-> pkt_.size]

\* injectL2Packet for packet-out p of stream s, always to sandbox 0 and to the
\* port of the cpu header.
Inject(s, p) ==
    LET pkt_ == CreateTransmit(p.len - CpuHeaderSize, 0, Ntohs(p.port, 1)) IN
    [from |-> s, hdr |-> pkt_.hdr, size |-> pkt_.size]

\* The packet-out that the handler of s is serving, and whether it is one that
\* sendPacketOut takes for malformed.
PacketOut(s) == sent[s][nread[s]]
Malformed(p) == p.len <= CpuHeaderSize \/ ~p.zeroed

\* Hostpath::sendPacketOut: malformed packet-outs are dropped.
SendPacketOut(s) ==
    /\ hpc[s] = "packetOut"
    /\ IF Malformed(PacketOut(s))
       THEN UNCHANGED device
       ELSE /\ Inject(s, PacketOut(s)).size <= MaxDatagram
            /\ device' = Append(device, Inject(s, PacketOut(s)))
    /\ Goto(s, "read")
    /\ UNCHANGED <<connVars, nread, outbox, lockVars, hostVars>>

\* The process ends in injectL2Packet.  send_to throws, as it does on any error
\* and on whatever is longer than a datagram, and nothing catches it; or memory
\* was overrun, by the memcpy of data that wraps the 16 bits of the buffer's
\* length or by the hex dump of more than 3265 bytes.  An overrun may also go
\* unnoticed, and SendPacketOut is taken.
PacketOutEnds(s) ==
    /\ hpc[s] = "packetOut"
    /\ ~Malformed(PacketOut(s))
    /\ crashed' = TRUE
    /\ UNCHANGED chanVars

\* Mutant: clear_stream without its lock_guard.
ClearStreamNoLock(s) ==
    /\ hpc[s] = "clearLock"
    /\ Goto(s, "clear")
    /\ UNCHANGED <<connVars, nread, outbox, lockVars, hostVars, device>>

ClearStreamLock(s) ==
    /\ hpc[s] = "clearLock"
    /\ scm = NULL
    /\ scm' = s
    /\ Goto(s, "clear")
    /\ UNCHANGED <<connVars, nread, outbox, stream_, hostVars, device>>

\* Mutant: the handler returns and leaves its stream registered.
ClearStreamForgotten(s) ==
    /\ hpc[s] = "clear"
    /\ scm' = NULL
    /\ Goto(s, "returned")
    /\ UNCHANGED <<connVars, nread, outbox, stream_, hostVars, device>>

\* Mutant: a test for the handler's own stream, inverted.
ClearStreamInverted(s) ==
    /\ hpc[s] = "clear"
    /\ stream_' = IF stream_ = s THEN s ELSE NULL
    /\ scm' = NULL
    /\ Goto(s, "returned")
    /\ UNCHANGED <<connVars, nread, outbox, hostVars, device>>

\* Whatever stream is registered is cleared; then the handler returns and
\* its StreamChannelReaderWriter is destroyed.
ClearStream(s) ==
    /\ hpc[s] = "clear"
    /\ stream_' = NULL
    /\ scm' = NULL
    /\ Goto(s, "returned")
    /\ UNCHANGED <<connVars, nread, outbox, hostVars, device>>

Handler(s) ==
    \/ SetStreamLock(s) \/ SetStream(s)
    \/ ReadRequest(s) \/ ReadEnd(s)
    \/ WriteArbitration(s) \/ SendPacketOut(s)
    \/ ClearStreamLock(s) \/ ClearStream(s)

-----------------------------------------------------------------------------
(* Hostpath::handlePacketFromDevice, in the loop of hostPathUDPServer.      *)

\* Mutant: the datagram is peeked at and not consumed.
ReceiveFromPeek ==
    /\ upc = "recv"
    /\ sock # <<>>
    /\ IF Head(sock).len <= HeaderSize
       THEN sock' = Tail(sock) /\ UNCHANGED <<upc, pkt>>
       ELSE upc' = "lock" /\ pkt' = Head(sock) /\ UNCHANGED sock
    /\ UNCHANGED <<connVars, outbox, handlerVars, lockVars, arrived, device>>

\* Mutant: a datagram of a bare header is punted.
ReceiveFromOffByOne ==
    /\ upc = "recv"
    /\ sock # <<>>
    /\ sock' = Tail(sock)
    /\ IF Head(sock).len < HeaderSize
       THEN UNCHANGED <<upc, pkt>>
       ELSE upc' = "lock" /\ pkt' = Head(sock)
    /\ UNCHANGED <<connVars, outbox, handlerVars, lockVars, arrived, device>>

\* receive_from: empty and header-only datagrams are dropped.
ReceiveFrom ==
    /\ upc = "recv"
    /\ sock # <<>>
    /\ sock' = Tail(sock)
    /\ IF Head(sock).len <= HeaderSize
       THEN UNCHANGED <<upc, pkt>>
       ELSE upc' = "lock" /\ pkt' = Head(sock)
    /\ UNCHANGED <<connVars, outbox, handlerVars, lockVars, arrived, device>>

\* receive_from throws on an error of the socket: nothing in the thread catches
\* it, and the process ends.
ReceiveFromThrows ==
    /\ upc = "recv"
    /\ crashed' = TRUE
    /\ UNCHANGED chanVars

SendPktInLock ==
    /\ upc = "lock"
    /\ scm = NULL
    /\ scm' = HostPath
    /\ upc' = "check"
    /\ UNCHANGED <<connVars, outbox, handlerVars, stream_, sock, arrived, pkt, device>>

\* Mutant: the early exit for a missing stream keeps scm.
SendPktInCheckKeepsLock ==
    /\ upc = "check"
    /\ upc' = IF stream_ = NULL THEN "recv" ELSE "write"
    /\ UNCHANGED <<connVars, outbox, handlerVars, lockVars, sock, arrived, pkt, device>>

\* if (stream_): with no stream the packet is dropped.
SendPktInCheck ==
    /\ upc = "check"
    /\ IF stream_ = NULL
       THEN scm' = NULL /\ upc' = "recv"
       ELSE UNCHANGED scm /\ upc' = "write"
    /\ UNCHANGED <<connVars, outbox, handlerVars, stream_, sock, arrived, pkt, device>>

\* stream_->Write, scm held throughout.
SendPktInWrite ==
    /\ upc = "write"
    /\ Write(stream_, PacketIn(pkt))
    /\ scm' = NULL
    /\ upc' = "recv"
    /\ UNCHANGED <<connVars, handlerVars, stream_, sock, arrived, pkt, device>>

HostPathThread == ReceiveFrom \/ SendPktInLock \/ SendPktInCheck \/ SendPktInWrite

-----------------------------------------------------------------------------
Controller(s) ==
    \/ Open(s) \/ WritesDone(s) \/ Cancel(s) \/ Receive(s)
    \/ \E r \in Requests : Send(s, r)

\* The bounded environment is exhausted and every thread is at rest.
Finished ==
    /\ \A s \in Streams : hpc[s] = "returned" /\ conn[s] \in {"done", "cancelled"}
    /\ Len(arrived) = MaxPunts /\ sock = <<>> /\ upc = "recv"
    /\ UNCHANGED chanVars

\* The steps of a process that goes on.
Steps ==
    \/ \E s \in Streams : Controller(s) \/ Handler(s)
    \/ \E len \in Lengths, port \in Ports : Punt(len, port)
    \/ HostPathThread
    \/ Finished

Running(step) == ~crashed /\ step /\ UNCHANGED crashed

\* The steps with which it ends, and what happens after it.
Ends == ~crashed /\ ((\E s \in Streams : PacketOutEnds(s)) \/ ReceiveFromThrows)
Ended == crashed /\ UNCHANGED vars

Next == Running(Steps) \/ Ends \/ Ended

Spec == Init /\ [][Next]_vars

(* Every thread of the agent keeps running, and a controller keeps reading  *)
(* the responses it is sent; nobody need open, send, close or punt.         *)
Fairness ==
    /\ \A s \in Streams : /\ WF_vars(Running(Handler(s)) \/ (~crashed /\ PacketOutEnds(s)))
                          /\ WF_vars(Running(Receive(s)))
    /\ WF_vars(Running(HostPathThread))

FairSpec == Spec /\ Fairness

-----------------------------------------------------------------------------
(* Properties.                                                             *)

\* The types of the channel, for TypeOK.
ChanTypeOK ==
    /\ conn \in [Streams -> {"none", "open", "done", "cancelled"}]
    /\ sent \in [Streams -> Seq(Requests)]
    /\ nread \in [Streams -> Nat]
    /\ outbox \in [Streams -> Seq(Responses)]
    /\ taken \in [Streams -> Nat]
    /\ hpc \in [Streams -> HandlerPCs]
    /\ scm \in Streams \cup {HostPath, NULL}
    /\ stream_ \in Streams \cup {NULL}
    /\ sock \in Seq(Datagrams)
    /\ arrived \in Seq(Datagrams) /\ Len(arrived) <= MaxPunts
    /\ upc \in {"recv", "lock", "check", "write"}
    /\ pkt \in Datagrams \cup {NULL}
    /\ device \in Seq([from : Streams, hdr : Header, size : 0..MaxDatagram])
    /\ \A s \in Streams : nread[s] <= Len(sent[s]) /\ taken[s] <= Len(outbox[s])
    /\ \A s \in Streams : hpc[s] = "packetOut" => nread[s] > 0
    /\ upc # "recv" => pkt \in Datagrams /\ pkt.len > HeaderSize

\* Type correctness, with the facts about indices that keep every access of
\* the handlers defined: a handler serves a request it has read, and the
\* hostpath thread punts a datagram that is longer than its header; what is
\* injected has a header and the length of a datagram.
TypeOK == ChanTypeOK /\ crashed \in BOOLEAN

\* scm has one owner, and exactly the threads inside set_stream, clear_stream
\* or send_pkt_in own it.
LockInv ==
    /\ \A s \in Streams : hpc[s] \in {"set", "clear"} <=> scm = s
    /\ upc \in {"check", "write"} <=> scm = HostPath

\* stream_ never dangles: StreamChannel clears it before it returns, so while
\* it is set the handler whose stack frame owns that stream is still there.
NoDanglingStream ==
    stream_ # NULL => hpc[stream_] \in Registered

\* From the null check of send_pkt_in to the end of its Write the stream
\* exists: no handler can clear the pointer or return in between.
WriteToLiveStream ==
    upc = "write" => stream_ # NULL /\ hpc[stream_] \in Registered

PacketsIn(s) == {i \in 1..Len(outbox[s]) : outbox[s][i].type = "packet"}

\* Whatever handlers come and go, a datagram that arrives reaches at most one
\* controller stream, once, and each stream sees punts in the order they came.
PuntsOnceInOrder ==
    /\ \A s \in Streams : \A i, j \in PacketsIn(s) :
          i < j => outbox[s][i].id < outbox[s][j].id
    /\ \A s, t \in Streams : s # t =>
          \A i \in PacketsIn(s), j \in PacketsIn(t) : outbox[s][i].id # outbox[t][j].id

\* The requests of stream s that its handler has finished with, by position.
Served(s) ==
    1..(IF hpc[s] \in {"write", "packetOut"} THEN nread[s] - 1 ELSE nread[s])
WellFormed(r) == r.type = "packet" /\ r.len > CpuHeaderSize /\ r.zeroed
GoodServed(s) == {i \in Served(s) : WellFormed(sent[s][i])}
Injected(s) == {k \in 1..Len(device) : device[k].from = s}

\* The data of r and a device header have a length of 16 bits.
Fits(r) == HeaderSize + (r.len - CpuHeaderSize) \in Uint16

\* p is what packet-out r has to look like in the device: the bytes of the port
\* are those of its cpu header, the length is the one that the format of
\* DeviceHPPacket asks for, and all of the data is there if its length fits.
Carries(p, r) ==
    /\ <<p.hdr[7], p.hdr[8]>> = r.port
    /\ LET hdr == HeaderParse(p.hdr) IN
       hdr.dir = PacketDirTransmit /\ hdr.total = p.size /\ hdr.sandbox = 0
    /\ Fits(r) => p.size - HeaderSize = r.len - CpuHeaderSize

\* f leads from each well-formed packet-out that the handler of s has served to
\* its packet in the device, in order and onto all packets of the stream.
Forwards(f, s) ==
    /\ \A i \in GoodServed(s) : Carries(device[f[i]], sent[s][i])
    /\ \A i, j \in GoodServed(s) : i < j => f[i] < f[j]
    /\ \A k \in Injected(s) : \E i \in GoodServed(s) : f[i] = k

\* The device is sent exactly the well-formed packet-outs that the handler of
\* each stream has served, once each, in the order the controller sent them,
\* with the bytes of their port and all the data that 16 bits can count;
\* malformed ones and other requests leave no trace.
PacketOutFaithful ==
    \A s \in Streams : \E f \in [GoodServed(s) -> Injected(s)] : Forwards(f, s)

\* A packet-in tells the controller, which reads its cpu header in network
\* order, the port its datagram came from, and holds the data of that datagram
\* as far as the receive buffer goes.
PuntFaithful ==
    \A s \in Streams : \A i \in PacketsIn(s) :
        LET d == arrived[outbox[s][i].id] IN
        /\ Ntohs(outbox[s][i].port, 1) = d.port
        /\ outbox[s][i].len - CpuHeaderSize = RecvLen(d) - HeaderSize

ArbitrationsServed(s) == {i \in Served(s) : sent[s][i].type = "arbitration"}
ArbitrationsIn(s) == {i \in 1..Len(outbox[s]) : outbox[s][i].type = "arbitration"}

\* Every arbitration request a handler has served was answered once on its
\* own stream, registered or not, unless the call was cancelled.
ArbitrationAnswered ==
    \A s \in Streams : conn[s] # "cancelled" =>
        Cardinality(ArbitrationsIn(s)) = Cardinality(ArbitrationsServed(s))

\* Once its stream is half-closed or cancelled a handler returns, even when
\* the hostpath thread is blocked in a Write that holds scm, unless the process
\* ends first.
ClosedStreamReturns ==
    \A s \in Streams : conn[s] \in {"done", "cancelled"} ~> (hpc[s] = "returned" \/ crashed)

\* The hostpath thread of a process that goes on is done with its datagrams in
\* the end: no stream that is slow, unregistered or gone keeps it inside
\* send_pkt_in.
HostPathDrains ==
    (sock # <<>> \/ upc # "recv") ~> ((sock = <<>> /\ upc = "recv") \/ crashed)

\* Two threads never write the same stream at a time: scm, said to guard
\* access to the stream, keeps the reply to an arbitration apart from a punt.
SingleWriter ==
    upc = "write" => hpc[stream_] # "write"

\* While the one connected controller has a stream open and registered, the
\* agent has a handle to punt to: a handler that is closing clears its own.
OpenStreamHasHandle ==
    (\E s \in Streams : conn[s] = "open" /\ hpc[s] \in Registered) => stream_ # NULL

-----------------------------------------------------------------------------
(* The refinement of ControllerChannel.                                    *)

Life(s) == IF hpc[s] = "idle" THEN "new"
           ELSE IF hpc[s] = "returned" THEN "over" ELSE "live"

Channel == INSTANCE ControllerChannel WITH
    Replies <- {ArbitrationOK},
    Packets <- {PacketIn(d) : d \in Datagrams},
    life <- [s \in Streams |-> Life(s)],
    attached <- stream_,
    got <- outbox

\* The handlers and the hostpath thread, with their lock, implement the
\* promise of ControllerConnection: a packet-in is only ever written to the
\* stream that is registered at that moment, and that stream is live.
ImplementsChannel == Channel!Spec
=============================================================================
