------------------------- MODULE StreamChannelProofs -------------------------
(***************************************************************************)
(* Proofs about StreamChannel, for every set of streams, every set of      *)
(* requests and all bounds.                                                *)
(***************************************************************************)
EXTENDS StreamChannel, DeviceHPPacketProofs, FiniteSetTheorems

\* The sizes, as numbers.
LEMMA Sizes ==
    /\ HeaderSize = 8 /\ CpuHeaderSize = 12 /\ BufferSize = 2000
    /\ MaxDatagram = 65507 /\ MaxMessage = 4194304
BY DEF HeaderSize, CpuHeaderSize, BufferSize, MaxDatagram, MaxMessage

\* The data of a packet-out, in numbers.
LEMMA DataSize ==
    ASSUME NEW p, RequestOK(p), p.len > CpuHeaderSize
    PROVE  p.len \in Nat /\ p.len - CpuHeaderSize \in Nat
<1>1. p.len \in Nat
  <2>1. MaxMessage \in Nat BY Sizes
  <2>2. QED BY <2>1 DEF RequestOK
<1>2. QED BY <1>1, Sizes

\* The length of a request is a number.
LEMMA LenType ==
    ASSUME NEW p, RequestOK(p)
    PROVE  p.len \in Nat
<1>1. MaxMessage \in Nat BY Sizes
<1>2. QED BY <1>1 DEF RequestOK

\* Data longer than a cpu header, after eight zero bytes, is well formed.
LEMMA NotMalformed ==
    ASSUME NEW p, RequestOK(p), ~Malformed(p)
    PROVE  p.len > CpuHeaderSize /\ p.zeroed
<1>1. ~(p.len <= CpuHeaderSize) /\ p.zeroed BY Zenon DEF Malformed
<1>2. p.len \in Nat BY LenType
<1>3. p.len > CpuHeaderSize BY <1>1, <1>2, Sizes
<1>4. QED BY <1>1, <1>3

\* What createTransmit is given and returns: a length of 16 bits, also for data
\* that wraps it, and all of the data if it does not.
LEMMA InjectShape ==
    ASSUME NEW s \in Streams, NEW p, RequestOK(p), p.len > CpuHeaderSize
    PROVE  /\ Ntohs(p.port, 1) \in Uint16 /\ Inject(s, p).size \in Uint16
           /\ Inject(s, p).from = s
           /\ Inject(s, p).hdr = HeaderSerialize(Inject(s, p).size, 0, Ntohs(p.port, 1))
           /\ Fits(p) => Inject(s, p).size = HeaderSize + (p.len - CpuHeaderSize)
<1> DEFINE n == p.len - CpuHeaderSize
           port == Ntohs(p.port, 1)
           t == CreateTransmit(n, 0, port)
           total == (HeaderSize + (n % 65536)) % 65536
<1>1. n \in Nat BY DataSize
<1>2. port \in Uint16
  <2>1. p.port \in Byte \X Byte BY DEF RequestOK
  <2>2. QED BY <2>1, HtonsNtohs
<1>3. total \in Uint16
  <2>1. n % 65536 \in Nat BY <1>1
  <2> DEFINE k == HeaderSize + (n % 65536)
  <2>2. k \in Nat BY <2>1, Sizes
  <2> HIDE DEF k
  <2>3. k % 65536 \in Nat /\ k % 65536 < 65536 BY <2>2
  <2>4. QED BY <2>3 DEF k, Uint16
<1>4. Inject(s, p) = [from |-> s, hdr |-> t.hdr, size |-> t.size] BY Zenon DEF Inject
<1>5. t = [size |-> total, hdr |-> HeaderSerialize(total, 0, port)] BY TransmitShape
<1>6. Fits(p) => t.size = HeaderSize + n
  <2>1. SUFFICES ASSUME Fits(p) PROVE t.size = HeaderSize + n OBVIOUS
  <2>2. t = [size |-> HeaderSize + n, hdr |-> HeaderSerialize(HeaderSize + n, 0, port)]
    BY <1>1, <2>1, TransmitAll DEF Fits
  <2> HIDE DEF t
  <2>3. QED BY <2>2
<1> HIDE DEF t, total, port, n
<1>7. t.size = total /\ t.hdr = HeaderSerialize(total, 0, port) BY <1>5
<1>8. /\ Inject(s, p).from = s /\ Inject(s, p).size = total
      /\ Inject(s, p).hdr = HeaderSerialize(total, 0, port)
  BY <1>4, <1>7
<1>9. QED BY <1>2, <1>3, <1>6, <1>7, <1>8 DEF port, n

\* What the device is sent, in ChanTypeOK.
InjectedPackets == [from : Streams, hdr : Header, size : 0..MaxDatagram]

\* What is injected has a header and the length of a datagram.
LEMMA InjectType ==
    ASSUME NEW s \in Streams, NEW p, RequestOK(p), p.len > CpuHeaderSize,
           Inject(s, p).size <= MaxDatagram
    PROVE  Inject(s, p) \in InjectedPackets
<1> DEFINE e == Inject(s, p)
<1>1. e.size \in Uint16 /\ Ntohs(p.port, 1) \in Uint16 /\ 0 \in Uint16
  BY InjectShape DEF Uint16
<1>2. e.hdr \in Header BY <1>1, InjectShape, HeaderType
<1>3. e.size \in 0..MaxDatagram
  <2>1. e.size \in Nat BY <1>1 DEF Uint16
  <2>2. e.size <= MaxDatagram OBVIOUS
  <2>3. MaxDatagram \in Nat BY DEF MaxDatagram
  <2>4. PICK k : k = e.size OBVIOUS
  <2>5. k \in Nat /\ k <= MaxDatagram BY <2>1, <2>2, <2>4
  <2>6. k \in 0..MaxDatagram BY <2>3, <2>5
  <2>7. QED BY <2>4, <2>6
<1>4. e = [from |-> e.from, hdr |-> e.hdr, size |-> e.size] BY Zenon DEF Inject
<1>5. e.from \in Streams BY InjectShape
<1> HIDE DEF e
<1>6. e \in InjectedPackets BY <1>2, <1>3, <1>4, <1>5 DEF InjectedPackets
<1>7. QED BY <1>6 DEF e

\* The length of a datagram that the device may send.
LEMMA LengthType == \A len \in Lengths : len \in Nat /\ len <= MaxDatagram
<1>1. MaxDatagram \in Nat BY DEF MaxDatagram
<1>2. TAKE len \in Lengths
<1>3. len \in 0..MaxDatagram BY LengthsAssumption
<1>4. QED BY <1>1, <1>3

\* What receive_from returns fits the receive buffer.
LEMMA RecvLenType ==
    ASSUME NEW d, d.len \in Nat, d.len > HeaderSize
    PROVE  RecvLen(d) - HeaderSize \in Nat /\ HeaderSize + (RecvLen(d) - HeaderSize) \in Uint16
<1>1. RecvLen(d) \in Nat /\ RecvLen(d) > 8 /\ RecvLen(d) <= 2000
  BY Sizes DEF RecvLen
<1>2. QED BY <1>1, Sizes DEF Uint16

USE NullAssumption, RequestsAssumption, LengthsAssumption, BoundsAssumption

\* A datagram becomes a well-typed response.
LEMMA PacketInType == \A d \in Datagrams : PacketIn(d) \in Responses
BY DEF Responses

\* A Write to a stream of the agent keeps the outboxes typed and only ever
\* appends, so what the controller has taken stays behind what was written.
LEMMA WriteType ==
    ASSUME ChanTypeOK, NEW s, NEW m \in Responses, Write(s, m)
    PROVE  /\ outbox' \in [Streams -> Seq(Responses)]
           /\ \A t \in Streams : taken[t] <= Len(outbox'[t])
<1>1. CASE UNCHANGED outbox
  BY <1>1 DEF ChanTypeOK
<1>2. CASE outbox' = [outbox EXCEPT ![s] = Append(@, m)]
  <2>1. CASE s \in Streams
    <3>1. /\ Append(outbox[s], m) \in Seq(Responses)
          /\ Len(Append(outbox[s], m)) = Len(outbox[s]) + 1
      BY <2>1, AppendProperties DEF ChanTypeOK
    <3>2. taken[s] \in Nat /\ Len(outbox[s]) \in Nat /\ taken[s] <= Len(outbox[s])
      BY <2>1, LenProperties DEF ChanTypeOK
    <3>3. outbox' \in [Streams -> Seq(Responses)]
      BY <1>2, <3>1 DEF ChanTypeOK
    <3>4. ASSUME NEW t \in Streams PROVE taken[t] <= Len(outbox'[t])
      <4>1. CASE t = s
        <5>1. outbox'[t] = Append(outbox[s], m) BY <1>2, <2>1, <4>1 DEF ChanTypeOK
        <5>2. QED BY <3>1, <3>2, <4>1, <5>1
      <4>2. CASE t # s
        <5>1. outbox'[t] = outbox[t] BY <1>2, <4>2 DEF ChanTypeOK
        <5>2. QED BY <5>1 DEF ChanTypeOK
      <4>3. QED BY <4>1, <4>2
    <3>5. QED BY <3>3, <3>4
  <2>2. CASE s \notin Streams BY <1>2, <2>2 DEF ChanTypeOK
  <2>3. QED BY <2>1, <2>2
<1>3. QED BY <1>1, <1>2 DEF Write

\* When the process ends, the channel is left as it was.
LEMMA StepShape == [Next]_vars => [Steps]_chanVars
BY DEF Next, Running, Ends, Ended, PacketOutEnds, ReceiveFromThrows, vars

\* ChanTypeOK is preserved by every step of a process that goes on.
LEMMA TypeStep == ChanTypeOK /\ [Steps]_chanVars => ChanTypeOK'
<1> SUFFICES ASSUME ChanTypeOK, [Steps]_chanVars PROVE ChanTypeOK'
  OBVIOUS
<1> USE DEF HandlerPCs, connVars, handlerVars, lockVars, hostVars, Goto
<1>1. ASSUME NEW s \in Streams, Open(s) PROVE ChanTypeOK'
  BY <1>1 DEF ChanTypeOK, Open
<1>2. ASSUME NEW s \in Streams, NEW r \in Requests, Send(s, r) PROVE ChanTypeOK'
  <2>1. /\ Append(sent[s], r) \in Seq(Requests)
        /\ Len(Append(sent[s], r)) = Len(sent[s]) + 1
    BY AppendProperties DEF ChanTypeOK
  <2>2. nread[s] \in Nat /\ Len(sent[s]) \in Nat /\ nread[s] <= Len(sent[s])
    BY LenProperties DEF ChanTypeOK
  <2>3. sent' \in [Streams -> Seq(Requests)]
    BY <1>2, <2>1 DEF ChanTypeOK, Send
  <2>4. ASSUME NEW t \in Streams PROVE nread[t] <= Len(sent'[t])
    <3>1. CASE t = s
      <4>1. sent'[t] = Append(sent[s], r) BY <1>2, <3>1 DEF ChanTypeOK, Send
      <4>2. QED BY <2>1, <2>2, <3>1, <4>1
    <3>2. CASE t # s
      <4>1. sent'[t] = sent[t] BY <1>2, <3>2 DEF ChanTypeOK, Send
      <4>2. QED BY <4>1 DEF ChanTypeOK
    <3>3. QED BY <3>1, <3>2
  <2>5. QED BY <1>2, <2>3, <2>4 DEF ChanTypeOK, Send
<1>3. ASSUME NEW s \in Streams, WritesDone(s) PROVE ChanTypeOK'
  BY <1>3 DEF ChanTypeOK, WritesDone
<1>4. ASSUME NEW s \in Streams, Cancel(s) PROVE ChanTypeOK'
  BY <1>4 DEF ChanTypeOK, Cancel
<1>5. ASSUME NEW s \in Streams, Receive(s) PROVE ChanTypeOK'
  <2>1. Len(outbox[s]) \in Nat /\ taken[s] \in Nat
    BY LenProperties DEF ChanTypeOK
  <2>2. taken' = [taken EXCEPT ![s] = taken[s] + 1] /\ taken[s] < Len(outbox[s])
    BY <1>5 DEF Receive
  <2>3. taken' \in [Streams -> Nat]
    <3>1. taken \in [Streams -> Nat] BY DEF ChanTypeOK
    <3>2. QED BY <2>1, <2>2, <3>1
  <2>4. ASSUME NEW t \in Streams PROVE taken'[t] <= Len(outbox[t])
    <3>1. CASE t = s BY <2>1, <2>2, <3>1 DEF ChanTypeOK
    <3>2. CASE t # s BY <2>2, <3>2 DEF ChanTypeOK
    <3>3. QED BY <3>1, <3>2
  <2>5. QED BY <1>5, <2>3, <2>4 DEF ChanTypeOK, Receive
<1>6. ASSUME NEW len \in Lengths, NEW port \in Ports, Punt(len, port) PROVE ChanTypeOK'
  <2> DEFINE d == [id |-> Len(arrived) + 1, len |-> len, port |-> port]
  <2>1. arrived \in Seq(Datagrams) /\ sock \in Seq(Datagrams) /\ Len(arrived) \in Nat
    BY LenProperties DEF ChanTypeOK
  <2>2. d \in Datagrams
    <3>1. Len(arrived) + 1 \in 1..MaxPunts BY <1>6, <2>1 DEF Punt
    <3>2. QED BY <3>1 DEF Datagrams
  <2>3. /\ Append(arrived, d) \in Seq(Datagrams) /\ Append(sock, d) \in Seq(Datagrams)
        /\ Len(Append(arrived, d)) = Len(arrived) + 1
    BY <2>1, <2>2, AppendProperties
  <2>4. arrived' \in Seq(Datagrams) /\ Len(arrived') <= MaxPunts /\ sock' \in Seq(Datagrams)
    <3>1. arrived' = Append(arrived, d) /\ sock' \in {sock, Append(sock, d)}
      BY <1>6, Zenon DEF Punt
    <3>2. Len(arrived) + 1 <= MaxPunts
      BY <1>6, <2>1 DEF Punt
    <3>3. QED BY <2>1, <2>3, <3>1, <3>2
  <2>5. QED BY <1>6, <2>4 DEF ChanTypeOK, Punt
<1>7. ASSUME NEW s \in Streams, SetStreamLock(s) PROVE ChanTypeOK'
  BY <1>7 DEF ChanTypeOK, SetStreamLock
<1>8. ASSUME NEW s \in Streams, SetStream(s) PROVE ChanTypeOK'
  BY <1>8 DEF ChanTypeOK, SetStream
<1>9. ASSUME NEW s \in Streams, ReadRequest(s) PROVE ChanTypeOK'
  <2>1. sent[s][nread[s] + 1] \in Requests
    BY <1>9 DEF ChanTypeOK, ReadRequest
  <2>2. sent[s][nread[s] + 1].type \in RequestTypes
    BY <2>1 DEF RequestOK
  <2>3. Case[sent[s][nread[s] + 1].type] \in HandlerPCs
    BY <2>2 DEF Case, RequestTypes
  <2>4. Len(sent[s]) \in Nat
    BY LenProperties DEF ChanTypeOK
  <2>5. /\ nread' \in [Streams -> Nat]
        /\ \A t \in Streams : nread'[t] <= Len(sent[t])
        /\ nread'[s] > 0 /\ \A t \in Streams \ {s} : nread'[t] = nread[t]
    <3>1. nread' = [nread EXCEPT ![s] = nread[s] + 1] /\ nread[s] < Len(sent[s])
      BY <1>9 DEF ReadRequest
    <3>2. nread \in [Streams -> Nat] /\ \A t \in Streams : nread[t] <= Len(sent[t])
      BY DEF ChanTypeOK
    <3>3. nread[s] + 1 <= Len(sent[s])
      BY <2>4, <3>1, <3>2
    <3>4. QED BY <3>1, <3>2, <3>3
  <2>6. /\ hpc' \in [Streams -> HandlerPCs]
        /\ \A t \in Streams \ {s} : hpc'[t] = hpc[t]
    BY <1>9, <2>3 DEF ChanTypeOK, ReadRequest
  <2>7. QED BY <1>9, <2>5, <2>6 DEF ChanTypeOK, ReadRequest
<1>10. ASSUME NEW s \in Streams, ReadEnd(s) PROVE ChanTypeOK'
  BY <1>10 DEF ChanTypeOK, ReadEnd
<1>11. ASSUME NEW s \in Streams, WriteArbitration(s) PROVE ChanTypeOK'
  <2>1. ArbitrationOK \in Responses BY DEF Responses
  <2>2. QED BY <1>11, <2>1, WriteType DEF ChanTypeOK, WriteArbitration
<1>12. ASSUME NEW s \in Streams, SendPacketOut(s) PROVE ChanTypeOK'
  <2>0. PICK p : p = PacketOut(s) OBVIOUS
  <2>1. p \in Requests
    BY <1>12, <2>0 DEF ChanTypeOK, SendPacketOut, PacketOut
  <2>2. RequestOK(p) BY <2>1
  <2>3. device' \in Seq(InjectedPackets)
    <3>0. device \in Seq(InjectedPackets) BY DEF ChanTypeOK, InjectedPackets
    <3>1. CASE Malformed(p)
      <4>1. device' = device BY <1>12, <2>0, <3>1 DEF SendPacketOut
      <4>2. QED BY <3>0, <4>1
    <3>2. CASE ~Malformed(p)
      <4>1. p.len > CpuHeaderSize BY <2>2, <3>2, NotMalformed
      <4>2. Inject(s, p).size <= MaxDatagram /\ device' = Append(device, Inject(s, p))
        BY <1>12, <2>0, <3>2 DEF SendPacketOut
      <4>3. Inject(s, p) \in InjectedPackets BY <2>2, <4>1, <4>2, InjectType
      <4>4. QED BY <3>0, <4>2, <4>3, AppendProperties
    <3>3. QED BY <3>1, <3>2
  <2>4. QED BY <1>12, <2>3 DEF ChanTypeOK, SendPacketOut, InjectedPackets
<1>13. ASSUME NEW s \in Streams, ClearStreamLock(s) PROVE ChanTypeOK'
  BY <1>13 DEF ChanTypeOK, ClearStreamLock
<1>14. ASSUME NEW s \in Streams, ClearStream(s) PROVE ChanTypeOK'
  BY <1>14 DEF ChanTypeOK, ClearStream
<1>15. CASE ReceiveFrom
  <2>1. Head(sock) \in Datagrams /\ sock' \in Seq(Datagrams)
    BY <1>15, HeadTailProperties DEF ChanTypeOK, ReceiveFrom
  <2>2. Head(sock).len \in Nat
    <3>1. Head(sock).len \in Lengths BY <2>1 DEF Datagrams
    <3>2. QED BY <3>1, LengthType
  <2>3. CASE Head(sock).len <= HeaderSize
    BY <1>15, <2>1, <2>3 DEF ChanTypeOK, ReceiveFrom
  <2>4. CASE Head(sock).len > HeaderSize
    <3>1. upc' = "lock" /\ pkt' = Head(sock)
      BY <1>15, <2>2, <2>4 DEF ReceiveFrom, HeaderSize
    <3>2. QED BY <1>15, <2>1, <2>4, <3>1 DEF ChanTypeOK, ReceiveFrom
  <2>5. QED BY <2>2, <2>3, <2>4 DEF HeaderSize
<1>16. CASE SendPktInLock
  BY <1>16 DEF ChanTypeOK, SendPktInLock
<1>17. CASE SendPktInCheck
  BY <1>17 DEF ChanTypeOK, SendPktInCheck
<1>18. CASE SendPktInWrite
  <2>1. PacketIn(pkt) \in Responses
    BY <1>18, PacketInType DEF ChanTypeOK, SendPktInWrite
  <2>2. QED BY <1>18, <2>1, WriteType DEF ChanTypeOK, SendPktInWrite
<1>19. CASE Finished \/ UNCHANGED chanVars
  BY <1>19 DEF ChanTypeOK, Finished, chanVars
<1>20. QED
  BY <1>1, <1>2, <1>3, <1>4, <1>5, <1>6, <1>7, <1>8, <1>9, <1>10, <1>11, <1>12,
     <1>13, <1>14, <1>15, <1>16, <1>17, <1>18, <1>19
  DEF Steps, Controller, Handler, HostPathThread

\* Every behaviour of the handlers, the hostpath thread and their environment
\* is well typed: in particular no handler serves a request it has not read.
THEOREM TypeCorrect == Spec => []TypeOK
<1>1. Init => TypeOK
  <2>1. Init => ChanTypeOK BY DEF Init, ChanTypeOK, HandlerPCs
  <2>2. Init => crashed \in BOOLEAN BY DEF Init
  <2>3. QED BY <2>1, <2>2 DEF TypeOK
<1>2. TypeOK /\ [Next]_vars => TypeOK'
  <2>1. SUFFICES ASSUME TypeOK, [Next]_vars PROVE TypeOK' OBVIOUS
  <2>2. ChanTypeOK' BY <2>1, StepShape, TypeStep DEF TypeOK
  <2>3. crashed' \in BOOLEAN
    BY <2>1 DEF TypeOK, Next, Running, Ends, Ended, PacketOutEnds, ReceiveFromThrows, vars
  <2>4. QED BY <2>2, <2>3 DEF TypeOK
<1>3. QED BY <1>1, <1>2, PTL DEF Spec

-----------------------------------------------------------------------------
(* The stream pointer.  NoDanglingStream and WriteToLiveStream are not      *)
(* inductive: that a handler cannot clear the pointer between the null      *)
(* check and the end of the Write rests on who owns scm.                    *)

\* gRPC has started the handler of exactly the RPCs that were opened.
Started == \A s \in Streams : conn[s] = "none" <=> hpc[s] = "idle"

IInv == ChanTypeOK /\ Started /\ LockInv /\ NoDanglingStream /\ WriteToLiveStream

\* The inductive step for the stream pointer: one case per action.
LEMMA PointerStep ==
    IInv /\ [Steps]_chanVars => Started' /\ LockInv' /\ NoDanglingStream' /\ WriteToLiveStream'
<1> DEFINE Pointer == Started /\ LockInv /\ NoDanglingStream /\ WriteToLiveStream
<1> SUFFICES ASSUME IInv, [Steps]_chanVars PROVE Pointer'
  OBVIOUS
<1>0. /\ ChanTypeOK /\ Started /\ LockInv /\ NoDanglingStream /\ WriteToLiveStream
      /\ conn \in [Streams -> {"none", "open", "done", "cancelled"}]
      /\ hpc \in [Streams -> HandlerPCs]
      /\ stream_ \in Streams \cup {NULL}
  BY DEF IInv, ChanTypeOK
<1> USE <1>0 DEF Started, LockInv, NoDanglingStream, WriteToLiveStream, Registered,
            HandlerPCs, connVars, handlerVars, lockVars, hostVars, Goto
<1>1. ASSUME NEW s \in Streams, Open(s) PROVE Pointer'
  BY <1>1 DEF Open
<1>2. ASSUME NEW s \in Streams, NEW r \in Requests, Send(s, r) PROVE Pointer'
  BY <1>2 DEF Send
<1>3. ASSUME NEW s \in Streams, WritesDone(s) PROVE Pointer'
  BY <1>3 DEF WritesDone
<1>4. ASSUME NEW s \in Streams, Cancel(s) PROVE Pointer'
  BY <1>4 DEF Cancel
<1>5. ASSUME NEW s \in Streams, Receive(s) PROVE Pointer'
  BY <1>5 DEF Receive
<1>6. ASSUME NEW len \in Lengths, NEW port \in Ports, Punt(len, port) PROVE Pointer'
  BY <1>6 DEF Punt
<1>7. ASSUME NEW s \in Streams, SetStreamLock(s) PROVE Pointer'
  BY <1>7 DEF SetStreamLock
<1>8. ASSUME NEW s \in Streams, SetStream(s) PROVE Pointer'
  BY <1>8 DEF SetStream
<1>9. ASSUME NEW s \in Streams, ReadRequest(s) PROVE Pointer'
  <2>1. sent[s][nread[s] + 1] \in Requests
    BY <1>9 DEF ChanTypeOK, ReadRequest
  <2>2. sent[s][nread[s] + 1].type \in RequestTypes
    BY <2>1 DEF RequestOK
  <2>3. Case[sent[s][nread[s] + 1].type] \in {"write", "packetOut", "read"}
    BY <2>2 DEF Case, RequestTypes
  <2>4. QED BY <1>9, <2>3 DEF ReadRequest
<1>10. ASSUME NEW s \in Streams, ReadEnd(s) PROVE Pointer'
  BY <1>10 DEF ReadEnd
<1>11. ASSUME NEW s \in Streams, WriteArbitration(s) PROVE Pointer'
  BY <1>11 DEF WriteArbitration
<1>12. ASSUME NEW s \in Streams, SendPacketOut(s) PROVE Pointer'
  BY <1>12 DEF SendPacketOut
<1>13. ASSUME NEW s \in Streams, ClearStreamLock(s) PROVE Pointer'
  BY <1>13 DEF ClearStreamLock
<1>14. ASSUME NEW s \in Streams, ClearStream(s) PROVE Pointer'
  BY <1>14 DEF ClearStream
<1>15. CASE ReceiveFrom
  BY <1>15 DEF ReceiveFrom
<1>16. CASE SendPktInLock
  BY <1>16 DEF SendPktInLock
<1>17. CASE SendPktInCheck
  BY <1>17 DEF SendPktInCheck
<1>18. CASE SendPktInWrite
  BY <1>18 DEF SendPktInWrite
<1>19. CASE Finished \/ UNCHANGED chanVars
  BY <1>19 DEF Finished, chanVars
<1>20. QED
  BY <1>1, <1>2, <1>3, <1>4, <1>5, <1>6, <1>7, <1>8, <1>9, <1>10, <1>11, <1>12, <1>13, <1>14, <1>15, <1>16, <1>17, <1>18, <1>19
  DEF Steps, Controller, Handler, HostPathThread

\* IInv holds of every behaviour.
LEMMA PointerInvariant == Spec => []IInv
<1>1. Init => IInv
  BY DEF Init, IInv, ChanTypeOK, HandlerPCs, Started, LockInv, NoDanglingStream, WriteToLiveStream
<1>2. IInv /\ [Steps]_chanVars => IInv'
  BY TypeStep, PointerStep DEF IInv
<1>3. QED BY <1>1, <1>2, StepShape, PTL DEF Spec

\* Exactly the threads inside set_stream, clear_stream or send_pkt_in own scm, so
\* no two of them are inside at a time.
THEOREM LockOwned == Spec => []LockInv
<1>1. IInv => LockInv BY DEF IInv
<1>2. QED BY <1>1, PointerInvariant, PTL

\* While stream_ is set, the handler whose stack frame owns that stream has not
\* returned, for every number of streams.
THEOREM PointerSafe == Spec => []NoDanglingStream
<1>1. IInv => NoDanglingStream BY DEF IInv
<1>2. QED BY <1>1, PointerInvariant, PTL

\* send_pkt_in writes to a stream that exists until its Write is over: the
\* pointer it checked is neither cleared nor left behind before that.
THEOREM WriterSafe == Spec => []WriteToLiveStream
<1>1. IInv => WriteToLiveStream BY DEF IInv
<1>2. QED BY <1>1, PointerInvariant, PTL

-----------------------------------------------------------------------------
(* Punts.  What a packet-in says of its datagram is settled when the        *)
(* datagram is taken from the socket: the invariant follows datagrams from  *)
(* the device through the socket and the hostpath thread to the streams.    *)

\* d is a datagram that the device has sent.
Sent(d) == d.id \in 1..Len(arrived) /\ arrived[d.id] = d

\* m is a packet-in made from such a datagram.
Genuine(m) == \E d \in Datagrams : Sent(d) /\ d.len > HeaderSize /\ m = PacketIn(d)

SockInv == \A i \in 1..Len(sock) : Sent(sock[i])
PktInv == upc # "recv" => Sent(pkt)
OutboxInv == \A s \in Streams : \A i \in PacketsIn(s) : Genuine(outbox[s][i])
PuntInv == SockInv /\ PktInv /\ OutboxInv

\* What the device has sent stays sent.
LEMMA SentStays ==
    ASSUME ChanTypeOK, NEW d, Sent(d),
           UNCHANGED arrived \/ \E e : arrived' = Append(arrived, e)
    PROVE  Sent(d)'
<1>1. arrived \in Seq(Datagrams) BY DEF ChanTypeOK
<1>2. CASE UNCHANGED arrived BY <1>2 DEF Sent
<1>3. ASSUME NEW e, arrived' = Append(arrived, e) PROVE Sent(d)'
  <2>1. Len(arrived') = Len(arrived) + 1 /\ Len(arrived) \in Nat
    BY <1>1, <1>3
  <2>2. \A k \in 1..Len(arrived) : arrived'[k] = arrived[k]
    BY <1>1, <1>3
  <2>3. QED BY <2>1, <2>2 DEF Sent
<1>4. QED BY <1>2, <1>3

\* A packet-in has the port of its datagram, and its data up to the size of
\* the receive buffer.
LEMMA PacketInData ==
    ASSUME NEW d \in Datagrams, d.len > HeaderSize
    PROVE  /\ PacketIn(d).type = "packet" /\ PacketIn(d).id = d.id
           /\ Ntohs(PacketIn(d).port, 1) = d.port
           /\ PacketIn(d).len - CpuHeaderSize = RecvLen(d) - HeaderSize
<1>1. d.len \in Lengths /\ d.port \in Ports BY DEF Datagrams
<1>2. d.len \in Nat /\ d.port \in Uint16 BY <1>1, LengthType
<1>3. HeaderParse(DeviceHeader(d)).port = d.port
  <2>1. DeviceHeader(d)[7] = High(d.port) /\ DeviceHeader(d)[8] = Low(d.port)
    BY DEF DeviceHeader
  <2>2. Ntohs(DeviceHeader(d), 7) = d.port
    BY <1>2, <2>1, Halves DEF Ntohs
  <2>3. QED BY <2>2 DEF HeaderParse
<1>4. RecvLen(d) - HeaderSize \in Nat /\ HeaderSize + (RecvLen(d) - HeaderSize) \in Uint16
  BY <1>2, RecvLenType
<1>5. CreateReceive(RecvLen(d) - HeaderSize) = RecvLen(d) - HeaderSize
  BY <1>4, ReceiveAll
<1>6. PacketIn(d).len = CpuHeaderSize + (RecvLen(d) - HeaderSize)
  BY <1>5 DEF PacketIn
<1>7. PacketIn(d).len - CpuHeaderSize = RecvLen(d) - HeaderSize
  BY <1>4, <1>6 DEF CpuHeaderSize
<1>8. PacketIn(d).port = Htons(d.port) BY <1>3 DEF PacketIn
<1>9. Ntohs(PacketIn(d).port, 1) = d.port BY <1>2, <1>8, NtohsHtons
<1>10. QED BY <1>7, <1>9 DEF PacketIn

\* A Write adds no packet-in to a stream but the one it writes.
LEMMA WriteGenuine ==
    ASSUME ChanTypeOK, OutboxInv, NEW s, NEW m \in Responses, Write(s, m),
           m.type = "packet" => Genuine(m), UNCHANGED arrived
    PROVE  OutboxInv'
<1>1. \A e : Genuine(e) => Genuine(e)'
  BY SentStays DEF Genuine
<1>2. SUFFICES ASSUME NEW t \in Streams, NEW i \in PacketsIn(t)'
               PROVE  Genuine(outbox[t][i])'
  BY DEF OutboxInv
<1>3. outbox[t] \in Seq(Responses) /\ Len(outbox[t]) \in Nat
  BY DEF ChanTypeOK
<1>4. CASE outbox'[t] = outbox[t]
  <2>1. i \in PacketsIn(t) BY <1>4 DEF PacketsIn
  <2>2. QED BY <1>1, <1>4, <2>1 DEF OutboxInv
<1>5. CASE outbox'[t] = Append(outbox[t], m)
  <2>1. i \in 1..(Len(outbox[t]) + 1) /\ outbox'[t][i].type = "packet"
    BY <1>3, <1>5 DEF PacketsIn
  <2>2. CASE i = Len(outbox[t]) + 1
    <3>1. outbox'[t][i] = m BY <1>3, <1>5, <2>2
    <3>2. QED BY <1>1, <2>1, <3>1
  <2>3. CASE i \in 1..Len(outbox[t])
    <3>1. outbox'[t][i] = outbox[t][i] BY <1>3, <1>5, <2>3
    <3>2. i \in PacketsIn(t) BY <2>1, <2>3, <3>1 DEF PacketsIn
    <3>3. QED BY <1>1, <3>1, <3>2 DEF OutboxInv
  <2>4. QED BY <1>3, <2>1, <2>2, <2>3
<1>6. outbox'[t] = outbox[t] \/ outbox'[t] = Append(outbox[t], m)
  BY DEF Write, ChanTypeOK
<1>7. QED BY <1>4, <1>5, <1>6

\* The inductive step for punts.
LEMMA PuntStep == ChanTypeOK /\ PuntInv /\ [Steps]_chanVars => PuntInv'
<1> SUFFICES ASSUME ChanTypeOK, PuntInv, [Steps]_chanVars PROVE PuntInv'
  OBVIOUS
<1>0. /\ SockInv /\ PktInv /\ OutboxInv
      /\ sock \in Seq(Datagrams) /\ arrived \in Seq(Datagrams)
  BY DEF PuntInv, ChanTypeOK
<1> USE DEF connVars, handlerVars, lockVars, hostVars
<1>1. ASSUME UNCHANGED <<sock, arrived, upc, pkt, outbox>> PROVE PuntInv'
  <2>1. SockInv' BY <1>0, <1>1 DEF SockInv, Sent
  <2>2. PktInv' BY <1>0, <1>1 DEF PktInv, Sent
  <2>3. OutboxInv' BY <1>0, <1>1 DEF OutboxInv, PacketsIn, Genuine, Sent
  <2>4. QED BY <2>1, <2>2, <2>3 DEF PuntInv
<1>2. ASSUME NEW s \in Streams, Controller(s) PROVE PuntInv'
  BY <1>1, <1>2 DEF Controller, Open, Send, WritesDone, Cancel, Receive
<1>3. ASSUME NEW s \in Streams, Handler(s), ~WriteArbitration(s) PROVE PuntInv'
  BY <1>1, <1>3 DEF Handler, SetStreamLock, SetStream, ReadRequest, ReadEnd, SendPacketOut,
                    ClearStreamLock, ClearStream
<1>4. ASSUME NEW s \in Streams, WriteArbitration(s) PROVE PuntInv'
  <2>1. ArbitrationOK \in Responses /\ ArbitrationOK.type # "packet"
    BY DEF Responses, ArbitrationOK
  <2>2. OutboxInv' BY <1>0, <1>4, <2>1, WriteGenuine DEF WriteArbitration
  <2>3. SockInv' /\ PktInv' BY <1>0, <1>4 DEF WriteArbitration, SockInv, PktInv, Sent
  <2>4. QED BY <2>2, <2>3 DEF PuntInv
<1>5. ASSUME NEW len \in Lengths, NEW port \in Ports, Punt(len, port) PROVE PuntInv'
  <2>0. PICK d : d = [id |-> Len(arrived) + 1, len |-> len, port |-> port]
    OBVIOUS
  <2>1. arrived' = Append(arrived, d) /\ sock' \in {sock, Append(sock, d)}
    BY <1>5, <2>0, Zenon DEF Punt
  <2>2. \A e : Sent(e) => Sent(e)'
    BY <2>1, SentStays
  <2>3. Sent(d)'
    <3>1. d.id = Len(arrived) + 1 BY <2>0
    <3>2. /\ Len(arrived) \in Nat /\ Len(arrived') = Len(arrived) + 1
          /\ arrived'[Len(arrived) + 1] = d
      BY <1>0, <2>1
    <3>3. QED BY <3>1, <3>2 DEF Sent
  <2>4. SockInv'
    <3>1. CASE sock' = sock BY <1>0, <2>2, <3>1 DEF SockInv
    <3>2. CASE sock' = Append(sock, d)
      <4>1. SUFFICES ASSUME NEW i \in 1..Len(sock') PROVE Sent(sock[i])'
        BY DEF SockInv
      <4>2. i \in 1..(Len(sock) + 1) /\ Len(sock) \in Nat BY <1>0, <3>2
      <4>3. CASE i = Len(sock) + 1
        <5>1. sock'[i] = d BY <1>0, <3>2, <4>3
        <5>2. QED BY <2>3, <5>1
      <4>4. CASE i \in 1..Len(sock)
        <5>1. sock'[i] = sock[i] BY <1>0, <3>2, <4>4
        <5>2. QED BY <1>0, <2>2, <4>4, <5>1 DEF SockInv
      <4>5. QED BY <4>2, <4>3, <4>4
    <3>3. QED BY <2>1, <3>1, <3>2
  <2>5. PktInv' /\ OutboxInv'
    <3>1. UNCHANGED <<upc, pkt, outbox>> BY <1>5 DEF Punt
    <3>2. QED BY <1>0, <2>2, <3>1 DEF PktInv, OutboxInv, PacketsIn, Genuine
  <2>6. QED BY <2>4, <2>5 DEF PuntInv
<1>6. CASE ReceiveFrom
  <2>1. sock # <<>> /\ sock' = Tail(sock) /\ UNCHANGED <<arrived, outbox>>
    BY <1>6 DEF ReceiveFrom
  <2>2. /\ Len(sock) \in Nat \ {0} /\ Len(sock') = Len(sock) - 1
        /\ \A i \in 1..Len(sock') : sock'[i] = sock[i + 1] /\ i + 1 \in 1..Len(sock)
    BY <1>0, <2>1
  <2>3. SockInv' BY <1>0, <2>1, <2>2 DEF SockInv, Sent
  <2>4. Sent(Head(sock)) BY <1>0, <2>1, <2>2 DEF SockInv
  <2>5. PktInv'
    <3>1. (upc' = upc /\ pkt' = pkt) \/ pkt' = Head(sock) BY <1>6 DEF ReceiveFrom
    <3>2. QED BY <1>0, <2>1, <2>4, <3>1 DEF PktInv, Sent
  <2>6. OutboxInv' BY <1>0, <2>1 DEF OutboxInv, PacketsIn, Genuine, Sent
  <2>7. QED BY <2>3, <2>5, <2>6 DEF PuntInv
<1>7. CASE SendPktInLock \/ SendPktInCheck
  <2>1. upc # "recv" /\ UNCHANGED <<sock, arrived, pkt, outbox>>
    BY <1>7 DEF SendPktInLock, SendPktInCheck
  <2>2. QED BY <1>0, <2>1 DEF PuntInv, SockInv, PktInv, OutboxInv, PacketsIn, Genuine, Sent
<1>8. CASE SendPktInWrite
  <2>1. Sent(pkt) /\ pkt \in Datagrams /\ pkt.len > HeaderSize
    BY <1>0, <1>8 DEF SendPktInWrite, PktInv, ChanTypeOK
  <2>2. Genuine(PacketIn(pkt)) /\ PacketIn(pkt) \in Responses
    BY <2>1, PacketInType DEF Genuine
  <2>3. OutboxInv' BY <1>0, <1>8, <2>2, WriteGenuine DEF SendPktInWrite
  <2>4. SockInv' /\ PktInv' BY <1>0, <1>8 DEF SendPktInWrite, SockInv, PktInv, Sent
  <2>5. QED BY <2>3, <2>4 DEF PuntInv
<1>9. CASE Finished \/ UNCHANGED chanVars
  BY <1>1, <1>9 DEF Finished, chanVars
<1>10. QED
  BY <1>2, <1>3, <1>4, <1>5, <1>6, <1>7, <1>8, <1>9 DEF Steps, HostPathThread

\* Every packet-in that a controller is ever sent carries the port its datagram
\* came from and the data of that datagram, as far as the receive buffer goes.
THEOREM PuntsFaithful == Spec => []PuntFaithful
<1>1. Init => ChanTypeOK /\ PuntInv
  BY DEF Init, ChanTypeOK, HandlerPCs, PuntInv, SockInv, PktInv, OutboxInv, PacketsIn
<1>2. ChanTypeOK /\ PuntInv /\ [Steps]_chanVars => (ChanTypeOK /\ PuntInv)'
  BY TypeStep, PuntStep
<1>3. PuntInv => PuntFaithful
  <2>1. SUFFICES ASSUME PuntInv, NEW s \in Streams, NEW i \in PacketsIn(s)
                 PROVE  /\ Ntohs(outbox[s][i].port, 1) = arrived[outbox[s][i].id].port
                        /\ outbox[s][i].len - CpuHeaderSize
                             = RecvLen(arrived[outbox[s][i].id]) - HeaderSize
    BY Zenon DEF PuntFaithful
  <2>2. PICK d \in Datagrams : Sent(d) /\ d.len > HeaderSize /\ outbox[s][i] = PacketIn(d)
    BY <2>1 DEF PuntInv, OutboxInv, Genuine
  <2>3. outbox[s][i].id = d.id /\ arrived[d.id] = d
    BY <2>2, PacketInData DEF Sent
  <2>4. QED BY <2>2, <2>3, PacketInData
<1>4. QED BY <1>1, <1>2, <1>3, StepShape, PTL DEF Spec

-----------------------------------------------------------------------------
(* The refinement.                                                         *)

\* Every step is a step of ControllerChannel or leaves its state alone.
LEMMA ChannelStep == IInv /\ [Steps]_chanVars => [Channel!Next]_Channel!vars
<1> SUFFICES ASSUME IInv, [Steps]_chanVars PROVE [Channel!Next]_Channel!vars
  OBVIOUS
<1>0. /\ ChanTypeOK /\ Started /\ LockInv /\ NoDanglingStream /\ WriteToLiveStream
      /\ conn \in [Streams -> {"none", "open", "done", "cancelled"}]
      /\ hpc \in [Streams -> HandlerPCs]
      /\ stream_ \in Streams \cup {NULL}
  BY DEF IInv, ChanTypeOK
<1> DEFINE life == [s \in Streams |-> Life(s)]
<1>a. ASSUME UNCHANGED <<hpc, stream_, outbox>> PROVE [Channel!Next]_Channel!vars
  BY <1>a DEF Channel!vars, Life
<1>b. ASSUME NEW s \in Streams, NEW label, Goto(s, label), UNCHANGED stream_, UNCHANGED outbox,
             {hpc[s], label} \cap {"idle", "returned"} = {}
      PROVE [Channel!Next]_Channel!vars
  <2>1. \A t \in Streams : Life(t)' = Life(t)
    BY <1>0, <1>b DEF Life, Goto
  <2>2. QED BY <1>b, <2>1 DEF Channel!vars
<1>c. ASSUME NEW s \in Streams, hpc[s] \notin {"idle", "returned"}
      PROVE  life[s] = "live"
  BY <1>c DEF Life
<1> USE DEF connVars, handlerVars, lockVars, hostVars
<1>1. ASSUME NEW s \in Streams, Open(s) PROVE [Channel!Next]_Channel!vars
  <2>1. hpc[s] = "idle" BY <1>0, <1>1 DEF Started, Open
  <2>2. life' = [life EXCEPT ![s] = "live"]
    BY <1>0, <1>1, <2>1 DEF Life, Open
  <2>3. Channel!Begin(s)
    BY <1>1, <2>1, <2>2 DEF Channel!Begin, Life, Open
  <2>4. QED BY <2>3 DEF Channel!Next
<1>2. ASSUME NEW s \in Streams, NEW r \in Requests, Send(s, r) PROVE [Channel!Next]_Channel!vars
  BY <1>2, <1>a DEF Send
<1>3. ASSUME NEW s \in Streams, WritesDone(s) \/ Cancel(s) \/ Receive(s) PROVE [Channel!Next]_Channel!vars
  BY <1>3, <1>a DEF WritesDone, Cancel, Receive
<1>4. ASSUME NEW len \in Lengths, NEW port \in Ports, Punt(len, port) PROVE [Channel!Next]_Channel!vars
  BY <1>4, <1>a DEF Punt
<1>5. ASSUME NEW s \in Streams, SetStreamLock(s) PROVE [Channel!Next]_Channel!vars
  BY <1>5, <1>b DEF SetStreamLock
<1>6. ASSUME NEW s \in Streams, SetStream(s) PROVE [Channel!Next]_Channel!vars
  <2>1. \A t \in Streams : Life(t)' = Life(t)
    BY <1>0, <1>6 DEF Life, SetStream, Goto
  <2>2. Channel!Attach(s)
    BY <1>6, <1>c, <2>1 DEF Channel!Attach, SetStream
  <2>3. QED BY <2>2 DEF Channel!Next
<1>7. ASSUME NEW s \in Streams, ReadRequest(s) PROVE [Channel!Next]_Channel!vars
  <2>1. sent[s][nread[s] + 1] \in Requests
    BY <1>0, <1>7 DEF ChanTypeOK, ReadRequest
  <2>2. sent[s][nread[s] + 1].type \in RequestTypes
    BY <2>1 DEF RequestOK
  <2>3. Case[sent[s][nread[s] + 1].type] \in {"write", "packetOut", "read"}
    BY <2>2 DEF Case, RequestTypes
  <2>4. QED BY <1>7, <1>b, <2>3 DEF ReadRequest
<1>8. ASSUME NEW s \in Streams, ReadEnd(s) PROVE [Channel!Next]_Channel!vars
  BY <1>8, <1>b DEF ReadEnd
<1>9. ASSUME NEW s \in Streams, WriteArbitration(s) PROVE [Channel!Next]_Channel!vars
  <2>1. CASE UNCHANGED outbox
    BY <1>9, <1>b, <2>1 DEF WriteArbitration
  <2>2. CASE outbox' = [outbox EXCEPT ![s] = Append(@, ArbitrationOK)]
    <3>1. \A t \in Streams : Life(t)' = Life(t)
      BY <1>0, <1>9 DEF Life, WriteArbitration, Goto
    <3>2. Channel!Reply(s, ArbitrationOK)
      BY <1>9, <1>c, <2>2, <3>1 DEF Channel!Reply, WriteArbitration
    <3>3. QED BY <3>2 DEF Channel!Next
  <2>3. QED BY <1>9, <2>1, <2>2 DEF WriteArbitration, Write
<1>10. ASSUME NEW s \in Streams, SendPacketOut(s) PROVE [Channel!Next]_Channel!vars
  BY <1>10, <1>b DEF SendPacketOut
<1>11. ASSUME NEW s \in Streams, ClearStreamLock(s) PROVE [Channel!Next]_Channel!vars
  BY <1>11, <1>b DEF ClearStreamLock
<1>12. ASSUME NEW s \in Streams, ClearStream(s) PROVE [Channel!Next]_Channel!vars
  <2>1. life' = [life EXCEPT ![s] = "over"]
    BY <1>0, <1>12 DEF Life, ClearStream, Goto
  <2>2. stream_' \in {stream_, NULL} \ {s}
    BY <1>12 DEF ClearStream
  <2>3. Channel!End(s)
    BY <1>12, <1>c, <2>1, <2>2 DEF Channel!End, ClearStream
  <2>4. QED BY <2>3 DEF Channel!Next
<1>13. CASE ReceiveFrom \/ SendPktInLock \/ SendPktInCheck
  BY <1>13, <1>a DEF ReceiveFrom, SendPktInLock, SendPktInCheck
<1>14. CASE SendPktInWrite
  <2>1. CASE UNCHANGED outbox
    BY <1>14, <1>a, <2>1 DEF SendPktInWrite
  <2>2. CASE outbox' = [outbox EXCEPT ![stream_] = Append(@, PacketIn(pkt))]
    <3>1. stream_ \in Streams /\ life[stream_] = "live"
      BY <1>0, <1>14, <1>c DEF WriteToLiveStream, SendPktInWrite, Registered
    <3>2. PacketIn(pkt) \in {PacketIn(d) : d \in Datagrams}
      BY <1>0, <1>14 DEF ChanTypeOK, SendPktInWrite
    <3>3. life' = life
      BY <1>14 DEF Life, SendPktInWrite
    <3>4. Channel!Deliver(stream_, PacketIn(pkt))
      BY <1>14, <2>2, <3>1, <3>3 DEF Channel!Deliver, SendPktInWrite
    <3>5. QED BY <3>1, <3>2, <3>4 DEF Channel!Next
  <2>3. QED BY <1>14, <2>1, <2>2 DEF SendPktInWrite, Write
<1>15. CASE Finished \/ UNCHANGED chanVars
  BY <1>15, <1>a DEF Finished, chanVars
<1>16. QED
  BY <1>1, <1>2, <1>3, <1>4, <1>5, <1>6, <1>7, <1>8, <1>9, <1>10, <1>11, <1>12,
     <1>13, <1>14, <1>15
  DEF Steps, Controller, Handler, HostPathThread

\* The threads and their lock implement ControllerChannel: packets are only
\* written to the registered stream, while its handler is running, and a
\* handler that returns leaves no handle to its stream behind.
THEOREM Refinement == Spec => ImplementsChannel
<1>1. Init => Channel!Init
  BY DEF Init, Channel!Init, Life
<1>2. Init => IInv
  BY DEF Init, IInv, ChanTypeOK, HandlerPCs, Started, LockInv, NoDanglingStream, WriteToLiveStream
<1>3. IInv /\ [Steps]_chanVars => IInv'
  BY TypeStep, PointerStep DEF IInv
<1>4. QED
  BY <1>1, <1>2, <1>3, ChannelStep, StepShape, PTL DEF Spec, Channel!Spec, ImplementsChannel

-----------------------------------------------------------------------------
(* The order of punts.  That no packet-in overtakes another, or comes twice, *)
(* rests on where the ids are: those in the streams are below the one the    *)
(* hostpath thread holds, and all of them below those on the socket.         *)

SockOrder == \A i, j \in 1..Len(sock) : i < j => sock[i].id < sock[j].id
PktFirst == upc # "recv" => \A j \in 1..Len(sock) : pkt.id < sock[j].id
\* An id that no stream has seen: all the streams have are below it.
Fresh(id) == \A s \in Streams : \A i \in PacketsIn(s) : outbox[s][i].id < id
OutFirst == /\ \A j \in 1..Len(sock) : Fresh(sock[j].id)
            /\ upc # "recv" => Fresh(pkt.id)
OrderInv == PuntsOnceInOrder /\ SockOrder /\ PktFirst /\ OutFirst

\* What a Write does to the packet-ins of each stream.
LEMMA WritePackets ==
    ASSUME ChanTypeOK, NEW s, NEW m \in Responses, Write(s, m), NEW t \in Streams
    PROVE  /\ \A i \in PacketsIn(t) : i \in PacketsIn(t)' /\ outbox'[t][i] = outbox[t][i]
           /\ \A i \in PacketsIn(t)' :
                \/ i \in PacketsIn(t) /\ outbox'[t][i] = outbox[t][i]
                \/ /\ t = s /\ m.type = "packet"
                   /\ i = Len(outbox[t]) + 1 /\ outbox'[t][i] = m
<1>1. outbox[t] \in Seq(Responses) /\ Len(outbox[t]) \in Nat BY DEF ChanTypeOK
<1>2. outbox'[t] = outbox[t] \/ (t = s /\ outbox'[t] = Append(outbox[t], m))
  BY DEF Write, ChanTypeOK
<1>3. CASE outbox'[t] = outbox[t] BY <1>3 DEF PacketsIn
<1>4. CASE t = s /\ outbox'[t] = Append(outbox[t], m)
  <2>1. /\ Len(outbox'[t]) = Len(outbox[t]) + 1 /\ outbox'[t][Len(outbox[t]) + 1] = m
        /\ \A i \in 1..Len(outbox[t]) : outbox'[t][i] = outbox[t][i]
    BY <1>1, <1>4
  <2>2. QED BY <1>1, <1>4, <2>1 DEF PacketsIn
<1>5. QED BY <1>2, <1>3, <1>4

\* The ids are numbers.
LEMMA IdTypes ==
    ASSUME ChanTypeOK, PuntInv
    PROVE  /\ Len(sock) \in Nat /\ Len(arrived) \in Nat
           /\ \A j \in 1..Len(sock) : sock[j].id \in Nat /\ sock[j].id <= Len(arrived)
           /\ upc # "recv" => pkt.id \in Nat /\ pkt.id <= Len(arrived)
           /\ \A s \in Streams : \A i \in PacketsIn(s) :
                 outbox[s][i].id \in Nat /\ outbox[s][i].id <= Len(arrived)
<1>1. Len(sock) \in Nat /\ Len(arrived) \in Nat
  <2>1. sock \in Seq(Datagrams) /\ arrived \in Seq(Datagrams) BY DEF ChanTypeOK
  <2>2. QED BY <2>1, LenProperties
<1>2. \A d : Sent(d) => d.id \in Nat /\ d.id <= Len(arrived) BY <1>1 DEF Sent
<1>3. ASSUME NEW s \in Streams, NEW i \in PacketsIn(s) PROVE Sent(arrived[outbox[s][i].id]) /\ outbox[s][i].id \in 1..Len(arrived)
  <2>1. PICK d \in Datagrams : Sent(d) /\ d.len > HeaderSize /\ outbox[s][i] = PacketIn(d)
    BY DEF PuntInv, OutboxInv, Genuine
  <2>2. outbox[s][i].id = d.id BY <2>1, PacketInData
  <2>3. QED BY <2>1, <2>2 DEF Sent
<1>4. QED BY <1>1, <1>2, <1>3 DEF PuntInv, SockInv, PktInv

\* The inductive step for the order of punts.
LEMMA OrderStep ==
    ASSUME ChanTypeOK, PuntInv, OrderInv, [Steps]_chanVars
    PROVE  OrderInv'
<1>0. PuntsOnceInOrder /\ SockOrder /\ PktFirst /\ OutFirst BY DEF OrderInv
<1> USE DEF connVars, handlerVars, lockVars, hostVars
<1>1. ASSUME UNCHANGED <<sock, outbox, pkt>>, upc' # "recv" => upc # "recv" PROVE OrderInv'
  BY <1>0, <1>1 DEF OrderInv, PuntsOnceInOrder, SockOrder, PktFirst, OutFirst, Fresh, PacketsIn
<1>2. ASSUME NEW s \in Streams, Controller(s) PROVE OrderInv'
  BY <1>1, <1>2 DEF Controller, Open, Send, WritesDone, Cancel, Receive
<1>3. ASSUME NEW s \in Streams, Handler(s), ~WriteArbitration(s) PROVE OrderInv'
  BY <1>1, <1>3 DEF Handler, SetStreamLock, SetStream, ReadRequest, ReadEnd, SendPacketOut,
                    ClearStreamLock, ClearStream
<1>4. ASSUME NEW s \in Streams, WriteArbitration(s) PROVE OrderInv'
  <2>1. ArbitrationOK \in Responses /\ ArbitrationOK.type # "packet"
    BY DEF Responses, ArbitrationOK
  <2>2. UNCHANGED <<sock, pkt, upc>> /\ Write(s, ArbitrationOK) BY <1>4 DEF WriteArbitration
  <2>3. \A t \in Streams : \A i \in PacketsIn(t)' : i \in PacketsIn(t) /\ outbox'[t][i] = outbox[t][i]
    BY <2>1, <2>2, WritePackets
  <2>4. PuntsOnceInOrder' BY <1>0, <2>3 DEF PuntsOnceInOrder
  <2>5. OutFirst' BY <1>0, <2>2, <2>3 DEF OutFirst, Fresh
  <2>6. QED BY <1>0, <2>2, <2>4, <2>5 DEF OrderInv, SockOrder, PktFirst
<1>5. ASSUME NEW len \in Lengths, NEW port \in Ports, Punt(len, port) PROVE OrderInv'
  <2>0. PICK d : d = [id |-> Len(arrived) + 1, len |-> len, port |-> port]
    OBVIOUS
  <2>1. sock' \in {sock, Append(sock, d)} /\ UNCHANGED <<upc, pkt, outbox>>
    BY <1>5, <2>0, Zenon DEF Punt
  <2>2. CASE sock' = sock BY <1>1, <2>1, <2>2
  <2>3. CASE sock' = Append(sock, d)
    <3>1. d.id = Len(arrived) + 1 BY <2>0
    <3>2. sock \in Seq(Datagrams) BY DEF ChanTypeOK
    <3>3. /\ Len(sock) \in Nat /\ Len(sock') = Len(sock) + 1 /\ sock'[Len(sock) + 1] = d
          /\ \A j \in 1..Len(sock) : sock'[j] = sock[j]
      BY <2>3, <3>2
    <3>4. SockOrder'
      <4>1. SUFFICES ASSUME NEW i \in 1..Len(sock'), NEW j \in 1..Len(sock'), i < j
                     PROVE  sock'[i].id < sock'[j].id
        BY DEF SockOrder
      <4>2. i \in 1..Len(sock) /\ sock'[i] = sock[i] BY <3>3, <4>1
      <4>3. CASE j = Len(sock) + 1
        <5>1. sock[i].id \in Nat /\ sock[i].id <= Len(arrived) /\ Len(arrived) \in Nat BY <4>2, IdTypes
        <5>2. sock'[j].id = Len(arrived) + 1 BY <3>1, <3>3, <4>3
        <5>3. QED BY <4>2, <5>1, <5>2
      <4>4. CASE j # Len(sock) + 1
        <5>1. j \in 1..Len(sock) /\ sock'[j] = sock[j] BY <3>3, <4>4
        <5>2. QED BY <1>0, <4>1, <4>2, <5>1 DEF SockOrder
      <4>5. QED BY <4>3, <4>4
    <3>5. PktFirst'
      <4>1. SUFFICES ASSUME upc # "recv", NEW j \in 1..Len(sock') PROVE pkt.id < sock'[j].id
        BY <2>1 DEF PktFirst
      <4>2. CASE j = Len(sock) + 1
        <5>1. pkt.id \in Nat /\ pkt.id <= Len(arrived) /\ Len(arrived) \in Nat BY <4>1, IdTypes
        <5>2. sock'[j].id = Len(arrived) + 1 BY <3>1, <3>3, <4>2
        <5>3. QED BY <5>1, <5>2
      <4>3. CASE j # Len(sock) + 1
        <5>1. j \in 1..Len(sock) /\ sock'[j] = sock[j] BY <3>3, <4>3
        <5>2. QED BY <1>0, <4>1, <5>1 DEF PktFirst
      <4>4. QED BY <4>2, <4>3
    <3>6. Fresh(d.id)' BY <2>1, <3>1, IdTypes DEF Fresh, PacketsIn
    <3>7. OutFirst'
      <4>1. ASSUME NEW j \in 1..Len(sock') PROVE Fresh(sock[j].id)'
        <5>1. CASE j = Len(sock) + 1 BY <3>3, <3>6, <5>1 DEF Fresh
        <5>2. CASE j # Len(sock) + 1
          <6>1. j \in 1..Len(sock) /\ sock'[j] = sock[j] BY <3>3, <5>2
          <6>2. Fresh(sock[j].id) BY <1>0, <6>1 DEF OutFirst
          <6>3. QED BY <2>1, <6>1, <6>2 DEF Fresh, PacketsIn
        <5>3. QED BY <5>1, <5>2
      <4>2. upc' # "recv" => Fresh(pkt.id)' BY <1>0, <2>1 DEF OutFirst, Fresh, PacketsIn
      <4>3. QED BY <4>1, <4>2 DEF OutFirst
    <3>8. PuntsOnceInOrder' BY <1>0, <2>1 DEF PuntsOnceInOrder, PacketsIn
    <3>9. QED BY <3>4, <3>5, <3>7, <3>8 DEF OrderInv
  <2>4. QED BY <2>1, <2>2, <2>3
<1>6. CASE ReceiveFrom
  <2>1. /\ sock # <<>> /\ sock' = Tail(sock) /\ UNCHANGED outbox /\ upc = "recv"
        /\ upc' = "recv" \/ pkt' = Head(sock)
    BY <1>6 DEF ReceiveFrom
  <2>2. sock \in Seq(Datagrams) BY DEF ChanTypeOK
  <2>3. /\ Len(sock) \in Nat \ {0} /\ Len(sock') = Len(sock) - 1 /\ Head(sock) = sock[1]
        /\ \A i \in 1..Len(sock') : sock'[i] = sock[i + 1] /\ i + 1 \in 1..Len(sock)
    BY <2>1, <2>2
  <2>4. SockOrder'
    <3>1. SUFFICES ASSUME NEW i \in 1..Len(sock'), NEW j \in 1..Len(sock'), i < j
                   PROVE  sock'[i].id < sock'[j].id
      BY DEF SockOrder
    <3>2. i + 1 \in 1..Len(sock) /\ j + 1 \in 1..Len(sock) /\ i + 1 < j + 1 BY <2>3, <3>1
    <3>3. sock[i + 1].id < sock[j + 1].id BY <1>0, <3>2 DEF SockOrder
    <3>4. QED BY <2>3, <3>3
  <2>5. PktFirst' BY <1>0, <2>1, <2>3 DEF PktFirst, SockOrder
  <2>6. OutFirst' BY <1>0, <2>1, <2>3 DEF OutFirst, Fresh, PacketsIn
  <2>7. PuntsOnceInOrder'
    <3>1. UNCHANGED outbox BY <2>1
    <3>2. QED BY <1>0, <3>1 DEF PuntsOnceInOrder, PacketsIn
  <2>8. QED BY <2>4, <2>5, <2>6, <2>7 DEF OrderInv
<1>7. CASE SendPktInLock \/ SendPktInCheck
  BY <1>1, <1>7 DEF SendPktInLock, SendPktInCheck
<1>8. CASE SendPktInWrite
  <2> DEFINE m == PacketIn(pkt)
  <2>1. /\ upc = "write" /\ upc' = "recv" /\ UNCHANGED <<sock, pkt>> /\ Write(stream_, m)
        /\ pkt \in Datagrams /\ pkt.len > HeaderSize
    BY <1>8 DEF SendPktInWrite, ChanTypeOK
  <2>2. m \in Responses /\ m.id = pkt.id BY <2>1, PacketInType, PacketInData
  <2> HIDE DEF m
  <2>3. \A t \in Streams : \A i \in PacketsIn(t)' :
           \/ i \in PacketsIn(t) /\ outbox'[t][i] = outbox[t][i]
           \/ t = stream_ /\ i = Len(outbox[t]) + 1 /\ outbox'[t][i].id = pkt.id
    BY <2>1, <2>2, WritePackets
  <2>4. Fresh(pkt.id) /\ pkt.id \in Nat BY <1>0, <2>1, IdTypes DEF OutFirst
  <2>5. \A t \in Streams : \A i \in PacketsIn(t) : i \in 1..Len(outbox[t]) /\ Len(outbox[t]) \in Nat
    BY DEF PacketsIn, ChanTypeOK
  <2>6. PuntsOnceInOrder'
    <3>1. ASSUME NEW t \in Streams, NEW i \in PacketsIn(t)', NEW j \in PacketsIn(t)', i < j
          PROVE  outbox'[t][i].id < outbox'[t][j].id
      <4>0. Len(outbox[t]) \in Nat BY DEF ChanTypeOK
      <4>1. CASE j \in PacketsIn(t) /\ outbox'[t][j] = outbox[t][j]
        <5>1. i \in PacketsIn(t) /\ outbox'[t][i] = outbox[t][i] BY <2>3, <2>5, <3>1, <4>0, <4>1
        <5>2. QED BY <1>0, <3>1, <4>1, <5>1 DEF PuntsOnceInOrder
      <4>2. CASE t = stream_ /\ j = Len(outbox[t]) + 1 /\ outbox'[t][j].id = pkt.id
        <5>1. i \in PacketsIn(t) /\ outbox'[t][i] = outbox[t][i] BY <2>3, <3>1, <4>0, <4>2
        <5>2. QED BY <2>4, <4>2, <5>1 DEF Fresh
      <4>3. QED BY <2>3, <4>1, <4>2
    <3>2. ASSUME NEW t \in Streams, NEW u \in Streams, t # u,
                 NEW i \in PacketsIn(t)', NEW j \in PacketsIn(u)'
          PROVE  outbox'[t][i].id # outbox'[u][j].id
      <4>1. CASE i \in PacketsIn(t) /\ j \in PacketsIn(u) /\ outbox'[t][i] = outbox[t][i]
                 /\ outbox'[u][j] = outbox[u][j]
        BY <1>0, <3>2, <4>1 DEF PuntsOnceInOrder
      <4>2. CASE i \in PacketsIn(t) /\ outbox'[t][i] = outbox[t][i] /\ outbox'[u][j].id = pkt.id
        <5>1. outbox[t][i].id < pkt.id /\ outbox[t][i].id \in Nat BY <2>4, <4>2, IdTypes DEF Fresh
        <5>2. QED BY <2>4, <4>2, <5>1
      <4>3. CASE j \in PacketsIn(u) /\ outbox'[u][j] = outbox[u][j] /\ outbox'[t][i].id = pkt.id
        <5>1. outbox[u][j].id < pkt.id /\ outbox[u][j].id \in Nat BY <2>4, <4>3, IdTypes DEF Fresh
        <5>2. QED BY <2>4, <4>3, <5>1
      <4>4. QED BY <2>3, <3>2, <4>1, <4>2, <4>3
    <3>3. QED BY <3>1, <3>2 DEF PuntsOnceInOrder
  <2>7. OutFirst'
    <3>1. ASSUME NEW k \in 1..Len(sock), NEW t \in Streams, NEW i \in PacketsIn(t)'
          PROVE  outbox'[t][i].id < sock[k].id
      <4>1. CASE i \in PacketsIn(t) /\ outbox'[t][i] = outbox[t][i] BY <1>0, <4>1 DEF OutFirst, Fresh
      <4>2. CASE outbox'[t][i].id = pkt.id BY <1>0, <2>1, <4>2 DEF PktFirst
      <4>3. QED BY <2>3, <4>1, <4>2
    <3>2. QED BY <2>1, <3>1 DEF OutFirst, Fresh
  <2>8. QED BY <1>0, <2>1, <2>6, <2>7 DEF OrderInv, SockOrder, PktFirst
<1>9. CASE Finished \/ UNCHANGED chanVars
  BY <1>1, <1>9 DEF Finished, chanVars
<1>10. QED
  BY <1>2, <1>3, <1>4, <1>5, <1>6, <1>7, <1>8, <1>9 DEF Steps, HostPathThread

\* A punted packet reaches at most one stream, at most once, and every stream
\* sees the punts in the device's order, for every number of streams, packets
\* and reconnections.
THEOREM PuntsOrdered == Spec => []PuntsOnceInOrder
<1>1. Init => ChanTypeOK /\ PuntInv /\ OrderInv
  <2> SUFFICES ASSUME Init PROVE ChanTypeOK /\ PuntInv /\ OrderInv OBVIOUS
  <2>1. ChanTypeOK /\ PuntInv
    BY DEF Init, ChanTypeOK, HandlerPCs, PuntInv, SockInv, PktInv, OutboxInv, PacketsIn
  <2>2. Len(sock) = 0 /\ upc = "recv" /\ \A s \in Streams : PacketsIn(s) = {}
    BY DEF Init, PacketsIn
  <2>3. OrderInv BY <2>2 DEF OrderInv, PuntsOnceInOrder, SockOrder, PktFirst, OutFirst
  <2>4. QED BY <2>1, <2>3
<1>2. ChanTypeOK /\ PuntInv /\ OrderInv /\ [Steps]_chanVars => (ChanTypeOK /\ PuntInv /\ OrderInv)'
  BY TypeStep, PuntStep, OrderStep
<1>3. OrderInv => PuntsOnceInOrder BY DEF OrderInv
<1>4. QED BY <1>1, <1>2, <1>3, StepShape, PTL DEF Spec

-----------------------------------------------------------------------------
(* What handlers serve.                                                    *)

\* A handler about to answer or to forward has read such a request.
HandlerInv ==
    \A s \in Streams :
        /\ hpc[s] = "write" => nread[s] > 0 /\ sent[s][nread[s]].type = "arbitration"
        /\ hpc[s] = "packetOut" => nread[s] > 0 /\ sent[s][nread[s]].type = "packet"

\* A request, once sent, stays where it is.
LEMMA SentGrows ==
    ASSUME ChanTypeOK, [Steps]_chanVars, NEW t \in Streams
    PROVE  \A i \in 1..Len(sent[t]) : i \in 1..Len(sent'[t]) /\ sent'[t][i] = sent[t][i]
<1> USE DEF connVars, handlerVars, lockVars, hostVars
<1>1. CASE sent'[t] = sent[t] BY <1>1
<1>2. ASSUME NEW r, sent'[t] = Append(sent[t], r)
      PROVE  \A i \in 1..Len(sent[t]) : i \in 1..Len(sent'[t]) /\ sent'[t][i] = sent[t][i]
  <2>1. sent[t] \in Seq(Requests) /\ Len(sent[t]) \in Nat BY DEF ChanTypeOK
  <2>2. Len(sent'[t]) = Len(sent[t]) + 1 /\ \A i \in 1..Len(sent[t]) : sent'[t][i] = sent[t][i]
    BY <1>2, <2>1
  <2>3. QED BY <2>1, <2>2
<1>3. sent'[t] = sent[t] \/ \E r : sent'[t] = Append(sent[t], r)
  <2>1. ASSUME NEW s \in Streams, NEW r \in Requests, Send(s, r)
        PROVE  sent'[t] = sent[t] \/ sent'[t] = Append(sent[t], r)
    BY <2>1 DEF Send, ChanTypeOK
  <2>2. ASSUME NEW s \in Streams, Open(s) \/ WritesDone(s) \/ Cancel(s) \/ Receive(s)
        PROVE  sent' = sent
    BY <2>2 DEF Open, WritesDone, Cancel, Receive
  <2>3. ASSUME NEW s \in Streams, Handler(s) PROVE sent' = sent
    BY <2>3 DEF Handler, SetStreamLock, SetStream, ReadRequest, ReadEnd, WriteArbitration,
                SendPacketOut, ClearStreamLock, ClearStream
  <2>4. ASSUME NEW len \in Lengths, NEW port \in Ports, Punt(len, port) PROVE sent' = sent
    BY <2>4 DEF Punt
  <2>5. HostPathThread \/ Finished \/ UNCHANGED chanVars => sent' = sent
    BY DEF HostPathThread, ReceiveFrom, SendPktInLock, SendPktInCheck, SendPktInWrite, Finished, chanVars
  <2>6. QED BY <2>1, <2>2, <2>3, <2>4, <2>5 DEF Steps, Controller
<1>4. QED BY <1>1, <1>2, <1>3

\* The request that a handler is about to read, and where it goes.
LEMMA ReadCases ==
    ASSUME ChanTypeOK, NEW s \in Streams, ReadRequest(s)
    PROVE  /\ nread[s] \in Nat /\ nread[s] + 1 \in 1..Len(sent[s]) /\ nread'[s] = nread[s] + 1
           /\ hpc[s] = "read"
           /\ LET r == sent[s][nread[s] + 1] IN
              \/ r.type = "arbitration" /\ hpc'[s] = "write"
              \/ r.type = "packet" /\ hpc'[s] = "packetOut"
              \/ r.type = "other" /\ hpc'[s] = "read"
<1>1. nread[s] \in Nat /\ Len(sent[s]) \in Nat /\ nread[s] < Len(sent[s]) /\ nread'[s] = nread[s] + 1
      /\ hpc[s] = "read"
  BY DEF ChanTypeOK, ReadRequest
<1>2. nread[s] + 1 \in 1..Len(sent[s]) BY <1>1
<1>3. sent[s][nread[s] + 1] \in Requests BY <1>2 DEF ChanTypeOK
<1>4. sent[s][nread[s] + 1].type \in RequestTypes BY <1>3 DEF RequestOK
<1>5. hpc'[s] = Case[sent[s][nread[s] + 1].type] BY DEF ReadRequest, Goto, ChanTypeOK
<1>6. QED BY <1>1, <1>2, <1>4, <1>5 DEF RequestTypes, Case

\* What a step that is no handler step of stream t leaves alone.
LEMMA OtherSteps ==
    ASSUME ChanTypeOK, [Steps]_chanVars, NEW t \in Streams, ~Handler(t)
    PROVE  /\ nread'[t] = nread[t]
           /\ hpc'[t] = hpc[t] \/ (conn[t] = "none" /\ hpc'[t] = "setLock")
<1> USE DEF connVars, handlerVars, lockVars, hostVars, Goto
<1> DEFINE Goal == /\ nread'[t] = nread[t]
                   /\ hpc'[t] = hpc[t] \/ (conn[t] = "none" /\ hpc'[t] = "setLock")
<1>0. hpc \in [Streams -> HandlerPCs] /\ nread \in [Streams -> Nat] BY DEF ChanTypeOK
<1>1. ASSUME NEW s \in Streams, Open(s) PROVE Goal BY <1>0, <1>1 DEF Open
<1>2. ASSUME NEW s \in Streams, NEW r \in Requests, Send(s, r) PROVE Goal BY <1>2 DEF Send
<1>3. ASSUME NEW s \in Streams, WritesDone(s) \/ Cancel(s) \/ Receive(s) PROVE Goal
  BY <1>3 DEF WritesDone, Cancel, Receive
<1>4. ASSUME NEW s \in Streams, Handler(s) PROVE Goal
  <2>1. s # t BY <1>4
  <2>2. UNCHANGED nread \/ nread' = [nread EXCEPT ![s] = nread[s] + 1]
    BY <1>4 DEF Handler, SetStreamLock, SetStream, ReadRequest, ReadEnd, WriteArbitration,
                SendPacketOut, ClearStreamLock, ClearStream
  <2>3. \E label : hpc' = [hpc EXCEPT ![s] = label]
    BY <1>4 DEF Handler, SetStreamLock, SetStream, ReadRequest, ReadEnd, WriteArbitration,
                SendPacketOut, ClearStreamLock, ClearStream
  <2>4. QED BY <1>0, <2>1, <2>2, <2>3
<1>5. ASSUME NEW len \in Lengths, NEW port \in Ports, Punt(len, port) PROVE Goal
  BY <1>5 DEF Punt
<1>6. HostPathThread \/ Finished \/ UNCHANGED chanVars => Goal
  BY DEF HostPathThread, ReceiveFrom, SendPktInLock, SendPktInCheck, SendPktInWrite, Finished, chanVars
<1>7. QED BY <1>1, <1>2, <1>3, <1>4, <1>5, <1>6 DEF Steps, Controller

\* The inductive step for what handlers are about to do.
LEMMA HandlerStep ==
    ASSUME ChanTypeOK, HandlerInv, [Steps]_chanVars
    PROVE  HandlerInv'
<1> SUFFICES ASSUME NEW t \in Streams
             PROVE  /\ hpc'[t] = "write" => nread'[t] > 0 /\ sent'[t][nread'[t]].type = "arbitration"
                    /\ hpc'[t] = "packetOut" => nread'[t] > 0 /\ sent'[t][nread'[t]].type = "packet"
  BY DEF HandlerInv
<1>0. nread[t] \in Nat /\ Len(sent[t]) \in Nat /\ nread[t] <= Len(sent[t]) BY DEF ChanTypeOK
<1>1. CASE ReadRequest(t)
  <2>1. nread[t] + 1 \in 1..Len(sent[t]) /\ nread'[t] = nread[t] + 1 BY <1>1, ReadCases
  <2>2. sent'[t][nread'[t]] = sent[t][nread[t] + 1] BY <2>1, SentGrows
  <2>3. QED BY <1>0, <1>1, <2>1, <2>2, ReadCases
<1>2. CASE Handler(t) /\ ~ReadRequest(t)
  <2>1. hpc'[t] \notin {"write", "packetOut"}
    BY <1>2 DEF Handler, SetStreamLock, SetStream, ReadEnd, WriteArbitration, SendPacketOut,
                ClearStreamLock, ClearStream, Goto, ChanTypeOK
  <2>2. QED BY <2>1
<1>3. CASE ~Handler(t)
  <2>1. nread[t] > 0 => sent'[t][nread[t]] = sent[t][nread[t]] BY <1>0, SentGrows
  <2>2. nread'[t] = nread[t] /\ (hpc'[t] = hpc[t] \/ hpc'[t] = "setLock") BY <1>3, OtherSteps
  <2>3. QED BY <2>1, <2>2 DEF HandlerInv
<1>4. QED BY <1>1, <1>2, <1>3 DEF Handler

\* What a step does to the requests that the handler of t has finished with.
LEMMA ServedStep ==
    ASSUME ChanTypeOK, Started, HandlerInv, [Steps]_chanVars, NEW t \in Streams
    PROVE  /\ Served(t) \subseteq 1..Len(sent[t])
           /\ \A i \in Served(t) : sent'[t][i] = sent[t][i]
           /\ \/ /\ Served(t)' = Served(t)
                 /\ ~WriteArbitration(t) /\ ~SendPacketOut(t)
              \/ /\ Served(t)' = Served(t) \cup {nread[t]}
                 /\ nread[t] \notin Served(t) /\ nread[t] \in 1..Len(sent[t])
                 /\ \A i \in Served(t) : i < nread[t]
                 /\ sent'[t][nread[t]] = sent[t][nread[t]]
                 /\ \/ WriteArbitration(t) /\ sent[t][nread[t]].type = "arbitration"
                    \/ SendPacketOut(t) /\ sent[t][nread[t]].type = "packet"
              \/ /\ Served(t)' = Served(t) \cup {nread[t] + 1}
                 /\ ReadRequest(t) /\ ~WriteArbitration(t) /\ ~SendPacketOut(t)
                 /\ sent'[t][nread[t] + 1].type = "other"
<1>a. hpc \in [Streams -> HandlerPCs] /\ nread \in [Streams -> Nat] BY DEF ChanTypeOK
<1>b. nread[t] \in Nat /\ Len(sent[t]) \in Nat /\ nread[t] <= Len(sent[t]) BY DEF ChanTypeOK
<1>0. /\ nread[t] \in Nat /\ Len(sent[t]) \in Nat /\ nread[t] <= Len(sent[t])
      /\ hpc \in [Streams -> HandlerPCs] /\ nread \in [Streams -> Nat]
  BY <1>a, <1>b
<1>1. Served(t) \subseteq 1..Len(sent[t]) BY <1>0 DEF Served
<1>2. \A i \in Served(t) : sent'[t][i] = sent[t][i] BY <1>1, SentGrows
<1>3. CASE WriteArbitration(t) \/ SendPacketOut(t)
  <2>1. hpc[t] \in {"write", "packetOut"} /\ hpc'[t] = "read" /\ nread'[t] = nread[t]
    BY <1>0, <1>3 DEF WriteArbitration, SendPacketOut, Goto
  <2>2. nread[t] > 0 BY <2>1 DEF HandlerInv
  <2>3. Served(t) = 1..(nread[t] - 1) /\ Served(t)' = 1..nread[t] BY <2>1 DEF Served
  <2>4. /\ Served(t)' = Served(t) \cup {nread[t]} /\ nread[t] \notin Served(t)
        /\ nread[t] \in 1..Len(sent[t]) /\ \A i \in Served(t) : i < nread[t]
    BY <1>0, <2>2, <2>3
  <2>5. \/ WriteArbitration(t) /\ sent[t][nread[t]].type = "arbitration"
        \/ SendPacketOut(t) /\ sent[t][nread[t]].type = "packet"
    BY <1>3 DEF HandlerInv, WriteArbitration, SendPacketOut
  <2>6. QED BY <1>1, <1>2, <2>4, <2>5, SentGrows
<1>4. CASE ReadRequest(t)
  <2>1. ~WriteArbitration(t) /\ ~SendPacketOut(t)
    BY <1>4 DEF ReadRequest, WriteArbitration, SendPacketOut
  <2>2. /\ nread[t] + 1 \in 1..Len(sent[t]) /\ nread'[t] = nread[t] + 1 /\ hpc[t] = "read"
        /\ \/ hpc'[t] \in {"write", "packetOut"}
           \/ sent[t][nread[t] + 1].type = "other" /\ hpc'[t] = "read"
    BY <1>4, ReadCases
  <2>3. Served(t) = 1..nread[t] BY <2>2 DEF Served
  <2>4. CASE hpc'[t] \in {"write", "packetOut"}
    <3>1. Served(t)' = 1..(nread'[t] - 1) BY <2>4 DEF Served
    <3>2. Served(t)' = Served(t) BY <1>0, <2>2, <2>3, <3>1
    <3>3. QED BY <1>1, <1>2, <2>1, <3>2
  <2>5. CASE sent[t][nread[t] + 1].type = "other" /\ hpc'[t] = "read"
    <3>1. Served(t)' = 1..(nread[t] + 1) BY <2>2, <2>5 DEF Served
    <3>2. Served(t)' = Served(t) \cup {nread[t] + 1} BY <1>0, <2>3, <3>1
    <3>3. sent'[t][nread[t] + 1] = sent[t][nread[t] + 1] BY <2>2, SentGrows
    <3>4. QED BY <1>1, <1>2, <1>4, <2>1, <2>5, <3>2, <3>3
  <2>6. QED BY <2>2, <2>4, <2>5
<1>5. CASE Handler(t) /\ ~ReadRequest(t) /\ ~WriteArbitration(t) /\ ~SendPacketOut(t)
  <2>1. /\ hpc[t] \notin {"write", "packetOut"} /\ hpc'[t] \notin {"write", "packetOut"}
        /\ nread'[t] = nread[t]
    BY <1>0, <1>5 DEF Handler, SetStreamLock, SetStream, ReadEnd, ClearStreamLock, ClearStream, Goto
  <2>2. Served(t)' = Served(t) BY <2>1 DEF Served
  <2>3. QED BY <1>1, <1>2, <1>5, <2>2
<1>6. CASE ~Handler(t)
  <2>1. nread'[t] = nread[t] /\ (hpc'[t] = hpc[t] \/ (hpc[t] = "idle" /\ hpc'[t] = "setLock"))
    BY <1>6, OtherSteps DEF Started
  <2>2. Served(t)' = Served(t) BY <2>1 DEF Served
  <2>3. ~WriteArbitration(t) /\ ~SendPacketOut(t) BY <1>6 DEF Handler
  <2>4. QED BY <1>1, <1>2, <2>2, <2>3
<1>7. QED BY <1>3, <1>4, <1>5, <1>6

\* What is written to a stream is a sequence of responses.
LEMMA OutboxType ==
    ASSUME ChanTypeOK, NEW t \in Streams
    PROVE  /\ outbox \in [Streams -> Seq(Responses)]
           /\ outbox[t] \in Seq(Responses) /\ Len(outbox[t]) \in Nat
<1>1. outbox \in [Streams -> Seq(Responses)] BY DEF ChanTypeOK
<1>2. outbox[t] \in Seq(Responses) BY <1>1
<1>3. QED BY <1>1, <1>2, LenProperties

\* Only a handler of its own answers arbitration on a stream.
LEMMA RepliesKept ==
    ASSUME ChanTypeOK, [Steps]_chanVars, NEW t \in Streams, ~WriteArbitration(t)
    PROVE  ArbitrationsIn(t)' = ArbitrationsIn(t)
<1> USE DEF connVars, handlerVars, lockVars, hostVars
<1>0. outbox \in [Streams -> Seq(Responses)] /\ outbox[t] \in Seq(Responses) /\ Len(outbox[t]) \in Nat
  BY OutboxType
<1>1. ASSUME outbox'[t] = outbox[t] PROVE ArbitrationsIn(t)' = ArbitrationsIn(t)
  BY <1>1 DEF ArbitrationsIn
<1>2. ASSUME NEW s \in Streams, Controller(s) PROVE outbox' = outbox
  BY <1>2 DEF Controller, Open, Send, WritesDone, Cancel, Receive
<1>3. ASSUME NEW s \in Streams, Handler(s) PROVE outbox'[t] = outbox[t]
  <2>1. CASE WriteArbitration(s)
    <3>1. s # t BY <2>1
    <3>2. QED BY <1>0, <2>1, <3>1 DEF WriteArbitration, Write
  <2>2. CASE ~WriteArbitration(s)
    BY <1>3, <2>2 DEF Handler, SetStreamLock, SetStream, ReadRequest, ReadEnd, SendPacketOut,
                      ClearStreamLock, ClearStream
  <2>3. QED BY <2>1, <2>2
<1>4. ASSUME NEW len \in Lengths, NEW port \in Ports, Punt(len, port) PROVE outbox' = outbox
  BY <1>4 DEF Punt
<1>5. ReceiveFrom \/ SendPktInLock \/ SendPktInCheck \/ Finished \/ UNCHANGED chanVars => outbox' = outbox
  BY DEF ReceiveFrom, SendPktInLock, SendPktInCheck, Finished, chanVars
<1>6. ASSUME SendPktInWrite PROVE ArbitrationsIn(t)' = ArbitrationsIn(t)
  <2>1. pkt \in Datagrams /\ pkt.len > HeaderSize /\ Write(stream_, PacketIn(pkt))
    BY <1>6 DEF SendPktInWrite, ChanTypeOK
  <2>2. PICK m : m = PacketIn(pkt) OBVIOUS
  <2>3. m.type = "packet" BY <2>1, <2>2, PacketInData
  <2>4. outbox'[t] = outbox[t] \/ outbox'[t] = Append(outbox[t], m)
    BY <1>0, <2>1, <2>2 DEF Write
  <2>5. CASE outbox'[t] = Append(outbox[t], m)
    <3>1. /\ Len(outbox'[t]) = Len(outbox[t]) + 1 /\ outbox'[t][Len(outbox[t]) + 1] = m
          /\ \A i \in 1..Len(outbox[t]) : outbox'[t][i] = outbox[t][i]
      BY <1>0, <2>5
    <3>2. QED BY <1>0, <2>3, <3>1 DEF ArbitrationsIn
  <2>6. QED BY <1>1, <2>4, <2>5
<1>7. QED BY <1>1, <1>2, <1>3, <1>4, <1>5, <1>6 DEF Steps, HostPathThread

\* A cancelled call stays cancelled.
LEMMA CancelledStays ==
    ASSUME ChanTypeOK, [Steps]_chanVars, NEW t \in Streams, conn[t] = "cancelled"
    PROVE  conn'[t] = "cancelled"
<1> USE DEF connVars, handlerVars, lockVars, hostVars
<1>1. ASSUME NEW s \in Streams, Controller(s) PROVE conn'[t] = "cancelled"
  BY <1>1 DEF Controller, Open, Send, WritesDone, Cancel, Receive, ChanTypeOK
<1>2. ASSUME NEW s \in Streams, Handler(s) PROVE conn' = conn
  BY <1>2 DEF Handler, SetStreamLock, SetStream, ReadRequest, ReadEnd, WriteArbitration,
              SendPacketOut, ClearStreamLock, ClearStream
<1>3. ASSUME NEW len \in Lengths, NEW port \in Ports, Punt(len, port) PROVE conn' = conn
  BY <1>3 DEF Punt
<1>4. HostPathThread \/ Finished \/ UNCHANGED chanVars => conn' = conn
  BY DEF HostPathThread, ReceiveFrom, SendPktInLock, SendPktInCheck, SendPktInWrite, Finished, chanVars
<1>5. QED BY <1>1, <1>2, <1>3, <1>4 DEF Steps

\* The inductive step for the replies to arbitration.
LEMMA ArbitrationStep ==
    ASSUME ChanTypeOK, Started, HandlerInv, ArbitrationAnswered, [Steps]_chanVars
    PROVE  ArbitrationAnswered'
<1> SUFFICES ASSUME NEW t \in Streams, conn'[t] # "cancelled"
             PROVE  Cardinality(ArbitrationsIn(t))' = Cardinality(ArbitrationsServed(t))'
  BY DEF ArbitrationAnswered
<1>0. conn[t] # "cancelled" BY CancelledStays
<1>1. Cardinality(ArbitrationsIn(t)) = Cardinality(ArbitrationsServed(t))
  BY <1>0 DEF ArbitrationAnswered
<1>2. CASE ~WriteArbitration(t)
  <2>1. ArbitrationsServed(t)' = ArbitrationsServed(t)
    <3>1. Served(t) \subseteq 1..Len(sent[t]) /\ \A i \in Served(t) : sent'[t][i] = sent[t][i]
      BY ServedStep
    <3>2. \/ Served(t)' = Served(t)
          \/ \E i : Served(t)' = Served(t) \cup {i} /\ sent'[t][i].type # "arbitration"
                    /\ (i \in Served(t) => sent[t][i].type # "arbitration")
      <4>1. \/ Served(t)' = Served(t)
            \/ /\ Served(t)' = Served(t) \cup {nread[t]} /\ nread[t] \notin Served(t)
               /\ sent'[t][nread[t]].type = "packet"
            \/ /\ Served(t)' = Served(t) \cup {nread[t] + 1}
               /\ sent'[t][nread[t] + 1].type = "other"
        <5>1. \/ Served(t)' = Served(t)
              \/ /\ Served(t)' = Served(t) \cup {nread[t]} /\ nread[t] \notin Served(t)
                 /\ sent'[t][nread[t]] = sent[t][nread[t]] /\ sent[t][nread[t]].type = "packet"
              \/ /\ Served(t)' = Served(t) \cup {nread[t] + 1}
                 /\ sent'[t][nread[t] + 1].type = "other"
          BY <1>2, ServedStep, Zenon
        <5>2. QED BY <5>1
      <4>2. QED BY <3>1, <4>1
    <3>3. QED BY <3>1, <3>2 DEF ArbitrationsServed
  <2>2. QED BY <1>1, <1>2, <2>1, RepliesKept
<1>3. CASE WriteArbitration(t)
  <2>1. outbox' = [outbox EXCEPT ![t] = Append(outbox[t], ArbitrationOK)]
    BY <1>0, <1>3 DEF WriteArbitration, Write
  <2>2. outbox[t] \in Seq(Responses) /\ Len(outbox[t]) \in Nat
        /\ outbox'[t] = Append(outbox[t], ArbitrationOK)
    BY <2>1, OutboxType
  <2>3. /\ Len(outbox'[t]) = Len(outbox[t]) + 1 /\ outbox'[t][Len(outbox[t]) + 1] = ArbitrationOK
        /\ \A i \in 1..Len(outbox[t]) : outbox'[t][i] = outbox[t][i]
    BY <2>2
  <2>4. ArbitrationOK.type = "arbitration" BY DEF ArbitrationOK
  <2>5. /\ ArbitrationsIn(t)' = ArbitrationsIn(t) \cup {Len(outbox[t]) + 1}
        /\ Len(outbox[t]) + 1 \notin ArbitrationsIn(t)
    BY <2>2, <2>3, <2>4 DEF ArbitrationsIn
  <2>6. /\ Served(t) \subseteq 1..Len(sent[t]) /\ \A i \in Served(t) : sent'[t][i] = sent[t][i]
        /\ Served(t)' = Served(t) \cup {nread[t]} /\ nread[t] \notin Served(t)
        /\ sent'[t][nread[t]].type = "arbitration"
    <3>1. hpc[t] = "write" /\ ~SendPacketOut(t) BY <1>3 DEF WriteArbitration, SendPacketOut
    <3>2. QED BY <1>3, <3>1, ServedStep
  <2>7. ArbitrationsServed(t)' = ArbitrationsServed(t) \cup {nread[t]} /\ nread[t] \notin ArbitrationsServed(t)
    BY <2>6 DEF ArbitrationsServed
  <2>8. IsFiniteSet(ArbitrationsIn(t)) /\ IsFiniteSet(ArbitrationsServed(t))
    <3>1. IsFiniteSet(1..Len(outbox[t])) /\ IsFiniteSet(1..Len(sent[t]))
      BY FS_Interval DEF ChanTypeOK
    <3>2. ArbitrationsIn(t) \in SUBSET (1..Len(outbox[t])) /\ ArbitrationsServed(t) \in SUBSET (1..Len(sent[t]))
      BY <2>6 DEF ArbitrationsIn, ArbitrationsServed
    <3>3. QED BY <3>1, <3>2, FS_Subset
  <2>9. /\ Cardinality(ArbitrationsIn(t) \cup {Len(outbox[t]) + 1}) = Cardinality(ArbitrationsIn(t)) + 1
        /\ Cardinality(ArbitrationsServed(t) \cup {nread[t]}) = Cardinality(ArbitrationsServed(t)) + 1
    BY <2>5, <2>7, <2>8, FS_AddElement
  <2>10. QED BY <1>1, <2>5, <2>7, <2>9
<1>4. QED BY <1>2, <1>3

\* What is known of handlers, for the invariants about what they serve.
ServeInv == IInv /\ HandlerInv

LEMMA ServeInvariant == Spec => []ServeInv
<1>1. Init => HandlerInv BY DEF Init, HandlerInv
<1>2. IInv /\ HandlerInv /\ [Steps]_chanVars => HandlerInv'
  BY HandlerStep DEF IInv
<1>3. QED BY <1>1, <1>2, PointerInvariant, StepShape, PTL DEF Spec, ServeInv

\* Every arbitration request that a handler has served was answered exactly once
\* on its own stream, whichever stream is registered, unless the call was
\* cancelled: for every number of streams, controllers and requests.
THEOREM ArbitrationsAnswered == Spec => []ArbitrationAnswered
<1>1. Init => ArbitrationAnswered
  <2> SUFFICES ASSUME Init, NEW s \in Streams
               PROVE  ArbitrationsIn(s) = {} /\ ArbitrationsServed(s) = {}
    BY DEF ArbitrationAnswered
  <2>1. Len(outbox[s]) = 0 /\ Served(s) = 1..0 BY DEF Init, Served
  <2>2. QED BY <2>1 DEF ArbitrationsIn, ArbitrationsServed
<1>2. ServeInv /\ ArbitrationAnswered /\ [Steps]_chanVars => ArbitrationAnswered'
  BY ArbitrationStep DEF ServeInv, IInv
<1>3. QED BY <1>1, <1>2, ServeInvariant, StepShape, PTL DEF Spec

-----------------------------------------------------------------------------
(* Packet-outs.  The function that leads from requests to the packets in    *)
(* the device is extended by one pair whenever a handler forwards one.      *)

\* What is injected for a well-formed packet-out carries it.
LEMMA InjectCarries ==
    ASSUME NEW s \in Streams, NEW p \in Requests, p.len > CpuHeaderSize
    PROVE  Carries(Inject(s, p), p) /\ Inject(s, p).from = s
<1>0. RequestOK(p) OBVIOUS
<1>1. PICK e : e = Inject(s, p) OBVIOUS
<1>2. PICK port : port = Ntohs(p.port, 1) OBVIOUS
<1>3. /\ port \in Uint16 /\ e.size \in Uint16 /\ e.from = s
      /\ e.hdr = HeaderSerialize(e.size, 0, port)
      /\ Fits(p) => e.size = HeaderSize + (p.len - CpuHeaderSize)
  BY <1>0, <1>1, <1>2, InjectShape
<1>4. <<e.hdr[7], e.hdr[8]>> = p.port
  <2>1. p.port \in Byte \X Byte BY <1>0 DEF RequestOK
  <2>2. High(port) = p.port[1] /\ Low(port) = p.port[2] BY <1>2, <2>1, HtonsNtohs
  <2>3. e.hdr[7] = High(port) /\ e.hdr[8] = Low(port) BY <1>3 DEF HeaderSerialize
  <2>4. p.port = <<p.port[1], p.port[2]>> BY <2>1
  <2>5. QED BY <2>2, <2>3, <2>4
<1>5. HeaderParse(e.hdr) = [dir |-> PacketDirTransmit, total |-> e.size, sandbox |-> 0, port |-> port]
  <2>1. 0 \in Uint16 BY DEF Uint16
  <2>2. QED BY <1>3, <2>1, HeaderRoundTrip
<1>6. Fits(p) => e.size - HeaderSize = p.len - CpuHeaderSize
  <2>1. p.len - CpuHeaderSize \in Nat BY <1>0, DataSize
  <2>2. \A n \in Nat : (HeaderSize + n) - HeaderSize = n BY DEF HeaderSize
  <2>3. QED BY <1>3, <2>1, <2>2
<1>7. /\ HeaderParse(e.hdr).dir = PacketDirTransmit /\ HeaderParse(e.hdr).total = e.size
      /\ HeaderParse(e.hdr).sandbox = 0
  BY <1>5
<1>8. Carries(e, p) BY <1>4, <1>6, <1>7 DEF Carries
<1>9. QED BY <1>1, <1>3, <1>8

\* Only the handler of t injects packets of stream t, and what was injected
\* stays where it is.
LEMMA InjectedKept ==
    ASSUME ChanTypeOK, [Steps]_chanVars, NEW t \in Streams, ~SendPacketOut(t)
    PROVE  Injected(t)' = Injected(t) /\ \A k \in Injected(t) : device'[k] = device[k]
<1> USE DEF connVars, handlerVars, lockVars, hostVars
<1> DEFINE Goal == Injected(t)' = Injected(t) /\ \A k \in Injected(t) : device'[k] = device[k]
<1>0. ASSUME device' = device PROVE Goal BY <1>0 DEF Injected
<1>1. ASSUME NEW s \in Streams, Controller(s) PROVE device' = device
  BY <1>1 DEF Controller, Open, Send, WritesDone, Cancel, Receive
<1>2. ASSUME NEW s \in Streams, Handler(s), ~SendPacketOut(s) PROVE device' = device
  BY <1>2 DEF Handler, SetStreamLock, SetStream, ReadRequest, ReadEnd, WriteArbitration,
              ClearStreamLock, ClearStream
<1>3. ASSUME NEW s \in Streams, SendPacketOut(s) PROVE Goal
  <2>1. s # t BY <1>3
  <2>2. PICK p : p = PacketOut(s) OBVIOUS
  <2>3. device' = device \/ device' = Append(device, Inject(s, p)) BY <1>3, <2>2 DEF SendPacketOut
  <2>4. CASE device' = Append(device, Inject(s, p))
    <3>1. PICK e : e = Inject(s, p) OBVIOUS
    <3>2. e.from = s BY <3>1 DEF Inject
    <3>3. device \in Seq(InjectedPackets) BY DEF ChanTypeOK, InjectedPackets
    <3>4. /\ Len(device) \in Nat /\ Len(device') = Len(device) + 1 /\ device'[Len(device) + 1] = e
          /\ \A k \in 1..Len(device) : device'[k] = device[k]
      BY <2>4, <3>1, <3>3
    <3>5. QED BY <2>1, <3>2, <3>4 DEF Injected
  <2>5. QED BY <1>0, <2>3, <2>4
<1>4. ASSUME NEW len \in Lengths, NEW port \in Ports, Punt(len, port) PROVE device' = device
  BY <1>4 DEF Punt
<1>5. HostPathThread \/ Finished \/ UNCHANGED chanVars => device' = device
  BY DEF HostPathThread, ReceiveFrom, SendPktInLock, SendPktInCheck, SendPktInWrite, Finished, chanVars
<1>6. QED BY <1>0, <1>1, <1>2, <1>3, <1>4, <1>5 DEF Steps

\* The inductive step for packet-outs.
LEMMA PacketOutStep ==
    ASSUME ChanTypeOK, Started, HandlerInv, PacketOutFaithful, [Steps]_chanVars
    PROVE  PacketOutFaithful'
<1> SUFFICES ASSUME NEW t \in Streams
             PROVE  \E f \in [GoodServed(t)' -> Injected(t)'] : Forwards(f, t)'
  BY DEF PacketOutFaithful
<1>1. PICK f \in [GoodServed(t) -> Injected(t)] : Forwards(f, t) BY DEF PacketOutFaithful
<1>2. Served(t) \subseteq 1..Len(sent[t]) /\ \A i \in Served(t) : sent'[t][i] = sent[t][i]
  BY ServedStep
<1>3. ASSUME GoodServed(t)' = GoodServed(t), Injected(t)' = Injected(t),
             \A k \in Injected(t) : device'[k] = device[k]
      PROVE  \E g \in [GoodServed(t)' -> Injected(t)'] : Forwards(g, t)'
  <2>1. \A i \in GoodServed(t) : i \in Served(t) /\ f[i] \in Injected(t) BY <1>1 DEF GoodServed
  <2>2. \A i \in GoodServed(t) : Carries(device'[f[i]], sent'[t][i])
    BY <1>1, <1>2, <1>3, <2>1 DEF Forwards
  <2>3. Forwards(f, t)' BY <1>1, <1>3, <2>2 DEF Forwards
  <2>4. QED BY <1>1, <1>3, <2>3
<1>4. CASE ~SendPacketOut(t)
  <2>1. \/ Served(t)' = Served(t)
        \/ \E i : Served(t)' = Served(t) \cup {i} /\ sent'[t][i].type # "packet"
                  /\ (i \in Served(t) => sent[t][i].type # "packet")
    BY <1>4, ServedStep
  <2>2. GoodServed(t)' = GoodServed(t) BY <1>2, <2>1 DEF GoodServed, WellFormed
  <2>3. QED BY <1>3, <1>4, <2>2, InjectedKept
<1>5. CASE SendPacketOut(t)
  <2>0. PICK p : p = PacketOut(t) /\ p = sent[t][nread[t]] BY DEF PacketOut
  <2>1. /\ Served(t)' = Served(t) \cup {nread[t]} /\ nread[t] \notin Served(t)
        /\ nread[t] \in 1..Len(sent[t]) /\ \A i \in Served(t) : i < nread[t]
        /\ sent'[t][nread[t]] = p /\ p.type = "packet"
    <3>1. ~WriteArbitration(t) BY <1>5 DEF WriteArbitration, SendPacketOut
    <3>2. QED BY <1>5, <2>0, <3>1, ServedStep
  <2>2. p \in Requests BY <2>0, <2>1 DEF ChanTypeOK
  <2>3. p.len \in Nat /\ CpuHeaderSize \in Nat
    <3>1. RequestOK(p) BY <2>2
    <3>2. p.len \in Nat BY <3>1, LenType
    <3>3. CpuHeaderSize \in Nat BY DEF CpuHeaderSize
    <3>4. QED BY <3>2, <3>3
  <2>4. CASE Malformed(p)
    <3>1. device' = device BY <1>5, <2>0, <2>4 DEF SendPacketOut
    <3>2. ~WellFormed(p) BY <2>3, <2>4 DEF WellFormed, Malformed
    <3>3. GoodServed(t)' = GoodServed(t) BY <1>2, <2>1, <3>2 DEF GoodServed
    <3>4. QED BY <1>3, <3>1, <3>3 DEF Injected
  <2>5. CASE ~Malformed(p)
    <3>0. p.len > CpuHeaderSize /\ p.zeroed
      <4>1. RequestOK(p) BY <2>2
      <4>2. QED BY <2>5, <4>1, NotMalformed
    <3>1. PICK e : e = Inject(t, p) OBVIOUS
    <3>2. device' = Append(device, e) BY <1>5, <2>0, <2>5, <3>1 DEF SendPacketOut
    <3>3. Carries(e, p) /\ e.from = t BY <2>2, <3>0, <3>1, InjectCarries
    <3>4. device \in Seq(InjectedPackets) BY DEF ChanTypeOK, InjectedPackets
    <3>5. PICK n \in Nat : n = Len(device) BY <3>4
    <3>6. /\ Len(device') = n + 1 /\ device'[n + 1] = e
          /\ \A k \in 1..n : device'[k] = device[k]
      BY <3>2, <3>4, <3>5
    <3>7. Injected(t)' = Injected(t) \cup {n + 1} /\ \A k \in Injected(t) : k \in 1..n
      BY <3>3, <3>5, <3>6 DEF Injected
    <3>8. WellFormed(p) BY <2>1, <3>0 DEF WellFormed
    <3>9. /\ GoodServed(t)' = GoodServed(t) \cup {nread[t]}
          /\ \A i \in GoodServed(t) : i \in Served(t) /\ i < nread[t] /\ i # nread[t]
      BY <1>2, <2>0, <2>1, <3>8 DEF GoodServed
    <3>g. PICK g : g = [i \in GoodServed(t)' |-> IF i = nread[t] THEN n + 1 ELSE f[i]]
      OBVIOUS
    <3>10. g[nread[t]] = n + 1 BY <3>9, <3>g
    <3>11. \A i \in GoodServed(t) : g[i] = f[i] /\ f[i] \in Injected(t) BY <1>1, <3>9, <3>g
    <3>12. g \in [GoodServed(t)' -> Injected(t)'] BY <3>7, <3>9, <3>10, <3>11, <3>g
    <3>13. ASSUME NEW i \in GoodServed(t)' PROVE Carries(device'[g[i]], sent'[t][i])
      <4>1. CASE i = nread[t] BY <2>1, <3>3, <3>6, <3>10, <4>1
      <4>2. CASE i \in GoodServed(t)
        <5>1. device'[g[i]] = device[f[i]] BY <3>6, <3>7, <3>11, <4>2
        <5>2. sent'[t][i] = sent[t][i] BY <1>2, <3>9, <4>2
        <5>3. QED BY <1>1, <4>2, <5>1, <5>2 DEF Forwards
      <4>3. QED BY <3>9, <4>1, <4>2
    <3>14. ASSUME NEW i \in GoodServed(t)', NEW j \in GoodServed(t)', i < j PROVE g[i] < g[j]
      <4>0. nread[t] \in Nat BY DEF ChanTypeOK
      <4>1. i \in GoodServed(t)
        <5>1. CASE i = nread[t]
          <6>1. j = nread[t] \/ (j \in 1..Len(sent[t]) /\ j < nread[t]) BY <1>2, <3>9
          <6>2. QED BY <3>14, <4>0, <5>1, <6>1
        <5>2. QED BY <3>9, <5>1
      <4>2. CASE j = nread[t] BY <3>5, <3>7, <3>10, <3>11, <4>1, <4>2
      <4>3. CASE j \in GoodServed(t) BY <1>1, <3>11, <3>14, <4>1, <4>3 DEF Forwards
      <4>4. QED BY <3>9, <4>2, <4>3
    <3>15. ASSUME NEW k \in Injected(t)' PROVE \E i \in GoodServed(t)' : g[i] = k
      <4>1. CASE k = n + 1 BY <3>9, <3>10, <4>1
      <4>2. CASE k \in Injected(t)
        <5>1. PICK i \in GoodServed(t) : f[i] = k BY <1>1, <4>2 DEF Forwards
        <5>2. QED BY <3>9, <3>11, <5>1
      <4>3. QED BY <3>7, <4>1, <4>2
    <3>16. Forwards(g, t)' BY <3>13, <3>14, <3>15 DEF Forwards
    <3>17. QED BY <3>12, <3>16
  <2>6. QED BY <2>4, <2>5
<1>6. QED BY <1>4, <1>5

\* The device gets exactly the well-formed packet-outs that handlers have
\* served, each once, in the order its controller sent them, with their port and
\* all of their data: for every number of streams and every interleaving.
THEOREM PacketOutsFaithful == Spec => []PacketOutFaithful
<1>1. Init => PacketOutFaithful
  <2> SUFFICES ASSUME Init, NEW s \in Streams
               PROVE  \E f \in [GoodServed(s) -> Injected(s)] : Forwards(f, s)
    BY DEF PacketOutFaithful
  <2>1. Len(device) = 0 /\ Served(s) = 1..0 BY DEF Init, Served
  <2>2. GoodServed(s) = {} /\ Injected(s) = {} BY <2>1 DEF GoodServed, Injected
  <2>3. [i \in {} |-> 0] \in [GoodServed(s) -> Injected(s)] BY <2>2
  <2>4. Forwards([i \in {} |-> 0], s) BY <2>2 DEF Forwards
  <2>5. QED BY <2>3, <2>4
<1>2. ServeInv /\ PacketOutFaithful /\ [Steps]_chanVars => PacketOutFaithful'
  BY PacketOutStep DEF ServeInv, IInv
<1>3. QED BY <1>1, <1>2, ServeInvariant, StepShape, PTL DEF Spec
=============================================================================
