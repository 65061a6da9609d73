---------------------------- MODULE DeviceHPPacket ----------------------------
(***************************************************************************)
(* The eight-byte header of the datagrams that JP4Agent and the packet I/O *)
(* of the device exchange, with the widths of the code.  A header is the   *)
(* sequence of its bytes; the data that follows is only counted.           *)
(***************************************************************************)
EXTENDS Naturals, Sequences

HeaderSize == 8          \* DeviceHPPacket::_headerSize
PacketDirReceive == 0    \* from the device
PacketDirTransmit == 1   \* to the device

Byte == 0..255
Uint16 == {n \in Nat : n < 65536}
Header == [1..HeaderSize -> Byte]

\* The bytes of a uint16_t: htons puts them in this order, and ntohs reads the
\* two at position i.
High(n) == n \div 256
Low(n) == n % 256
Htons(n) == <<High(n), Low(n)>>
Ntohs(hdr, i) == 256 * hdr[i] + hdr[i + 1]

\* headerSerialize: version 0 and the direction in the first byte, the reason
\* in the second, then three 16-bit fields.
HeaderSerialize(total, sandbox, port) ==
    <<8 * PacketDirTransmit, 0,
      High(total), Low(total), High(sandbox), Low(sandbox), High(port), Low(port)>>

\* headerParse; the code reads the total length and does not keep it.
HeaderParse(hdr) ==
    [dir |-> (hdr[1] \div 8) % 2, total |-> Ntohs(hdr, 3),
     sandbox |-> Ntohs(hdr, 5), port |-> Ntohs(hdr, 7)]

\* createTransmit: dataSize is passed as a uint16_t and so is the total length,
\* which is also the size of the buffer and of the datagram.
CreateTransmit(dataSize, sandbox, port) ==
    LET total == (HeaderSize + (dataSize % 65536)) % 65536 IN
    [size |-> total, hdr |-> HeaderSerialize(total, sandbox, port)]

\* createReceive: the size of the data that dataSize() returns.
CreateReceive(dataSize) ==
    ((HeaderSize + (dataSize % 65536)) % 65536) - HeaderSize
=============================================================================
