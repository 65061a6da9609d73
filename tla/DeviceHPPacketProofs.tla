------------------------ MODULE DeviceHPPacketProofs ------------------------
(***************************************************************************)
(* Proofs about the codec of DeviceHPPacket, for every 16-bit field.       *)
(***************************************************************************)
EXTENDS DeviceHPPacket, SequenceTheorems, TLAPS

\* The two bytes of a uint16_t, from which it is put together again.
LEMMA Halves ==
    ASSUME NEW n \in Uint16
    PROVE  High(n) \in Byte /\ Low(n) \in Byte /\ 256 * High(n) + Low(n) = n
BY DEF Uint16, Byte, High, Low

\* Two bytes are put together to a uint16_t, and htons gives the same two back.
LEMMA HtonsNtohs ==
    ASSUME NEW port \in Byte \X Byte
    PROVE  /\ Ntohs(port, 1) \in Uint16
           /\ High(Ntohs(port, 1)) = port[1] /\ Low(Ntohs(port, 1)) = port[2]
<1>1. PICK a \in Byte, b \in Byte : port = <<a, b>> OBVIOUS
<1>2. a \in Nat /\ b \in Nat /\ a < 256 /\ b < 256 BY DEF Byte
<1>3. Ntohs(port, 1) = 256 * a + b BY <1>1 DEF Ntohs
<1>4. 256 * a + b \in Uint16 BY <1>2 DEF Uint16
<1>5. (256 * a + b) \div 256 = a /\ (256 * a + b) % 256 = b BY <1>2
<1>6. QED BY <1>1, <1>3, <1>4, <1>5 DEF High, Low

\* What htons puts in two bytes is what ntohs reads from them.
LEMMA NtohsHtons ==
    ASSUME NEW n \in Uint16
    PROVE  Ntohs(Htons(n), 1) = n
BY Halves DEF Htons, Ntohs

\* A serialized header is a header.
LEMMA HeaderType ==
    ASSUME NEW total \in Uint16, NEW sandbox \in Uint16, NEW port \in Uint16
    PROVE  HeaderSerialize(total, sandbox, port) \in Header
<1>1. {High(total), Low(total), High(sandbox), Low(sandbox), High(port), Low(port)} \subseteq Byte
  BY Halves
<1>2. QED BY <1>1 DEF HeaderSerialize, Header, HeaderSize, Byte, PacketDirTransmit

\* headerParse gives back the fields that headerSerialize was given.
THEOREM HeaderRoundTrip ==
    ASSUME NEW total \in Uint16, NEW sandbox \in Uint16, NEW port \in Uint16
    PROVE  HeaderParse(HeaderSerialize(total, sandbox, port)) =
             [dir |-> PacketDirTransmit, total |-> total, sandbox |-> sandbox, port |-> port]
<1> DEFINE hdr == HeaderSerialize(total, sandbox, port)
<1>1. hdr[1] = 8 /\ hdr[3] = High(total) /\ hdr[4] = Low(total) /\ hdr[5] = High(sandbox)
      /\ hdr[6] = Low(sandbox) /\ hdr[7] = High(port) /\ hdr[8] = Low(port)
  BY DEF HeaderSerialize, PacketDirTransmit
<1>2. Ntohs(hdr, 3) = total /\ Ntohs(hdr, 5) = sandbox /\ Ntohs(hdr, 7) = port
  BY <1>1, Halves DEF Ntohs
<1>3. (hdr[1] \div 8) % 2 = PacketDirTransmit
  BY <1>1 DEF PacketDirTransmit
<1>4. QED BY <1>2, <1>3 DEF HeaderParse

\* createTransmit writes the length of the datagram into its header.
LEMMA TransmitShape ==
    ASSUME NEW n, NEW sandbox, NEW port, NEW total,
           total = (HeaderSize + (n % 65536)) % 65536
    PROVE  CreateTransmit(n, sandbox, port)
             = [size |-> total, hdr |-> HeaderSerialize(total, sandbox, port)]
BY DEF CreateTransmit

\* createTransmit sends all of its data: the 16-bit sums do not wrap as long as
\* the header and the data have a length that fits the header's field.
LEMMA TransmitAll ==
    ASSUME NEW n \in Nat, HeaderSize + n \in Uint16, NEW sandbox, NEW port
    PROVE  CreateTransmit(n, sandbox, port)
             = [size |-> HeaderSize + n, hdr |-> HeaderSerialize(HeaderSize + n, sandbox, port)]
<1>1. n % 65536 = n
  BY SMT DEF HeaderSize, Uint16
<1>2. (HeaderSize + n) % 65536 = HeaderSize + n
  BY SMT DEF HeaderSize, Uint16
<1>3. QED BY <1>1, <1>2, SMT DEF CreateTransmit

\* createReceive keeps the length of the data in the same way.
LEMMA ReceiveAll ==
    ASSUME NEW n \in Nat, HeaderSize + n \in Uint16
    PROVE  CreateReceive(n) = n
<1>1. n % 65536 = n
  BY SMT DEF HeaderSize, Uint16
<1>2. (HeaderSize + n) % 65536 = HeaderSize + n
  BY SMT DEF HeaderSize, Uint16
<1>3. QED BY <1>1, <1>2, SMT DEF CreateReceive, HeaderSize
=============================================================================
