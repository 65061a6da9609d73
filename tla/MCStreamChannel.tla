--------------------------- MODULE MCStreamChannel ---------------------------
(***************************************************************************)
(* Small instances of StreamChannel for TLC.                               *)
(***************************************************************************)
EXTENDS StreamChannel, TLC

Arbitration == [type |-> "arbitration", len |-> 0, zeroed |-> TRUE, port |-> <<0, 0>>]
Packet(len, zeroed) == [type |-> "packet", len |-> len, zeroed |-> zeroed, port |-> <<1, 2>>]

\* The length of a packet-out that is sent as a datagram of the given size.
LenOf(size) == size - HeaderSize + CpuHeaderSize

\* Every case of the switch, both sides of each check of sendPacketOut, the
\* longest packet-out that makes a datagram, the first that makes none, and one
\* whose length wraps.  The bytes of port 258 differ.
MCRequests ==
    {Arbitration, [Arbitration EXCEPT !.type = "other"],
     Packet(12, TRUE), Packet(13, TRUE), Packet(14, FALSE),
     Packet(LenOf(MaxDatagram), TRUE), Packet(LenOf(MaxDatagram + 1), TRUE),
     Packet(LenOf(65536 + 9), TRUE)}

\* Enough where only the stream pointer matters.
MCArbitration == {Arbitration}

\* A header-only datagram, and one with a byte of data.
MCLengths == {8, 9}
\* A header alone, the last length that fits the receive buffer, and the first
\* that does not.
MCDataOnly == {HeaderSize, BufferSize, BufferSize + 1}

\* The RPCs are interchangeable (safety runs only).
MCSymmetry == Permutations(Streams)
=============================================================================
