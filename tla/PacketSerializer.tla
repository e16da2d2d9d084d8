--------------------------- MODULE PacketSerializer ---------------------------
(***************************************************************************)
(* serializePacket and deserializePacket: a packet as bytes.  A buffer is a     *)
(* function from offsets to bytes, as DataView and Uint8Array see it; an id is    *)
(* the sequence of its character codes, below 128, of which each is one byte of    *)
(* UTF-8.  Numbers wrap as setUint8 and setUint32 wrap them.                     *)
(***************************************************************************)
EXTENDS Integers, Sequences

Byte   == 0..255
Uint32 == {n \in Nat : ((n \div 256) \div 256) \div 256 \in Byte}   \* four bytes
Char   == 0..127
Space  == 32
White  == 9..13 \cup {Space}    \* what trim takes off: tab, LF, VT, FF, CR and space

HeaderSize == 49
IdSize     == 36

TransferPacket ==
    [packetType: 0..7, transferId: Seq(Char), chunkIndex: Nat, totalChunks: Nat,
     payload: Seq(Byte)]

-------------------------------------------------------------------------------
(* setUint32 and getUint32, big endian: byte i of four.                          *)
Uint32Byte(n, i) ==
    CASE i = 0 -> (((n \div 256) \div 256) \div 256) % 256
      [] i = 1 -> ((n \div 256) \div 256) % 256
      [] i = 2 -> (n \div 256) % 256
      [] i = 3 -> n % 256

GetUint32(buffer, o) ==
    ((buffer[o] * 256 + buffer[o + 1]) * 256 + buffer[o + 2]) * 256 + buffer[o + 3]

(* padEnd(36, ' '), cut to 36 bytes; trim takes white space off both ends of those. *)
Pad(id) == [i \in 1..IdSize |-> IF i <= Len(id) THEN id[i] ELSE Space]

Inner(text) == {i \in 1..IdSize : text[i] \notin White}

Trim(text) ==
    IF Inner(text) = {} THEN <<>>
    ELSE LET a == CHOOSE i \in Inner(text) : \A j \in Inner(text) : i <= j
             z == CHOOSE i \in Inner(text) : \A j \in Inner(text) : j <= i
         IN  [i \in 1..(z - a + 1) |-> text[a + i - 1]]

ByteAt(p, o) ==
    IF      o = 0  THEN p.packetType % 256
    ELSE IF o < 37 THEN Pad(p.transferId)[o]
    ELSE IF o < 41 THEN Uint32Byte(p.chunkIndex, o - 37)
    ELSE IF o < 45 THEN Uint32Byte(p.totalChunks, o - 41)
    ELSE IF o < 49 THEN Uint32Byte(Len(p.payload), o - 45)
    ELSE p.payload[o - 48]

SerializePacket(p) == [o \in 0..(HeaderSize + Len(p.payload) - 1) |-> ByteAt(p, o)]

(* Of a buffer of the given size, which holds a header.  slice stops at the end.  *)
DeserializePacket(buffer, size) ==
    LET length == GetUint32(buffer, 45)
        there  == size - HeaderSize
    IN [packetType  |-> buffer[0],
        transferId  |-> Trim([i \in 1..IdSize |-> buffer[i]]),
        chunkIndex  |-> GetUint32(buffer, 37),
        totalChunks |-> GetUint32(buffer, 41),
        payload     |-> [i \in 1..(IF length < there THEN length ELSE there)
                            |-> buffer[48 + i]]]

-------------------------------------------------------------------------------
(* What the engine sends: an id as crypto.randomUUID makes it, or any other that     *)
(* fits and has no white space at its ends; numbers and lengths that fit in 32 bits.   *)
Fits(p) ==
    /\ p \in TransferPacket
    /\ Len(p.transferId) \in 1..IdSize
    /\ p.transferId[1] \notin White /\ p.transferId[Len(p.transferId)] \notin White
    /\ p.chunkIndex \in Uint32 /\ p.totalChunks \in Uint32
    /\ Len(p.payload) \in Uint32
===============================================================================
