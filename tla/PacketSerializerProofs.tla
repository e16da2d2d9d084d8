------------------------ MODULE PacketSerializerProofs ------------------------
(* What the receiver reads of a buffer is the packet the sender wrote.             *)
EXTENDS PacketSerializer, SequenceTheorems, TLAPS

(* A number of 32 bits is the number its four bytes make (packet-serializer, 44,    *)
(* 47, 50 and 78-84).                                                            *)
LEMMA Uint32Bytes ==
    ASSUME NEW n \in Uint32
    PROVE  ((Uint32Byte(n, 0) * 256 + Uint32Byte(n, 1)) * 256 + Uint32Byte(n, 2)) * 256
              + Uint32Byte(n, 3) = n
<1>. DEFINE c == n \div 256
            b == c \div 256
            a == b \div 256
<1>1. n \in Nat /\ a \in 0..255
  BY SMT DEF Uint32, Byte
<1>2. c \in Nat /\ n = (c * 256) + (n % 256) /\ n % 256 \in Nat
  BY <1>1, SMT
<1>3. b \in Nat /\ c = (b * 256) + (c % 256) /\ c % 256 \in Nat
  BY <1>2, SMT
<1>4. a \in Nat /\ b = (a * 256) + (b % 256) /\ b % 256 \in Nat
  BY <1>3, SMT
<1>5. a % 256 = a
  BY <1>1, SMT
<1>6. /\ Uint32Byte(n, 0) = a % 256 /\ Uint32Byte(n, 1) = b % 256
      /\ Uint32Byte(n, 2) = c % 256 /\ Uint32Byte(n, 3) = n % 256
  BY SMT DEF Uint32Byte
<1>. HIDE DEF a, b, c
<1>. QED
  BY <1>1, <1>2, <1>3, <1>4, <1>5, <1>6, SMT

(* Trimming undoes padding (packet-serializer, 40 and 75).                          *)
LEMMA TrimPad ==
    ASSUME NEW id \in Seq(Char), Len(id) \in 1..IdSize,
           id[1] \notin White, id[Len(id)] \notin White
    PROVE  Trim(Pad(id)) = id
<1>. DEFINE P == Pad(id)
            L == Len(id)
            a == CHOOSE i \in Inner(P) : \A j \in Inner(P) : i <= j
            z == CHOOSE i \in Inner(P) : \A j \in Inner(P) : j <= i
<1>. HIDE DEF P, a, z
<1>1. L \in Nat /\ 1 <= L /\ L <= 36
  <2>1. L \in 1..36
    BY Zenon DEF IdSize
  <2>. HIDE DEF L
  <2>. QED
    BY <2>1, SMT
<1>2. id = [i \in 1..L |-> id[i]]
  <2>1. id \in [1..Len(id) -> Char]
    BY LenProperties
  <2>. QED
    BY <2>1, Zenon
<1>3. P = [i \in 1..36 |-> IF i <= L THEN id[i] ELSE Space]
  BY Zenon DEF Pad, IdSize, P
<1>4. \A i \in 1..36 : P[i] = IF i <= L THEN id[i] ELSE Space
  BY <1>3, Zenon
<1>5. Inner(P) = {i \in 1..36 : P[i] \notin White}
  BY Zenon DEF Inner, IdSize
<1>6. id[1] \notin White /\ id[L] \notin White
  OBVIOUS
<1>. HIDE DEF L
<1>7. 1 \in Inner(P) /\ L \in Inner(P)
  <2>1. 1 \in 1..36 /\ L \in 1..36 /\ 1 <= L /\ L <= L
    BY <1>1, SMT
  <2>2. P[1] = id[1] /\ P[L] = id[L]
    BY <2>1, <1>4, Zenon
  <2>. QED
    BY <2>1, <2>2, <1>5, <1>6, Zenon
<1>8. \A j \in Inner(P) : j \in Nat /\ 1 <= j /\ j <= L
  <2>. SUFFICES ASSUME NEW j \in Inner(P) PROVE j \in Nat /\ 1 <= j /\ j <= L
    OBVIOUS
  <2>1. j \in 1..36 /\ P[j] # Space
    <3>1. Space \in White
      BY Zenon DEF White
    <3>. QED
      BY <3>1, <1>5, Zenon
  <2>2. j <= L
    BY <2>1, <1>4, Zenon
  <2>. QED
    BY <2>1, <2>2, SMT
<1>9. a = 1
  <2>1. \A j \in Inner(P) : 1 <= j
    BY <1>8
  <2>2. a \in Inner(P) /\ \A j \in Inner(P) : a <= j
    BY <2>1, <1>7, Zenon DEF a
  <2>. QED
    BY <1>7, <1>8, <2>2, SMT
<1>10. z = L
  <2>1. \A j \in Inner(P) : j <= L
    BY <1>8
  <2>2. z \in Inner(P) /\ \A j \in Inner(P) : j <= z
    BY <2>1, <1>7, Zenon DEF z
  <2>. QED
    BY <1>1, <1>7, <1>8, <2>2, SMT
<1>11. Trim(P) = [i \in 1..(z - a + 1) |-> P[a + i - 1]]
  BY <1>7, Zenon DEF Trim, a, z
<1>12. \A i \in 1..L : P[1 + i - 1] = id[i]
  <2>. SUFFICES ASSUME NEW i \in 1..L PROVE P[1 + i - 1] = id[i]
    OBVIOUS
  <2>1. i \in 1..36 /\ i <= L /\ 1 + i - 1 = i
    BY <1>1, SMT
  <2>. QED
    BY <2>1, <1>4, Zenon
<1>13. L - 1 + 1 = L
  BY <1>1, SMT
<1>14. Trim(P) = [i \in 1..L |-> id[i]]
  BY <1>9, <1>10, <1>11, <1>12, <1>13, Zenon
<1>. QED
  BY <1>2, <1>14, Zenon DEF P

(* RoundTrip: whatever its type, id, numbers and payload, a packet that fits is read  *)
(* as it was written, so that the engine may be modelled with packets that are         *)
(* records.                                                                      *)
THEOREM RoundTrip ==
    ASSUME NEW p, Fits(p)
    PROVE  DeserializePacket(SerializePacket(p), HeaderSize + Len(p.payload)) = p
<1>. DEFINE B == SerializePacket(p)
            n == Len(p.payload)
<1>1. /\ p.packetType \in 0..7 /\ p.transferId \in Seq(Char)
      /\ p.chunkIndex \in Uint32 /\ p.totalChunks \in Uint32
      /\ p.payload \in Seq(Byte) /\ n \in Nat /\ n \in Uint32
      /\ p = [packetType |-> p.packetType, transferId |-> p.transferId,
              chunkIndex |-> p.chunkIndex, totalChunks |-> p.totalChunks,
              payload |-> p.payload]
  BY SMT DEF Fits, TransferPacket
<1>2. \A o \in 0..(48 + n) : B[o] = ByteAt(p, o)
  <2>1. 0..(HeaderSize + n - 1) = 0..(48 + n)
    BY <1>1, SMT DEF HeaderSize
  <2>. QED
    BY <2>1, Zenon DEF SerializePacket
<1>. HIDE DEF B
<1>0. 0..48 \subseteq 0..(48 + n)
  BY <1>1, SMT
<1>3. B[0] = p.packetType
  <2>1. ByteAt(p, 0) = p.packetType
    BY <1>1, SMT DEF ByteAt
  <2>2. 0 \in 0..48
    BY SMT
  <2>. QED
    BY <1>0, <1>2, <2>1, <2>2, Zenon
<1>4. /\ B[37] = Uint32Byte(p.chunkIndex, 0) /\ B[38] = Uint32Byte(p.chunkIndex, 1)
      /\ B[39] = Uint32Byte(p.chunkIndex, 2) /\ B[40] = Uint32Byte(p.chunkIndex, 3)
  <2>0. 37..40 \subseteq 0..48
    BY SMT
  <2>1. \A o \in 37..40 : ByteAt(p, o) = Uint32Byte(p.chunkIndex, o - 37)
    BY SMT DEF ByteAt
  <2>2. \A o \in 37..40 : B[o] = Uint32Byte(p.chunkIndex, o - 37)
    BY <1>0, <1>2, <2>1, <2>0, Zenon
  <2>. QED
    BY <2>2, SMT
<1>5. /\ B[41] = Uint32Byte(p.totalChunks, 0) /\ B[42] = Uint32Byte(p.totalChunks, 1)
      /\ B[43] = Uint32Byte(p.totalChunks, 2) /\ B[44] = Uint32Byte(p.totalChunks, 3)
  <2>0. 41..44 \subseteq 0..48
    BY SMT
  <2>1. \A o \in 41..44 : ByteAt(p, o) = Uint32Byte(p.totalChunks, o - 41)
    BY SMT DEF ByteAt
  <2>2. \A o \in 41..44 : B[o] = Uint32Byte(p.totalChunks, o - 41)
    BY <1>0, <1>2, <2>1, <2>0, Zenon
  <2>. QED
    BY <2>2, SMT
<1>6. /\ B[45] = Uint32Byte(n, 0) /\ B[46] = Uint32Byte(n, 1)
      /\ B[47] = Uint32Byte(n, 2) /\ B[48] = Uint32Byte(n, 3)
  <2>0. 45..48 \subseteq 0..48
    BY SMT
  <2>1. \A o \in 45..48 : ByteAt(p, o) = Uint32Byte(n, o - 45)
    BY SMT DEF ByteAt
  <2>2. \A o \in 45..48 : B[o] = Uint32Byte(n, o - 45)
    BY <1>0, <1>2, <2>1, <2>0, Zenon
  <2>. QED
    BY <2>2, SMT
<1>7. /\ GetUint32(B, 37) = p.chunkIndex /\ GetUint32(B, 41) = p.totalChunks
      /\ GetUint32(B, 45) = n
  <2>1. GetUint32(B, 37) = p.chunkIndex
    BY <1>1, <1>4, Uint32Bytes, SMT DEF GetUint32
  <2>2. GetUint32(B, 41) = p.totalChunks
    BY <1>1, <1>5, Uint32Bytes, SMT DEF GetUint32
  <2>3. GetUint32(B, 45) = n
    BY <1>1, <1>6, Uint32Bytes, SMT DEF GetUint32
  <2>. QED
    BY <2>1, <2>2, <2>3
<1>8. [i \in 1..IdSize |-> B[i]] = Pad(p.transferId)
  <2>1. \A i \in 1..36 : ByteAt(p, i) = Pad(p.transferId)[i]
    BY SMT DEF ByteAt
  <2>2. 1..36 \subseteq 0..48
    BY SMT
  <2>3. \A i \in 1..36 : B[i] = Pad(p.transferId)[i]
    BY <1>0, <1>2, <2>1, <2>2, Zenon
  <2>. QED
    BY <2>3, Zenon DEF Pad, IdSize
<1>9. Trim([i \in 1..IdSize |-> B[i]]) = p.transferId
  BY <1>1, <1>8, TrimPad DEF Fits
<1>10. \A i \in 1..n : B[48 + i] = p.payload[i]
  <2>. SUFFICES ASSUME NEW i \in 1..n PROVE B[48 + i] = p.payload[i]
    OBVIOUS
  <2>1. 48 + i \in 0..(48 + n) /\ (48 + i) - 48 = i /\ 48 + i >= 49
    BY <1>1, SMT
  <2>2. ByteAt(p, 48 + i) = p.payload[i]
    BY <1>1, <2>1, SMT DEF ByteAt
  <2>. QED
    BY <1>1, <1>2, <2>1, <2>2, SMT
<1>11. (HeaderSize + n) - HeaderSize = n /\ (IF n < n THEN n ELSE n) = n
  BY <1>1, SMT DEF HeaderSize
<1>12. [i \in 1..(IF GetUint32(B, 45) < (HeaderSize + n) - HeaderSize
                  THEN GetUint32(B, 45) ELSE (HeaderSize + n) - HeaderSize) |-> B[48 + i]]
         = p.payload
  <2>1. p.payload = [i \in 1..n |-> p.payload[i]]
    BY <1>1, SMT
  <2>2. [i \in 1..n |-> B[48 + i]] = p.payload
    BY <1>10, <2>1
  <2>. QED
    BY <1>7, <1>11, <2>2
<1>. QED
  BY <1>1, <1>3, <1>7, <1>9, <1>12 DEF DeserializePacket, B
===============================================================================
