---------------------------- MODULE MCFileTransfer ----------------------------
(***************************************************************************)
(* Instances of FileTransfer for TLC.                                      *)
(***************************************************************************)
EXTENDS FileTransfer

TwoFiles     == <<1, 2>>
OneFile      == <<2>>
EmptyBehind  == <<3, 0>>

(* Nobody touches the sending page once the transfer is started.               *)
StartOnly == [s \in TransferState |-> IF s = "FILES_SELECTED" THEN {"start"} ELSE {}]

(* RoundTrip of PacketSerializerProofs, on numbers at the limits of their bytes.    *)
Serializer == INSTANCE PacketSerializer

Samples ==
    LET numbers == {0, 255, 256, 65535, 65536, 16777215, 16777216, 2147483647}
        ids     == {<<45>>, [i \in 1..35 |-> 97], [i \in 1..36 |-> 97], <<97, 9, 32, 97>>}
        bytes   == {<<>>, <<0>>, [i \in 1..300 |-> (7 * i) % 256]}
    IN  {[packetType |-> 1, transferId |-> id, chunkIndex |-> n, totalChunks |-> m,
          payload |-> b] : id \in ids, n \in numbers, m \in {0, 256}, b \in bytes}

ASSUME RoundTrips ==
    \A p \in Samples :
        /\ Serializer!Fits(p)
        /\ Serializer!DeserializePacket(Serializer!SerializePacket(p),
                                        Serializer!HeaderSize + Len(p.payload)) = p
===============================================================================
