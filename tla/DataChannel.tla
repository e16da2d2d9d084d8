----------------------------- MODULE DataChannel -----------------------------
(***************************************************************************)
(* The WebRTC data channel as the transfer engine uses it: one ordered,     *)
(* reliable direction from the sender's page to the receiver's page.  The   *)
(* channel itself belongs to the browser; what is modelled is what          *)
(* chunk-sender.ts and queue-manager.ts rely on: send() appends to the       *)
(* output buffer, bufferedAmount counts what is still in that buffer,        *)
(* bufferedamountlow is queued when the amount falls to the threshold, and   *)
(* closing the channel discards what has not been delivered.                *)
(*                                                                          *)
(* A file is a number (its place in the queue) and its content is           *)
(* abstracted to the identities of its slices: <<f, k>> is the k-th slice    *)
(* of file f, and two slices are equal only if they are the same slice.      *)
(* bufferedAmount is counted in CHUNK packets, the only ones of any size.   *)
(*                                                                          *)
(* The packets of the other direction (ACK) are dropped by the page that    *)
(* gets them (queue-manager.ts:274), and so is COMPLETE (the default case   *)
(* of the same switch): neither is put on the modelled channel.             *)
(***************************************************************************)
EXTENDS Naturals, Sequences, FiniteSets

CONSTANTS
    NumFiles,      \* files in the sender's queue
    Chunks,        \* Chunks[f]: the slices file f is cut into, none if it is empty
    LowMark,       \* bufferedAmountLowThreshold (4 MB), in chunks
    HighMark,      \* the 16 MB at which sendNext stops reading, in chunks
    MaxLowEvents   \* bound: bufferedamountlow events queued and not yet run

Files == 1..NumFiles

ASSUME ChannelAssumption ==
    /\ NumFiles \in Nat \ {0}
    /\ Chunks \in [Files -> Nat]
    /\ LowMark \in Nat
    /\ HighMark \in Nat
    /\ MaxLowEvents \in Nat \ {0}

Slices == UNION {{f} \X (0..(Chunks[f] - 1)) : f \in Files}

PacketType == {"METADATA", "CHUNK", "PAUSE", "RESUME", "CANCEL"}

(* chunkIndex is what the packet says, slice is what its payload is cut from. *)
Packet == [type: PacketType, file: Files, index: Nat, slice: Nat]

Control(type, f) == [type |-> type, file |-> f, index |-> 0, slice |-> 0]

(* Mutant: the packet is numbered by the slice that was read.                  *)
ChunkNumberedBySlice(f, i, k) == [type |-> "CHUNK", file |-> f, index |-> k, slice |-> k]

Chunk(f, i, k) == [type |-> "CHUNK", file |-> f, index |-> i, slice |-> k]

VARIABLES
    open,       \* readyState = "open", at both ends
    buffer,     \* sent and still counted by bufferedAmount
    network,    \* left the sender, its message event not yet handled
    lowEvents   \* bufferedamountlow events queued on the sender's page

channelVars == <<open, buffer, network, lowEvents>>

ChannelTypeOK ==
    /\ open \in BOOLEAN
    /\ buffer \in Seq(Packet)
    /\ network \in Seq(Packet)
    /\ lowEvents \in 0..MaxLowEvents

ChannelInit ==
    /\ open = TRUE
    /\ buffer = <<>>
    /\ network = <<>>
    /\ lowEvents = 0

BufferedAmount(b) == Cardinality({i \in DOMAIN b : b[i].type = "CHUNK"})

(* Mutant: the channel is created without ordered: true.                       *)
FlushUnordered ==
    /\ buffer # <<>>
    /\ buffer' = Tail(buffer)
    /\ network' \in {Append(network, Head(buffer)), <<Head(buffer)>> \o network}
    /\ UNCHANGED <<open, lowEvents>>

(* The browser moves the oldest packet out of the buffer; the event is        *)
(* queued only on the step that brings the amount down to the threshold.      *)
Flush ==
    /\ buffer # <<>>
    /\ buffer' = Tail(buffer)
    /\ network' = Append(network, Head(buffer))
    /\ \/ /\ BufferedAmount(buffer) > LowMark
          /\ BufferedAmount(Tail(buffer)) <= LowMark
          /\ lowEvents < MaxLowEvents
          /\ lowEvents' = lowEvents + 1
       \/ /\ \/ BufferedAmount(buffer) <= LowMark
             \/ BufferedAmount(Tail(buffer)) > LowMark
          /\ UNCHANGED lowEvents
    /\ UNCHANGED open

(* pc.close() at either page, or the connection failing under it.             *)
Close ==
    /\ open' = FALSE
    /\ buffer' = <<>>
    /\ network' = <<>>
    /\ UNCHANGED lowEvents
==============================================================================
