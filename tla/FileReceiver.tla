----------------------------- MODULE FileReceiver -----------------------------
(***************************************************************************)
(* The receiving page: QueueManager's packet dispatcher, the ChunkReceiver   *)
(* it creates for each METADATA packet, the checksum computed behind an      *)
(* await, and what the page offers its user.  A chunk is stored where the    *)
(* packet's index says, in the receiver that is active when it arrives,      *)
(* whatever file the packet names.                                          *)
(***************************************************************************)
EXTENDS DataChannel

CONSTANT RFaults   \* what may fail: subset of {"verify"}

NoFile == 0
NoSlice == <<0, 0>>

ReceiverFile == {"ABSENT", "SENDING", "WAITING", "COMPLETED", "FAILED", "CANCELLED"}
ReceiverState == {"IDLE", "TRANSFERRING", "COMPLETED", "FAILED"}

ASSUME ReceiverAssumption == RFaults \subseteq {"verify"}

VARIABLES
    rAlive,          \* the page still has its queue manager
    rStatus,         \* status of each file in the receiver's store
    rState,          \* transferState
    rActive,         \* activeTransferId, or NoFile
    activeReceiver,  \* the file of this.activeReceiver, or NoFile
    got,             \* chunksArray: got[<<f, i>>] is the payload stored at i
    rCancelled,      \* files whose ChunkReceiver has isCancelled
    verifying,       \* files whose assembled content is being hashed
    settled,         \* files whose ChunkReceiver has finished, either way
    saved            \* files handed to the browser as a download

receiverVars == <<rAlive, rStatus, rState, rActive, activeReceiver, got,
                  rCancelled, verifying, settled, saved>>

ReceiverTypeOK ==
    /\ rAlive \in BOOLEAN
    /\ rStatus \in [Files -> ReceiverFile]
    /\ rState \in ReceiverState
    /\ rActive \in Files \cup {NoFile}
    /\ activeReceiver \in Files \cup {NoFile}
    /\ got \in [Slices -> (Files \X Nat) \cup {NoSlice}]
    /\ rCancelled \subseteq Files
    /\ verifying \subseteq Files
    /\ settled \subseteq Files
    /\ saved \subseteq Files

ReceiverInit ==
    /\ rAlive = TRUE
    /\ rStatus = [f \in Files |-> "ABSENT"]
    /\ rState = "IDLE"
    /\ rActive = NoFile
    /\ activeReceiver = NoFile
    /\ got = [s \in Slices |-> NoSlice]
    /\ rCancelled = {}
    /\ verifying = {}
    /\ settled = {}
    /\ saved = {}

-------------------------------------------------------------------------------
RMark(f, s) == IF f = NoFile \/ rStatus[f] = "ABSENT" THEN rStatus
               ELSE [rStatus EXCEPT ![f] = s]

(* All chunks of f are there: receivedCount = totalChunks.                    *)
Full(g, f) == \A i \in 0..(Chunks[f] - 1) : g[<<f, i>>] # NoSlice

(* Mutant: the checksum is not compared.                                      *)
IntactUnchecked(f) == Full(got, f)

(* The bytes put together are the bytes the sender hashed.                    *)
Intact(f) == \A i \in 0..(Chunks[f] - 1) : got[<<f, i>>] = <<f, i>>

(* Every message handler takes the oldest packet that has arrived.            *)
Receive(type) ==
    /\ rAlive
    /\ network # <<>>
    /\ Head(network).type = type
    /\ network' = Tail(network)
    /\ UNCHANGED <<open, buffer, lowEvents>>

ReceiveMetadata ==
    LET f == Head(network).file IN
    /\ Receive("METADATA")
    /\ rStatus' = [rStatus EXCEPT ![f] = "SENDING"]
    /\ rActive' = f
    /\ rState' = "TRANSFERRING"
    /\ activeReceiver' = f
    /\ UNCHANGED <<rAlive, got, rCancelled, verifying, settled, saved>>

(* Mutant: the bound of the index is off by one.                              *)
AcceptsButLast(f, i) ==
    /\ f # NoFile
    /\ f \notin rCancelled \cup settled
    /\ i + 1 < Chunks[f]
    /\ got[<<f, i>>] = NoSlice

(* handleChunkPacket of the active receiver: out of bounds, already stored    *)
(* and finished or cancelled are ignored; the last chunk starts the checksum. *)
Accepts(f, i) ==
    /\ f # NoFile
    /\ f \notin rCancelled \cup settled
    /\ i < Chunks[f]
    /\ got[<<f, i>>] = NoSlice

ReceiveChunk ==
    LET f == activeReceiver
        p == Head(network) IN
    /\ Receive("CHUNK")
    /\ \/ /\ Accepts(f, p.index)
          /\ got' = [got EXCEPT ![<<f, p.index>>] = <<p.file, p.slice>>]
          /\ verifying' = IF Full(got', f) THEN verifying \cup {f} ELSE verifying
       \/ /\ ~Accepts(f, p.index)
          /\ UNCHANGED <<got, verifying>>
    /\ UNCHANGED <<rAlive, rStatus, rState, rActive, activeReceiver,
                   rCancelled, settled, saved>>

(* PAUSE and RESUME only change what the receiver displays.                   *)
ReceivePause ==
    /\ Receive("PAUSE")
    /\ rStatus' = RMark(rActive, "WAITING")
    /\ UNCHANGED <<rAlive, rState, rActive, activeReceiver, got,
                   rCancelled, verifying, settled, saved>>

ReceiveResume ==
    /\ Receive("RESUME")
    /\ rStatus' = RMark(rActive, "SENDING")
    /\ UNCHANGED <<rAlive, rState, rActive, activeReceiver, got,
                   rCancelled, verifying, settled, saved>>

(* Mutant: the cancelled file stays the active one.                            *)
CancelKeepingActive ==
    /\ rActive # NoFile
    /\ rCancelled' = rCancelled \cup ({activeReceiver} \ {NoFile})
    /\ activeReceiver' = NoFile
    /\ rStatus' = RMark(rActive, "CANCELLED")
    /\ rState' = "IDLE"
    /\ UNCHANGED <<rAlive, rActive, got, verifying, settled, saved>>

(* cancelActiveTransfer, here: no packet is sent, and processNextFile finds no  *)
(* file of its own to send.                                                   *)
CancelReceiving ==
    /\ rActive # NoFile
    /\ rCancelled' = rCancelled \cup ({activeReceiver} \ {NoFile})
    /\ activeReceiver' = NoFile
    /\ rStatus' = RMark(rActive, "CANCELLED")
    /\ rActive' = NoFile
    /\ rState' = "IDLE"
    /\ UNCHANGED <<rAlive, got, verifying, settled, saved>>

(* A CANCEL packet cancels whatever is active here.                           *)
ReceiveCancel ==
    /\ Receive("CANCEL")
    /\ \/ CancelReceiving
       \/ rActive = NoFile /\ UNCHANGED receiverVars

(* The Cancel Transfer button of the receive page.                            *)
CancelByReceiver ==
    /\ rAlive
    /\ rState = "TRANSFERRING"
    /\ CancelReceiving
    /\ UNCHANGED channelVars

(* The checksum is there: it is compared, whatever happened meanwhile.        *)
VerifyPassed(f) ==
    /\ f \in verifying
    /\ Intact(f)
    /\ verifying' = verifying \ {f}
    /\ settled' = settled \cup {f}
    /\ saved' = saved \cup {f}
    /\ rStatus' = RMark(f, "COMPLETED")
    /\ activeReceiver' = NoFile
    /\ rActive' = NoFile
    /\ rState' = "COMPLETED"
    /\ UNCHANGED <<channelVars, rAlive, got, rCancelled>>

VerifyFailed(f) ==
    /\ f \in verifying
    /\ ~Intact(f) \/ "verify" \in RFaults
    /\ verifying' = verifying \ {f}
    /\ settled' = settled \cup {f}
    /\ rStatus' = RMark(f, "FAILED")
    /\ rState' = "FAILED"
    /\ UNCHANGED <<channelVars, rAlive, rActive, activeReceiver, got, rCancelled, saved>>

(* terminateTransferSession of the receiving page.                            *)
ReceiverCleanup ==
    /\ rAlive
    /\ rAlive' = FALSE
    /\ Close
    /\ rCancelled' = rCancelled \cup ({activeReceiver} \ {NoFile})
    /\ rStatus' = [f \in Files |-> "ABSENT"]
    /\ rState' = "IDLE"
    /\ rActive' = NoFile
    /\ UNCHANGED <<activeReceiver, got, verifying, settled, saved>>
===============================================================================
