----------------------------- MODULE FileTransfer -----------------------------
(***************************************************************************)
(* The transfer of a queue of files: the sending page and the receiving      *)
(* page, joined by the data channel.  What the two pages promise together   *)
(* is stated here.                                                          *)
(***************************************************************************)
EXTENDS FileSender, FileReceiver

vars == <<channelVars, senderVars, receiverVars>>

TypeOK == ChannelTypeOK /\ SenderTypeOK /\ ReceiverTypeOK

Init == ChannelInit /\ SenderInit /\ ReceiverInit

SenderTask ==
    \/ \E f \in Files : HashDone(f) \/ HashFailed(f)
    \/ \E s \in Slices : \/ ChunkLoaded(s[1], s[2])
                         \/ ChunkDropped(s[1], s[2])
                         \/ ChunkFailed(s[1], s[2])
    \/ BufferedAmountLow
    \/ Start \/ Pause \/ Resume \/ Cancel
    \/ SenderCleanup

ReceiverTask ==
    \/ ReceiveMetadata \/ ReceiveChunk
    \/ ReceivePause \/ ReceiveResume \/ ReceiveCancel
    \/ CancelByReceiver
    \/ \E f \in Files : VerifyPassed(f) \/ VerifyFailed(f)
    \/ ReceiverCleanup

Next ==
    \/ SenderTask /\ UNCHANGED receiverVars
    \/ ReceiverTask /\ UNCHANGED senderVars
    \/ Flush /\ UNCHANGED <<senderVars, receiverVars>>

Spec == Init /\ [][Next]_vars

(* What the browsers owe the pages: an answer for every hash and every read,    *)
(* every queued event, and the delivery of what was sent.  What a user does is  *)
(* never owed.                                                                *)
Fairness ==
    /\ \A f \in Files :
          /\ WF_vars((HashDone(f) \/ HashFailed(f)) /\ UNCHANGED receiverVars)
          /\ WF_vars((VerifyPassed(f) \/ VerifyFailed(f)) /\ UNCHANGED senderVars)
    /\ \A s \in Slices :
          WF_vars(/\ \/ ChunkLoaded(s[1], s[2])
                     \/ ChunkDropped(s[1], s[2])
                     \/ ChunkFailed(s[1], s[2])
                  /\ UNCHANGED receiverVars)
    /\ WF_vars(BufferedAmountLow /\ UNCHANGED receiverVars)
    /\ WF_vars(Flush /\ UNCHANGED <<senderVars, receiverVars>>)
    /\ WF_vars(/\ \/ ReceiveMetadata \/ ReceiveChunk
                  \/ ReceivePause \/ ReceiveResume \/ ReceiveCancel
               /\ UNCHANGED senderVars)

FairSpec == Spec /\ Fairness

(* A user who presses Resume whenever the page offers it.                      *)
PatientSpec == FairSpec /\ WF_vars(Resume /\ UNCHANGED receiverVars)

-------------------------------------------------------------------------------
(* What is between the pages, oldest first.                                   *)
Wire == network \o buffer
IsChunkOf(p, f) == p.type = "CHUNK" /\ p.file = f

(* The packets of a file leave in index order, each index once, and only those  *)
(* its ChunkSender has passed, however many readers overlap: the index is taken *)
(* and advanced in the task that sends (chunk-sender.ts:136-149).              *)
IndicesIncrease ==
    \A m, n \in DOMAIN Wire : \A f \in Files :
        /\ IsChunkOf(Wire[m], f) => Wire[m].index < currentChunk[f]
        /\ (m < n /\ IsChunkOf(Wire[m], f) /\ IsChunkOf(Wire[n], f))
              => Wire[m].index < Wire[n].index

(* A reader that overlaps another can only be late: neither a pending read nor  *)
(* a packet under way holds a later slice than the index it goes out with, so   *)
(* a mixed file repeats slices and never skips ahead.                          *)
SlicesLag ==
    /\ \A s \in Slices : reading[s] > 0 => s[2] <= currentChunk[s[1]]
    /\ \A m \in DOMAIN Wire : Wire[m].slice <= Wire[m].index

(* A chunk reaches the receiver's page behind the METADATA packet of its file.  *)
MetadataFirst ==
    \A m \in DOMAIN Wire : Wire[m].type = "CHUNK" =>
        \/ rStatus[Wire[m].file] # "ABSENT"
        \/ \E n \in 1..(m - 1) : Wire[n] = Control("METADATA", Wire[m].file)

(* What the sender shows as COMPLETED has left its page to the last slice.       *)
CompletedWasSent == \A f \in Files : status[f] = "COMPLETED" => currentChunk[f] >= Chunks[f]

(* The pump of the ChunkSender that owns onbufferedamountlow does not stop: while  *)
(* its file is being sent, neither paused nor cancelled, something under way will  *)
(* run sendNext again (a read, a queued event, or a buffer whose draining raises   *)
(* one); when sendNext returns because the buffer is full it leaves nothing else    *)
(* behind to call it (chunk-sender.ts:121-125).                                 *)
PumpRuns ==
    (open /\ lowOwner # None /\ status[lowOwner] \in {"SENDING", "PREPARING"}
          /\ lowOwner \notin paused \cup cancelled) =>
        \/ \E s \in Slices : s[1] = lowOwner /\ reading[s] > 0
        \/ lowEvents > 0
        \/ BufferedAmount(buffer) > LowMark

(* No other file of the queue has anything to send.                            *)
Alone(f) == \A g \in Files \ {f} : Chunks[g] = 0

(* Of the only file that has chunks, every index its ChunkSender has passed is   *)
(* either stored by the receiver or still under way, until one of the users      *)
(* cancels (chunk-sender.ts:149, chunk-receiver.ts:54).                          *)
NothingLost ==
    open =>
        \A f \in Files \ (rCancelled \cup cancelled) : Alone(f) =>
            \A i \in 0..(Chunks[f] - 1) : i < currentChunk[f] =>
                \/ got[<<f, i>>] # NoSlice
                \/ \E m \in DOMAIN Wire : IsChunkOf(Wire[m], f) /\ Wire[m].index = i

(* What its sender shows as COMPLETED is not left half-way: a chunk of it is still   *)
(* to arrive, or its checksum is being computed, or it has a verdict, unless one    *)
(* of the users cancels (queue-manager.ts:119, chunk-receiver.ts:77).                *)
CompletedArrives ==
    open =>
        \A f \in Files \ (rCancelled \cup cancelled) :
            Alone(f) /\ status[f] = "COMPLETED" /\ Chunks[f] > 0 =>
                \/ f \in verifying \cup settled
                \/ \E m \in DOMAIN Wire : IsChunkOf(Wire[m], f)

(* Once its ChunkSender is cancelled nothing more of a file is sent, also by    *)
(* the readers that were pending (chunk-sender.ts:131).                        *)
CancelledIsQuiet ==
    [][\A f \in cancelled : currentChunk'[f] = currentChunk[f]]_vars

(* A file the receiving user cancelled is not touched again by what was under   *)
(* way, except that a checksum already being computed still decides it          *)
(* (chunk-receiver.ts:84, 136).                                               *)
ReceiverCancelSticks ==
    [][\A f \in Files \ verifying :
          rStatus[f] = "CANCELLED" => rStatus'[f] \in {"CANCELLED", "ABSENT"}]_vars

(* The transfer implements Delivery: what is handed over is what the ChunkSender  *)
(* has passed, the verdict is what the receiver's checksum said.               *)
Handed  == [f \in Files |-> IF currentChunk[f] < Chunks[f] THEN currentChunk[f] ELSE Chunks[f]]
Verdict == [f \in Files |-> IF f \in saved THEN "delivered"
                            ELSE IF f \in settled THEN "rejected" ELSE "none"]

D == INSTANCE Delivery WITH File <- Files, Size <- Chunks,
                            handed <- Handed, verdict <- Verdict

ImplementsDelivery == D!DSpec

-------------------------------------------------------------------------------
(* With no user in the way, what is started ends: the sender shows it COMPLETED  *)
(* or FAILED, or the session is over.                                          *)
SenderEnds ==
    \A f \in Files : (f \in hashing) ~> (status[f] \in {"COMPLETED", "FAILED"} \/ ~open)

(* And what the sender completed the receiver verifies, one way or the other,   *)
(* unless its user cancels or the connection goes.  A file of no chunks is left  *)
(* out: the receiver looks whether everything is there when a chunk arrives      *)
(* (chunk-receiver.ts:77) and has no verdict on such a file.                     *)
ReceiverDecides ==
    \A f \in Files : (status[f] = "COMPLETED" /\ Chunks[f] > 0)
                        ~> (f \in settled \cup rCancelled \/ ~open)

(* "Resume the active sender." (queue-manager.ts:161): a user who presses Resume  *)
(* whenever the page offers it gets a paused transfer going again.              *)
PausedResumes ==
    \A f \in Files : (f \in paused /\ activeSender = f)
                        ~> (f \notin paused \/ activeSender # f \/ ~open)

===============================================================================
