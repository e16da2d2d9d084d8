------------------------------ MODULE FileSender ------------------------------
(***************************************************************************)
(* The sending page: QueueManager's queue of files, its continuations       *)
(* (hashing a file, FileReader callbacks, bufferedamountlow), the           *)
(* ChunkSender objects it creates and the part of the transfer store it      *)
(* writes.  One action is one task of the page's event loop: everything a    *)
(* handler does up to its next await, with every call it makes.              *)
(***************************************************************************)
EXTENDS DataChannel

CONSTANTS
    Buttons,      \* Buttons[s]: what the page offers while transferState = s
    Faults,       \* what may fail: subset of {"hash", "read"}
    MaxReaders,   \* bound: FileReaders of one slice pending after a Resume
    MaxQueued     \* bound: packets under way when the user sends one more

None == 0

SenderFile == {"ABSENT", "WAITING", "PREPARING", "SENDING",
               "COMPLETED", "FAILED", "CANCELLED"}
TransferState == {"IDLE", "FILES_SELECTED", "PREPARING", "TRANSFERRING",
                  "COMPLETED", "FAILED"}
Button == {"start", "pause", "resume", "cancel"}

ASSUME SenderAssumption ==
    /\ Buttons \in [TransferState -> SUBSET Button]
    /\ Faults \subseteq {"hash", "read"}
    /\ MaxReaders \in Nat \ {0}
    /\ MaxQueued \in Nat \ {0}

(* The buttons of the send page for each state of the engine.                 *)
SendPage ==
    [s \in TransferState |->
        CASE s \in {"IDLE", "FILES_SELECTED"} -> {"start"}
          [] s = "TRANSFERRING"               -> {"pause", "cancel"}
          [] s = "PREPARING"                  -> {"resume", "cancel"}
          [] OTHER                            -> {}]

(* The same, and resume() of the useTransfer hook where Pause leads to: a page   *)
(* may call it there, although the send page does not.                         *)
ResumingPage == [SendPage EXCEPT !["TRANSFERRING"] = {"pause", "resume", "cancel"}]

VARIABLES
    sAlive,            \* the page still has its queue manager
    status,            \* status[f] in the store's queue
    progress,          \* progressBytes of each file, in slices
    transferState,
    activeTransferId,  \* a file or None
    hashing,           \* files whose processNextFile awaits the checksum
    activeSender,      \* the file whose ChunkSender is this.activeSender
    currentChunk,      \* of the ChunkSender of each file
    paused, cancelled, \* files whose ChunkSender has isPaused, isCancelled
    reading,           \* FileReaders pending, per slice
    lowOwner           \* the file whose ChunkSender set onbufferedamountlow

storeVars == <<status, progress, transferState, activeTransferId>>
pumpVars == <<currentChunk, paused, cancelled, reading, lowOwner>>
senderVars == <<sAlive, storeVars, hashing, activeSender, pumpVars>>

SenderTypeOK ==
    /\ sAlive \in BOOLEAN
    /\ status \in [Files -> SenderFile]
    /\ progress \in [Files -> Nat]
    /\ transferState \in TransferState
    /\ activeTransferId \in Files \cup {None}
    /\ hashing \subseteq Files
    /\ activeSender \in Files \cup {None}
    /\ currentChunk \in [Files -> Nat]
    /\ paused \subseteq Files
    /\ cancelled \subseteq Files
    /\ reading \in [Slices -> Nat]
    /\ lowOwner \in Files \cup {None}

(* The connection is up and the page has queued the files of the session.     *)
SenderInit ==
    /\ sAlive = TRUE
    /\ status = [f \in Files |-> "WAITING"]
    /\ progress = [f \in Files |-> 0]
    /\ transferState = "FILES_SELECTED"
    /\ activeTransferId = None
    /\ hashing = {}
    /\ activeSender = None
    /\ currentChunk = [f \in Files |-> 0]
    /\ paused = {}
    /\ cancelled = {}
    /\ reading = [s \in Slices |-> 0]
    /\ lowOwner = None

-------------------------------------------------------------------------------
(* updateFileProgress does nothing for a file the queue no longer has.        *)
Mark(st, f, s) == IF st[f] = "ABSENT" THEN st ELSE [st EXCEPT ![f] = s]

First(S) == CHOOSE f \in S : \A g \in S : f <= g

(* processNextFile up to its first await, on the queue as the caller has just *)
(* written it; h are the files whose own processNextFile is still awaiting.   *)
ProcessNextFile(st, h) ==
    LET waiting == {f \in Files : st[f] = "WAITING"} IN
    \/ /\ waiting # {}
       /\ status' = [st EXCEPT ![First(waiting)] = "PREPARING"]
       /\ hashing' = h \cup {First(waiting)}
       /\ activeTransferId' = First(waiting)
       /\ transferState' = "PREPARING"
    \/ /\ waiting = {}
       /\ status' = st
       /\ transferState' =
             IF \A f \in Files : st[f] \in {"COMPLETED", "ABSENT"}
             THEN "COMPLETED" ELSE "IDLE"
       /\ activeTransferId' = None
       /\ hashing' = h

(* onComplete of the ChunkSender of f.                                        *)
Complete(f, pr, h) ==
    /\ progress' = [pr EXCEPT ![f] = Chunks[f]]
    /\ activeSender' = None
    /\ ProcessNextFile(Mark(status, f, "COMPLETED"), h)

(* handleTransferError                                                        *)
TransferError(f) ==
    /\ status' = Mark(status, f, "FAILED")
    /\ progress' = [progress EXCEPT ![f] = 0]
    /\ transferState' = "FAILED"
    /\ UNCHANGED activeTransferId

(* Guards of sendNext and of the reader's onload.                             *)
StoppedByPause(f)   == f \in paused              \* mutant: onload ignores isCancelled
Stopped(f)          == f \in paused \cup cancelled
FinishedEarly(f, c) == c + 1 >= Chunks[f]        \* mutant: the last chunk is left out
Finished(f, c)      == c >= Chunks[f]

(* Mutants: the next slice is read ahead; the low mark is taken for the high.   *)
StartReaderAhead(f, c, rd) ==
    reading' = IF BufferedAmount(buffer') > HighMark
               THEN rd ELSE [rd EXCEPT ![<<f, IF c + 1 < Chunks[f] THEN c + 1 ELSE c>>] = @ + 1]
StartReaderWhenEmpty(f, c, rd) ==
    reading' = IF BufferedAmount(buffer') >= LowMark
               THEN rd ELSE [rd EXCEPT ![<<f, c>>] = @ + 1]

(* sendNext past its guards: one more FileReader on the current slice, unless *)
(* the output buffer is too full.                                             *)
StartReader(f, c, rd) ==
    reading' = IF BufferedAmount(buffer') > HighMark
               THEN rd ELSE [rd EXCEPT ![<<f, c>>] = @ + 1]
-------------------------------------------------------------------------------
(* The Start File Transfer button: processNextFile.                           *)
Start ==
    /\ sAlive
    /\ "start" \in Buttons[transferState]
    /\ ProcessNextFile(status, hashing)
    /\ UNCHANGED <<channelVars, sAlive, progress, activeSender, pumpVars>>

(* The METADATA packet of f, and the mutant that forgets it                    *)
AnnounceNothing(f) == UNCHANGED buffer
Announce(f) == buffer' = Append(buffer, Control("METADATA", f))

(* The checksum of f is there: METADATA goes out and a new ChunkSender starts,  *)
(* which has nothing to read if the file is empty.                            *)
HashDone(f) ==
    /\ f \in hashing
    /\ open
    /\ Announce(f)
    /\ lowOwner' = f
    /\ currentChunk' = [currentChunk EXCEPT ![f] = 0]
    /\ paused' = paused \ {f}
    /\ cancelled' = cancelled \ {f}
    /\ \/ /\ Finished(f, 0)
          /\ Complete(f, progress, hashing \ {f})
          /\ UNCHANGED reading
       \/ /\ ~Finished(f, 0)
          /\ StartReader(f, 0, reading)
          /\ hashing' = hashing \ {f}
          /\ status' = Mark(status, f, "SENDING")
          /\ progress' = [progress EXCEPT ![f] = 0]
          /\ transferState' = "TRANSFERRING"
          /\ activeSender' = f
          /\ UNCHANGED activeTransferId
    /\ UNCHANGED <<open, network, lowEvents, sAlive>>

(* Hashing fails, or the channel closed meanwhile and send() throws.          *)
HashFailed(f) ==
    /\ f \in hashing
    /\ ~open \/ "hash" \in Faults
    /\ hashing' = hashing \ {f}
    /\ TransferError(f)
    /\ UNCHANGED <<channelVars, sAlive, activeSender, pumpVars>>

-------------------------------------------------------------------------------
(* onload of a reader of slice k: the packet takes the ChunkSender's current   *)
(* index, which need not be k any more.                                       *)
ChunkLoaded(f, k) ==
    LET next == currentChunk[f] + 1
        rd   == [reading EXCEPT ![<<f, k>>] = @ - 1]
        pr   == [progress EXCEPT ![f] = @ + 1] IN
    /\ reading[<<f, k>>] > 0
    /\ ~Stopped(f)
    /\ open
    /\ buffer' = Append(buffer, Chunk(f, currentChunk[f], k))
    /\ currentChunk' = [currentChunk EXCEPT ![f] = next]
    /\ \/ /\ Finished(f, next)
          /\ reading' = rd
          /\ Complete(f, pr, hashing)
       \/ /\ ~Finished(f, next)
          /\ StartReader(f, next, rd)
          /\ progress' = pr
          /\ UNCHANGED <<status, transferState, activeTransferId, hashing, activeSender>>
    /\ UNCHANGED <<open, network, lowEvents, sAlive, paused, cancelled, lowOwner>>

(* onload of a paused or cancelled ChunkSender.                               *)
ChunkDropped(f, k) ==
    /\ reading[<<f, k>>] > 0
    /\ Stopped(f)
    /\ reading' = [reading EXCEPT ![<<f, k>>] = @ - 1]
    /\ UNCHANGED <<channelVars, sAlive, storeVars, hashing, activeSender,
                   currentChunk, paused, cancelled, lowOwner>>

(* onerror, or onload finding the channel closed.                             *)
ChunkFailed(f, k) ==
    /\ reading[<<f, k>>] > 0
    /\ \/ "read" \in Faults
       \/ ~open /\ ~Stopped(f)
    /\ reading' = [reading EXCEPT ![<<f, k>>] = @ - 1]
    /\ TransferError(f)
    /\ UNCHANGED <<channelVars, sAlive, hashing, activeSender,
                   currentChunk, paused, cancelled, lowOwner>>

(* bufferedamountlow runs sendNext of the ChunkSender made last, whether or    *)
(* not it still is the active one or already has a reader pending.            *)
BufferedAmountLow ==
    LET f == lowOwner
        c == currentChunk[f] IN
    /\ lowEvents > 0
    /\ lowEvents' = lowEvents - 1
    /\ UNCHANGED <<open, buffer, network, sAlive,
                   currentChunk, paused, cancelled, lowOwner>>
    /\ \/ /\ ~Stopped(f)
          /\ Finished(f, c)
          /\ open
          /\ Complete(f, progress, hashing)
          /\ UNCHANGED reading
       \/ /\ ~Stopped(f)
          /\ ~Finished(f, c)
          /\ StartReader(f, c, reading)
          /\ UNCHANGED <<status, progress, transferState, activeTransferId,
                         hashing, activeSender>>
       \/ /\ \/ Stopped(f)
             \/ Finished(f, c) /\ ~open
          /\ UNCHANGED <<reading, status, progress, transferState, activeTransferId,
                         hashing, activeSender>>
-------------------------------------------------------------------------------
Room == Len(buffer) + Len(network) < MaxQueued

(* The status and the packet pause() and resume() write for the active file.   *)
Notify(s, type) ==
    LET f == activeTransferId IN
    IF f = None THEN UNCHANGED <<status, buffer>>
    ELSE /\ status' = Mark(status, f, s)
         /\ buffer' = IF open THEN Append(buffer, Control(type, f)) ELSE buffer

Pause ==
    /\ sAlive
    /\ "pause" \in Buttons[transferState]
    /\ activeSender # None
    /\ Room
    /\ paused' = paused \cup {activeSender}
    /\ Notify("PREPARING", "PAUSE")
    /\ UNCHANGED <<open, network, lowEvents, sAlive, progress, transferState,
                   activeTransferId, hashing, activeSender, currentChunk, cancelled,
                   reading, lowOwner>>

Resume ==
    LET f == activeSender IN
    /\ sAlive
    /\ "resume" \in Buttons[transferState]
    /\ f # None
    /\ Room
    /\ paused' = paused \ {f}
    /\ Notify("SENDING", "RESUME")
    /\ \/ /\ f \in paused
          /\ reading[<<f, currentChunk[f]>>] < MaxReaders
          /\ StartReader(f, currentChunk[f], reading)
       \/ f \notin paused /\ UNCHANGED reading
    /\ UNCHANGED <<open, network, lowEvents, sAlive, progress, transferState,
                   activeTransferId, hashing, activeSender, currentChunk, cancelled,
                   lowOwner>>

(* cancelActiveTransfer on the sending page.                                  *)
Cancel ==
    /\ sAlive
    /\ "cancel" \in Buttons[transferState]
    /\ activeTransferId # None
    /\ activeSender' = None
    /\ cancelled' = cancelled \cup ({activeSender} \ {None})
    /\ buffer' = IF open /\ activeSender # None
                 THEN Append(buffer, Control("CANCEL", activeSender)) ELSE buffer
    /\ progress' = [progress EXCEPT ![activeTransferId] = 0]
    /\ ProcessNextFile(Mark(status, activeTransferId, "CANCELLED"), hashing)
    /\ UNCHANGED <<open, network, lowEvents, sAlive, currentChunk, paused,
                   reading, lowOwner>>

(* terminateTransferSession of the sending page, the connection lost, the      *)
(* channel closed or the user leaving: destroy the manager, reset the store.   *)
SenderCleanup ==
    /\ sAlive
    /\ sAlive' = FALSE
    /\ Close
    /\ cancelled' = cancelled \cup ({activeSender} \ {None})
    /\ status' = [f \in Files |-> "ABSENT"]
    /\ progress' = [f \in Files |-> 0]
    /\ transferState' = "IDLE"
    /\ activeTransferId' = None
    /\ UNCHANGED <<hashing, activeSender, currentChunk, paused, reading, lowOwner>>
===============================================================================
