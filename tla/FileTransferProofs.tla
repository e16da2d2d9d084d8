-------------------------- MODULE FileTransferProofs --------------------------
(***************************************************************************)
(* Proofs about FileTransfer, for any queue of files of any sizes, any        *)
(* buttons, any faults and any bounds.  One inductive invariant, IInv, holds  *)
(* the types and carries the first theorems: SInv speaks of the sending page  *)
(* and of the packets under way, RInv of the receiving page.  The receiving   *)
(* page never changes the former, and needs of the sending page only that a   *)
(* ChunkSender never goes back (Grows).                                      *)
(*                                                                         *)
(* What follows Delivers builds on it.  There the channel is one sequence of  *)
(* packets, Wire, which a task leaves, prolongs, shortens by its head or       *)
(* empties; an invariant for each question says what is on it: InOrder (the    *)
(* indices of a file), KInv (METADATA before chunks), LInv (the receiver        *)
(* listens from METADATA to the verdict) and AInv (METADATA once per file).     *)
(* PInv, at the end, is about the pump of the sending page alone.                *)
(***************************************************************************)
EXTENDS FileTransfer, FiniteSetTheorems, WellFoundedInduction, TLAPS

(* A file nobody has begun to send: its ChunkSender does not exist.             *)
NotBegun(f) == f \in hashing \/ status[f] = "WAITING"

(* What a ChunkSender of such a file could have left behind is not there.         *)
Untouched ==
    \A f \in Files : NotBegun(f) =>
        /\ currentChunk[f] = 0 /\ lowOwner # f /\ activeSender # f
        /\ \A s \in Slices : s[1] = f => reading[s] = 0

(* Without a ChunkSender there is nothing to send, to read or to wake up.       *)
Unowned ==
    lowOwner = None =>
        /\ buffer = <<>> /\ lowEvents = 0 /\ activeSender = None
        /\ \A s \in Slices : reading[s] = 0

(* onComplete lets go of the active ChunkSender with its last chunk.             *)
ActiveUnfinished == activeSender # None => currentChunk[activeSender] < Chunks[activeSender]

(* Readers, packets and stored payloads all stay behind currentChunk.           *)
ReadersLag == \A s \in Slices : reading[s] > 0 => s[2] <= currentChunk[s[1]]
Late(p) == /\ p.slice <= p.index
           /\ p.type = "CHUNK" => p.index < currentChunk[p.file]
PacketsLag == /\ \A m \in 1..Len(buffer) : Late(buffer[m])
              /\ \A m \in 1..Len(network) : Late(network[m])

(* What the receiver stored, some ChunkSender had sent.                         *)
GotSent ==
    \A s \in Slices : got[s] # NoSlice =>
        got[s][1] \in Files /\ got[s][2] < currentChunk[got[s][1]]

(* A verdict is given once, and a file is saved on a passed one only.           *)
VerdictsOnce == saved \subseteq settled /\ verifying \cap settled = {}

SInv ==
    /\ ChannelTypeOK /\ SenderTypeOK
    /\ Untouched /\ Unowned /\ ActiveUnfinished
    /\ ReadersLag /\ PacketsLag

RInv ==
    /\ ReceiverTypeOK
    /\ GotSent /\ VerdictsOnce

IInv == SInv /\ RInv

(* A ChunkSender never goes back.                                              *)
Grows ==
    /\ currentChunk' \in [Files -> Nat]
    /\ \A f \in Files : currentChunk[f] <= currentChunk'[f]

(* Slices, member by member.                                                   *)
LEMMA SliceMember ==
  /\ \A f \in Files : \A k \in 0..(Chunks[f] - 1) : <<f, k>> \in Slices
  /\ \A s \in Slices : s[1] \in Files /\ s[2] \in 0..(Chunks[s[1]] - 1) /\ s = <<s[1], s[2]>>
  BY ChannelAssumption DEF Slices

(* The queue's first waiting file exists: a set of file numbers has a least one. *)
LEMMA FirstIsIn ==
  ASSUME NEW S \in SUBSET Files, S # {}
  PROVE  First(S) \in S
<1> DEFINE Less == OpToRel(<, Nat)
<1>1. IsWellFoundedOn(Less, Nat)
  BY NatLessThanWellFounded
<1>2. S \subseteq Nat
  BY DEF Files
<1>3. \A f, g \in Nat : g < f => <<g, f>> \in Less
  BY DEF OpToRel
<1> HIDE DEF Less
<1>4. PICK f \in S : \A g \in S : ~(<<g, f>> \in Less)
  BY <1>1, <1>2, WFMin, Zenon
<1>5. ASSUME NEW g \in S PROVE f <= g
  <2>1. f \in Nat /\ g \in Nat
    BY <1>2
  <2>2. ~(g < f)
    BY <1>3, <1>4, <2>1, Zenon
  <2> QED
    BY <2>1, <2>2
<1> QED
  BY <1>4, <1>5 DEF First

(* sendNext starts a reader on the slice it is given, and on no other.         *)
LEMMA ReaderStarts ==
  ASSUME NEW f, NEW c, NEW rd \in [Slices -> Nat], <<f, c>> \in Slices, StartReader(f, c, rd)
  PROVE  /\ reading' \in [Slices -> Nat]
         /\ \A s \in Slices : s # <<f, c>> => reading'[s] = rd[s]
  BY DEF StartReader

(* processNextFile leaves the queue typed and begins at most one waiting file. *)
LEMMA NextFile ==
  ASSUME NEW st \in [Files -> SenderFile], NEW h \in SUBSET Files, ProcessNextFile(st, h)
  PROVE  /\ status' \in [Files -> SenderFile]
         /\ transferState' \in TransferState
         /\ activeTransferId' \in Files \cup {None}
         /\ hashing' \subseteq Files
         /\ \A f \in Files : NotBegun(f)' => f \in h \/ st[f] = "WAITING"
<1> DEFINE waiting == {f \in Files : st[f] = "WAITING"}
<1>1. CASE waiting # {}
  <2>1. First(waiting) \in Files /\ st[First(waiting)] = "WAITING"
    BY <1>1, FirstIsIn
  <2>2. /\ status' = [st EXCEPT ![First(waiting)] = "PREPARING"]
        /\ hashing' = h \cup {First(waiting)}
        /\ activeTransferId' = First(waiting)
        /\ transferState' = "PREPARING"
    BY <1>1 DEF ProcessNextFile
  <2> HIDE DEF waiting
  <2> QED
    BY <2>1, <2>2 DEF SenderFile, TransferState, NotBegun
<1>2. CASE waiting = {}
  <2>1. /\ status' = st /\ hashing' = h /\ activeTransferId' = None
        /\ transferState' \in {"COMPLETED", "IDLE"}
    BY <1>2 DEF ProcessNextFile
  <2> HIDE DEF waiting
  <2> QED
    BY <2>1 DEF TransferState, NotBegun
<1> QED
  BY <1>1, <1>2

(* A new status is typed and makes no file wait again.                         *)
LEMMA MarkTyped ==
  ASSUME NEW st \in [Files -> SenderFile], NEW f \in Files, NEW s \in SenderFile \ {"WAITING"}
  PROVE  /\ Mark(st, f, s) \in [Files -> SenderFile]
         /\ \A g \in Files : Mark(st, f, s)[g] = "WAITING" => st[g] = "WAITING"
  BY DEF Mark

(* A control packet is a packet, of index 0 and slice 0.                       *)
LEMMA ControlTyped ==
  ASSUME NEW f \in Files, NEW t \in PacketType
  PROVE  /\ Control(t, f) \in Packet /\ Control(t, f).type = t
         /\ Control(t, f).slice = 0 /\ Control(t, f).index = 0
  BY DEF Control, Packet

(* Sending a control packet.                                                   *)
LEMMA ControlLags ==
  ASSUME buffer \in Seq(Packet), NEW f \in Files, NEW t \in PacketType \ {"CHUNK"},
         \A m \in 1..Len(buffer) : Late(buffer[m]),
         currentChunk' = currentChunk, buffer' = Append(buffer, Control(t, f))
  PROVE  buffer' \in Seq(Packet) /\ \A m \in 1..Len(buffer') : Late(buffer[m])'
<1>1. /\ Control(t, f) \in Packet /\ Control(t, f).type = t
      /\ Control(t, f).slice = 0 /\ Control(t, f).index = 0
  BY ControlTyped
<1>2. buffer' \in Seq(Packet)
  BY <1>1
<1>3. ASSUME NEW m \in 1..Len(buffer') PROVE Late(buffer[m])'
  <2>1. CASE m \in 1..Len(buffer)
    BY <2>1 DEF Late
  <2>2. CASE m = Len(buffer) + 1
    BY <1>1, <2>2 DEF Late
  <2> QED
    BY <1>1, <1>3, <2>1, <2>2
<1> QED
  BY <1>2, <1>3

LEMMA StartKeeps == ASSUME SInv, Start PROVE SInv' /\ Grows
<1>0. /\ status \in [Files -> SenderFile] /\ hashing \subseteq Files
      /\ ProcessNextFile(status, hashing)
  BY DEF SInv, SenderTypeOK, Start
<1>1. UNCHANGED <<channelVars, sAlive, progress, activeSender, pumpVars>>
  BY DEF Start
<1>2. UNCHANGED <<open, buffer, network, lowEvents, sAlive, progress, activeSender,
                  currentChunk, paused, cancelled, reading, lowOwner>>
  BY <1>1 DEF channelVars, pumpVars
<1>3. /\ status' \in [Files -> SenderFile] /\ transferState' \in TransferState
      /\ activeTransferId' \in Files \cup {None} /\ hashing' \subseteq Files
      /\ \A f \in Files : NotBegun(f)' => NotBegun(f)
  BY <1>0, NextFile DEF NotBegun
<1>4. ChannelTypeOK' /\ Grows
  BY <1>2 DEF SInv, ChannelTypeOK, SenderTypeOK, Grows
<1>5. SenderTypeOK'
  BY <1>2, <1>3 DEF SInv, SenderTypeOK
<1>6. Untouched' /\ Unowned' /\ ActiveUnfinished' /\ ReadersLag' /\ PacketsLag'
  BY <1>2, <1>3 DEF SInv, Untouched, Unowned, ActiveUnfinished, ReadersLag, PacketsLag, Late
<1> QED
  BY <1>4, <1>5, <1>6 DEF SInv

(* onComplete lets go of the ChunkSender and begins at most one waiting file.   *)
LEMMA CompleteMoves ==
  ASSUME SInv, NEW f \in Files, NEW pr \in [Files -> Nat], NEW h \in SUBSET hashing,
         Complete(f, pr, h)
  PROVE  /\ progress' \in [Files -> Nat] /\ activeSender' = None
         /\ status' \in [Files -> SenderFile] /\ transferState' \in TransferState
         /\ activeTransferId' \in Files \cup {None} /\ hashing' \subseteq Files
         /\ \A g \in Files : NotBegun(g)' => g \in h \/ (status[g] = "WAITING" /\ g # f)
<1> DEFINE st == Mark(status, f, "COMPLETED")
<1>1. /\ st \in [Files -> SenderFile]
      /\ \A g \in Files : st[g] = "WAITING" => status[g] = "WAITING" /\ g # f
  <2>1. status \in [Files -> SenderFile]
    BY DEF SInv, SenderTypeOK
  <2>2. st[f] # "WAITING"
    BY <2>1 DEF Mark
  <2> QED
    BY <2>1, <2>2, MarkTyped DEF SenderFile
<1>2. ProcessNextFile(st, h) /\ progress' = [pr EXCEPT ![f] = Chunks[f]] /\ activeSender' = None
  BY DEF Complete
<1> HIDE DEF st
<1>3. h \subseteq Files
  BY DEF SInv, SenderTypeOK
<1>4. progress' \in [Files -> Nat]
  BY <1>2, ChannelAssumption
<1> QED
  BY <1>1, <1>2, <1>3, <1>4, NextFile

LEMMA HashDoneKeeps == ASSUME SInv, NEW f \in Files, HashDone(f) PROVE SInv' /\ Grows
<1>1. /\ f \in hashing
      /\ buffer' = Append(buffer, Control("METADATA", f)) /\ lowOwner' = f
      /\ currentChunk' = [currentChunk EXCEPT ![f] = 0]
      /\ paused' = paused \ {f} /\ cancelled' = cancelled \ {f}
      /\ UNCHANGED <<open, network, lowEvents, sAlive>>
  BY DEF HashDone, Announce
<1>2. /\ \/ /\ Complete(f, progress, hashing \ {f}) /\ UNCHANGED reading
         \/ /\ ~Finished(f, 0) /\ StartReader(f, 0, reading)
            /\ hashing' = hashing \ {f} /\ status' = Mark(status, f, "SENDING")
            /\ progress' = [progress EXCEPT ![f] = 0]
            /\ transferState' = "TRANSFERRING" /\ activeSender' = f
            /\ UNCHANGED activeTransferId
  BY DEF HashDone, Announce
<1>3. currentChunk[f] = 0 /\ currentChunk' = currentChunk
  BY <1>1 DEF SInv, Untouched, NotBegun, SenderTypeOK
<1>4. buffer' \in Seq(Packet) /\ \A m \in 1..Len(buffer') : Late(buffer[m])'
  BY <1>1, <1>3, ControlLags DEF SInv, ChannelTypeOK, PacketsLag, PacketType
<1>5. ChannelTypeOK' /\ Grows
  BY <1>1, <1>3, <1>4 DEF SInv, ChannelTypeOK, SenderTypeOK, Grows
<1>6. /\ reading' \in [Slices -> Nat]
      /\ \A s \in Slices : s[1] # f => reading'[s] = reading[s]
      /\ \A s \in Slices : reading'[s] > 0 => s[2] <= currentChunk'[s[1]]
      /\ progress' \in [Files -> Nat] /\ status' \in [Files -> SenderFile]
      /\ transferState' \in TransferState /\ hashing' \subseteq Files
      /\ activeTransferId' \in Files \cup {None}
      /\ activeSender' \in Files \cup {None}
      /\ activeSender' # None => currentChunk'[activeSender'] < Chunks[activeSender']
      /\ \A g \in Files : NotBegun(g)' => NotBegun(g) /\ g # f
  <2>1. CASE Complete(f, progress, hashing \ {f}) /\ UNCHANGED reading
    <3>1. progress \in [Files -> Nat] /\ hashing \ {f} \subseteq hashing
      BY DEF SInv, SenderTypeOK
    <3>2. /\ progress' \in [Files -> Nat] /\ activeSender' = None
          /\ status' \in [Files -> SenderFile] /\ transferState' \in TransferState
          /\ activeTransferId' \in Files \cup {None} /\ hashing' \subseteq Files
          /\ \A g \in Files : NotBegun(g)'
                => g \in hashing \ {f} \/ (status[g] = "WAITING" /\ g # f)
      BY <2>1, <3>1, CompleteMoves
    <3>3. /\ reading' \in [Slices -> Nat]
          /\ \A s \in Slices : reading'[s] > 0 => s[2] <= currentChunk'[s[1]]
      BY <1>3, <2>1 DEF SInv, SenderTypeOK, ReadersLag
    <3> QED
      BY <2>1, <3>2, <3>3 DEF NotBegun
  <2>2. CASE /\ ~Finished(f, 0) /\ StartReader(f, 0, reading)
             /\ hashing' = hashing \ {f} /\ status' = Mark(status, f, "SENDING")
             /\ progress' = [progress EXCEPT ![f] = 0]
             /\ transferState' = "TRANSFERRING" /\ activeSender' = f
             /\ UNCHANGED activeTransferId
    <3>1. 0 < Chunks[f] /\ <<f, 0>> \in Slices
      <4>1. 0 < Chunks[f]
        BY <2>2, ChannelAssumption DEF Finished
      <4> QED
        BY <4>1, SliceMember, ChannelAssumption
    <3>2. /\ reading' \in [Slices -> Nat]
          /\ \A s \in Slices : s # <<f, 0>> => reading'[s] = reading[s]
      BY <2>2, <3>1, ReaderStarts DEF SInv, SenderTypeOK
    <3>3. ASSUME NEW s \in Slices, reading'[s] > 0 PROVE s[2] <= currentChunk'[s[1]]
      BY <1>3, <3>2, <3>3 DEF SInv, ReadersLag
    <3>4. /\ status' \in [Files -> SenderFile]
          /\ \A g \in Files : status'[g] = "WAITING" => status[g] = "WAITING" /\ g # f
      BY <2>2 DEF Mark, SInv, SenderTypeOK, SenderFile
    <3>5. \A g \in Files : NotBegun(g)' => NotBegun(g) /\ g # f
      BY <2>2, <3>4 DEF NotBegun
    <3>6. /\ progress' \in [Files -> Nat] /\ transferState' \in TransferState
          /\ hashing' \subseteq Files /\ activeTransferId' \in Files \cup {None}
      BY <2>2 DEF SInv, SenderTypeOK, TransferState
    <3> QED
      BY <1>3, <2>2, <3>1, <3>2, <3>3, <3>4, <3>5, <3>6
  <2> QED
    BY <1>2, <2>1, <2>2
<1>7. SenderTypeOK'
  BY <1>1, <1>3, <1>6 DEF SInv, SenderTypeOK
<1>8. f # None
  BY DEF Files, None
<1>9. Untouched'
  <2>1. ASSUME NEW g \in Files, NotBegun(g)'
        PROVE  /\ currentChunk'[g] = 0 /\ lowOwner' # g /\ activeSender' # g
               /\ \A s \in Slices : s[1] = g => reading'[s] = 0
    <3>1. NotBegun(g) /\ g # f
      BY <1>6, <2>1
    <3>2. activeSender' \in {f, None} /\ g # None
      BY <1>2 DEF Complete, Files, None
    <3> QED
      BY <1>1, <1>3, <1>6, <3>1, <3>2 DEF SInv, Untouched
  <2> QED
    BY <2>1 DEF Untouched
<1>10. Unowned' /\ ActiveUnfinished' /\ ReadersLag'
  BY <1>1, <1>6, <1>8 DEF Unowned, ActiveUnfinished, ReadersLag
<1>11. PacketsLag'
  BY <1>1, <1>3, <1>4 DEF SInv, PacketsLag, Late
<1> QED
  BY <1>5, <1>7, <1>9, <1>10, <1>11 DEF SInv

(* An error marks the file and shows FAILED; what is under way goes on.          *)
LEMMA ErrorMarks ==
  ASSUME SInv, NEW f \in Files, TransferError(f)
  PROVE  /\ status' \in [Files -> SenderFile] /\ progress' \in [Files -> Nat]
         /\ transferState' \in TransferState /\ UNCHANGED activeTransferId
         /\ \A g \in Files : status'[g] = "WAITING" => status[g] = "WAITING"
  BY MarkTyped DEF TransferError, SInv, SenderTypeOK, SenderFile, TransferState

LEMMA HashFailedKeeps == ASSUME SInv, NEW f \in Files, HashFailed(f) PROVE SInv' /\ Grows
<1>1. /\ hashing' = hashing \ {f}
      /\ UNCHANGED <<open, buffer, network, lowEvents, sAlive, activeSender,
                     currentChunk, paused, cancelled, reading, lowOwner>>
  BY DEF HashFailed, channelVars, pumpVars
<1>2. /\ status' \in [Files -> SenderFile] /\ progress' \in [Files -> Nat]
      /\ transferState' \in TransferState /\ UNCHANGED activeTransferId
      /\ \A g \in Files : NotBegun(g)' => NotBegun(g)
  BY <1>1, ErrorMarks DEF HashFailed, NotBegun
<1>3. ChannelTypeOK'
  BY <1>1 DEF SInv, ChannelTypeOK
<1>4. SenderTypeOK'
  BY <1>1, <1>2 DEF SInv, SenderTypeOK
<1>5. Grows
  BY <1>1 DEF SInv, SenderTypeOK, Grows
<1>6. Untouched' /\ Unowned' /\ ActiveUnfinished' /\ ReadersLag' /\ PacketsLag'
  BY <1>1, <1>2 DEF SInv, Untouched, Unowned, ActiveUnfinished, ReadersLag, PacketsLag, Late
<1> QED
  BY <1>3, <1>4, <1>5, <1>6 DEF SInv

(* What is left of the invariant when a task of the sending page has been shown   *)
(* to keep the types and the buffer.                                          *)
LEMMA SenderRest ==
  ASSUME SInv, ChannelTypeOK', SenderTypeOK', Grows, UNCHANGED lowOwner,
         lowOwner = None => buffer' = <<>> /\ lowEvents' = 0,
         activeSender' \in {activeSender, None},
         activeSender' # None => currentChunk'[activeSender'] < Chunks[activeSender'],
         \A g \in Files : NotBegun(g)' => NotBegun(g) /\ currentChunk'[g] = currentChunk[g],
         \A s \in Slices : reading'[s] > 0 => s[2] <= currentChunk'[s[1]] /\ lowOwner # None
                                              /\ ~NotBegun(s[1]),
         network' \in {network, <<>>},
         \A m \in 1..Len(buffer') : Late(buffer[m])'
  PROVE  SInv'
<1>1. Untouched'
  <2>1. ASSUME NEW g \in Files, NotBegun(g)', NEW s \in Slices, s[1] = g PROVE reading'[s] = 0
    <3>1. NotBegun(g)
      BY <2>1
    <3>2. ~(reading'[s] > 0)
      BY <2>1, <3>1
    <3>3. reading'[s] \in Nat
      BY DEF SenderTypeOK
    <3> QED
      BY <3>2, <3>3
  <2> QED
    BY <2>1 DEF SInv, Untouched, Files, None
<1>2. Unowned'
  BY DEF SInv, Unowned, SenderTypeOK
<1>3. ActiveUnfinished' /\ ReadersLag'
  BY DEF ActiveUnfinished, ReadersLag
<1>4. PacketsLag'
  <2>1. ASSUME NEW m \in 1..Len(network') PROVE Late(network[m])'
    <3>1. network' = network /\ m \in 1..Len(network)
      BY <2>1
    <3>2. Late(network[m]) /\ network[m] \in Packet
      BY <3>1 DEF SInv, PacketsLag, ChannelTypeOK
    <3>3. network[m].index \in Nat /\ network[m].file \in Files
      BY <3>2 DEF Packet
    <3>4. /\ currentChunk[network[m].file] \in Nat /\ currentChunk'[network[m].file] \in Nat
          /\ currentChunk[network[m].file] <= currentChunk'[network[m].file]
      BY <3>3 DEF SInv, SenderTypeOK, Grows
    <3> QED
      BY <3>1, <3>2, <3>3, <3>4 DEF Late
  <2> QED
    BY <2>1 DEF PacketsLag
<1> QED
  BY <1>1, <1>2, <1>3, <1>4 DEF SInv

LEMMA StaysLate ==
  ASSUME SInv, Grows, NEW p \in Packet, Late(p)
  PROVE  Late(p)'
<1>1. p.index \in Nat /\ p.file \in Files
  BY DEF Packet
<1>2. /\ currentChunk[p.file] \in Nat /\ currentChunk'[p.file] \in Nat
      /\ currentChunk[p.file] <= currentChunk'[p.file]
  BY <1>1 DEF SInv, SenderTypeOK, Grows
<1> QED
  BY <1>1, <1>2 DEF Late

LEMMA BufferStaysLate ==
  ASSUME SInv, Grows, buffer' = buffer
  PROVE  \A m \in 1..Len(buffer') : Late(buffer[m])'
<1>1. ASSUME NEW m \in 1..Len(buffer) PROVE Late(buffer[m])'
  <2>1. buffer[m] \in Packet /\ Late(buffer[m])
    BY <1>1 DEF SInv, ChannelTypeOK, PacketsLag
  <2> QED
    BY <2>1, StaysLate DEF Late
<1> QED
  BY <1>1

LEMMA ReaderBegun ==
  ASSUME SInv, NEW s \in Slices, reading[s] > 0
  PROVE  /\ s[1] \in Files /\ ~NotBegun(s[1]) /\ lowOwner # None
         /\ s[2] <= currentChunk[s[1]]
<1>1. reading[s] # 0 /\ s[1] \in Files
  BY SliceMember
<1> QED
  BY <1>1 DEF SInv, Untouched, Unowned, ReadersLag

LEMMA PairBegun ==
  ASSUME SInv, NEW f \in Files, NEW k, <<f, k>> \in Slices, reading[<<f, k>>] > 0
  PROVE  k \in Nat /\ k <= currentChunk[f] /\ ~NotBegun(f) /\ lowOwner # None
<1> DEFINE s == <<f, k>>
<1>1. s \in Slices /\ reading[s] > 0 /\ s[1] = f /\ s[2] = k
  OBVIOUS
<1>2. k \in 0..(Chunks[f] - 1)
  BY <1>1, SliceMember
<1>3. k \in Nat
  BY <1>2
<1> HIDE DEF s
<1> QED
  BY <1>1, <1>3, ReaderBegun

LEMMA ReaderEnds ==
  ASSUME reading \in [Slices -> Nat], NEW x \in Slices, reading[x] > 0
  PROVE  /\ [reading EXCEPT ![x] = @ - 1] \in [Slices -> Nat]
         /\ \A s \in Slices : [reading EXCEPT ![x] = @ - 1][s] <= reading[s]
<1>1. \A s \in Slices : reading[s] \in Nat
  OBVIOUS
<1>2. reading[x] - 1 \in Nat
  BY <1>1
<1> QED
  BY <1>1, <1>2

LEMMA Advances ==
  ASSUME SInv, NEW f \in Files, currentChunk' = [currentChunk EXCEPT ![f] = currentChunk[f] + 1]
  PROVE  Grows /\ currentChunk'[f] = currentChunk[f] + 1
<1>1. currentChunk \in [Files -> Nat]
  BY DEF SInv, SenderTypeOK
<1> QED
  BY <1>1 DEF Grows

LEMMA ChunkLoadedKeeps ==
  ASSUME SInv, NEW f \in Files, NEW k, <<f, k>> \in Slices, ChunkLoaded(f, k)
  PROVE  SInv' /\ Grows
<1> DEFINE c    == currentChunk[f]
           next == c + 1
           rd   == [reading EXCEPT ![<<f, k>>] = @ - 1]
           pr   == [progress EXCEPT ![f] = @ + 1]
<1>1. /\ reading[<<f, k>>] > 0
      /\ buffer' = Append(buffer, Chunk(f, c, k))
      /\ currentChunk' = [currentChunk EXCEPT ![f] = next]
      /\ UNCHANGED <<open, network, lowEvents, sAlive, paused, cancelled, lowOwner>>
  BY DEF ChunkLoaded
<1>2. /\ \/ Finished(f, next) /\ reading' = rd /\ Complete(f, pr, hashing)
         \/ /\ ~Finished(f, next) /\ StartReader(f, next, rd) /\ progress' = pr
            /\ UNCHANGED <<status, transferState, activeTransferId, hashing, activeSender>>
  BY DEF ChunkLoaded
<1>3. /\ c \in Nat /\ next \in Nat /\ k \in Nat /\ k <= c
      /\ ~NotBegun(f) /\ lowOwner # None /\ Chunks[f] \in Nat
  <2>1. k \in Nat /\ k <= c /\ ~NotBegun(f) /\ lowOwner # None
    BY <1>1, PairBegun
  <2>2. c \in Nat /\ Chunks[f] \in Nat
    BY ChannelAssumption DEF SInv, SenderTypeOK
  <2> QED
    BY <2>1, <2>2
<1>4. rd \in [Slices -> Nat] /\ \A s \in Slices : rd[s] > 0 => reading[s] > 0
  <2>1. rd \in [Slices -> Nat] /\ reading \in [Slices -> Nat]
        /\ \A s \in Slices : rd[s] <= reading[s]
    BY <1>1, ReaderEnds DEF SInv, SenderTypeOK
  <2> HIDE DEF rd
  <2> QED
    BY <2>1
<1>5. pr \in [Files -> Nat]
  BY DEF SInv, SenderTypeOK
<1>6. Grows
  BY <1>1, Advances
<1>7. /\ Chunk(f, c, k) \in Packet /\ Chunk(f, c, k).index = c
      /\ Chunk(f, c, k).slice = k /\ Chunk(f, c, k).file = f
  BY <1>3 DEF Chunk, Packet, PacketType
<1> HIDE DEF c, next, rd, pr
<1>8. buffer' \in Seq(Packet)
  BY <1>1, <1>7 DEF SInv, ChannelTypeOK
<1>9. ASSUME NEW m \in 1..Len(buffer') PROVE Late(buffer[m])'
  <2>1. CASE m \in 1..Len(buffer)
    <3>1. buffer'[m] = buffer[m] /\ buffer[m] \in Packet /\ Late(buffer[m])
      BY <1>1, <1>7, <2>1 DEF SInv, ChannelTypeOK, PacketsLag
    <3> QED
      BY <1>6, <3>1, StaysLate DEF Late
  <2>2. CASE m = Len(buffer) + 1
    <3>1. buffer'[m] = Chunk(f, c, k)
      BY <1>1, <1>7, <2>2 DEF SInv, ChannelTypeOK
    <3>2. currentChunk'[f] = next /\ c < next
      BY <1>1, <1>3 DEF SInv, SenderTypeOK, next
    <3> QED
      BY <1>3, <1>7, <3>1, <3>2 DEF Late
  <2>3. m \in 1..Len(buffer) \/ m = Len(buffer) + 1
    BY <1>1, <1>7, <1>9 DEF SInv, ChannelTypeOK
  <2> QED
    BY <2>1, <2>2, <2>3
<1>10. ChannelTypeOK'
  BY <1>1, <1>8 DEF SInv, ChannelTypeOK
<1>11. \A g \in Files : NotBegun(g) => g # f /\ currentChunk'[g] = currentChunk[g]
  BY <1>1, <1>3 DEF SInv, SenderTypeOK
<1>12. CASE Finished(f, next) /\ reading' = rd /\ Complete(f, pr, hashing)
  <2>1. /\ progress' \in [Files -> Nat] /\ activeSender' = None
        /\ status' \in [Files -> SenderFile] /\ transferState' \in TransferState
        /\ activeTransferId' \in Files \cup {None} /\ hashing' \subseteq Files
        /\ \A g \in Files : NotBegun(g)' => NotBegun(g)
    BY <1>5, <1>12, CompleteMoves DEF NotBegun
  <2>2. SenderTypeOK'
    BY <1>1, <1>4, <1>5, <1>6, <1>12, <2>1 DEF SInv, SenderTypeOK, Grows
  <2>3. ASSUME NEW s \in Slices, reading'[s] > 0
        PROVE  s[2] <= currentChunk'[s[1]] /\ lowOwner # None /\ ~NotBegun(s[1])
    <3>1. reading[s] > 0
      BY <1>4, <1>12, <2>3
    <3>2. /\ s[1] \in Files /\ ~NotBegun(s[1]) /\ lowOwner # None
          /\ s[2] <= currentChunk[s[1]] /\ s[2] \in Nat
      BY <3>1, ReaderBegun, SliceMember, ChannelAssumption
    <3>3. currentChunk[s[1]] <= currentChunk'[s[1]] /\ currentChunk[s[1]] \in Nat
          /\ currentChunk'[s[1]] \in Nat
      BY <1>6, <3>2 DEF Grows, SInv, SenderTypeOK
    <3> QED
      BY <3>2, <3>3
  <2> QED
    BY <1>1, <1>3, <1>6, <1>9, <1>10, <1>11, <2>1, <2>2, <2>3, SenderRest
<1>13. CASE /\ ~Finished(f, next) /\ StartReader(f, next, rd) /\ progress' = pr
            /\ UNCHANGED <<status, transferState, activeTransferId, hashing, activeSender>>
  <2>1. next < Chunks[f] /\ <<f, next>> \in Slices
    BY <1>3, <1>13, SliceMember DEF Finished
  <2>2. /\ reading' \in [Slices -> Nat]
        /\ \A s \in Slices : s # <<f, next>> => reading'[s] = rd[s]
    BY <1>4, <1>13, <2>1, ReaderStarts
  <2>3. SenderTypeOK'
    BY <1>1, <1>5, <1>6, <1>13, <2>2 DEF SInv, SenderTypeOK, Grows
  <2>4. ASSUME NEW s \in Slices, reading'[s] > 0
        PROVE  s[2] <= currentChunk'[s[1]] /\ lowOwner # None /\ ~NotBegun(s[1])
    <3>1. CASE s = <<f, next>>
      <4>1. s[1] = f /\ s[2] = next /\ currentChunk'[f] = next
        BY <1>1, <3>1 DEF SInv, SenderTypeOK
      <4> QED
        BY <1>3, <4>1
    <3>2. CASE s # <<f, next>>
      <4>1. reading[s] > 0
        BY <1>4, <2>2, <2>4, <3>2
      <4>2. /\ s[1] \in Files /\ ~NotBegun(s[1]) /\ lowOwner # None
            /\ s[2] <= currentChunk[s[1]] /\ s[2] \in Nat
        BY <4>1, ReaderBegun, SliceMember, ChannelAssumption
      <4>3. currentChunk[s[1]] <= currentChunk'[s[1]] /\ currentChunk[s[1]] \in Nat
            /\ currentChunk'[s[1]] \in Nat
        BY <1>6, <4>2 DEF Grows, SInv, SenderTypeOK
      <4> QED
        BY <4>2, <4>3
    <3> QED
      BY <3>1, <3>2
  <2>5. activeSender' # None => currentChunk'[activeSender'] < Chunks[activeSender']
    BY <1>1, <1>13, <2>1 DEF SInv, SenderTypeOK, ActiveUnfinished
  <2>6. \A g \in Files : NotBegun(g)' => NotBegun(g)
    BY <1>13 DEF NotBegun
  <2> QED
    BY <1>1, <1>3, <1>6, <1>9, <1>10, <1>11, <1>13, <2>3, <2>4, <2>5, <2>6, SenderRest
<1> QED
  BY <1>2, <1>6, <1>12, <1>13

(* The pending readers that are still there lag behind an unmoved ChunkSender.    *)
LEMMA ReadersStayLate ==
  ASSUME SInv, currentChunk' = currentChunk,
         NEW s \in Slices, reading'[s] <= reading[s], reading'[s] > 0, reading'[s] \in Nat
  PROVE  s[2] <= currentChunk'[s[1]] /\ lowOwner # None /\ ~NotBegun(s[1])
<1>1. reading[s] > 0
  BY DEF SInv, SenderTypeOK
<1> QED
  BY <1>1, ReaderBegun

LEMMA ChunkDroppedKeeps ==
  ASSUME SInv, NEW f \in Files, NEW k, <<f, k>> \in Slices, ChunkDropped(f, k)
  PROVE  SInv' /\ Grows
<1>1. /\ reading[<<f, k>>] > 0 /\ reading' = [reading EXCEPT ![<<f, k>>] = @ - 1]
      /\ UNCHANGED <<open, buffer, network, lowEvents, sAlive, status, progress,
                     transferState, activeTransferId, hashing, activeSender,
                     currentChunk, paused, cancelled, lowOwner>>
  BY DEF ChunkDropped, channelVars, storeVars
<1>2. reading' \in [Slices -> Nat] /\ \A s \in Slices : reading'[s] <= reading[s]
  BY <1>1, ReaderEnds DEF SInv, SenderTypeOK
<1>3. ChannelTypeOK' /\ Grows
  BY <1>1 DEF SInv, ChannelTypeOK, SenderTypeOK, Grows
<1>4. SenderTypeOK'
  BY <1>1, <1>2 DEF SInv, SenderTypeOK
<1>5. \A s \in Slices : reading'[s] > 0 =>
          s[2] <= currentChunk'[s[1]] /\ lowOwner # None /\ ~NotBegun(s[1])
  BY <1>1, <1>2, ReadersStayLate
<1>6. \A m \in 1..Len(buffer') : Late(buffer[m])'
  BY <1>1, <1>3, BufferStaysLate
<1>7. \A g \in Files : NotBegun(g)' => NotBegun(g) /\ currentChunk'[g] = currentChunk[g]
  BY <1>1 DEF NotBegun
<1>8. activeSender' # None => currentChunk'[activeSender'] < Chunks[activeSender']
  BY <1>1 DEF SInv, ActiveUnfinished
<1>9. lowOwner = None => buffer' = <<>> /\ lowEvents' = 0
  BY <1>1 DEF SInv, Unowned
<1> QED
  BY <1>1, <1>3, <1>4, <1>5, <1>6, <1>7, <1>8, <1>9, SenderRest

LEMMA ChunkFailedKeeps ==
  ASSUME SInv, NEW f \in Files, NEW k, <<f, k>> \in Slices, ChunkFailed(f, k)
  PROVE  SInv' /\ Grows
<1>1. /\ reading[<<f, k>>] > 0 /\ reading' = [reading EXCEPT ![<<f, k>>] = @ - 1]
      /\ TransferError(f)
      /\ UNCHANGED <<open, buffer, network, lowEvents, sAlive, hashing, activeSender,
                     currentChunk, paused, cancelled, lowOwner>>
  BY DEF ChunkFailed, channelVars
<1>2. reading' \in [Slices -> Nat] /\ \A s \in Slices : reading'[s] <= reading[s]
  BY <1>1, ReaderEnds DEF SInv, SenderTypeOK
<1>3. ChannelTypeOK' /\ Grows
  BY <1>1 DEF SInv, ChannelTypeOK, SenderTypeOK, Grows
<1>4. /\ status' \in [Files -> SenderFile] /\ progress' \in [Files -> Nat]
      /\ transferState' \in TransferState /\ UNCHANGED activeTransferId
      /\ \A g \in Files : status'[g] = "WAITING" => status[g] = "WAITING"
  BY <1>1, ErrorMarks
<1>5. SenderTypeOK'
  BY <1>1, <1>2, <1>4 DEF SInv, SenderTypeOK
<1>6. \A s \in Slices : reading'[s] > 0 =>
          s[2] <= currentChunk'[s[1]] /\ lowOwner # None /\ ~NotBegun(s[1])
  BY <1>1, <1>2, ReadersStayLate
<1>7. \A m \in 1..Len(buffer') : Late(buffer[m])'
  BY <1>1, <1>3, BufferStaysLate
<1>8. \A g \in Files : NotBegun(g)' => NotBegun(g) /\ currentChunk'[g] = currentChunk[g]
  BY <1>1, <1>4 DEF NotBegun
<1>9. activeSender' # None => currentChunk'[activeSender'] < Chunks[activeSender']
  BY <1>1 DEF SInv, ActiveUnfinished
<1>10. lowOwner = None => buffer' = <<>> /\ lowEvents' = 0
  BY <1>1 DEF SInv, Unowned
<1> QED
  BY <1>1, <1>3, <1>5, <1>6, <1>7, <1>8, <1>9, <1>10, SenderRest

(* sendNext of a ChunkSender that is not done starts one more reader.            *)
LEMMA ReaderJoins ==
  ASSUME SInv, currentChunk' = currentChunk, NEW f \in Files, ~NotBegun(f), lowOwner # None,
         currentChunk[f] < Chunks[f], StartReader(f, currentChunk[f], reading)
  PROVE  /\ reading' \in [Slices -> Nat]
         /\ \A s \in Slices : reading'[s] > 0 =>
               s[2] <= currentChunk'[s[1]] /\ lowOwner # None /\ ~NotBegun(s[1])
<1> DEFINE c == currentChunk[f]
<1>1. c \in Nat /\ Chunks[f] \in Nat
  BY ChannelAssumption DEF SInv, SenderTypeOK
<1>2. c \in 0..(Chunks[f] - 1)
  BY <1>1
<1> HIDE DEF c
<1>3. <<f, c>> \in Slices
  BY <1>2, SliceMember
<1>4. /\ reading' \in [Slices -> Nat]
      /\ \A s \in Slices : s # <<f, c>> => reading'[s] = reading[s]
  BY <1>3, ReaderStarts DEF SInv, SenderTypeOK, c
<1>5. ASSUME NEW s \in Slices, reading'[s] > 0
      PROVE  s[2] <= currentChunk'[s[1]] /\ lowOwner # None /\ ~NotBegun(s[1])
  <2>1. CASE s = <<f, c>>
    <3>1. s[1] = f /\ s[2] = c
      BY <2>1
    <3> QED
      BY <1>1, <3>1 DEF c
  <2>2. CASE s # <<f, c>>
    <3>1. reading[s] > 0
      BY <1>4, <1>5, <2>2
    <3> QED
      BY <3>1, ReaderBegun
  <2> QED
    BY <2>1, <2>2
<1> QED
  BY <1>4, <1>5

LEMMA BufferedAmountLowKeeps == ASSUME SInv, BufferedAmountLow PROVE SInv' /\ Grows
<1> DEFINE f == lowOwner
           c == currentChunk[f]
<1>1. /\ lowEvents > 0 /\ lowEvents' = lowEvents - 1
      /\ UNCHANGED <<open, buffer, network, sAlive,
                     currentChunk, paused, cancelled, lowOwner>>
      /\ \/ Finished(f, c) /\ Complete(f, progress, hashing) /\ UNCHANGED reading
         \/ /\ ~Finished(f, c) /\ StartReader(f, c, reading)
            /\ UNCHANGED <<status, progress, transferState, activeTransferId,
                           hashing, activeSender>>
         \/ UNCHANGED <<reading, status, progress, transferState, activeTransferId,
                        hashing, activeSender>>
  BY DEF BufferedAmountLow
<1>2. f \in Files /\ f # None /\ ~NotBegun(f)
  BY <1>1 DEF SInv, SenderTypeOK, Unowned, Untouched
<1>3. c \in Nat /\ Chunks[f] \in Nat /\ progress \in [Files -> Nat]
  BY <1>2, ChannelAssumption DEF SInv, SenderTypeOK
<1> HIDE DEF f, c
<1>4. Grows
  BY <1>1 DEF SInv, SenderTypeOK, Grows
<1>5. ChannelTypeOK'
  <2>1. lowEvents' \in 0..MaxLowEvents
    BY <1>1, ChannelAssumption DEF SInv, ChannelTypeOK
  <2> QED
    BY <1>1, <2>1 DEF SInv, ChannelTypeOK
<1>6. \A m \in 1..Len(buffer') : Late(buffer[m])'
  BY <1>1, <1>4, BufferStaysLate
<1>7. CASE Finished(f, c) /\ Complete(f, progress, hashing) /\ UNCHANGED reading
  <2>1. /\ progress' \in [Files -> Nat] /\ activeSender' = None
        /\ status' \in [Files -> SenderFile] /\ transferState' \in TransferState
        /\ activeTransferId' \in Files \cup {None} /\ hashing' \subseteq Files
        /\ \A g \in Files : NotBegun(g)' => NotBegun(g)
    BY <1>2, <1>3, <1>7, CompleteMoves DEF NotBegun
  <2>2. SenderTypeOK'
    BY <1>1, <1>7, <2>1 DEF SInv, SenderTypeOK
  <2>3. \A s \in Slices : reading'[s] > 0 =>
            s[2] <= currentChunk'[s[1]] /\ lowOwner # None /\ ~NotBegun(s[1])
    BY <1>1, <1>7, ReaderBegun
  <2> QED
    BY <1>1, <1>2, <1>4, <1>5, <1>6, <2>1, <2>2, <2>3, SenderRest DEF f
<1>8. CASE /\ ~Finished(f, c) /\ StartReader(f, c, reading)
           /\ UNCHANGED <<status, progress, transferState, activeTransferId,
                          hashing, activeSender>>
  <2>1. c < Chunks[f]
    BY <1>3, <1>8 DEF Finished
  <2>2. /\ reading' \in [Slices -> Nat]
        /\ \A s \in Slices : reading'[s] > 0 =>
              s[2] <= currentChunk'[s[1]] /\ lowOwner # None /\ ~NotBegun(s[1])
    BY <1>1, <1>2, <1>8, <2>1, ReaderJoins DEF f, c
  <2>3. SenderTypeOK'
    BY <1>1, <1>8, <2>2 DEF SInv, SenderTypeOK
  <2>4. \A g \in Files : NotBegun(g)' => NotBegun(g)
    BY <1>8 DEF NotBegun
  <2>5. activeSender' # None => currentChunk'[activeSender'] < Chunks[activeSender']
    BY <1>1, <1>8 DEF SInv, ActiveUnfinished
  <2> QED
    BY <1>1, <1>2, <1>4, <1>5, <1>6, <1>8, <2>2, <2>3, <2>4, <2>5, SenderRest DEF f
<1>9. CASE UNCHANGED <<reading, status, progress, transferState, activeTransferId,
                       hashing, activeSender>>
  <2>1. SenderTypeOK'
    BY <1>1, <1>9 DEF SInv, SenderTypeOK
  <2>2. \A s \in Slices : reading'[s] > 0 =>
            s[2] <= currentChunk'[s[1]] /\ lowOwner # None /\ ~NotBegun(s[1])
    BY <1>1, <1>9, ReaderBegun
  <2>3. \A g \in Files : NotBegun(g)' => NotBegun(g)
    BY <1>9 DEF NotBegun
  <2>4. activeSender' # None => currentChunk'[activeSender'] < Chunks[activeSender']
    BY <1>1, <1>9 DEF SInv, ActiveUnfinished
  <2> QED
    BY <1>1, <1>2, <1>4, <1>5, <1>6, <1>9, <2>1, <2>2, <2>3, <2>4, SenderRest DEF f
<1> QED
  BY <1>1, <1>4, <1>7, <1>8, <1>9

LEMMA NotifySends ==
  ASSUME SInv, currentChunk' = currentChunk, NEW v \in SenderFile \ {"WAITING"},
         NEW t \in PacketType \ {"CHUNK"}, Notify(v, t)
  PROVE  /\ status' \in [Files -> SenderFile]
         /\ \A g \in Files : status'[g] = "WAITING" => status[g] = "WAITING"
         /\ buffer' \in Seq(Packet)
         /\ \A m \in 1..Len(buffer') : Late(buffer[m])'
<1>1. Grows
  BY DEF SInv, SenderTypeOK, Grows
<1>2. CASE activeTransferId = None
  <2>1. UNCHANGED <<status, buffer>>
    BY <1>2 DEF Notify
  <2> QED
    BY <1>1, <2>1, BufferStaysLate DEF SInv, SenderTypeOK, ChannelTypeOK
<1>3. CASE activeTransferId # None
  <2> DEFINE f == activeTransferId
  <2>1. f \in Files /\ status' = Mark(status, f, v)
        /\ buffer' = IF open THEN Append(buffer, Control(t, f)) ELSE buffer
    BY <1>3 DEF Notify, SInv, SenderTypeOK
  <2> HIDE DEF f
  <2>2. status' \in [Files -> SenderFile]
        /\ \A g \in Files : status'[g] = "WAITING" => status[g] = "WAITING"
    BY <2>1, MarkTyped DEF SInv, SenderTypeOK
  <2>3. CASE open
    BY <2>1, <2>2, <2>3, ControlLags DEF SInv, ChannelTypeOK, PacketsLag
  <2>4. CASE ~open
    BY <1>1, <2>1, <2>2, <2>4, BufferStaysLate DEF SInv, ChannelTypeOK
  <2> QED
    BY <2>3, <2>4
<1> QED
  BY <1>2, <1>3

LEMMA PauseKeeps == ASSUME SInv, Pause PROVE SInv' /\ Grows
<1>1. /\ activeSender # None /\ paused' = paused \cup {activeSender}
      /\ Notify("PREPARING", "PAUSE")
      /\ UNCHANGED <<open, network, lowEvents, sAlive, progress, transferState,
                     activeTransferId, hashing, activeSender, currentChunk, cancelled,
                     reading, lowOwner>>
  BY DEF Pause
<1>2. /\ status' \in [Files -> SenderFile]
      /\ \A g \in Files : status'[g] = "WAITING" => status[g] = "WAITING"
      /\ buffer' \in Seq(Packet) /\ \A m \in 1..Len(buffer') : Late(buffer[m])'
  <2>1. "PREPARING" \in SenderFile \ {"WAITING"} /\ "PAUSE" \in PacketType \ {"CHUNK"}
    BY DEF SenderFile, PacketType
  <2> QED
    BY <1>1, <2>1, NotifySends
<1>3. ChannelTypeOK' /\ Grows
  BY <1>1, <1>2 DEF SInv, ChannelTypeOK, SenderTypeOK, Grows
<1>4. SenderTypeOK'
  BY <1>1, <1>2 DEF SInv, SenderTypeOK
<1>5. \A s \in Slices : reading'[s] > 0 =>
          s[2] <= currentChunk'[s[1]] /\ lowOwner # None /\ ~NotBegun(s[1])
  BY <1>1, ReaderBegun
<1>6. \A g \in Files : NotBegun(g)' => NotBegun(g) /\ currentChunk'[g] = currentChunk[g]
  BY <1>1, <1>2 DEF NotBegun
<1>7. activeSender' # None => currentChunk'[activeSender'] < Chunks[activeSender']
  BY <1>1 DEF SInv, ActiveUnfinished
<1>8. lowOwner # None
  BY <1>1 DEF SInv, Unowned
<1> QED
  BY <1>1, <1>2, <1>3, <1>4, <1>5, <1>6, <1>7, <1>8, SenderRest

LEMMA ResumeKeeps == ASSUME SInv, Resume PROVE SInv' /\ Grows
<1> DEFINE f == activeSender
<1>1. /\ f # None /\ paused' = paused \ {f} /\ Notify("SENDING", "RESUME")
      /\ StartReader(f, currentChunk[f], reading) \/ UNCHANGED reading
      /\ UNCHANGED <<open, network, lowEvents, sAlive, progress, transferState,
                     activeTransferId, hashing, activeSender, currentChunk, cancelled,
                     lowOwner>>
  BY DEF Resume
<1>2. f \in Files /\ ~NotBegun(f) /\ lowOwner # None /\ currentChunk[f] < Chunks[f]
  BY <1>1 DEF SInv, SenderTypeOK, Untouched, Unowned, ActiveUnfinished
<1>3. /\ status' \in [Files -> SenderFile]
      /\ \A g \in Files : status'[g] = "WAITING" => status[g] = "WAITING"
      /\ buffer' \in Seq(Packet) /\ \A m \in 1..Len(buffer') : Late(buffer[m])'
  <2>1. "SENDING" \in SenderFile \ {"WAITING"} /\ "RESUME" \in PacketType \ {"CHUNK"}
    BY DEF SenderFile, PacketType
  <2> QED
    BY <1>1, <2>1, NotifySends
<1> HIDE DEF f
<1>4. /\ reading' \in [Slices -> Nat]
      /\ \A s \in Slices : reading'[s] > 0 =>
            s[2] <= currentChunk'[s[1]] /\ lowOwner # None /\ ~NotBegun(s[1])
  <2>1. CASE StartReader(f, currentChunk[f], reading)
    BY <1>1, <1>2, <2>1, ReaderJoins
  <2>2. CASE UNCHANGED reading
    BY <1>1, <2>2, ReaderBegun DEF SInv, SenderTypeOK
  <2> QED
    BY <1>1, <2>1, <2>2
<1>5. ChannelTypeOK' /\ Grows
  BY <1>1, <1>3 DEF SInv, ChannelTypeOK, SenderTypeOK, Grows
<1>6. SenderTypeOK'
  BY <1>1, <1>3, <1>4 DEF SInv, SenderTypeOK
<1>7. \A g \in Files : NotBegun(g)' => NotBegun(g) /\ currentChunk'[g] = currentChunk[g]
  BY <1>1, <1>3 DEF NotBegun
<1>8. activeSender' # None => currentChunk'[activeSender'] < Chunks[activeSender']
  BY <1>1 DEF SInv, ActiveUnfinished
<1> QED
  BY <1>1, <1>2, <1>3, <1>4, <1>5, <1>6, <1>7, <1>8, SenderRest

LEMMA CancelKeeps == ASSUME SInv, Cancel PROVE SInv' /\ Grows
<1> DEFINE f  == activeTransferId
           st == Mark(status, f, "CANCELLED")
<1>1. /\ f # None /\ activeSender' = None
      /\ cancelled' = cancelled \cup ({activeSender} \ {None})
      /\ buffer' = IF open /\ activeSender # None
                   THEN Append(buffer, Control("CANCEL", activeSender)) ELSE buffer
      /\ progress' = [progress EXCEPT ![f] = 0]
      /\ ProcessNextFile(st, hashing)
      /\ UNCHANGED <<open, network, lowEvents, sAlive, currentChunk, paused,
                     reading, lowOwner>>
  BY DEF Cancel
<1>2. f \in Files
  BY <1>1 DEF SInv, SenderTypeOK
<1>3. st \in [Files -> SenderFile] /\ \A g \in Files : st[g] = "WAITING" => status[g] = "WAITING"
  BY <1>2, MarkTyped DEF SInv, SenderTypeOK, SenderFile
<1> HIDE DEF st
<1>4. /\ status' \in [Files -> SenderFile] /\ transferState' \in TransferState
      /\ activeTransferId' \in Files \cup {None} /\ hashing' \subseteq Files
      /\ \A g \in Files : NotBegun(g)' => NotBegun(g)
  <2>1. hashing \subseteq Files
    BY DEF SInv, SenderTypeOK
  <2> QED
    BY <1>1, <1>3, <2>1, NextFile DEF NotBegun
<1>5. Grows
  BY <1>1 DEF SInv, SenderTypeOK, Grows
<1>6. /\ buffer' \in Seq(Packet) /\ \A m \in 1..Len(buffer') : Late(buffer[m])'
      /\ lowOwner = None => buffer' = <<>>
  <2>1. CASE open /\ activeSender # None
    <3>1. activeSender \in Files /\ "CANCEL" \in PacketType \ {"CHUNK"} /\ lowOwner # None
      BY <2>1 DEF SInv, SenderTypeOK, PacketType, Unowned
    <3>2. buffer' = Append(buffer, Control("CANCEL", activeSender))
      BY <1>1, <2>1
    <3> QED
      BY <1>1, <3>1, <3>2, ControlLags DEF SInv, ChannelTypeOK, PacketsLag
  <2>2. CASE ~(open /\ activeSender # None)
    <3>1. buffer' = buffer
      BY <1>1, <2>2
    <3> QED
      BY <1>5, <3>1, BufferStaysLate DEF SInv, ChannelTypeOK, Unowned
  <2> QED
    BY <2>1, <2>2
<1>7. ChannelTypeOK'
  BY <1>1, <1>6 DEF SInv, ChannelTypeOK
<1>8. SenderTypeOK'
  <2>1. progress' \in [Files -> Nat] /\ cancelled' \subseteq Files
    BY <1>1 DEF SInv, SenderTypeOK
  <2> QED
    BY <1>1, <1>4, <2>1 DEF SInv, SenderTypeOK
<1>9. \A s \in Slices : reading'[s] > 0 =>
          s[2] <= currentChunk'[s[1]] /\ lowOwner # None /\ ~NotBegun(s[1])
  BY <1>1, ReaderBegun
<1>10. lowOwner = None => lowEvents' = 0
  BY <1>1 DEF SInv, Unowned
<1> QED
  BY <1>1, <1>4, <1>5, <1>6, <1>7, <1>8, <1>9, <1>10, SenderRest

LEMMA SenderCleanupKeeps == ASSUME SInv, SenderCleanup PROVE SInv' /\ Grows
<1>1. /\ sAlive' = FALSE /\ open' = FALSE /\ buffer' = <<>> /\ network' = <<>>
      /\ cancelled' = cancelled \cup ({activeSender} \ {None})
      /\ status' = [f \in Files |-> "ABSENT"]
      /\ progress' = [f \in Files |-> 0]
      /\ transferState' = "IDLE" /\ activeTransferId' = None
      /\ UNCHANGED <<lowEvents, hashing, activeSender, currentChunk, paused, reading, lowOwner>>
  BY DEF SenderCleanup, Close
<1>2. ChannelTypeOK' /\ Grows
  <2>1. open' \in BOOLEAN
    BY <1>1
  <2>2. <<>> \in Seq(Packet)
    OBVIOUS
  <2> QED
    BY <1>1, <2>1, <2>2 DEF SInv, ChannelTypeOK, SenderTypeOK, Grows
<1>3. SenderTypeOK'
  <2>1. /\ "ABSENT" \in SenderFile /\ "IDLE" \in TransferState
    BY DEF SenderFile, TransferState
  <2>2. /\ status' \in [Files -> SenderFile] /\ progress' \in [Files -> Nat]
        /\ cancelled' \subseteq Files
    BY <1>1, <2>1 DEF SInv, SenderTypeOK
  <2>3. sAlive' \in BOOLEAN
    BY <1>1
  <2> QED
    BY <1>1, <2>1, <2>2, <2>3 DEF SInv, SenderTypeOK
<1>4. \A s \in Slices : reading'[s] > 0 =>
          s[2] <= currentChunk'[s[1]] /\ lowOwner # None /\ ~NotBegun(s[1])
  BY <1>1, ReaderBegun
<1>5. \A g \in Files : NotBegun(g)' => NotBegun(g) /\ currentChunk'[g] = currentChunk[g]
  BY <1>1 DEF NotBegun
<1>6. activeSender' # None => currentChunk'[activeSender'] < Chunks[activeSender']
  BY <1>1 DEF SInv, ActiveUnfinished
<1>7. lowOwner = None => lowEvents' = 0
  BY <1>1 DEF SInv, Unowned
<1> QED
  BY <1>1, <1>2, <1>3, <1>4, <1>5, <1>6, <1>7, SenderRest

-------------------------------------------------------------------------------
(* Steps that do not touch the sending page move packets only.                  *)
LEMMA PacketsMove ==
  ASSUME SInv, UNCHANGED senderVars, ChannelTypeOK',
         lowOwner = None => buffer' = <<>> /\ lowEvents' = 0,
         \A m \in 1..Len(buffer') : Late(buffer'[m]),
         \A m \in 1..Len(network') : Late(network'[m])
  PROVE  SInv'
<1>1. UNCHANGED <<sAlive, status, progress, transferState, activeTransferId, hashing,
                  activeSender, currentChunk, paused, cancelled, reading, lowOwner>>
  BY DEF senderVars, storeVars, pumpVars
<1>2. SenderTypeOK' /\ Untouched' /\ ActiveUnfinished' /\ ReadersLag'
  BY <1>1 DEF SInv, SenderTypeOK, Untouched, NotBegun, ActiveUnfinished, ReadersLag
<1>3. Unowned'
  BY <1>1 DEF SInv, Unowned
<1>4. PacketsLag'
  BY <1>1 DEF PacketsLag, Late
<1> QED
  BY <1>2, <1>3, <1>4 DEF SInv

LEMMA FlushKeeps == ASSUME SInv, Flush, UNCHANGED senderVars PROVE SInv'
<1>1. /\ buffer # <<>> /\ buffer' = Tail(buffer)
      /\ network' = Append(network, Head(buffer)) /\ UNCHANGED open
      /\ lowEvents' = lowEvents \/ (lowEvents < MaxLowEvents /\ lowEvents' = lowEvents + 1)
  BY DEF Flush
<1>2. buffer \in Seq(Packet) /\ network \in Seq(Packet) /\ lowEvents \in 0..MaxLowEvents
  BY DEF SInv, ChannelTypeOK
<1>3. /\ Head(buffer) \in Packet /\ Head(buffer) = buffer[1] /\ 1 \in 1..Len(buffer)
      /\ Len(Tail(buffer)) = Len(buffer) - 1
      /\ \A m \in 1..Len(Tail(buffer)) : Tail(buffer)[m] = buffer[m + 1]
  BY <1>1, <1>2
<1>4. Tail(buffer) \in Seq(Packet) /\ Append(network, Head(buffer)) \in Seq(Packet)
  BY <1>1, <1>2, <1>3
<1>5. ChannelTypeOK'
  <2>1. lowEvents' \in 0..MaxLowEvents
    BY <1>1, <1>2, ChannelAssumption
  <2> QED
    BY <1>1, <1>4, <2>1 DEF SInv, ChannelTypeOK
<1>6. ASSUME NEW m \in 1..Len(buffer') PROVE Late(buffer'[m])
  <2>1. m + 1 \in 1..Len(buffer) /\ buffer'[m] = buffer[m + 1]
    BY <1>1, <1>2, <1>3, <1>6
  <2> QED
    BY <2>1 DEF SInv, PacketsLag
<1>7. ASSUME NEW m \in 1..Len(network') PROVE Late(network'[m])
  <2>1. CASE m \in 1..Len(network)
    <3>1. network'[m] = network[m]
      BY <1>1, <1>2, <1>3, <2>1
    <3> QED
      BY <2>1, <3>1 DEF SInv, PacketsLag
  <2>2. CASE m = Len(network) + 1
    <3>1. network'[m] = buffer[1]
      BY <1>1, <1>2, <1>3, <2>2
    <3> QED
      BY <1>3, <3>1 DEF SInv, PacketsLag
  <2>3. Len(network') = Len(network) + 1
    BY <1>1, <1>2, <1>3
  <2> QED
    BY <1>2, <1>7, <2>1, <2>2, <2>3
<1>8. lowOwner # None
  BY <1>1 DEF SInv, Unowned
<1> QED
  BY <1>5, <1>6, <1>7, <1>8, PacketsMove

LEMMA ChannelStays == ASSUME SInv, UNCHANGED channelVars, UNCHANGED senderVars PROVE SInv'
<1>1. UNCHANGED <<open, buffer, network, lowEvents>>
  BY DEF channelVars
<1> QED
  BY <1>1, PacketsMove DEF SInv, ChannelTypeOK, PacketsLag, Unowned

LEMMA ReceiveKeeps ==
  ASSUME SInv, NEW t, Receive(t), UNCHANGED senderVars
  PROVE  SInv' /\ Head(network) \in Packet /\ Late(Head(network)) /\ Head(network).type = t
<1>1. /\ network # <<>> /\ network' = Tail(network) /\ Head(network).type = t
      /\ UNCHANGED <<open, buffer, lowEvents>>
  BY DEF Receive
<1>2. network \in Seq(Packet)
  BY DEF SInv, ChannelTypeOK
<1>3. /\ Head(network) \in Packet /\ Head(network) = network[1] /\ 1 \in 1..Len(network)
      /\ Len(Tail(network)) = Len(network) - 1 /\ Tail(network) \in Seq(Packet)
      /\ \A m \in 1..Len(Tail(network)) : Tail(network)[m] = network[m + 1]
  BY <1>1, <1>2
<1>4. Late(Head(network))
  BY <1>3 DEF SInv, PacketsLag
<1>5. ChannelTypeOK'
  BY <1>1, <1>3 DEF SInv, ChannelTypeOK
<1>6. ASSUME NEW m \in 1..Len(network') PROVE Late(network'[m])
  <2>1. m + 1 \in 1..Len(network) /\ network'[m] = network[m + 1]
    BY <1>1, <1>2, <1>3, <1>6
  <2> QED
    BY <2>1 DEF SInv, PacketsLag
<1>7. \A m \in 1..Len(buffer') : Late(buffer'[m])
  BY <1>1 DEF SInv, PacketsLag
<1>8. lowOwner = None => buffer' = <<>> /\ lowEvents' = 0
  BY <1>1 DEF SInv, Unowned
<1> QED
  BY <1>1, <1>3, <1>4, <1>5, <1>6, <1>7, <1>8, PacketsMove

LEMMA CloseKeeps == ASSUME SInv, Close, UNCHANGED senderVars PROVE SInv'
<1>1. open' = FALSE /\ buffer' = <<>> /\ network' = <<>> /\ UNCHANGED lowEvents
  BY DEF Close
<1>2. ChannelTypeOK'
  <2>1. open' \in BOOLEAN
    BY <1>1
  <2>2. <<>> \in Seq(Packet)
    OBVIOUS
  <2> QED
    BY <1>1, <2>1, <2>2 DEF SInv, ChannelTypeOK
<1>3. lowOwner = None => lowEvents' = 0
  BY <1>1 DEF SInv, Unowned
<1> QED
  BY <1>1, <1>2, <1>3, PacketsMove

-------------------------------------------------------------------------------
(* The receiving page.  A chunk is stored only while its file has no verdict, so   *)
(* what the checksum passed stays as it was.                                  *)
LEMMA ReceiverStays ==
  ASSUME RInv, Grows, SInv, UNCHANGED receiverVars
  PROVE  RInv'
<1>1. UNCHANGED <<rAlive, rStatus, rState, rActive, activeReceiver, got, rCancelled,
                  verifying, settled, saved>>
  BY DEF receiverVars
<1>2. ReceiverTypeOK' /\ VerdictsOnce'
  BY <1>1 DEF RInv, ReceiverTypeOK, VerdictsOnce
<1>3. GotSent'
  <2>1. ASSUME NEW s \in Slices, got[s] # NoSlice
        PROVE  got[s][1] \in Files /\ got[s][2] < currentChunk'[got[s][1]]
    <3>1. got[s][1] \in Files /\ got[s][2] < currentChunk[got[s][1]]
      BY <2>1 DEF RInv, GotSent
    <3>2. got[s][2] \in Nat
      BY <2>1, <3>1 DEF RInv, ReceiverTypeOK
    <3> QED
      BY <3>1, <3>2 DEF Grows, SInv, SenderTypeOK
  <2> QED
    BY <1>1, <2>1 DEF GotSent
<1> QED
  BY <1>2, <1>3 DEF RInv

LEMMA RMarkTyped ==
  ASSUME RInv, NEW f \in Files \cup {NoFile}, NEW s \in ReceiverFile
  PROVE  RMark(f, s) \in [Files -> ReceiverFile]
  BY DEF RMark, RInv, ReceiverTypeOK

(* Most handlers only change what is shown and which receiver is active.          *)
LEMMA Displays ==
  ASSUME RInv, UNCHANGED <<currentChunk, got, verifying, settled, saved>>,
         rAlive' \in BOOLEAN, rStatus' \in [Files -> ReceiverFile], rState' \in ReceiverState,
         rActive' \in Files \cup {NoFile}, activeReceiver' \in Files \cup {NoFile},
         rCancelled' \subseteq Files
  PROVE  RInv'
<1>1. ReceiverTypeOK'
  BY DEF RInv, ReceiverTypeOK
<1>2. GotSent' /\ VerdictsOnce'
  BY DEF RInv, GotSent, VerdictsOnce
<1> QED
  BY <1>1, <1>2 DEF RInv

LEMMA ReceiveChunkKeeps ==
  ASSUME SInv, RInv, ReceiveChunk, UNCHANGED senderVars
  PROVE  RInv'
<1> DEFINE f == activeReceiver
           p == Head(network)
           i == p.index
<1>1. /\ Receive("CHUNK")
      /\ \/ /\ Accepts(f, i)
            /\ got' = [got EXCEPT ![<<f, i>>] = <<p.file, p.slice>>]
            /\ verifying' \in {verifying \cup {f}, verifying}
         \/ UNCHANGED <<got, verifying>>
      /\ UNCHANGED <<rAlive, rStatus, rState, rActive, activeReceiver,
                     rCancelled, settled, saved>>
  BY DEF ReceiveChunk
<1>2. p \in Packet /\ Late(p) /\ p.type = "CHUNK" /\ UNCHANGED currentChunk
  BY <1>1, ReceiveKeeps DEF senderVars, pumpVars
<1>3. /\ p.file \in Files /\ p.slice \in Nat /\ i \in Nat
      /\ p.slice <= i /\ i < currentChunk[p.file] /\ currentChunk[p.file] \in Nat
  BY <1>2 DEF Packet, Late, SInv, SenderTypeOK
<1>4. p.slice < currentChunk[p.file]
  BY <1>3
<1> HIDE DEF f, p, i
<1>5. CASE /\ Accepts(f, i)
           /\ got' = [got EXCEPT ![<<f, i>>] = <<p.file, p.slice>>]
           /\ verifying' \in {verifying \cup {f}, verifying}
  <2>1. f \in Files /\ f \notin settled /\ i < Chunks[f]
    BY <1>5 DEF Accepts, RInv, ReceiverTypeOK, f
  <2>2. <<f, i>> \in Slices
    <3>1. i \in 0..(Chunks[f] - 1)
      BY <1>3, <2>1, ChannelAssumption
    <3> QED
      BY <2>1, <3>1, SliceMember
  <2>3. /\ got' \in [Slices -> (Files \X Nat) \cup {NoSlice}]
        /\ got'[<<f, i>>] = <<p.file, p.slice>>
        /\ \A s \in Slices : s # <<f, i>> => got'[s] = got[s]
    BY <1>3, <1>5, <2>2 DEF RInv, ReceiverTypeOK
  <2>4. ReceiverTypeOK'
    BY <1>1, <1>5, <2>1, <2>3 DEF RInv, ReceiverTypeOK
  <2>5. VerdictsOnce'
    BY <1>1, <1>5, <2>1 DEF RInv, VerdictsOnce
  <2>6. GotSent'
    <3>1. ASSUME NEW s \in Slices, got'[s] # NoSlice
          PROVE  got'[s][1] \in Files /\ got'[s][2] < currentChunk[got'[s][1]]
      <4>1. CASE s = <<f, i>>
        BY <1>3, <1>4, <2>3, <4>1
      <4>2. CASE s # <<f, i>>
        BY <2>3, <3>1, <4>2 DEF RInv, GotSent
      <4> QED
        BY <4>1, <4>2
    <3> QED
      BY <1>2, <3>1 DEF GotSent
  <2> QED
    BY <2>4, <2>5, <2>6 DEF RInv
<1>6. CASE UNCHANGED <<got, verifying>>
  BY <1>1, <1>2, <1>6, Displays DEF RInv, ReceiverTypeOK
<1> QED
  BY <1>1, <1>5, <1>6

LEMMA CancelReceivingKeeps ==
  ASSUME RInv, CancelReceiving, UNCHANGED currentChunk
  PROVE  RInv'
<1>1. /\ rCancelled' = rCancelled \cup ({activeReceiver} \ {NoFile})
      /\ activeReceiver' = NoFile /\ rStatus' = RMark(rActive, "CANCELLED")
      /\ rActive' = NoFile /\ rState' = "IDLE"
      /\ UNCHANGED <<rAlive, got, verifying, settled, saved>>
  BY DEF CancelReceiving
<1>2. rStatus' \in [Files -> ReceiverFile] /\ "IDLE" \in ReceiverState
  BY <1>1, RMarkTyped DEF RInv, ReceiverTypeOK, ReceiverFile, ReceiverState
<1>3. rCancelled' \subseteq Files /\ rAlive' \in BOOLEAN
  BY <1>1 DEF RInv, ReceiverTypeOK
<1> QED
  BY <1>1, <1>2, <1>3, Displays

LEMMA VerifyKeeps ==
  ASSUME RInv, NEW f \in Files, VerifyPassed(f) \/ VerifyFailed(f), UNCHANGED currentChunk
  PROVE  RInv'
<1>1. /\ f \in verifying /\ verifying' = verifying \ {f} /\ settled' = settled \cup {f}
      /\ \/ saved' = saved \cup {f} /\ Intact(f) /\ rStatus' = RMark(f, "COMPLETED")
         \/ saved' = saved /\ rStatus' = RMark(f, "FAILED")
      /\ rState' \in {"COMPLETED", "FAILED"}
      /\ rActive' \in {rActive, NoFile} /\ activeReceiver' \in {activeReceiver, NoFile}
      /\ UNCHANGED <<rAlive, got, rCancelled>>
  BY DEF VerifyPassed, VerifyFailed
<1>2. rStatus' \in [Files -> ReceiverFile] /\ rState' \in ReceiverState
  BY <1>1, RMarkTyped DEF ReceiverFile, ReceiverState
<1>3. ReceiverTypeOK'
  <2>1. /\ verifying' \subseteq Files /\ settled' \subseteq Files /\ saved' \subseteq Files
    BY <1>1 DEF RInv, ReceiverTypeOK
  <2> QED
    BY <1>1, <1>2, <2>1 DEF RInv, ReceiverTypeOK
<1>4. GotSent'
  BY <1>1 DEF RInv, GotSent
<1>5. VerdictsOnce'
  BY <1>1 DEF RInv, VerdictsOnce
<1> QED
  BY <1>3, <1>4, <1>5 DEF RInv

LEMMA ReceiverTaskKeeps ==
  ASSUME IInv, ReceiverTask, UNCHANGED senderVars
  PROVE  IInv'
<1>0. SInv /\ RInv /\ UNCHANGED currentChunk
  BY DEF IInv, senderVars, pumpVars
<1>1. CASE ReceiveMetadata
  <2>1. SInv' /\ Head(network) \in Packet
    BY <1>0, <1>1, ReceiveKeeps DEF ReceiveMetadata
  <2>2. Head(network).file \in Files
    BY <2>1 DEF Packet
  <2> DEFINE f == Head(network).file
  <2>3. /\ rStatus' = [rStatus EXCEPT ![f] = "SENDING"] /\ rActive' = f
        /\ rState' = "TRANSFERRING" /\ activeReceiver' = f
        /\ UNCHANGED <<rAlive, got, rCancelled, verifying, settled, saved>>
    BY <1>1 DEF ReceiveMetadata
  <2> HIDE DEF f
  <2>4. rStatus' \in [Files -> ReceiverFile] /\ rState' \in ReceiverState
    BY <1>0, <2>3 DEF RInv, ReceiverTypeOK, ReceiverFile, ReceiverState
  <2>5. rAlive' \in BOOLEAN /\ rCancelled' \subseteq Files
    BY <1>0, <2>3 DEF RInv, ReceiverTypeOK
  <2>6. RInv'
    BY <1>0, <2>2, <2>3, <2>4, <2>5, Displays DEF f
  <2> QED
    BY <2>1, <2>6 DEF IInv
<1>2. CASE ReceiveChunk
  <2>1. SInv'
    BY <1>0, <1>2, ReceiveKeeps DEF ReceiveChunk
  <2> QED
    BY <1>0, <1>2, <2>1, ReceiveChunkKeeps DEF IInv
<1>3. CASE ReceivePause
  <2>1. SInv'
    BY <1>0, <1>3, ReceiveKeeps DEF ReceivePause
  <2>2. rStatus' \in [Files -> ReceiverFile]
    BY <1>0, <1>3, RMarkTyped DEF ReceivePause, RInv, ReceiverTypeOK, ReceiverFile
  <2>3. RInv'
    BY <1>0, <1>3, <2>2, Displays DEF ReceivePause, RInv, ReceiverTypeOK
  <2> QED
    BY <2>1, <2>3 DEF IInv
<1>4. CASE ReceiveResume
  <2>1. SInv'
    BY <1>0, <1>4, ReceiveKeeps DEF ReceiveResume
  <2>2. rStatus' \in [Files -> ReceiverFile]
    BY <1>0, <1>4, RMarkTyped DEF ReceiveResume, RInv, ReceiverTypeOK, ReceiverFile
  <2>3. RInv'
    BY <1>0, <1>4, <2>2, Displays DEF ReceiveResume, RInv, ReceiverTypeOK
  <2> QED
    BY <2>1, <2>3 DEF IInv
<1>5. CASE ReceiveCancel
  <2>1. SInv'
    BY <1>0, <1>5, ReceiveKeeps DEF ReceiveCancel
  <2>2. Grows
    BY <1>0 DEF SInv, SenderTypeOK, Grows
  <2>3. RInv'
    BY <1>0, <1>5, <2>2, CancelReceivingKeeps, ReceiverStays DEF ReceiveCancel
  <2> QED
    BY <2>1, <2>3 DEF IInv
<1>6. CASE CancelByReceiver
  BY <1>0, <1>6, CancelReceivingKeeps, ChannelStays DEF CancelByReceiver, IInv
<1>7. ASSUME NEW f \in Files, VerifyPassed(f) \/ VerifyFailed(f) PROVE IInv'
  <2>1. UNCHANGED channelVars
    BY <1>7 DEF VerifyPassed, VerifyFailed
  <2> QED
    BY <1>0, <1>7, <2>1, VerifyKeeps, ChannelStays DEF IInv
<1>8. CASE ReceiverCleanup
  <2>1. /\ rAlive' = FALSE /\ rCancelled' = rCancelled \cup ({activeReceiver} \ {NoFile})
        /\ rStatus' = [f \in Files |-> "ABSENT"] /\ rState' = "IDLE" /\ rActive' = NoFile
        /\ UNCHANGED <<activeReceiver, got, verifying, settled, saved>>
    BY <1>8 DEF ReceiverCleanup
  <2>2. rStatus' \in [Files -> ReceiverFile] /\ rState' \in ReceiverState
    BY <2>1 DEF ReceiverFile, ReceiverState
  <2>3. rCancelled' \subseteq Files /\ activeReceiver' \in Files \cup {NoFile}
    BY <1>0, <2>1 DEF RInv, ReceiverTypeOK
  <2>4. rAlive' \in BOOLEAN
    BY <2>1
  <2>5. RInv'
    BY <1>0, <2>1, <2>2, <2>3, <2>4, Displays
  <2>6. SInv'
    BY <1>0, <1>8, CloseKeeps DEF ReceiverCleanup
  <2> QED
    BY <2>5, <2>6 DEF IInv
<1> QED
  BY <1>1, <1>2, <1>3, <1>4, <1>5, <1>6, <1>7, <1>8 DEF ReceiverTask

-------------------------------------------------------------------------------
(* The two pages and the channel together.                                      *)
LEMMA SenderTaskKeeps ==
  ASSUME IInv, SenderTask, UNCHANGED receiverVars
  PROVE  IInv'
<1>0. SInv /\ RInv
  BY DEF IInv
<1>1. ASSUME NEW f \in Files, HashDone(f) \/ HashFailed(f) PROVE SInv' /\ Grows
  BY <1>0, <1>1, HashDoneKeeps, HashFailedKeeps
<1>2. ASSUME NEW s \in Slices,
             ChunkLoaded(s[1], s[2]) \/ ChunkDropped(s[1], s[2]) \/ ChunkFailed(s[1], s[2])
      PROVE  SInv' /\ Grows
  <2>1. PICK f \in Files, k \in Nat : f = s[1] /\ k = s[2] /\ <<f, k>> \in Slices
    BY SliceMember, ChannelAssumption
  <2>2. ChunkLoaded(f, k) \/ ChunkDropped(f, k) \/ ChunkFailed(f, k)
    BY <1>2, <2>1
  <2> QED
    BY <1>0, <2>1, <2>2, ChunkLoadedKeeps, ChunkDroppedKeeps, ChunkFailedKeeps
<1>3. SInv' /\ Grows
  BY <1>0, <1>1, <1>2, BufferedAmountLowKeeps, StartKeeps, PauseKeeps, ResumeKeeps,
     CancelKeeps, SenderCleanupKeeps DEF SenderTask
<1> QED
  BY <1>0, <1>3, ReceiverStays DEF IInv

LEMMA InitIInv == Init => IInv
<1> SUFFICES ASSUME Init PROVE IInv
  OBVIOUS
<1> USE DEF Init, ChannelInit, SenderInit, ReceiverInit
<1>1. ChannelTypeOK
  <2>1. <<>> \in Seq(Packet) /\ 0 \in 0..MaxLowEvents
    BY ChannelAssumption
  <2> QED
    BY <2>1 DEF ChannelTypeOK
<1>2. SenderTypeOK
  BY DEF SenderTypeOK, SenderFile, TransferState
<1>3. ReceiverTypeOK
  BY DEF ReceiverTypeOK, ReceiverFile, ReceiverState
<1>4. Untouched /\ Unowned /\ ActiveUnfinished
  BY DEF Untouched, Unowned, ActiveUnfinished, Files, None
<1>5. ReadersLag /\ PacketsLag /\ GotSent
  BY DEF ReadersLag, PacketsLag, GotSent
<1>6. VerdictsOnce
  BY DEF VerdictsOnce
<1> QED
  BY <1>1, <1>2, <1>3, <1>4, <1>5, <1>6 DEF IInv, SInv, RInv

LEMMA NextIInv == IInv /\ [Next]_vars => IInv'
<1> SUFFICES ASSUME IInv, [Next]_vars PROVE IInv'
  OBVIOUS
<1>0. SInv /\ RInv
  BY DEF IInv
<1>1. CASE SenderTask /\ UNCHANGED receiverVars
  BY <1>1, SenderTaskKeeps
<1>2. CASE ReceiverTask /\ UNCHANGED senderVars
  BY <1>2, ReceiverTaskKeeps
<1>3. CASE Flush /\ UNCHANGED <<senderVars, receiverVars>>
  <2>1. SInv'
    BY <1>0, <1>3, FlushKeeps
  <2>2. Grows
    BY <1>0, <1>3 DEF senderVars, pumpVars, SInv, SenderTypeOK, Grows
  <2> QED
    BY <1>0, <1>3, <2>1, <2>2, ReceiverStays DEF IInv
<1>4. CASE UNCHANGED vars
  <2>1. SInv'
    BY <1>0, <1>4, ChannelStays DEF vars
  <2>2. Grows
    BY <1>0, <1>4 DEF vars, senderVars, pumpVars, SInv, SenderTypeOK, Grows
  <2> QED
    BY <1>0, <1>4, <2>1, <2>2, ReceiverStays DEF vars, IInv
<1> QED
  BY <1>1, <1>2, <1>3, <1>4 DEF Next

-------------------------------------------------------------------------------
(* The inductive invariant holds of every run: of every interleaving of hashing, *)
(* reading, buffer events, buttons, packets, faults and the end of the session.  *)
THEOREM Inductive == Spec => []IInv
  BY InitIInv, NextIInv, PTL DEF Spec

(* Every variable keeps its type: no handler writes a status, a state or an      *)
(* active file that the enums and the queue do not have (enums.ts:121-141).     *)
THEOREM TypeCorrect == Spec => []TypeOK
<1>1. IInv => TypeOK
  BY DEF IInv, SInv, RInv, TypeOK
<1> QED
  BY <1>1, Inductive, PTL

(* However many FileReaders overlap, what is read or sent is never ahead of the  *)
(* index it goes out with (chunk-sender.ts:119-149).                            *)
THEOREM SlicesAreLate == Spec => []SlicesLag
<1>1. IInv => SlicesLag
  <2> SUFFICES ASSUME IInv PROVE SlicesLag
    OBVIOUS
  <2>1. \A s \in Slices : reading[s] > 0 => s[2] <= currentChunk[s[1]]
    BY DEF IInv, SInv, ReadersLag
  <2>2. ASSUME NEW m \in DOMAIN Wire PROVE Wire[m].slice <= Wire[m].index
    <3>1. network \in Seq(Packet) /\ buffer \in Seq(Packet)
      BY DEF IInv, SInv, ChannelTypeOK
    <3>2. \/ m \in 1..Len(network) /\ Wire[m] = network[m]
          \/ m - Len(network) \in 1..Len(buffer) /\ Wire[m] = buffer[m - Len(network)]
      BY <2>2, <3>1 DEF Wire
    <3> QED
      BY <3>2 DEF IInv, SInv, PacketsLag, Late
  <2> QED
    BY <2>1, <2>2 DEF SlicesLag
<1> QED
  BY <1>1, Inductive, PTL

-------------------------------------------------------------------------------
(* A file the checksum passes has left the sending page to its last slice.        *)
LEMMA IntactWasSent ==
  ASSUME SInv, RInv, NEW f \in Files, Intact(f)
  PROVE  Chunks[f] <= currentChunk[f]
<1> DEFINE i == Chunks[f] - 1
<1>1. Chunks[f] \in Nat /\ currentChunk[f] \in Nat
  BY ChannelAssumption DEF SInv, SenderTypeOK
<1>2. CASE Chunks[f] = 0
  BY <1>1, <1>2
<1>3. CASE Chunks[f] # 0
  <2>1. i \in 0..(Chunks[f] - 1)
    BY <1>1, <1>3
  <2>2. got[<<f, i>>] = <<f, i>> /\ <<f, i>> \in Slices
    BY <2>1, SliceMember DEF Intact
  <2>3. <<f, i>> # NoSlice
    BY DEF NoSlice, Files
  <2>4. got[<<f, i>>][2] < currentChunk[got[<<f, i>>][1]]
    BY <2>2, <2>3 DEF RInv, GotSent
  <2>5. i < currentChunk[f]
    BY <2>2, <2>4
  <2> QED
    BY <1>1, <2>5
<1> QED
  BY <1>2, <1>3

(* A task of the sending page advances one ChunkSender by one chunk, or none.     *)
LEMMA SenderAdvances ==
  ASSUME SInv, SenderTask
  PROVE  \/ UNCHANGED currentChunk
         \/ \E f \in Files : currentChunk' = [currentChunk EXCEPT ![f] = currentChunk[f] + 1]
<1>1. ASSUME NEW f \in Files, HashDone(f) PROVE UNCHANGED currentChunk
  <2>1. currentChunk[f] = 0 /\ currentChunk' = [currentChunk EXCEPT ![f] = 0]
    BY <1>1 DEF HashDone, Announce, SInv, Untouched, NotBegun
  <2> QED
    BY <2>1 DEF SInv, SenderTypeOK
<1>2. ASSUME NEW s \in Slices,
             ChunkLoaded(s[1], s[2]) \/ ChunkDropped(s[1], s[2]) \/ ChunkFailed(s[1], s[2])
      PROVE  \/ UNCHANGED currentChunk
             \/ \E f \in Files : currentChunk' = [currentChunk EXCEPT ![f] = currentChunk[f] + 1]
  BY <1>2, SliceMember DEF ChunkLoaded, ChunkDropped, ChunkFailed
<1>3. BufferedAmountLow \/ Start \/ Pause \/ Resume \/ Cancel \/ SenderCleanup
        => UNCHANGED currentChunk
  BY DEF BufferedAmountLow, Start, Pause, Resume, Cancel, SenderCleanup, pumpVars
<1>4. (\E f \in Files : HashFailed(f)) => UNCHANGED currentChunk
  BY DEF HashFailed, pumpVars
<1> QED
  BY <1>1, <1>2, <1>3, <1>4 DEF SenderTask

LEMMA AdvanceHandsOver ==
  ASSUME SInv, NEW f \in Files, currentChunk' = [currentChunk EXCEPT ![f] = currentChunk[f] + 1],
         UNCHANGED receiverVars
  PROVE  [D!DNext]_(D!dvars)
<1>0. \A g \in Files : Chunks[g] \in Nat /\ currentChunk[g] \in Nat
  BY ChannelAssumption DEF SInv, SenderTypeOK
<1>1. /\ currentChunk'[f] = currentChunk[f] + 1
      /\ \A g \in Files : g # f => currentChunk'[g] = currentChunk[g]
  BY DEF SInv, SenderTypeOK
<1>2. Verdict' = Verdict
  BY DEF receiverVars, Verdict
<1>3. CASE currentChunk[f] < Chunks[f]
  <2>1. Handed[f] < Chunks[f] /\ Handed'[f] = Handed[f] + 1
    BY <1>0, <1>1, <1>3 DEF Handed
  <2>2. \A g \in Files : g # f => Handed'[g] = Handed[g]
    BY <1>1 DEF Handed
  <2>3. Handed' = [Handed EXCEPT ![f] = Handed[f] + 1]
    BY <2>1, <2>2 DEF Handed
  <2> QED
    BY <1>2, <2>1, <2>3 DEF D!DNext, D!HandOver
<1>4. CASE ~(currentChunk[f] < Chunks[f])
  <2>1. Handed' = Handed
    BY <1>0, <1>1, <1>4 DEF Handed
  <2> QED
    BY <1>2, <2>1 DEF D!dvars
<1> QED
  BY <1>3, <1>4

LEMMA VerdictGiven ==
  ASSUME SInv, RInv, NEW f \in Files, VerifyPassed(f) \/ VerifyFailed(f), UNCHANGED currentChunk
  PROVE  D!DNext
<1>1. /\ f \notin settled /\ f \notin saved /\ settled' = settled \cup {f}
      /\ \/ saved' = saved \cup {f} /\ Intact(f)
         \/ saved' = saved
  BY DEF VerifyPassed, VerifyFailed, RInv, VerdictsOnce
<1>2. Handed' = Handed /\ Verdict[f] = "none"
  BY <1>1 DEF Handed, Verdict
<1>3. CASE saved' = saved \cup {f} /\ Intact(f)
  <2>1. Chunks[f] <= currentChunk[f] /\ Chunks[f] \in Nat /\ currentChunk[f] \in Nat
    BY <1>3, IntactWasSent, ChannelAssumption DEF SInv, SenderTypeOK
  <2>2. Handed[f] = Chunks[f]
    BY <2>1 DEF Handed
  <2>3. Verdict' = [Verdict EXCEPT ![f] = "delivered"]
    BY <1>1, <1>3 DEF Verdict
  <2> QED
    BY <1>2, <2>2, <2>3 DEF D!DNext, D!Deliver
<1>4. CASE saved' = saved
  <2>1. Verdict' = [Verdict EXCEPT ![f] = "rejected"]
    BY <1>1, <1>4 DEF Verdict
  <2> QED
    BY <1>2, <2>1 DEF D!DNext, D!Reject
<1> QED
  BY <1>1, <1>3, <1>4

LEMMA StepDelivers == IInv /\ [Next]_vars => [D!DNext]_(D!dvars)
<1> SUFFICES ASSUME IInv, [Next]_vars PROVE [D!DNext]_(D!dvars)
  OBVIOUS
<1>0. SInv /\ RInv
  BY DEF IInv
<1>1. UNCHANGED <<currentChunk, settled, saved>> => UNCHANGED D!dvars
  BY DEF D!dvars, Handed, Verdict
<1>2. CASE SenderTask /\ UNCHANGED receiverVars
  BY <1>0, <1>1, <1>2, SenderAdvances, AdvanceHandsOver DEF receiverVars
<1>3. CASE ReceiverTask /\ UNCHANGED senderVars
  <2>1. UNCHANGED currentChunk
    BY <1>3 DEF senderVars, pumpVars
  <2>2. ASSUME NEW f \in Files, VerifyPassed(f) \/ VerifyFailed(f) PROVE D!DNext
    BY <1>0, <2>1, <2>2, VerdictGiven
  <2>3. CASE UNCHANGED <<settled, saved>>
    BY <1>1, <2>1, <2>3
  <2>4. \/ UNCHANGED <<settled, saved>>
        \/ \E f \in Files : VerifyPassed(f) \/ VerifyFailed(f)
    BY <1>3 DEF ReceiverTask, ReceiveMetadata, ReceiveChunk, ReceivePause, ReceiveResume,
                ReceiveCancel, CancelByReceiver, CancelReceiving, ReceiverCleanup, receiverVars
  <2> QED
    BY <2>2, <2>3, <2>4
<1>4. CASE (Flush /\ UNCHANGED <<senderVars, receiverVars>>) \/ UNCHANGED vars
  BY <1>1, <1>4 DEF vars, senderVars, pumpVars, receiverVars
<1> QED
  BY <1>2, <1>3, <1>4 DEF Next

(* The transfer implements Delivery: slices are handed over one by one, a verdict *)
(* is given once and never taken back, and a file is delivered only after its     *)
(* last slice left the sending page.                                           *)
THEOREM Delivers == Spec => ImplementsDelivery
<1>1. Init => D!DInit
  <2> SUFFICES ASSUME Init PROVE D!DInit
    OBVIOUS
  <2>1. \A f \in Files : Handed[f] = 0
    BY ChannelAssumption DEF Init, SenderInit, Handed
  <2>2. Verdict = [f \in Files |-> "none"]
    BY DEF Init, ReceiverInit, Verdict
  <2> QED
    BY <2>1, <2>2 DEF D!DInit, Handed
<1> QED
  BY <1>1, StepDelivers, Inductive, PTL DEF Spec, ImplementsDelivery, D!DSpec

-------------------------------------------------------------------------------
(* Nothing the sending page does moves a cancelled ChunkSender: the only task    *)
(* that sends a chunk looks at isCancelled first, and the one that makes a new    *)
(* ChunkSender makes it for a file that has none (chunk-sender.ts:131).         *)
THEOREM CancelledStaysQuiet == Spec => CancelledIsQuiet
<1>1. IInv /\ [Next]_vars => [\A f \in cancelled : currentChunk'[f] = currentChunk[f]]_vars
  <2> SUFFICES ASSUME IInv, [Next]_vars, NEW f \in cancelled
               PROVE  currentChunk'[f] = currentChunk[f]
    OBVIOUS
  <2>0. SInv /\ currentChunk \in [Files -> Nat] /\ f \in Files
    BY DEF IInv, SInv, SenderTypeOK
  <2>1. ASSUME NEW s \in Slices, ChunkLoaded(s[1], s[2]) PROVE currentChunk'[f] = currentChunk[f]
    <3>1. s[1] # f /\ s[1] \in Files
      BY <2>1, SliceMember DEF ChunkLoaded, Stopped
    <3> QED
      BY <2>0, <2>1, <3>1 DEF ChunkLoaded
  <2>2. ASSUME NEW g \in Files, HashDone(g) PROVE UNCHANGED currentChunk
    <3>1. currentChunk[g] = 0 /\ currentChunk' = [currentChunk EXCEPT ![g] = 0]
      BY <2>0, <2>2 DEF HashDone, SInv, Untouched, NotBegun
    <3> QED
      BY <2>0, <3>1
  <2>3. CASE SenderTask
    <3>1. \/ \E g \in Files : HashDone(g)
          \/ \E s \in Slices : ChunkLoaded(s[1], s[2])
          \/ UNCHANGED currentChunk
      BY <2>3 DEF SenderTask, HashFailed, ChunkDropped, ChunkFailed, BufferedAmountLow,
                  Start, Pause, Resume, Cancel, SenderCleanup, pumpVars
    <3> QED
      BY <2>1, <2>2, <3>1
  <2>4. CASE UNCHANGED senderVars \/ UNCHANGED vars
    BY <2>4 DEF vars, senderVars, pumpVars
  <2> QED
    BY <2>3, <2>4 DEF Next
<1> QED
  BY <1>1, Inductive, PTL DEF Spec, CancelledIsQuiet

-------------------------------------------------------------------------------
(* processNextFile completes no file, and of what is PREPARING or at rest it      *)
(* makes nothing else.                                                         *)
LEMMA NextFileKeeps ==
  ASSUME NEW st \in [Files -> SenderFile], NEW h, ProcessNextFile(st, h)
  PROVE  /\ \A f \in Files : status'[f] = "COMPLETED" => st[f] = "COMPLETED"
         /\ transferState' \in {"PREPARING", "COMPLETED", "IDLE"}
<1> DEFINE waiting == {f \in Files : st[f] = "WAITING"}
<1>1. \/ status' = [st EXCEPT ![First(waiting)] = "PREPARING"]
      \/ status' = st
  BY DEF ProcessNextFile
<1>2. transferState' \in {"PREPARING", "COMPLETED", "IDLE"}
  BY DEF ProcessNextFile
<1> HIDE DEF waiting
<1> QED
  BY <1>1, <1>2

LEMMA MarkCompletes ==
  ASSUME NEW st \in [Files -> SenderFile], NEW f \in Files, NEW s \in SenderFile, NEW g \in Files,
         Mark(st, f, s)[g] = "COMPLETED"
  PROVE  st[g] = "COMPLETED" \/ (s = "COMPLETED" /\ g = f)
  BY DEF Mark

(* onComplete marks the file of the ChunkSender that ran out, and no other.       *)
LEMMA CompletesOwn ==
  ASSUME SInv, NEW f \in Files, NEW pr, NEW h, Complete(f, pr, h), NEW g \in Files,
         status'[g] = "COMPLETED"
  PROVE  status[g] = "COMPLETED" \/ g = f
<1> DEFINE st == Mark(status, f, "COMPLETED")
<1>1. st \in [Files -> SenderFile] /\ status \in [Files -> SenderFile]
  BY MarkTyped DEF SInv, SenderTypeOK, SenderFile
<1>2. ProcessNextFile(st, h)
  BY DEF Complete
<1> HIDE DEF st
<1>3. st[g] = "COMPLETED"
  BY <1>1, <1>2, NextFileKeeps
<1> QED
  BY <1>1, <1>3, MarkCompletes DEF st, SenderFile

LEMMA SenderCompletes ==
  ASSUME SInv, SenderTask, NEW g \in Files, status'[g] = "COMPLETED"
  PROVE  status[g] = "COMPLETED" \/ Chunks[g] <= currentChunk'[g]
<1>0. /\ status \in [Files -> SenderFile] /\ currentChunk \in [Files -> Nat]
      /\ \A f \in Files : Chunks[f] \in Nat
      /\ activeTransferId \in Files \cup {None}
      /\ {"COMPLETED", "SENDING", "PREPARING", "FAILED", "CANCELLED"} \subseteq SenderFile
  BY ChannelAssumption DEF SInv, SenderTypeOK, SenderFile
<1>1. ASSUME NEW f \in Files, HashDone(f)
      PROVE  status[g] = "COMPLETED" \/ Chunks[g] <= currentChunk'[g]
  <2>1. /\ currentChunk' = [currentChunk EXCEPT ![f] = 0]
        /\ \/ Finished(f, 0) /\ Complete(f, progress, hashing \ {f})
           \/ status' = Mark(status, f, "SENDING")
    BY <1>1 DEF HashDone
  <2>2. CASE Finished(f, 0) /\ Complete(f, progress, hashing \ {f})
    BY <1>0, <2>1, <2>2, CompletesOwn DEF Finished
  <2>3. CASE status' = Mark(status, f, "SENDING")
    BY <1>0, <2>3, MarkCompletes
  <2> QED
    BY <2>1, <2>2, <2>3
<1>2. ASSUME NEW f \in Files, TransferError(f) PROVE status[g] = "COMPLETED"
  BY <1>0, <1>2, MarkCompletes DEF TransferError
<1>3. ASSUME NEW f \in Files, NEW k, ChunkLoaded(f, k)
      PROVE  status[g] = "COMPLETED" \/ Chunks[g] <= currentChunk'[g]
  <2> DEFINE next == currentChunk[f] + 1
             pr == [progress EXCEPT ![f] = @ + 1]
  <2>1. /\ currentChunk' = [currentChunk EXCEPT ![f] = next]
        /\ \/ Finished(f, next) /\ Complete(f, pr, hashing)
           \/ UNCHANGED status
    BY <1>3 DEF ChunkLoaded
  <2>2. CASE Finished(f, next) /\ Complete(f, pr, hashing)
    <3>1. currentChunk'[f] = next /\ next >= Chunks[f] /\ next \in Nat
      BY <1>0, <2>1, <2>2 DEF Finished
    <3>2. status[g] = "COMPLETED" \/ g = f
      BY <2>2, CompletesOwn
    <3> QED
      BY <1>0, <3>1, <3>2
  <2>3. CASE UNCHANGED status
    BY <2>3
  <2> QED
    BY <2>1, <2>2, <2>3
<1>4. CASE BufferedAmountLow
  <2>1. /\ UNCHANGED currentChunk
        /\ \/ Finished(lowOwner, currentChunk[lowOwner]) /\ Complete(lowOwner, progress, hashing)
           \/ UNCHANGED status
    BY <1>4 DEF BufferedAmountLow
  <2>2. lowOwner \in Files
    BY <1>4 DEF BufferedAmountLow, SInv, SenderTypeOK, Unowned
  <2>3. CASE Finished(lowOwner, currentChunk[lowOwner]) /\ Complete(lowOwner, progress, hashing)
    BY <1>0, <2>1, <2>2, <2>3, CompletesOwn DEF Finished
  <2> QED
    BY <2>1, <2>3
<1>5. CASE Start
  BY <1>0, <1>5, NextFileKeeps DEF Start
<1>6. ASSUME NEW s \in {"PREPARING", "SENDING"}, NEW t, Notify(s, t) PROVE status[g] = "COMPLETED"
  BY <1>0, <1>6, MarkCompletes DEF Notify
<1>7. CASE Cancel
  <2> DEFINE st == Mark(status, activeTransferId, "CANCELLED")
  <2>1. activeTransferId \in Files /\ ProcessNextFile(st, hashing)
    BY <1>0, <1>7 DEF Cancel
  <2>2. st \in [Files -> SenderFile]
    BY <1>0, <2>1, MarkTyped
  <2> HIDE DEF st
  <2>3. st[g] = "COMPLETED"
    BY <2>1, <2>2, NextFileKeeps
  <2> QED
    BY <1>0, <2>1, <2>3, MarkCompletes DEF st
<1>8. CASE SenderCleanup
  BY <1>8 DEF SenderCleanup
<1>9. \/ \E f \in Files : HashDone(f) \/ TransferError(f)
      \/ \E f \in Files, k \in Nat : ChunkLoaded(f, k)
      \/ BufferedAmountLow \/ Start \/ Cancel \/ SenderCleanup
      \/ Notify("PREPARING", "PAUSE") \/ Notify("SENDING", "RESUME")
      \/ UNCHANGED status
  <2>1. ASSUME NEW s \in Slices PROVE s[1] \in Files /\ s[2] \in Nat
    BY SliceMember, ChannelAssumption
  <2>2. ASSUME NEW s \in Slices,
               ChunkLoaded(s[1], s[2]) \/ ChunkDropped(s[1], s[2]) \/ ChunkFailed(s[1], s[2])
        PROVE  \/ \E f \in Files, k \in Nat : ChunkLoaded(f, k)
               \/ \E f \in Files : TransferError(f)
               \/ UNCHANGED status
    BY <2>1, <2>2 DEF ChunkDropped, ChunkFailed, storeVars
  <2>3. \A f \in Files : HashFailed(f) => TransferError(f)
    BY DEF HashFailed
  <2>4. (Pause => Notify("PREPARING", "PAUSE")) /\ (Resume => Notify("SENDING", "RESUME"))
    BY DEF Pause, Resume
  <2> QED
    BY <2>2, <2>3, <2>4 DEF SenderTask
<1> QED
  BY <1>1, <1>2, <1>3, <1>4, <1>5, <1>6, <1>7, <1>8, <1>9

(* A file the sender shows as COMPLETED has left its page to the last slice: the   *)
(* status is written by onComplete alone, and a ChunkSender that ran out never     *)
(* goes back (queue-manager.ts:112).                                           *)
THEOREM CompletedIsSent == Spec => []CompletedWasSent
<1>1. Init => CompletedWasSent
  BY DEF Init, SenderInit, CompletedWasSent
<1>2. IInv /\ CompletedWasSent /\ [Next]_vars => CompletedWasSent'
  <2> SUFFICES ASSUME IInv, CompletedWasSent, [Next]_vars, NEW g \in Files,
                      status'[g] = "COMPLETED"
               PROVE  currentChunk'[g] >= Chunks[g]
    BY DEF CompletedWasSent
  <2>0. SInv /\ currentChunk[g] \in Nat /\ Chunks[g] \in Nat
    BY ChannelAssumption DEF IInv, SInv, SenderTypeOK
  <2>1. CASE SenderTask
    <3>1. currentChunk'[g] \in Nat /\ currentChunk[g] <= currentChunk'[g]
      <4>1. \/ UNCHANGED currentChunk
            \/ \E f \in Files : currentChunk' = [currentChunk EXCEPT ![f] = currentChunk[f] + 1]
        BY <2>0, <2>1, SenderAdvances
      <4> QED
        BY <2>0, <4>1, Advances DEF Grows
    <3>2. status[g] = "COMPLETED" \/ Chunks[g] <= currentChunk'[g]
      BY <2>0, <2>1, SenderCompletes
    <3> QED
      BY <2>0, <3>1, <3>2 DEF CompletedWasSent
  <2>2. CASE UNCHANGED senderVars \/ UNCHANGED vars
    BY <2>2 DEF vars, senderVars, storeVars, pumpVars, CompletedWasSent
  <2> QED
    BY <2>1, <2>2 DEF Next
<1> QED
  BY <1>1, <1>2, Inductive, PTL DEF Spec

-------------------------------------------------------------------------------
(* Start is offered at rest only, on the send page and by any component that      *)
(* starts once.                                                                *)
StartsAtRest ==
    \A s \in TransferState : "start" \in Buttons[s] => s \in {"IDLE", "FILES_SELECTED"}

(* Each state a living page can go to PREPARING from has let go of its sender.     *)
NoSenderAtRest ==
    sAlive /\ transferState \in {"IDLE", "FILES_SELECTED"} => activeSender = None

(* Why the run V_PausedResumes is violated, and on every instance: Pause leaves    *)
(* transferState alone, and every way into PREPARING, the one state in which the   *)
(* send page offers Resume, has dropped the ChunkSender (queue-manager.ts:52, 143).  *)
NothingToResume == transferState = "PREPARING" => activeSender = None

(* On a page that offers Start at rest only, as the send page does, there is never  *)
(* anything to resume while Resume is offered, against "Resume the active sender."   *)
(* (queue-manager.ts:161, page.tsx:366).                                        *)
THEOREM ResumeIsIdle == StartsAtRest => (Spec => []NothingToResume)
<1> SUFFICES ASSUME StartsAtRest PROVE Spec => []NothingToResume
  OBVIOUS
<1> DEFINE J == NothingToResume /\ NoSenderAtRest
<1>1. Init => J
  BY DEF Init, SenderInit, NothingToResume, NoSenderAtRest
<1>2. IInv /\ J /\ [Next]_vars => J'
  <2> SUFFICES ASSUME IInv, J, [Next]_vars PROVE J'
    OBVIOUS
  <2> USE DEF NothingToResume, NoSenderAtRest
  <2>0. transferState \in TransferState
    BY DEF IInv, SInv, SenderTypeOK
  <2>1. CASE Start
    <3>1. /\ sAlive /\ transferState \in {"IDLE", "FILES_SELECTED"} /\ UNCHANGED activeSender
      BY <2>0, <2>1 DEF Start, StartsAtRest
    <3> QED
      BY <3>1
  <2>2. CASE SenderTask /\ ~Start
    <3>1. \/ activeSender' = None
          \/ transferState' \in {"TRANSFERRING", "FAILED"}
          \/ UNCHANGED <<transferState, activeSender, sAlive>>
          \/ sAlive' = FALSE /\ transferState' = "IDLE"
      BY <2>2 DEF SenderTask, HashDone, HashFailed, ChunkLoaded, ChunkDropped, ChunkFailed,
                  BufferedAmountLow, Pause, Resume, Cancel, SenderCleanup, Complete,
                  TransferError, storeVars
    <3> QED
      BY <3>1
  <2>3. CASE UNCHANGED senderVars \/ UNCHANGED vars
    BY <2>3 DEF vars, senderVars, storeVars
  <2> QED
    BY <2>1, <2>2, <2>3 DEF Next
<1> QED
  BY <1>1, <1>2, Inductive, PTL DEF Spec

-------------------------------------------------------------------------------
(* What a step can do to the packets between the pages, oldest first: nothing,    *)
(* add one behind the others, take the first, or lose them all.                 *)
WireStays    == Len(Wire') = Len(Wire) /\ \A m \in 1..Len(Wire) : Wire'[m] = Wire[m]
WireJoins(p) == /\ Len(Wire') = Len(Wire) + 1 /\ Wire'[Len(Wire) + 1] = p
                /\ \A m \in 1..Len(Wire) : Wire'[m] = Wire[m]
WireLeaves   == /\ network # <<>> /\ Wire[1] = Head(network)
                /\ Len(Wire) \in Nat \ {0} /\ Len(Wire') = Len(Wire) - 1
                /\ \A m \in 1..Len(Wire') : Wire'[m] = Wire[m + 1]
WireEmpties  == Len(Wire') = 0 /\ ~open'

LEMMA WireTyped ==
  ASSUME ChannelTypeOK
  PROVE  /\ Len(Wire) \in Nat /\ Len(Wire) = Len(network) + Len(buffer)
         /\ DOMAIN Wire = 1..Len(Wire)
         /\ \A m \in 1..Len(Wire) : Wire[m] \in Packet /\
               Wire[m] = IF m <= Len(network) THEN network[m] ELSE buffer[m - Len(network)]
<1>1. network \in Seq(Packet) /\ buffer \in Seq(Packet)
  BY DEF ChannelTypeOK
<1> QED
  BY <1>1 DEF Wire

LEMMA SendJoins ==
  ASSUME ChannelTypeOK, NEW p \in Packet, buffer' = Append(buffer, p), UNCHANGED network
  PROVE  WireJoins(p)
<1>1. network \in Seq(Packet) /\ buffer \in Seq(Packet)
  BY DEF ChannelTypeOK
<1>2. /\ buffer' \in Seq(Packet) /\ Len(buffer') = Len(buffer) + 1
      /\ buffer'[Len(buffer) + 1] = p /\ \A m \in 1..Len(buffer) : buffer'[m] = buffer[m]
  BY <1>1
<1>3. Len(Wire') = Len(Wire) + 1
  BY <1>1, <1>2 DEF Wire
<1>4. Wire'[Len(Wire) + 1] = p
  BY <1>1, <1>2 DEF Wire
<1>5. ASSUME NEW m \in 1..Len(Wire) PROVE Wire'[m] = Wire[m]
  BY <1>1, <1>2 DEF Wire
<1> QED
  BY <1>3, <1>4, <1>5 DEF WireJoins

LEMMA FlushStays ==
  ASSUME ChannelTypeOK, Flush
  PROVE  WireStays
<1>1. /\ network \in Seq(Packet) /\ buffer \in Seq(Packet) /\ buffer # <<>>
      /\ buffer' = Tail(buffer) /\ network' = Append(network, Head(buffer))
  BY DEF ChannelTypeOK, Flush
<1>2. /\ Head(buffer) = buffer[1] /\ Head(buffer) \in Packet
      /\ buffer' \in Seq(Packet) /\ Len(buffer') = Len(buffer) - 1 /\ Len(buffer) > 0
      /\ \A m \in 1..Len(buffer') : buffer'[m] = buffer[m + 1]
  BY <1>1
<1>3. /\ network' \in Seq(Packet) /\ Len(network') = Len(network) + 1
      /\ network'[Len(network) + 1] = buffer[1]
      /\ \A m \in 1..Len(network) : network'[m] = network[m]
  BY <1>1, <1>2
<1>4. Len(Wire') = Len(Wire)
  BY <1>1, <1>2, <1>3 DEF Wire
<1>5. ASSUME NEW m \in 1..Len(Wire) PROVE Wire'[m] = Wire[m]
  <2>1. CASE m <= Len(network)
    BY <1>1, <1>2, <1>3, <2>1 DEF Wire
  <2>2. CASE m = Len(network) + 1
    BY <1>1, <1>2, <1>3, <2>2 DEF Wire
  <2>3. CASE m > Len(network) + 1
    <3>1. m - Len(network') \in 1..Len(buffer') /\ m - Len(network) = (m - Len(network')) + 1
      BY <1>1, <1>2, <1>3, <2>3 DEF Wire
    <3> QED
      BY <1>1, <1>2, <1>3, <2>3, <3>1 DEF Wire
  <2> QED
    BY <1>1, <2>1, <2>2, <2>3 DEF Wire
<1> QED
  BY <1>4, <1>5 DEF WireStays

LEMMA ReceiveLeaves ==
  ASSUME ChannelTypeOK, NEW t, Receive(t)
  PROVE  WireLeaves /\ Wire[1].type = t
<1>1. /\ network \in Seq(Packet) /\ buffer \in Seq(Packet) /\ network # <<>>
      /\ network' = Tail(network) /\ UNCHANGED buffer /\ Head(network).type = t
  BY DEF ChannelTypeOK, Receive
<1>2. /\ Head(network) = network[1] /\ Len(network) > 0
      /\ network' \in Seq(Packet) /\ Len(network') = Len(network) - 1
      /\ \A m \in 1..Len(network') : network'[m] = network[m + 1]
  BY <1>1
<1>3. Len(Wire) \in Nat \ {0} /\ Len(Wire') = Len(Wire) - 1 /\ Wire[1] = Head(network)
  BY <1>1, <1>2 DEF Wire
<1>4. ASSUME NEW m \in 1..Len(Wire') PROVE Wire'[m] = Wire[m + 1]
  <2>1. CASE m <= Len(network')
    BY <1>1, <1>2, <2>1 DEF Wire
  <2>2. CASE m > Len(network')
    <3>1. m - Len(network') \in 1..Len(buffer) /\ (m + 1) - Len(network) = m - Len(network')
      BY <1>1, <1>2, <2>2 DEF Wire
    <3> QED
      BY <1>1, <1>2, <2>2, <3>1 DEF Wire
  <2> QED
    BY <1>1, <1>2, <2>1, <2>2 DEF Wire
<1> QED
  BY <1>1, <1>3, <1>4 DEF WireLeaves

LEMMA CloseEmpties == Close => WireEmpties
<1> SUFFICES ASSUME Close PROVE WireEmpties
  OBVIOUS
<1>1. network' = <<>> /\ buffer' = <<>> /\ ~open'
  BY DEF Close
<1> QED
  BY <1>1 DEF WireEmpties, Wire

LEMMA SameWire == UNCHANGED <<network, buffer>> => WireStays
  BY DEF WireStays, Wire

(* The sending page adds at most one packet to a task, and a chunk only with the   *)
(* index its ChunkSender passes in the same task.                              *)
SendsControl(t, f) == WireJoins(Control(t, f)) /\ UNCHANGED <<currentChunk, open>> /\ open
SendsChunk(f, k) ==
    /\ WireJoins(Chunk(f, currentChunk[f], k)) /\ UNCHANGED open /\ open
    /\ reading[<<f, k>>] > 0
    /\ currentChunk' = [currentChunk EXCEPT ![f] = currentChunk[f] + 1]

LEMMA SenderWire ==
  ASSUME SInv, SenderTask
  PROVE  \/ WireStays /\ UNCHANGED <<currentChunk, open>>
         \/ WireEmpties /\ UNCHANGED currentChunk
         \/ \E f \in Files : HashDone(f) /\ SendsControl("METADATA", f)
         \/ \E f \in Files, t \in {"PAUSE", "RESUME", "CANCEL"} : SendsControl(t, f)
         \/ \E s \in Slices : SendsChunk(s[1], s[2])
<1>0. ChannelTypeOK /\ currentChunk \in [Files -> Nat]
      /\ activeSender \in Files \cup {None} /\ activeTransferId \in Files \cup {None}
  BY DEF SInv, SenderTypeOK
<1>1. ASSUME NEW f \in Files, HashDone(f) PROVE SendsControl("METADATA", f)
  <2>1. currentChunk[f] = 0 /\ currentChunk' = [currentChunk EXCEPT ![f] = 0]
    BY <1>1 DEF HashDone, SInv, Untouched, NotBegun
  <2>2. /\ UNCHANGED <<network, open>> /\ open
        /\ buffer' = Append(buffer, Control("METADATA", f))
    BY <1>1 DEF HashDone, Announce
  <2>3. Control("METADATA", f) \in Packet
    BY ControlTyped DEF PacketType
  <2> QED
    BY <1>0, <2>1, <2>2, <2>3, SendJoins DEF SendsControl
<1>2. ASSUME NEW s \in Slices, ChunkLoaded(s[1], s[2]) PROVE SendsChunk(s[1], s[2])
  <2>1. /\ s[1] \in Files /\ s[2] \in Nat
    BY SliceMember, ChannelAssumption
  <2>2. Chunk(s[1], currentChunk[s[1]], s[2]) \in Packet
    BY <1>0, <2>1 DEF Chunk, Packet, PacketType
  <2> QED
    BY <1>0, <1>2, <2>2, SendJoins DEF ChunkLoaded, SendsChunk
<1>3. ASSUME NEW v, NEW t \in PacketType \ {"CHUNK"}, Notify(v, t),
             UNCHANGED <<currentChunk, open, network>>
      PROVE  \/ WireStays
             \/ \E f \in Files : SendsControl(t, f)
  <2>1. CASE UNCHANGED buffer
    BY <1>3, <2>1, SameWire
  <2>2. CASE ~UNCHANGED buffer
    <3>1. /\ activeTransferId \in Files /\ open
          /\ buffer' = Append(buffer, Control(t, activeTransferId))
      BY <1>0, <1>3, <2>2 DEF Notify
    <3> QED
      BY <1>0, <1>3, <3>1, ControlTyped, SendJoins DEF SendsControl
  <2> QED
    BY <2>1, <2>2
<1>4. CASE Pause
  BY <1>3, <1>4 DEF Pause, PacketType
<1>5. CASE Resume
  BY <1>3, <1>5 DEF Resume, PacketType
<1>6. CASE Cancel
  <2>1. UNCHANGED <<currentChunk, open, network>>
    BY <1>6 DEF Cancel
  <2>2. CASE open /\ activeSender # None
    <3>1. activeSender \in Files /\ buffer' = Append(buffer, Control("CANCEL", activeSender))
      BY <1>0, <1>6, <2>2 DEF Cancel
    <3>2. "CANCEL" \in PacketType \ {"CHUNK"}
      BY DEF PacketType
    <3> QED
      BY <1>0, <2>1, <2>2, <3>1, <3>2, ControlTyped, SendJoins DEF SendsControl
  <2>3. CASE ~(open /\ activeSender # None)
    BY <1>6, <2>1, <2>3, SameWire DEF Cancel
  <2> QED
    BY <2>2, <2>3
<1>7. CASE SenderCleanup
  BY <1>7, CloseEmpties DEF SenderCleanup
<1>8. \/ \E f \in Files : HashDone(f)
      \/ \E s \in Slices : ChunkLoaded(s[1], s[2])
      \/ Pause \/ Resume \/ Cancel \/ SenderCleanup
      \/ UNCHANGED <<currentChunk, open, network, buffer>>
  BY DEF SenderTask, HashFailed, ChunkDropped, ChunkFailed, BufferedAmountLow, Start,
         channelVars, pumpVars
<1> QED
  BY <1>1, <1>2, <1>4, <1>5, <1>6, <1>7, <1>8, SameWire DEF PacketType

(* The receiving page takes the first packet, leaves them, or closes.             *)
LEMMA ReceiverWire ==
  ASSUME SInv, ReceiverTask
  PROVE  \/ WireLeaves /\ UNCHANGED open
         \/ WireEmpties
         \/ WireStays /\ UNCHANGED open
<1>1. ChannelTypeOK
  BY DEF SInv
<1>2. ASSUME NEW t, Receive(t) PROVE WireLeaves /\ UNCHANGED open
  BY <1>1, <1>2, ReceiveLeaves DEF Receive
<1>3. CASE UNCHANGED channelVars
  BY <1>3, SameWire DEF channelVars
<1>4. \/ \E t \in PacketType : Receive(t)
      \/ UNCHANGED channelVars
      \/ Close
  BY DEF ReceiverTask, ReceiveMetadata, ReceiveChunk, ReceivePause, ReceiveResume,
         ReceiveCancel, CancelByReceiver, VerifyPassed, VerifyFailed, ReceiverCleanup, PacketType
<1> QED
  BY <1>2, <1>3, <1>4, CloseEmpties

-------------------------------------------------------------------------------
(* Of two chunks of one file under way, the older has the smaller index.          *)
InOrder ==
    \A m, n \in 1..Len(Wire) : \A f \in Files :
        m < n /\ IsChunkOf(Wire[m], f) /\ IsChunkOf(Wire[n], f)
            => Wire[m].index < Wire[n].index

LEMMA WireLags ==
  ASSUME SInv, NEW m \in 1..Len(Wire), NEW f, IsChunkOf(Wire[m], f)
  PROVE  f \in Files /\ Wire[m].index < currentChunk[f]
<1>1. ChannelTypeOK /\ Wire[m] \in Packet
  BY WireTyped DEF SInv
<1>2. Late(Wire[m])
  <2>1. CASE m <= Len(network)
    <3>1. m \in 1..Len(network) /\ Wire[m] = network[m]
      BY <1>1, <2>1, WireTyped DEF ChannelTypeOK
    <3> QED
      BY <3>1 DEF SInv, PacketsLag
  <2>2. CASE m > Len(network)
    <3>1. m - Len(network) \in 1..Len(buffer) /\ Wire[m] = buffer[m - Len(network)]
      BY <1>1, <2>2, WireTyped DEF ChannelTypeOK
    <3> QED
      BY <3>1 DEF SInv, PacketsLag
  <2> QED
    BY <1>1, <2>1, <2>2 DEF ChannelTypeOK
<1> QED
  BY <1>1, <1>2 DEF IsChunkOf, Late, Packet

LEMMA OrderKept == IInv /\ InOrder /\ [Next]_vars => InOrder'
<1> SUFFICES ASSUME IInv, InOrder, [Next]_vars,
                    NEW m \in 1..Len(Wire'), NEW n \in 1..Len(Wire'), NEW f \in Files, m < n,
                    IsChunkOf(Wire'[m], f), IsChunkOf(Wire'[n], f)
             PROVE  Wire'[m].index < Wire'[n].index
  BY DEF InOrder, IsChunkOf
<1>0. SInv /\ ChannelTypeOK /\ Len(Wire) \in Nat
  BY WireTyped DEF IInv, SInv
<1>1. CASE WireStays
  BY <1>1 DEF WireStays, InOrder
<1>2. CASE WireEmpties
  BY <1>2 DEF WireEmpties
<1>3. CASE WireLeaves
  <2>1. /\ m + 1 \in 1..Len(Wire) /\ n + 1 \in 1..Len(Wire) /\ m + 1 < n + 1
        /\ Wire'[m] = Wire[m + 1] /\ Wire'[n] = Wire[n + 1]
    BY <1>3 DEF WireLeaves
  <2> QED
    BY <2>1 DEF InOrder
<1>4. ASSUME NEW p, WireJoins(p), p.type = "CHUNK" => p.index = currentChunk[p.file]
      PROVE  Wire'[m].index < Wire'[n].index
  <2>1. m \in 1..Len(Wire) /\ Wire'[m] = Wire[m]
    BY <1>0, <1>4 DEF WireJoins
  <2>2. CASE n \in 1..Len(Wire)
    BY <1>4, <2>1, <2>2 DEF WireJoins, InOrder
  <2>3. CASE n = Len(Wire) + 1
    <3>1. p.type = "CHUNK" /\ p.file = f /\ Wire'[n].index = currentChunk[f]
      BY <1>4, <2>3 DEF WireJoins, IsChunkOf
    <3> QED
      BY <1>0, <2>1, <3>1, WireLags
  <2> QED
    BY <1>0, <1>4, <2>2, <2>3 DEF WireJoins
<1>5. CASE SenderTask
  <2>1. ASSUME NEW g \in Files, NEW t, t # "CHUNK", SendsControl(t, g)
        PROVE  Wire'[m].index < Wire'[n].index
    BY <1>4, <2>1 DEF SendsControl, Control
  <2>2. ASSUME NEW s \in Slices, SendsChunk(s[1], s[2])
        PROVE  Wire'[m].index < Wire'[n].index
    BY <1>4, <2>2 DEF SendsChunk, Chunk
  <2> QED
    BY <1>0, <1>1, <1>2, <1>5, <2>1, <2>2, SenderWire
<1>6. CASE ReceiverTask
  BY <1>0, <1>1, <1>2, <1>3, <1>6, ReceiverWire
<1>7. CASE Flush \/ UNCHANGED vars
  BY <1>0, <1>1, <1>7, FlushStays, SameWire DEF vars, channelVars
<1> QED
  BY <1>5, <1>6, <1>7 DEF Next

(* Each index of a file leaves once and in order, and only when its ChunkSender    *)
(* passes it, however many readers overlap (chunk-sender.ts:136-149).           *)
THEOREM ChunksInOrder == Spec => []IndicesIncrease
<1>1. Init => InOrder
  BY DEF Init, ChannelInit, Wire, InOrder
<1>2. IInv /\ InOrder => IndicesIncrease
  <2> SUFFICES ASSUME IInv, InOrder PROVE IndicesIncrease
    OBVIOUS
  <2>1. SInv /\ DOMAIN Wire = 1..Len(Wire)
    BY WireTyped DEF IInv, SInv
  <2> QED
    BY <2>1, WireLags DEF IndicesIncrease, InOrder
<1> QED
  BY <1>1, <1>2, OrderKept, Inductive, PTL DEF Spec

-------------------------------------------------------------------------------
(* A ChunkSender of f is about: the active one, the one that bufferedamountlow     *)
(* wakes, or one with readers pending.                                         *)
HasSender(f) == \/ activeSender = f \/ lowOwner = f
                \/ \E s \in Slices : s[1] = f /\ reading[s] > 0

(* The receiver knows of f, or hears of it in one of the first k packets.         *)
Known(f, k) == \/ rStatus[f] # "ABSENT"
               \/ \E n \in 1..k : Wire[n] = Control("METADATA", f)

(* METADATA went out before the ChunkSender was made.                           *)
SendersKnown == open => \A f \in Files : HasSender(f) => Known(f, Len(Wire))

ChunksFollow ==
    \A m \in 1..Len(Wire) : Wire[m].type = "CHUNK" => Known(Wire[m].file, m - 1)

KInv == SendersKnown /\ ChunksFollow /\ (~open => Len(Wire) = 0)

(* Packets that stay where they are are known of as before.                      *)
LEMMA KnownStays ==
  ASSUME NEW f \in Files, NEW k \in Nat, Known(f, k),
         rStatus[f] # "ABSENT" => rStatus'[f] # "ABSENT",
         \A m \in 1..k : Wire'[m] = Wire[m]
  PROVE  Known(f, k)'
  BY DEF Known, Control

(* When the first packet leaves, what it announced has to be in the store.        *)
LEMMA KnownShifts ==
  ASSUME NEW f \in Files, NEW k \in Nat, Known(f, k + 1), k + 1 <= Len(Wire), WireLeaves,
         rStatus[f] # "ABSENT" => rStatus'[f] # "ABSENT",
         Wire[1] = Control("METADATA", f) => rStatus'[f] # "ABSENT"
  PROVE  Known(f, k)'
<1>1. CASE rStatus[f] # "ABSENT"
  BY <1>1 DEF Known
<1>2. CASE Wire[1] = Control("METADATA", f)
  BY <1>2 DEF Known
<1>3. ASSUME NEW n \in 1..(k + 1), n # 1, Wire[n] = Control("METADATA", f) PROVE Known(f, k)'
  <2>1. n - 1 \in 1..k /\ n - 1 \in 1..Len(Wire') /\ (n - 1) + 1 = n
    BY <1>3 DEF WireLeaves
  <2>2. Wire'[n - 1] = Wire[n]
    BY <2>1 DEF WireLeaves
  <2>3. Wire'[n - 1] = Control("METADATA", f)
    BY <1>3, <2>2
  <2> QED
    BY <2>1, <2>3 DEF Known, Control
<1> QED
  BY <1>1, <1>2, <1>3 DEF Known

LEMMA ReaderOfOwn ==
  ASSUME NEW f, NEW c, NEW rd \in [Slices -> Nat], StartReader(f, c, rd),
         NEW s \in Slices, s[1] # f
  PROVE  reading'[s] = rd[s]
  BY DEF StartReader

(* Only the task that sends METADATA of f makes a ChunkSender of f.               *)
LEMMA SenderMade ==
  ASSUME SInv, SenderTask, NEW f \in Files, HasSender(f)', ~HasSender(f)
  PROVE  HashDone(f)
<1>0. reading \in [Slices -> Nat] /\ f # None
      /\ \A s \in Slices : s[1] = f => ~(reading[s] > 0)
  BY DEF SInv, SenderTypeOK, HasSender, Files, None
<1>1. ASSUME NEW g \in Files, g # f PROVE ~HashDone(g)
  <2> SUFFICES ASSUME HashDone(g) PROVE FALSE
    OBVIOUS
  <2>1. lowOwner' = g /\ activeSender' \in {g, None}
        /\ (StartReader(g, 0, reading) \/ UNCHANGED reading)
    BY DEF HashDone, Complete
  <2>2. \A s \in Slices : s[1] = f => reading'[s] = reading[s]
    BY <1>0, <1>1, <2>1, ReaderOfOwn
  <2> QED
    BY <1>0, <1>1, <2>1, <2>2 DEF HasSender
<1>2. ASSUME NEW x \in Slices, ChunkLoaded(x[1], x[2]) PROVE FALSE
  <2> DEFINE rd == [reading EXCEPT ![<<x[1], x[2]>>] = @ - 1]
  <2>1. /\ <<x[1], x[2]>> = x /\ reading[x] > 0 /\ UNCHANGED lowOwner
        /\ activeSender' \in {activeSender, None}
        /\ reading' = rd \/ StartReader(x[1], currentChunk[x[1]] + 1, rd)
    BY <1>2, SliceMember DEF ChunkLoaded, Complete
  <2>2. x[1] # f
    BY <1>0, <2>1
  <2>3. rd \in [Slices -> Nat] /\ \A s \in Slices : s[1] = f => rd[s] = reading[s]
    BY <1>0, <2>1, <2>2, ReaderEnds
  <2> HIDE DEF rd
  <2>4. \A s \in Slices : s[1] = f => reading'[s] = reading[s]
    BY <2>1, <2>2, <2>3, ReaderOfOwn
  <2> QED
    BY <1>0, <2>1, <2>4 DEF HasSender
<1>3. ASSUME NEW x \in Slices, ChunkDropped(x[1], x[2]) \/ ChunkFailed(x[1], x[2]) PROVE FALSE
  <2>1. /\ <<x[1], x[2]>> = x /\ reading[x] > 0 /\ UNCHANGED <<lowOwner, activeSender>>
        /\ reading' = [reading EXCEPT ![x] = @ - 1]
    BY <1>3, SliceMember DEF ChunkDropped, ChunkFailed
  <2>2. reading' \in [Slices -> Nat] /\ \A s \in Slices : reading'[s] <= reading[s]
    BY <1>0, <2>1, ReaderEnds
  <2>3. \A s \in Slices : s[1] = f => ~(reading'[s] > 0)
    BY <1>0, <2>2
  <2> QED
    BY <1>0, <2>1, <2>3 DEF HasSender
<1>4. CASE BufferedAmountLow
  <2>1. /\ UNCHANGED lowOwner /\ activeSender' \in {activeSender, None}
        /\ UNCHANGED reading \/ StartReader(lowOwner, currentChunk[lowOwner], reading)
    BY <1>4 DEF BufferedAmountLow, Complete
  <2>2. \A s \in Slices : s[1] = f => reading'[s] = reading[s]
    BY <1>0, <2>1, ReaderOfOwn DEF HasSender
  <2> QED
    BY <1>0, <2>1, <2>2 DEF HasSender
<1>5. CASE Resume
  <2>1. /\ UNCHANGED <<lowOwner, activeSender>>
        /\ UNCHANGED reading \/ StartReader(activeSender, currentChunk[activeSender], reading)
    BY <1>5 DEF Resume
  <2>2. \A s \in Slices : s[1] = f => reading'[s] = reading[s]
    BY <1>0, <2>1, ReaderOfOwn DEF HasSender
  <2> QED
    BY <1>0, <2>1, <2>2 DEF HasSender
<1>6. CASE (\E g \in Files : HashFailed(g)) \/ Start \/ Pause \/ Cancel \/ SenderCleanup
  <2>1. UNCHANGED <<lowOwner, reading>> /\ activeSender' \in {activeSender, None}
    BY <1>6 DEF HashFailed, Start, Pause, Cancel, SenderCleanup, pumpVars
  <2> QED
    BY <1>0, <2>1 DEF HasSender
<1> QED
  BY <1>1, <1>2, <1>3, <1>4, <1>5, <1>6 DEF SenderTask

(* What the receiver knows of, it goes on knowing until its page is left.         *)
LEMMA ReceiverKnows ==
  ASSUME SInv, RInv, ReceiverTask, open', NEW f \in Files, rStatus[f] # "ABSENT"
  PROVE  rStatus'[f] # "ABSENT"
<1>1. rStatus \in [Files -> ReceiverFile] /\ rActive \in Files \cup {NoFile}
  BY DEF RInv, ReceiverTypeOK
<1>2. ASSUME NEW g \in Files \cup {NoFile}, NEW v \in ReceiverFile \ {"ABSENT"},
             rStatus' = RMark(g, v)
      PROVE  rStatus'[f] # "ABSENT"
  BY <1>1, <1>2 DEF RMark
<1>3. CASE ReceiveMetadata
  BY <1>1, <1>3 DEF ReceiveMetadata
<1>4. ~ReceiverCleanup
  BY DEF ReceiverCleanup, Close
<1>5. \/ ReceiveMetadata \/ UNCHANGED rStatus
      \/ \E g \in Files \cup {NoFile}, v \in ReceiverFile \ {"ABSENT"} : rStatus' = RMark(g, v)
  BY <1>1, <1>4 DEF ReceiverTask, ReceiveChunk, ReceivePause, ReceiveResume, ReceiveCancel,
     CancelByReceiver, CancelReceiving, VerifyPassed, VerifyFailed, receiverVars, ReceiverFile
<1> QED
  BY <1>2, <1>3, <1>5

(* A METADATA packet is gone once it has been handled.                           *)
LEMMA MetadataHandled ==
  ASSUME SInv, RInv, ReceiverTask, WireLeaves, open', NEW f \in Files,
         Wire[1] = Control("METADATA", f), UNCHANGED open
  PROVE  rStatus'[f] # "ABSENT"
<1>1. Head(network) = Control("METADATA", f) /\ network # <<>>
  BY DEF WireLeaves
<1>2. Head(network).type = "METADATA" /\ Head(network).file = f
  BY <1>1 DEF Control
<1>3. CASE ReceiveMetadata
  <2>1. rStatus' = [rStatus EXCEPT ![f] = "SENDING"] /\ rStatus \in [Files -> ReceiverFile]
    BY <1>2, <1>3 DEF ReceiveMetadata, RInv, ReceiverTypeOK
  <2> QED
    BY <2>1
<1>4. CASE ~ReceiveMetadata
  <2>1. UNCHANGED channelVars
    BY <1>2, <1>4 DEF ReceiverTask, ReceiveChunk, ReceivePause, ReceiveResume, ReceiveCancel,
       Receive, CancelByReceiver, VerifyPassed, VerifyFailed, ReceiverCleanup, Close
  <2>2. Len(Wire') = Len(Wire)
    BY <2>1 DEF channelVars, Wire
  <2> QED
    BY <2>2 DEF WireLeaves
<1> QED
  BY <1>3, <1>4

(* A step that leaves the packets, or adds one that is known of if it is a chunk.  *)
LEMMA KnownAtRest ==
  ASSUME SInv, ChunksFollow, NEW l \in Nat, Len(Wire') = l, Len(Wire) <= l,
         \A m \in 1..Len(Wire) : Wire'[m] = Wire[m],
         \A f \in Files : rStatus[f] # "ABSENT" => rStatus'[f] # "ABSENT",
         \A m \in (Len(Wire) + 1)..l : Wire'[m].type = "CHUNK" =>
             /\ m = Len(Wire) + 1 /\ Wire'[m].file \in Files
             /\ Known(Wire'[m].file, Len(Wire))
  PROVE  ChunksFollow'
<1>0. Len(Wire) \in Nat /\ \A m \in 1..Len(Wire) : Wire[m].file \in Files
  BY WireTyped DEF SInv, Packet
<1>1. ASSUME NEW m \in 1..l, Wire'[m].type = "CHUNK", NEW f, f = Wire'[m].file
      PROVE  f \in Files /\ Known(f, m - 1)'
  <2>1. f \in Files /\ Known(f, m - 1) /\ m - 1 \in Nat /\ m - 1 <= Len(Wire)
    <3>1. CASE m \in 1..Len(Wire)
      BY <1>0, <1>1, <3>1 DEF ChunksFollow
    <3>2. CASE m \in (Len(Wire) + 1)..l
      <4>1. m - 1 = Len(Wire)
        BY <1>0, <1>1, <3>2
      <4> QED
        BY <1>0, <1>1, <3>2, <4>1
    <3> QED
      BY <1>0, <3>1, <3>2
  <2>2. \A n \in 1..(m - 1) : Wire'[n] = Wire[n]
    BY <1>0, <2>1
  <2> QED
    BY <2>1, <2>2, KnownStays
<1> QED
  BY <1>1 DEF ChunksFollow, Known, Control

LEMMA ReceiverKeepsKnown ==
  ASSUME IInv, KInv, ReceiverTask, UNCHANGED senderVars
  PROVE  KInv'
<1>0. SInv /\ RInv /\ ChannelTypeOK /\ UNCHANGED <<activeSender, lowOwner, reading>>
  BY DEF IInv, SInv, senderVars, pumpVars
<1>w. Len(Wire) \in Nat /\ \A m \in 1..Len(Wire) : Wire[m].file \in Files
  BY <1>0, WireTyped DEF Packet
<1>1. CASE WireEmpties
  BY <1>1 DEF WireEmpties, KInv, SendersKnown, ChunksFollow
<1>2. CASE open /\ WireStays /\ UNCHANGED open
  <2>1. \A f \in Files : rStatus[f] # "ABSENT" => rStatus'[f] # "ABSENT"
    BY <1>0, <1>2, ReceiverKnows
  <2>2. ChunksFollow'
    BY <1>0, <1>w, <1>2, <2>1, KnownAtRest DEF KInv, WireStays
  <2>3. ASSUME NEW f \in Files, HasSender(f)' PROVE Known(f, Len(Wire))'
    <3>1. Known(f, Len(Wire))
      BY <1>0, <1>2, <2>3 DEF HasSender, KInv, SendersKnown
    <3> QED
      BY <1>w, <1>2, <2>1, <3>1 DEF Known, WireStays, Control
  <2> QED
    BY <1>2, <2>2, <2>3 DEF KInv, SendersKnown
<1>3. CASE open /\ WireLeaves /\ UNCHANGED open
  <2>1. \A f \in Files : rStatus[f] # "ABSENT" => rStatus'[f] # "ABSENT"
    BY <1>0, <1>3, ReceiverKnows
  <2>2. \A f \in Files : Wire[1] = Control("METADATA", f) => rStatus'[f] # "ABSENT"
    BY <1>0, <1>3, MetadataHandled
  <2>3. Len(Wire) \in Nat \ {0} /\ Len(Wire') = Len(Wire) - 1
    BY <1>3 DEF WireLeaves
  <2>4. ASSUME NEW m \in 1..Len(Wire'), Wire'[m].type = "CHUNK", NEW f, f = Wire'[m].file
        PROVE  f \in Files /\ Known(f, m - 1)'
    <3>1. /\ m + 1 \in 1..Len(Wire) /\ Wire'[m] = Wire[m + 1]
          /\ m - 1 \in Nat /\ (m - 1) + 1 = m /\ (m + 1) - 1 = m /\ m <= Len(Wire)
      BY <1>3, <2>3 DEF WireLeaves
    <3>2. f \in Files /\ Known(f, m)
      BY <1>w, <2>4, <3>1 DEF KInv, ChunksFollow
    <3> QED
      BY <1>3, <2>1, <2>2, <3>1, <3>2, KnownShifts
  <2>5. ChunksFollow'
    BY <2>4 DEF ChunksFollow, Known, Control
  <2>6. ASSUME NEW f \in Files, HasSender(f)' PROVE Known(f, Len(Wire))'
    <3>1. Known(f, Len(Wire))
      BY <1>0, <1>3, <2>6 DEF HasSender, KInv, SendersKnown
    <3> DEFINE k == Len(Wire')
    <3>2. k \in Nat /\ k + 1 = Len(Wire)
      BY <2>3
    <3>3. rStatus'[f] # "ABSENT" \/ \E n \in 1..k : Wire'[n] = Control("METADATA", f)
      <4> HIDE DEF k
      <4>1. ASSUME NEW n \in 1..(k + 1), n # 1, Wire[n] = Control("METADATA", f)
            PROVE  n - 1 \in 1..k /\ Wire'[n - 1] = Control("METADATA", f)
        <5>1. n - 1 \in 1..k /\ (n - 1) + 1 = n
          BY <3>2, <4>1
        <5>2. Wire'[n - 1] = Wire[n]
          BY <1>3, <5>1 DEF WireLeaves, k
        <5> QED
          BY <4>1, <5>1, <5>2
      <4> QED
        BY <2>1, <2>2, <3>1, <3>2, <4>1 DEF Known
    <3> QED
      BY <3>3 DEF Known, Control
  <2> QED
    BY <1>3, <2>5, <2>6 DEF KInv, SendersKnown
<1>4. CASE ~open /\ UNCHANGED open /\ (WireStays \/ WireLeaves)
  BY <1>4 DEF KInv, WireStays, WireLeaves, SendersKnown, ChunksFollow
<1> QED
  BY <1>0, <1>1, <1>2, <1>3, <1>4, ReceiverWire DEF SInv, ChannelTypeOK

LEMMA SenderKeepsKnown ==
  ASSUME IInv, KInv, SenderTask, UNCHANGED receiverVars
  PROVE  KInv'
<1>0. SInv /\ UNCHANGED rStatus /\ ChunksFollow /\ SendersKnown
  BY DEF IInv, receiverVars, KInv
<1>w. Len(Wire) \in Nat
  BY <1>0, WireTyped DEF SInv
<1>1. CASE WireEmpties
  BY <1>1 DEF WireEmpties, KInv, SendersKnown, ChunksFollow
<1>2. CASE ~open
  <2>1. \A f \in Files : ~HashDone(f)
    BY <1>2 DEF HashDone
  <2>2. (WireStays /\ UNCHANGED open) \/ WireEmpties
    BY <1>0, <1>2, SenderWire DEF SendsControl, SendsChunk
  <2> QED
    BY <1>1, <1>2, <2>2 DEF KInv, SendersKnown, ChunksFollow, WireStays
<1>3. ASSUME open, UNCHANGED open, NEW l \in Nat, Len(Wire') = l, Len(Wire) <= l,
             \A m \in 1..Len(Wire) : Wire'[m] = Wire[m],
             \A m \in (Len(Wire) + 1)..l : Wire'[m].type = "CHUNK" =>
                 /\ m = Len(Wire) + 1 /\ Wire'[m].file \in Files
                 /\ Known(Wire'[m].file, Len(Wire))
      PROVE  KInv'
  <2>1. ChunksFollow'
    BY <1>0, <1>3, KnownAtRest
  <2>2. ASSUME NEW f \in Files, HasSender(f)' PROVE Known(f, Len(Wire))'
    <3>1. CASE HasSender(f)
      <4>1. Known(f, Len(Wire))
        BY <1>0, <1>3, <3>1 DEF SendersKnown
      <4> QED
        BY <1>0, <1>w, <1>3, <4>1 DEF Known, Control
    <3>2. CASE ~HasSender(f)
      <4>1. /\ UNCHANGED network
            /\ buffer' = Append(buffer, Control("METADATA", f))
        BY <1>0, <2>2, <3>2, SenderMade DEF HashDone, Announce
      <4>2. Control("METADATA", f) \in Packet
        BY ControlTyped DEF PacketType
      <4>3. WireJoins(Control("METADATA", f))
        BY <1>0, <4>1, <4>2, SendJoins DEF SInv
      <4> QED
        BY <1>w, <4>3 DEF Known, WireJoins, Control
    <3> QED
      BY <3>1, <3>2
  <2> QED
    BY <1>3, <2>1, <2>2 DEF KInv, SendersKnown
<1>4. CASE WireStays /\ UNCHANGED open
  BY <1>w, <1>2, <1>3, <1>4 DEF WireStays, SInv, ChannelTypeOK
<1>5. ASSUME NEW f \in Files, NEW t, t # "CHUNK", SendsControl(t, f) PROVE KInv'
  <2>1. Control(t, f).type # "CHUNK"
    BY <1>5 DEF Control
  <2> QED
    BY <1>w, <1>3, <1>5, <2>1 DEF SendsControl, WireJoins
<1>6. ASSUME NEW s \in Slices, SendsChunk(s[1], s[2]) PROVE KInv'
  <2> DEFINE p == Chunk(s[1], currentChunk[s[1]], s[2])
  <2>1. s[1] \in Files /\ <<s[1], s[2]>> = s /\ p.file = s[1]
    BY SliceMember DEF Chunk
  <2>2. Known(s[1], Len(Wire))
    BY <1>0, <1>6, <2>1 DEF SendsChunk, SendersKnown, HasSender
  <2>3. WireJoins(p) /\ open /\ UNCHANGED open
    BY <1>6 DEF SendsChunk
  <2> HIDE DEF p
  <2>4. ASSUME NEW m \in (Len(Wire) + 1)..(Len(Wire) + 1)
        PROVE  /\ m = Len(Wire) + 1 /\ Wire'[m].file \in Files
               /\ Known(Wire'[m].file, Len(Wire))
    <3>1. m = Len(Wire) + 1
      BY <1>w, <2>4
    <3>2. Wire'[m] = p
      BY <2>3, <3>1 DEF WireJoins
    <3>3. Known(p.file, Len(Wire))
      BY <2>1, <2>2
    <3> QED
      BY <2>1, <3>1, <3>2, <3>3
  <2> QED
    BY <1>w, <1>3, <2>3, <2>4 DEF WireJoins
<1> QED
  BY <1>0, <1>1, <1>4, <1>5, <1>6, SenderWire

LEMMA NextKInv == IInv /\ KInv /\ [Next]_vars => KInv'
<1> SUFFICES ASSUME IInv, KInv, [Next]_vars PROVE KInv'
  OBVIOUS
<1>1. CASE SenderTask /\ UNCHANGED receiverVars
  BY <1>1, SenderKeepsKnown
<1>2. CASE ReceiverTask /\ UNCHANGED senderVars
  BY <1>2, ReceiverKeepsKnown
<1>3. CASE (Flush /\ UNCHANGED <<senderVars, receiverVars>>) \/ UNCHANGED vars
  <2>0. ChannelTypeOK
    BY DEF IInv, SInv
  <2>1. WireStays /\ UNCHANGED <<open, rStatus, activeSender, lowOwner, reading>>
    BY <1>3, <2>0, FlushStays, SameWire
       DEF Flush, vars, channelVars, senderVars, pumpVars, receiverVars
  <2>2. Len(Wire) \in Nat /\ Len(Wire') = Len(Wire)
        /\ \A m \in 1..Len(Wire) : Wire'[m] = Wire[m]
    BY <2>0, <2>1, WireTyped DEF WireStays
  <2>3. ChunksFollow'
    BY <2>1, <2>2, KnownAtRest DEF KInv, IInv
  <2>4. SendersKnown'
    <3>1. \A f \in Files : Known(f, Len(Wire)) => Known(f, Len(Wire))'
      BY <2>1, <2>2 DEF Known, Control
    <3> QED
      BY <2>1, <3>1 DEF KInv, SendersKnown, HasSender
  <2> QED
    BY <2>1, <2>2, <2>3, <2>4 DEF KInv
<1> QED
  BY <1>1, <1>2, <1>3 DEF Next

(* A chunk reaches the receiving page behind the METADATA packet of its file, also  *)
(* one sent by a reader that outlived its ChunkSender (queue-manager.ts:135).      *)
THEOREM MetadataLeads == Spec => []MetadataFirst
<1>1. Init => KInv
  BY DEF Init, ChannelInit, SenderInit, Wire, KInv, SendersKnown, ChunksFollow,
         HasSender, Files, None
<1>2. IInv /\ KInv => MetadataFirst
  <2> SUFFICES ASSUME IInv, KInv PROVE MetadataFirst
    OBVIOUS
  <2>1. DOMAIN Wire = 1..Len(Wire)
    BY WireTyped DEF IInv, SInv
  <2> QED
    BY <2>1 DEF KInv, ChunksFollow, Known, MetadataFirst
<1> QED
  BY <1>1, <1>2, NextKInv, Inductive, PTL DEF Spec

-------------------------------------------------------------------------------
(* A receiving page that shows an active file has its ChunkReceiver.              *)
ShownIsActive == rActive # NoFile => activeReceiver = rActive

(* The checksum is started when everything is there, and nothing is ever removed.  *)
FullWhenVerified == \A f \in verifying \cup settled : Full(got, f)

(* With one file in the queue, what was announced is listened to until its verdict. *)
Listening ==
    open /\ NumFiles = 1 =>
        \A f \in Files \ (rCancelled \cup settled) : rStatus[f] # "ABSENT" => activeReceiver = f

LInv == ShownIsActive /\ FullWhenVerified /\ Listening

UnderWay(f, i) == \E m \in 1..Len(Wire) : IsChunkOf(Wire[m], f) /\ Wire[m].index = i

Stored(f, i) == got[<<f, i>>] # NoSlice

LEMMA OneFile ==
  ASSUME NumFiles = 1, NEW f \in Files, NEW g \in Files
  PROVE  f = g
  BY DEF Files

(* What is stored stays stored.                                                 *)
LEMMA StoredStays ==
  ASSUME SInv, RInv, ReceiverTask, NEW s \in Slices, got[s] # NoSlice
  PROVE  got'[s] # NoSlice
<1>1. CASE ReceiveChunk
  <2> DEFINE f == activeReceiver
             p == Head(network)
  <2>1. \/ /\ got' = [got EXCEPT ![<<f, p.index>>] = <<p.file, p.slice>>]
           /\ got[<<f, p.index>>] = NoSlice
        \/ UNCHANGED got
    BY <1>1 DEF ReceiveChunk, Accepts
  <2> HIDE DEF f, p
  <2> QED
    BY <2>1 DEF RInv, ReceiverTypeOK
<1>2. CASE ~ReceiveChunk
  <2>1. UNCHANGED got
    BY <1>2 DEF ReceiverTask, ReceiveMetadata, ReceivePause, ReceiveResume, ReceiveCancel,
       CancelByReceiver, CancelReceiving, VerifyPassed, VerifyFailed, ReceiverCleanup, receiverVars
  <2> QED
    BY <2>1
<1> QED
  BY <1>1, <1>2

LEMMA FullStays ==
  ASSUME SInv, RInv, ReceiverTask, NEW f \in Files, Full(got, f)
  PROVE  Full(got', f)
<1>1. ASSUME NEW i \in 0..(Chunks[f] - 1) PROVE got'[<<f, i>>] # NoSlice
  <2>1. <<f, i>> \in Slices /\ got[<<f, i>>] # NoSlice
    BY <1>1, SliceMember DEF Full
  <2> QED
    BY <2>1, StoredStays
<1> QED
  BY <1>1 DEF Full

(* A ChunkReceiver is let go of with its file: cancelled, or after its verdict.     *)
LEMMA CancelLeavesNone ==
  ASSUME RInv, LInv, CancelReceiving
  PROVE  ShownIsActive' /\ Listening'
<1>1. /\ rActive # NoFile /\ activeReceiver = rActive /\ activeReceiver \in Files
      /\ rCancelled' = rCancelled \cup ({activeReceiver} \ {NoFile}) /\ rActive' = NoFile
  BY DEF CancelReceiving, LInv, ShownIsActive, RInv, ReceiverTypeOK
<1>2. NumFiles = 1 => \A f \in Files : f \in rCancelled'
  BY <1>1, OneFile
<1> QED
  BY <1>1, <1>2 DEF ShownIsActive, Listening

LEMMA ReceiverListens ==
  ASSUME IInv, LInv, ReceiverTask, UNCHANGED senderVars
  PROVE  LInv'
<1>0. SInv /\ RInv /\ rStatus \in [Files -> ReceiverFile]
  BY DEF IInv, RInv, ReceiverTypeOK
<1>1. FullWhenVerified'
  <2>1. ASSUME NEW f \in (verifying \cup settled)' PROVE Full(got', f)
    <3>1. CASE f \in verifying \cup settled
      <4>1. f \in Files /\ Full(got, f)
        BY <1>0, <3>1 DEF LInv, FullWhenVerified, RInv, ReceiverTypeOK
      <4> QED
        BY <1>0, <4>1, FullStays
    <3>2. CASE f \notin verifying \cup settled
      <4>1. ReceiveChunk
        BY <2>1, <3>2 DEF ReceiverTask, ReceiveMetadata, ReceivePause, ReceiveResume,
           ReceiveCancel, CancelByReceiver, CancelReceiving, VerifyPassed, VerifyFailed,
           ReceiverCleanup, receiverVars
      <4> QED
        BY <2>1, <3>2, <4>1 DEF ReceiveChunk
    <3> QED
      BY <3>1, <3>2
  <2> QED
    BY <2>1 DEF FullWhenVerified, Full
<1>2. ASSUME NEW g \in Files \cup {NoFile}, NEW v, rStatus' = RMark(g, v), NEW f \in Files,
             rStatus'[f] # "ABSENT"
      PROVE  rStatus[f] # "ABSENT"
  BY <1>0, <1>2 DEF RMark
<1>3. rActive \in Files \cup {NoFile}
  BY <1>0 DEF RInv, ReceiverTypeOK
<1>4. CASE ReceiveMetadata
  <2>1. /\ Head(network).file \in Files /\ UNCHANGED <<open, rCancelled, settled>>
        /\ rActive' = Head(network).file /\ activeReceiver' = Head(network).file
    <3>1. Head(network) \in Packet
      BY <1>0, <1>4, ReceiveKeeps DEF ReceiveMetadata
    <3> QED
      BY <1>4, <3>1 DEF ReceiveMetadata, Receive, Packet
  <2>2. NumFiles = 1 => \A f \in Files : f = activeReceiver'
    BY <2>1, OneFile
  <2>3. ShownIsActive' /\ Listening'
    BY <2>1, <2>2 DEF ShownIsActive, Listening
  <2> QED
    BY <1>1, <2>3 DEF LInv
<1>5. CASE ReceiveChunk \/ ReceivePause \/ ReceiveResume
  <2>1. UNCHANGED <<open, rActive, activeReceiver, rCancelled, settled>>
    BY <1>5 DEF ReceiveChunk, ReceivePause, ReceiveResume, Receive
  <2>2. \A f \in Files : rStatus'[f] # "ABSENT" => rStatus[f] # "ABSENT"
    BY <1>2, <1>3, <1>5 DEF ReceiveChunk, ReceivePause, ReceiveResume
  <2>3. ShownIsActive' /\ Listening'
    BY <2>1, <2>2 DEF LInv, ShownIsActive, Listening
  <2> QED
    BY <1>1, <2>3 DEF LInv
<1>6. CASE ReceiveCancel \/ CancelByReceiver
  <2>1. CASE CancelReceiving
    BY <1>0, <1>1, <2>1, CancelLeavesNone DEF LInv
  <2>2. CASE UNCHANGED receiverVars /\ ReceiveCancel
    <3>1. UNCHANGED <<open, rActive, activeReceiver, rCancelled, settled, rStatus>>
      BY <2>2 DEF ReceiveCancel, Receive, receiverVars
    <3>2. ShownIsActive' /\ Listening'
      BY <3>1 DEF LInv, ShownIsActive, Listening
    <3> QED
      BY <1>1, <3>2 DEF LInv
  <2> QED
    BY <1>6, <2>1, <2>2 DEF ReceiveCancel, CancelByReceiver
<1>7. ASSUME NEW g \in Files, VerifyPassed(g) \/ VerifyFailed(g) PROVE LInv'
  <2>1. /\ settled' = settled \cup {g} /\ UNCHANGED <<channelVars, rCancelled>>
        /\ \/ rActive' = NoFile
           \/ UNCHANGED <<rActive, activeReceiver>>
    BY <1>7 DEF VerifyPassed, VerifyFailed
  <2>2. NumFiles = 1 => \A f \in Files : f \in settled'
    BY <2>1, OneFile
  <2>3. ShownIsActive' /\ Listening'
    BY <2>1, <2>2 DEF LInv, ShownIsActive, Listening
  <2> QED
    BY <1>1, <2>3 DEF LInv
<1>8. CASE ReceiverCleanup
  <2>1. rActive' = NoFile /\ ~open'
    BY <1>8 DEF ReceiverCleanup, Close
  <2> QED
    BY <1>1, <2>1 DEF LInv, ShownIsActive, Listening
<1> QED
  BY <1>4, <1>5, <1>6, <1>7, <1>8 DEF ReceiverTask

LEMMA NextLInv == IInv /\ LInv /\ [Next]_vars => LInv'
<1> SUFFICES ASSUME IInv, LInv, [Next]_vars PROVE LInv'
  OBVIOUS
<1>1. CASE ReceiverTask /\ UNCHANGED senderVars
  BY <1>1, ReceiverListens
<1>2. CASE UNCHANGED receiverVars /\ (SenderTask \/ Flush \/ UNCHANGED vars)
  <2>1. UNCHANGED <<rActive, activeReceiver, verifying, settled, got, rCancelled, rStatus>>
    BY <1>2 DEF receiverVars
  <2>2. UNCHANGED open \/ ~open'
    <3>1. SInv
      BY DEF IInv
    <3>2. CASE SenderTask
      BY <3>1, <3>2, SenderWire DEF WireEmpties, SendsControl, SendsChunk
    <3> QED
      BY <1>2, <3>2 DEF Flush, vars, channelVars
  <2> QED
    BY <2>1, <2>2 DEF LInv, ShownIsActive, FullWhenVerified, Full, Listening
<1> QED
  BY <1>1, <1>2 DEF Next, vars

-------------------------------------------------------------------------------
(* A chunk the receiving page handles is stored, or was, or the file is cancelled.  *)
LEMMA HandledIsStored ==
  ASSUME IInv, KInv, LInv, open, UNCHANGED open, NumFiles = 1, ReceiverTask, WireLeaves,
         NEW f \in Files \ rCancelled, IsChunkOf(Wire[1], f),
         Wire[1].index \in 0..(Chunks[f] - 1)
  PROVE  got'[<<f, Wire[1].index>>] # NoSlice
<1> DEFINE p == Head(network)
           i == p.index
<1>0. /\ SInv /\ RInv /\ network # <<>> /\ Wire[1] = p /\ 1 \in 1..Len(Wire)
      /\ p.type = "CHUNK" /\ p.file = f /\ i \in 0..(Chunks[f] - 1)
  BY DEF IInv, WireLeaves, IsChunkOf
<1>1. <<f, i>> \in Slices
  BY <1>0, SliceMember
<1>2. CASE ~ReceiveChunk
  <2>1. UNCHANGED channelVars \/ Close
    BY <1>0, <1>2 DEF ReceiverTask, ReceiveMetadata, ReceivePause, ReceiveResume, ReceiveCancel,
       Receive, CancelByReceiver, VerifyPassed, VerifyFailed, ReceiverCleanup
  <2>2. CASE UNCHANGED channelVars
    <3>1. Len(Wire') = Len(Wire)
      BY <2>2 DEF channelVars, Wire
    <3> QED
      BY <3>1 DEF WireLeaves
  <2> QED
    BY <2>1, <2>2 DEF Close
<1>3. CASE ReceiveChunk
  <2>1. rStatus[f] # "ABSENT"
    BY <1>0 DEF KInv, ChunksFollow, Known
  <2>2. CASE f \in settled
    <3>1. got[<<f, i>>] # NoSlice
      BY <1>0, <2>2 DEF LInv, FullWhenVerified, Full
    <3> QED
      BY <1>0, <1>1, <3>1, StoredStays
  <2>3. CASE f \notin settled
    <3>1. activeReceiver = f /\ f # NoFile
      BY <2>1, <2>3 DEF LInv, Listening, Files, NoFile
    <3>2. CASE got[<<f, i>>] # NoSlice
      BY <1>0, <1>1, <3>2, StoredStays
    <3>3. CASE got[<<f, i>>] = NoSlice
      <4>1. Accepts(f, i)
        BY <1>0, <2>3, <3>1, <3>3, ChannelAssumption DEF Accepts
      <4>2. got' = [got EXCEPT ![<<f, i>>] = <<p.file, p.slice>>]
        BY <1>3, <3>1, <4>1 DEF ReceiveChunk
      <4>3. got'[<<f, i>>] = <<f, p.slice>>
        BY <1>0, <1>1, <4>2 DEF RInv, ReceiverTypeOK
      <4> QED
        BY <1>0, <3>1, <4>3 DEF NoSlice, NoFile
    <3> QED
      BY <3>2, <3>3
  <2> QED
    BY <2>2, <2>3
<1> QED
  BY <1>2, <1>3

LEMMA StaysUnderWay ==
  ASSUME NEW f, NEW i, UnderWay(f, i), \A m \in 1..Len(Wire) : Wire'[m] = Wire[m],
         NEW l \in Nat, Len(Wire') = l, Len(Wire) <= l, Len(Wire) \in Nat
  PROVE  UnderWay(f, i)'
  BY DEF UnderWay, IsChunkOf

Lossless ==
    open /\ NumFiles = 1 =>
        \A f \in Files \ (rCancelled \cup cancelled) : \A i \in 0..(Chunks[f] - 1) :
            i < currentChunk[f] => Stored(f, i) \/ UnderWay(f, i)

LEMMA SenderLosesNothing ==
  ASSUME IInv, Lossless, SenderTask, UNCHANGED receiverVars
  PROVE  Lossless'
<1> SUFFICES ASSUME open', NumFiles = 1, NEW f \in Files \ (rCancelled \cup cancelled)',
                    NEW i \in 0..(Chunks[f] - 1), i < currentChunk'[f]
             PROVE  Stored(f, i)' \/ UnderWay(f, i)'
  BY DEF Lossless, Stored, UnderWay, IsChunkOf
<1>0. /\ SInv /\ UNCHANGED <<rCancelled, got>> /\ currentChunk \in [Files -> Nat]
      /\ Len(Wire) \in Nat /\ i \in Nat
  <2>1. SInv /\ ChannelTypeOK /\ currentChunk \in [Files -> Nat]
    BY DEF IInv, SInv, SenderTypeOK
  <2>2. UNCHANGED <<rCancelled, got>>
    BY DEF receiverVars
  <2>3. i \in Nat
    BY ChannelAssumption
  <2> QED
    BY <2>1, <2>2, <2>3, WireTyped
<1>1. open
  BY <1>0, SenderWire DEF WireEmpties, SendsControl, SendsChunk
<1>2. f \notin cancelled \/ currentChunk'[f] = 0
  <2>1. ASSUME NEW g \in Files, HashDone(g), f \in cancelled, f \notin cancelled'
        PROVE  currentChunk'[f] = 0
    <3>1. g = f
      BY <2>1, OneFile
    <3> QED
      BY <1>0, <2>1, <3>1 DEF HashDone
  <2>2. (\E g \in Files : HashDone(g)) \/ cancelled \subseteq cancelled'
    BY DEF SenderTask, HashFailed, ChunkLoaded, ChunkDropped, ChunkFailed, BufferedAmountLow,
           Start, Pause, Resume, Cancel, SenderCleanup, pumpVars
  <2> QED
    BY <2>1, <2>2
<1>3. f \notin rCancelled \cup cancelled
  BY <1>0, <1>2
<1>4. CASE UNCHANGED currentChunk /\ (WireStays \/ \E p : WireJoins(p))
  <2>1. Stored(f, i) \/ UnderWay(f, i)
    BY <1>1, <1>3, <1>4 DEF Lossless
  <2>2. CASE Stored(f, i)
    BY <1>0, <2>2 DEF Stored
  <2>3. CASE UnderWay(f, i)
    BY <1>0, <1>4, <2>3, StaysUnderWay DEF WireStays, WireJoins
  <2> QED
    BY <2>1, <2>2, <2>3
<1>5. ASSUME NEW s \in Slices, SendsChunk(s[1], s[2]) PROVE Stored(f, i)' \/ UnderWay(f, i)'
  <2> DEFINE p == Chunk(s[1], currentChunk[s[1]], s[2])
  <2>1. /\ s[1] = f /\ WireJoins(p) /\ p.type = "CHUNK" /\ p.file = f
        /\ p.index = currentChunk[f]
        /\ currentChunk' = [currentChunk EXCEPT ![f] = currentChunk[f] + 1]
    BY <1>5, SliceMember, OneFile DEF SendsChunk, Chunk
  <2> HIDE DEF p
  <2>2. CASE i < currentChunk[f]
    <3>1. Stored(f, i) \/ UnderWay(f, i)
      BY <1>1, <1>3, <2>2 DEF Lossless
    <3>2. CASE Stored(f, i)
      BY <1>0, <3>2 DEF Stored
    <3>3. CASE UnderWay(f, i)
      BY <1>0, <2>1, <3>3, StaysUnderWay DEF WireJoins
    <3> QED
      BY <3>1, <3>2, <3>3
  <2>3. CASE i = currentChunk[f]
    BY <1>0, <2>1, <2>3 DEF UnderWay, IsChunkOf, WireJoins
  <2> QED
    BY <1>0, <2>1, <2>2, <2>3
<1>6. CASE WireEmpties
  BY <1>6 DEF WireEmpties
<1> QED
  BY <1>0, <1>4, <1>5, <1>6, SenderWire DEF SendsControl

LEMMA ReceiverLosesNothing ==
  ASSUME IInv, KInv, LInv, Lossless, ReceiverTask, UNCHANGED senderVars
  PROVE  Lossless'
<1> SUFFICES ASSUME open', NumFiles = 1, NEW f \in Files \ (rCancelled \cup cancelled)',
                    NEW i \in 0..(Chunks[f] - 1), i < currentChunk'[f]
             PROVE  Stored(f, i)' \/ UnderWay(f, i)'
  BY DEF Lossless, Stored, UnderWay, IsChunkOf
<1>0. /\ SInv /\ RInv /\ UNCHANGED <<cancelled, currentChunk>> /\ Len(Wire) \in Nat
      /\ <<f, i>> \in Slices
  BY WireTyped, SliceMember DEF IInv, SInv, senderVars, pumpVars
<1>1. f \notin rCancelled
  BY DEF ReceiverTask, ReceiveMetadata, ReceiveChunk, ReceivePause, ReceiveResume, ReceiveCancel,
     CancelByReceiver, CancelReceiving, VerifyPassed, VerifyFailed, ReceiverCleanup, receiverVars
<1>2. UNCHANGED open /\ (WireStays \/ WireLeaves)
  BY <1>0, ReceiverWire DEF WireEmpties
<1>3. Stored(f, i) \/ UnderWay(f, i)
  BY <1>0, <1>1, <1>2 DEF Lossless
<1>4. CASE Stored(f, i)
  BY <1>0, <1>4, StoredStays DEF Stored
<1>5. CASE UnderWay(f, i) /\ WireStays
  BY <1>0, <1>5, StaysUnderWay DEF WireStays
<1>6. ASSUME WireLeaves, NEW m \in 1..Len(Wire), IsChunkOf(Wire[m], f), Wire[m].index = i
      PROVE  Stored(f, i)' \/ UnderWay(f, i)'
  <2>1. CASE m = 1
    BY <1>1, <1>2, <1>6, <2>1, HandledIsStored DEF Stored
  <2>2. CASE m # 1
    <3>1. m - 1 \in 1..Len(Wire') /\ (m - 1) + 1 = m
      BY <1>6, <2>2 DEF WireLeaves
    <3>2. Wire'[m - 1] = Wire[m]
      BY <1>6, <3>1 DEF WireLeaves
    <3> QED
      BY <1>6, <3>1, <3>2 DEF UnderWay, IsChunkOf
  <2> QED
    BY <2>1, <2>2
<1> QED
  BY <1>2, <1>3, <1>4, <1>5, <1>6 DEF UnderWay

LEMMA NextLossless == IInv /\ KInv /\ LInv /\ Lossless /\ [Next]_vars => Lossless'
<1> SUFFICES ASSUME IInv, KInv, LInv, Lossless, [Next]_vars PROVE Lossless'
  OBVIOUS
<1>1. CASE SenderTask /\ UNCHANGED receiverVars
  BY <1>1, SenderLosesNothing
<1>2. CASE ReceiverTask /\ UNCHANGED senderVars
  BY <1>2, ReceiverLosesNothing
<1>3. CASE (Flush /\ UNCHANGED <<senderVars, receiverVars>>) \/ UNCHANGED vars
  <2>0. ChannelTypeOK /\ Len(Wire) \in Nat
    BY WireTyped DEF IInv, SInv
  <2>1. WireStays /\ UNCHANGED <<open, rCancelled, cancelled, currentChunk, got>>
    BY <1>3, <2>0, FlushStays, SameWire
       DEF Flush, vars, channelVars, senderVars, pumpVars, receiverVars
  <2>2. \A f, i : UnderWay(f, i) => UnderWay(f, i)'
    BY <2>0, <2>1, StaysUnderWay DEF WireStays
  <2> QED
    BY <2>1, <2>2 DEF Lossless, Stored
<1> QED
  BY <1>1, <1>2, <1>3 DEF Next

(* With one file in the queue a chunk the ChunkSender has passed is stored or under  *)
(* way: the receiving page listens from METADATA to the verdict, however late a      *)
(* reader or a message is, unless one of the users cancels (chunk-receiver.ts:54).   *)
THEOREM LosesNothing == NumFiles = 1 => (Spec => []NothingLost)
<1> SUFFICES ASSUME NumFiles = 1 PROVE Spec => []NothingLost
  OBVIOUS
<1>1. Init => KInv /\ LInv /\ Lossless
  BY DEF Init, ChannelInit, SenderInit, ReceiverInit, Wire, KInv, SendersKnown, ChunksFollow,
         HasSender, Files, None, LInv, ShownIsActive, FullWhenVerified, Listening, Lossless
<1>2. IInv /\ Lossless => NothingLost
  <2> SUFFICES ASSUME IInv, Lossless PROVE NothingLost
    OBVIOUS
  <2>1. DOMAIN Wire = 1..Len(Wire)
    BY WireTyped DEF IInv, SInv
  <2> QED
    BY <2>1 DEF Lossless, Stored, UnderWay, NothingLost
<1> QED
  BY <1>1, <1>2, NextKInv, NextLInv, NextLossless, Inductive, PTL DEF Spec

-------------------------------------------------------------------------------
(* A file is announced once.  What has not been begun has no METADATA under way    *)
(* and is unknown to the receiver; what the receiver knows of has none any more.   *)
IsMetadata(p, f) == p.type = "METADATA" /\ p.file = f
Announced(f) == \E n \in 1..Len(Wire) : IsMetadata(Wire[n], f)

AnnouncedOnce ==
    /\ \A f \in Files : Announced(f) => ~NotBegun(f) /\ rStatus[f] = "ABSENT"
    /\ \A f \in Files : rStatus[f] # "ABSENT" => ~NotBegun(f)
    /\ \A m, n \in 1..Len(Wire) : \A f \in Files :
          m < n /\ IsMetadata(Wire[m], f) => ~IsMetadata(Wire[n], f)

(* What the receiving page shows as the active file is not a cancelled one.        *)
ActiveNotCancelled == rActive # NoFile => rStatus[rActive] # "CANCELLED"

AInv == AnnouncedOnce /\ ActiveNotCancelled

(* No file is begun twice.                                                       *)
LEMMA BegunStays ==
  ASSUME SInv, SenderTask, NEW f \in Files, NotBegun(f)'
  PROVE  NotBegun(f) /\ ~HashDone(f)
<1>0. /\ status \in [Files -> SenderFile] /\ hashing \subseteq Files
      /\ progress \in [Files -> Nat] /\ activeTransferId \in Files \cup {None}
      /\ {"COMPLETED", "SENDING", "PREPARING", "FAILED", "CANCELLED"}
            \subseteq SenderFile \ {"WAITING"}
  BY DEF SInv, SenderTypeOK, SenderFile
<1>1. ASSUME NEW g \in Files, HashDone(g) PROVE NotBegun(f) /\ g # f
  <2>1. CASE Complete(g, progress, hashing \ {g})
    <3>1. f \in hashing \ {g} \/ (status[f] = "WAITING" /\ f # g)
      BY <1>0, <2>1, CompleteMoves
    <3> QED
      BY <3>1 DEF NotBegun
  <2>2. CASE hashing' = hashing \ {g} /\ status' = Mark(status, g, "SENDING")
    BY <1>0, <1>1, <2>2 DEF NotBegun, Mark
  <2> QED
    BY <1>1, <2>1, <2>2 DEF HashDone
<1>2. ASSUME NEW g \in Files, NEW v \in SenderFile \ {"WAITING"}, hashing' \subseteq hashing,
             status' = Mark(status, g, v) \/ UNCHANGED status
      PROVE  NotBegun(f)
  BY <1>0, <1>2, MarkTyped DEF NotBegun
<1>3. ASSUME NEW g \in Files, NEW pr \in [Files -> Nat], Complete(g, pr, hashing) PROVE NotBegun(f)
  <2>1. f \in hashing \/ (status[f] = "WAITING" /\ f # g)
    BY <1>0, <1>3, CompleteMoves
  <2> QED
    BY <2>1 DEF NotBegun
<1>4. ASSUME NEW st \in [Files -> SenderFile], ProcessNextFile(st, hashing),
             \A g \in Files : st[g] = "WAITING" => status[g] = "WAITING"
      PROVE  NotBegun(f)
  BY <1>0, <1>4, NextFile DEF NotBegun
<1>5. ASSUME NEW g \in Files, HashFailed(g) PROVE NotBegun(f)
  <2>1. hashing' \subseteq hashing /\ status' = Mark(status, g, "FAILED")
    BY <1>5 DEF HashFailed, TransferError
  <2> QED
    BY <1>0, <1>2, <2>1
<1>6. ASSUME NEW g \in Files, NEW k, ChunkLoaded(g, k) PROVE NotBegun(f)
  <2>1. \/ Complete(g, [progress EXCEPT ![g] = @ + 1], hashing)
        \/ UNCHANGED <<status, hashing>>
    BY <1>6 DEF ChunkLoaded
  <2>2. [progress EXCEPT ![g] = @ + 1] \in [Files -> Nat]
    BY <1>0
  <2>3. UNCHANGED <<status, hashing>> => NotBegun(f)
    BY DEF NotBegun
  <2> QED
    BY <1>3, <2>1, <2>2, <2>3
<1>7. ASSUME BufferedAmountLow PROVE NotBegun(f)
  <2>1. lowOwner \in Files
    BY <1>7 DEF BufferedAmountLow, SInv, SenderTypeOK, Unowned
  <2>2. Complete(lowOwner, progress, hashing) \/ UNCHANGED <<status, hashing>>
    BY <1>7 DEF BufferedAmountLow
  <2>3. UNCHANGED <<status, hashing>> => NotBegun(f)
    BY DEF NotBegun
  <2> QED
    BY <1>0, <1>3, <2>1, <2>2, <2>3
<1>8. ASSUME Start PROVE NotBegun(f)
  <2>1. ProcessNextFile(status, hashing)
    BY <1>8 DEF Start
  <2> QED
    BY <1>0, <1>4, <2>1
<1>9. ASSUME Pause \/ Resume PROVE NotBegun(f)
  <2>1. UNCHANGED hashing /\ (Notify("PREPARING", "PAUSE") \/ Notify("SENDING", "RESUME"))
    BY <1>9 DEF Pause, Resume
  <2>2. \/ UNCHANGED status
        \/ /\ activeTransferId \in Files
           /\ \/ status' = Mark(status, activeTransferId, "PREPARING")
              \/ status' = Mark(status, activeTransferId, "SENDING")
    BY <1>0, <2>1 DEF Notify
  <2>3. UNCHANGED status => NotBegun(f)
    BY <2>1 DEF NotBegun
  <2> QED
    BY <1>0, <1>2, <2>1, <2>2, <2>3
<1>10. ASSUME Cancel PROVE NotBegun(f)
  <2>1. activeTransferId \in Files
        /\ ProcessNextFile(Mark(status, activeTransferId, "CANCELLED"), hashing)
    BY <1>0, <1>10 DEF Cancel
  <2> QED
    BY <1>0, <1>4, <2>1, MarkTyped
<1>11. ASSUME SenderCleanup PROVE NotBegun(f)
  BY <1>11 DEF SenderCleanup, NotBegun
<1>12. ASSUME NEW s \in Slices,
              ChunkLoaded(s[1], s[2]) \/ ChunkDropped(s[1], s[2]) \/ ChunkFailed(s[1], s[2])
       PROVE  NotBegun(f)
  <2>1. s[1] \in Files
    BY SliceMember
  <2>2. \/ ChunkLoaded(s[1], s[2])
        \/ UNCHANGED <<status, hashing>>
        \/ UNCHANGED hashing /\ status' = Mark(status, s[1], "FAILED")
    BY <1>12 DEF ChunkDropped, ChunkFailed, TransferError, storeVars
  <2>3. UNCHANGED <<status, hashing>> => NotBegun(f)
    BY DEF NotBegun
  <2> QED
    BY <1>0, <1>2, <1>6, <2>1, <2>2, <2>3
<1>13. ASSUME ~\E g \in Files : HashDone(g) PROVE NotBegun(f)
  BY <1>5, <1>7, <1>8, <1>9, <1>10, <1>11, <1>12, <1>13 DEF SenderTask
<1> QED
  BY <1>1, <1>13

LEMMA SenderAnnounces ==
  ASSUME IInv, AInv, SenderTask, UNCHANGED receiverVars
  PROVE  AInv'
<1>0. /\ SInv /\ UNCHANGED <<rStatus, rActive>> /\ Len(Wire) \in Nat
  <2>1. SInv /\ ChannelTypeOK
    BY DEF IInv, SInv
  <2> QED
    BY <2>1, WireTyped DEF receiverVars
<1>1. ActiveNotCancelled'
  BY <1>0 DEF AInv, ActiveNotCancelled
<1>2. \A f \in Files : NotBegun(f)' => NotBegun(f) /\ ~HashDone(f)
  BY <1>0, BegunStays
<1>3. \A f \in Files : HashDone(f) => NotBegun(f)
  BY DEF HashDone, NotBegun
<1>4. CASE WireEmpties
  BY <1>0, <1>1, <1>2, <1>4 DEF WireEmpties, AInv, AnnouncedOnce, Announced
<1>5. CASE WireStays
  <2>1. \A f \in Files : Announced(f)' => Announced(f)
    BY <1>5 DEF WireStays, Announced, IsMetadata
  <2>2. \A m, n \in 1..Len(Wire') : \A f \in Files :
            m < n /\ IsMetadata(Wire'[m], f) => ~IsMetadata(Wire'[n], f)
    BY <1>5 DEF WireStays, AInv, AnnouncedOnce, IsMetadata
  <2> QED
    BY <1>0, <1>1, <1>2, <2>1, <2>2 DEF AInv, AnnouncedOnce, IsMetadata
<1>6. ASSUME NEW p, WireJoins(p), \A f \in Files : IsMetadata(p, f) => HashDone(f)
      PROVE  AnnouncedOnce'
  <2>1. \A m \in 1..Len(Wire') : m \in 1..Len(Wire) \/ m = Len(Wire) + 1
    BY <1>0, <1>6 DEF WireJoins
  <2>2. \A f \in Files : HashDone(f) => rStatus[f] = "ABSENT" /\ ~Announced(f)
    BY <1>3 DEF AInv, AnnouncedOnce
  <2>3. ASSUME NEW f \in Files, Announced(f)' PROVE ~NotBegun(f)' /\ rStatus'[f] = "ABSENT"
    <3>1. PICK m \in 1..Len(Wire') : IsMetadata(Wire'[m], f)
      BY <2>3 DEF Announced, IsMetadata
    <3>2. Announced(f) \/ HashDone(f)
      BY <1>6, <2>1, <3>1 DEF Announced, WireJoins
    <3> QED
      BY <1>0, <1>2, <2>2, <3>2 DEF AInv, AnnouncedOnce
  <2>4. ASSUME NEW m \in 1..Len(Wire'), NEW n \in 1..Len(Wire'), NEW f \in Files, m < n,
               IsMetadata(Wire'[m], f), IsMetadata(Wire'[n], f)
        PROVE  FALSE
    <3>1. m \in 1..Len(Wire) /\ IsMetadata(Wire[m], f)
      BY <1>0, <1>6, <2>1, <2>4 DEF WireJoins
    <3>2. CASE n \in 1..Len(Wire)
      <4>1. IsMetadata(Wire[n], f)
        BY <1>6, <2>4, <3>2 DEF WireJoins
      <4> QED
        BY <2>4, <3>1, <3>2, <4>1 DEF AInv, AnnouncedOnce
    <3>3. CASE n = Len(Wire) + 1
      BY <1>6, <2>2, <2>4, <3>1, <3>3 DEF WireJoins, Announced
    <3> QED
      BY <2>1, <3>2, <3>3
  <2>5. \A f \in Files : rStatus'[f] # "ABSENT" => ~NotBegun(f)'
    BY <1>0, <1>2 DEF AInv, AnnouncedOnce
  <2> QED
    BY <2>3, <2>4, <2>5 DEF AnnouncedOnce, Announced, IsMetadata
<1>7. ASSUME NEW f \in Files, HashDone(f), SendsControl("METADATA", f) PROVE AnnouncedOnce'
  <2>1. \A g \in Files : IsMetadata(Control("METADATA", f), g) => HashDone(g)
    BY <1>7 DEF Control, IsMetadata
  <2> QED
    BY <1>6, <1>7, <2>1 DEF SendsControl
<1>8. ASSUME NEW f \in Files, NEW t \in {"PAUSE", "RESUME", "CANCEL"}, SendsControl(t, f)
      PROVE  AnnouncedOnce'
  <2>1. \A g \in Files : ~IsMetadata(Control(t, f), g)
    BY DEF Control, IsMetadata
  <2> QED
    BY <1>6, <1>8, <2>1 DEF SendsControl
<1>9. ASSUME NEW s \in Slices, SendsChunk(s[1], s[2]) PROVE AnnouncedOnce'
  <2>1. \A g \in Files : ~IsMetadata(Chunk(s[1], currentChunk[s[1]], s[2]), g)
    BY DEF Chunk, IsMetadata
  <2> QED
    BY <1>6, <1>9, <2>1 DEF SendsChunk
<1> QED
  BY <1>0, <1>1, <1>4, <1>5, <1>7, <1>8, <1>9, SenderWire DEF AInv

(* What a task of the receiving page does to what it shows of a file.              *)
LEMMA ReceiverShows ==
  ASSUME SInv, RInv, AInv, ReceiverTask
  PROVE  /\ ActiveNotCancelled'
         /\ \A f \in Files : rStatus'[f] # "ABSENT" =>
               rStatus[f] # "ABSENT" \/ (WireLeaves /\ IsMetadata(Wire[1], f))
         /\ \A f \in Files \ verifying :
               rStatus[f] = "CANCELLED" => rStatus'[f] \in {"CANCELLED", "ABSENT"}
<1>0. /\ rStatus \in [Files -> ReceiverFile] /\ rActive \in Files \cup {NoFile}
      /\ verifying \subseteq Files /\ ChannelTypeOK
      /\ rActive # NoFile => rStatus[rActive] # "CANCELLED"
  BY DEF RInv, ReceiverTypeOK, SInv, AInv, ActiveNotCancelled
<1>1. CASE ReceiveMetadata
  <2> DEFINE h == Head(network).file
  <2>1. WireLeaves /\ Wire[1].type = "METADATA"
    BY <1>0, <1>1, ReceiveLeaves DEF ReceiveMetadata
  <2>2. Wire[1] = Head(network) /\ Wire[1] \in Packet /\ 1 \in 1..Len(Wire)
    BY <1>0, <2>1, WireTyped DEF WireLeaves
  <2>3. h \in Files /\ IsMetadata(Wire[1], h) /\ h # NoFile
    BY <2>1, <2>2 DEF Packet, IsMetadata, Files, NoFile
  <2>4. /\ rStatus' = [rStatus EXCEPT ![h] = "SENDING"] /\ rActive' = h
    BY <1>1 DEF ReceiveMetadata
  <2> HIDE DEF h
  <2>5. rStatus[h] = "ABSENT"
    BY <2>2, <2>3 DEF AInv, AnnouncedOnce, Announced
  <2> QED
    BY <1>0, <2>1, <2>3, <2>4, <2>5 DEF ActiveNotCancelled
<1>2. CASE ReceiveChunk
  BY <1>0, <1>2 DEF ReceiveChunk, ActiveNotCancelled
<1>3. ASSUME NEW v \in ReceiverFile \ {"ABSENT", "CANCELLED"}, rStatus' = RMark(rActive, v),
             UNCHANGED rActive
      PROVE  /\ ActiveNotCancelled'
             /\ \A f \in Files : rStatus'[f] # "ABSENT" => rStatus[f] # "ABSENT"
             /\ \A f \in Files : rStatus[f] = "CANCELLED" => rStatus'[f] = "CANCELLED"
  BY <1>0, <1>3 DEF RMark, ActiveNotCancelled
<1>4. CASE ReceivePause \/ ReceiveResume
  BY <1>3, <1>4 DEF ReceivePause, ReceiveResume, ReceiverFile
<1>5. CASE ReceiveCancel \/ CancelByReceiver
  <2>1. CASE CancelReceiving
    BY <1>0, <2>1 DEF CancelReceiving, RMark, ActiveNotCancelled
  <2>2. CASE UNCHANGED receiverVars
    BY <1>0, <2>2 DEF receiverVars, ActiveNotCancelled
  <2> QED
    BY <1>5, <2>1, <2>2 DEF ReceiveCancel, CancelByReceiver
<1>6. ASSUME NEW g \in Files, VerifyPassed(g) \/ VerifyFailed(g)
      PROVE  /\ ActiveNotCancelled'
             /\ \A f \in Files : rStatus'[f] # "ABSENT" => rStatus[f] # "ABSENT"
             /\ \A f \in Files \ verifying : rStatus'[f] = rStatus[f]
  <2>1. /\ g \in verifying /\ rStatus' \in {RMark(g, "COMPLETED"), RMark(g, "FAILED")}
        /\ rActive' = NoFile \/ UNCHANGED rActive
    BY <1>6 DEF VerifyPassed, VerifyFailed
  <2> QED
    BY <1>0, <2>1 DEF RMark, ActiveNotCancelled
<1>7. CASE ReceiverCleanup
  BY <1>0, <1>7 DEF ReceiverCleanup, ActiveNotCancelled
<1> QED
  BY <1>0, <1>1, <1>2, <1>4, <1>5, <1>6, <1>7 DEF ReceiverTask

LEMMA ReceiverAnnounces ==
  ASSUME IInv, AInv, ReceiverTask, UNCHANGED senderVars
  PROVE  AInv'
<1>0. /\ SInv /\ RInv /\ UNCHANGED <<status, hashing>> /\ ChannelTypeOK
      /\ rStatus \in [Files -> ReceiverFile]
  BY DEF IInv, SInv, RInv, ReceiverTypeOK, senderVars, storeVars
<1>1. /\ ActiveNotCancelled'
      /\ \A f \in Files : rStatus'[f] # "ABSENT" =>
            rStatus[f] # "ABSENT" \/ (WireLeaves /\ IsMetadata(Wire[1], f))
  BY <1>0, ReceiverShows
<1>2. \A f \in Files : NotBegun(f)' <=> NotBegun(f)
  BY <1>0 DEF NotBegun
<1>3. ASSUME NEW f \in Files, WireLeaves, IsMetadata(Wire[1], f) PROVE ~NotBegun(f)
  <2>1. 1 \in 1..Len(Wire)
    BY <1>3 DEF WireLeaves
  <2> QED
    BY <1>3, <2>1 DEF AInv, AnnouncedOnce, Announced
<1>4. \A f \in Files : rStatus'[f] # "ABSENT" => ~NotBegun(f)'
  BY <1>1, <1>2, <1>3 DEF AInv, AnnouncedOnce
<1>5. CASE WireEmpties
  BY <1>1, <1>4, <1>5 DEF WireEmpties, AInv, AnnouncedOnce, Announced
<1>6. CASE WireStays
  <2>1. ~WireLeaves
    BY <1>0, <1>6, WireTyped DEF WireStays, WireLeaves
  <2>2. \A f \in Files : Announced(f)' => Announced(f)
    BY <1>6 DEF WireStays, Announced, IsMetadata
  <2>3. \A m, n \in 1..Len(Wire') : \A f \in Files :
            m < n /\ IsMetadata(Wire'[m], f) => ~IsMetadata(Wire'[n], f)
    BY <1>6 DEF WireStays, AInv, AnnouncedOnce, IsMetadata
  <2> QED
    BY <1>1, <1>2, <1>4, <2>1, <2>2, <2>3 DEF AInv, AnnouncedOnce, IsMetadata
<1>7. CASE WireLeaves
  <2>1. \A m \in 1..Len(Wire') : m + 1 \in 1..Len(Wire) /\ Wire'[m] = Wire[m + 1]
    BY <1>7 DEF WireLeaves
  <2>2. ASSUME NEW f \in Files, Announced(f)' PROVE ~NotBegun(f)' /\ rStatus'[f] = "ABSENT"
    <3>1. PICK m \in 1..Len(Wire') : IsMetadata(Wire'[m], f)
      BY <2>2 DEF Announced, IsMetadata
    <3>2. m + 1 \in 1..Len(Wire) /\ IsMetadata(Wire[m + 1], f) /\ 1 < m + 1
      BY <2>1, <3>1
    <3>3. Announced(f) /\ 1 \in 1..Len(Wire)
      BY <3>2 DEF Announced
    <3>4. ~IsMetadata(Wire[1], f)
      BY <3>2, <3>3 DEF AInv, AnnouncedOnce
    <3> QED
      BY <1>1, <1>2, <3>3, <3>4 DEF AInv, AnnouncedOnce
  <2>3. ASSUME NEW m \in 1..Len(Wire'), NEW n \in 1..Len(Wire'), NEW f \in Files, m < n,
               IsMetadata(Wire'[m], f), IsMetadata(Wire'[n], f)
        PROVE  FALSE
    <3>1. /\ m + 1 \in 1..Len(Wire) /\ n + 1 \in 1..Len(Wire) /\ m + 1 < n + 1
          /\ IsMetadata(Wire[m + 1], f) /\ IsMetadata(Wire[n + 1], f)
      BY <2>1, <2>3
    <3> QED
      BY <3>1 DEF AInv, AnnouncedOnce
  <2> QED
    BY <1>1, <1>4, <2>2, <2>3 DEF AInv, AnnouncedOnce, Announced, IsMetadata
<1> QED
  BY <1>0, <1>5, <1>6, <1>7, ReceiverWire

LEMMA NextAInv == IInv /\ AInv /\ [Next]_vars => AInv'
<1> SUFFICES ASSUME IInv, AInv, [Next]_vars PROVE AInv'
  OBVIOUS
<1>1. CASE SenderTask /\ UNCHANGED receiverVars
  BY <1>1, SenderAnnounces
<1>2. CASE ReceiverTask /\ UNCHANGED senderVars
  BY <1>2, ReceiverAnnounces
<1>3. CASE (Flush /\ UNCHANGED <<senderVars, receiverVars>>) \/ UNCHANGED vars
  <2>0. ChannelTypeOK
    BY DEF IInv, SInv
  <2>1. WireStays /\ UNCHANGED <<rStatus, rActive, status, hashing>>
    BY <1>3, <2>0, FlushStays, SameWire
       DEF vars, channelVars, senderVars, storeVars, receiverVars
  <2>2. \A f \in Files : (Announced(f)' => Announced(f)) /\ (NotBegun(f)' <=> NotBegun(f))
    BY <2>1 DEF WireStays, Announced, IsMetadata, NotBegun
  <2>3. \A m, n \in 1..Len(Wire') : \A f \in Files :
            m < n /\ IsMetadata(Wire'[m], f) => ~IsMetadata(Wire'[n], f)
    BY <2>1 DEF WireStays, AInv, AnnouncedOnce, IsMetadata
  <2> QED
    BY <2>1, <2>2, <2>3 DEF AInv, AnnouncedOnce, ActiveNotCancelled, IsMetadata
<1> QED
  BY <1>1, <1>2, <1>3 DEF Next

(* A file the receiving user cancelled is not touched again by what was under way:  *)
(* it is announced once, and what a message changes is the active file, which is     *)
(* not a cancelled one (chunk-receiver.ts:84, 136).                              *)
THEOREM ReceiverCancelHolds == Spec => ReceiverCancelSticks
<1>1. Init => AInv
  BY DEF Init, ChannelInit, ReceiverInit, Wire, AInv, AnnouncedOnce, Announced,
         ActiveNotCancelled
<1>2. IInv /\ AInv /\ [Next]_vars
         => [\A f \in Files \ verifying :
                rStatus[f] = "CANCELLED" => rStatus'[f] \in {"CANCELLED", "ABSENT"}]_vars
  <2> SUFFICES ASSUME IInv, AInv, [Next]_vars, NEW f \in Files \ verifying,
                      rStatus[f] = "CANCELLED"
               PROVE  rStatus'[f] \in {"CANCELLED", "ABSENT"}
    OBVIOUS
  <2>1. CASE ReceiverTask
    BY <2>1, ReceiverShows DEF IInv
  <2>2. CASE UNCHANGED receiverVars \/ UNCHANGED vars
    BY <2>2 DEF vars, receiverVars
  <2> QED
    BY <2>1, <2>2 DEF Next
<1> QED
  BY <1>1, <1>2, NextAInv, Inductive, PTL DEF Spec, ReceiverCancelSticks

-------------------------------------------------------------------------------
(* The low mark of the output buffer is not above the one at which sendNext stops.  *)
MarksApart == LowMark <= HighMark

(* Nobody presses Resume on a transfer that has failed: the send page offers none.  *)
NoResumeAfterFailure == "resume" \notin Buttons["FAILED"]

(* The active ChunkSender is the one that set onbufferedamountlow last.            *)
OwnerIsActive == activeSender # None => activeSender = lowOwner

(* As long as the channel is open the queue keeps its files, and the file of the   *)
(* active ChunkSender is being sent, or has failed and is shown so.                *)
NoneAbsent == open => \A f \in Files : status[f] # "ABSENT"
ActiveShown ==
    open /\ activeSender # None =>
        /\ status[activeSender] \in {"SENDING", "PREPARING", "FAILED"}
        /\ status[activeSender] = "FAILED" /\ activeTransferId = activeSender
              => transferState = "FAILED"

PInv == OwnerIsActive /\ NoneAbsent /\ ActiveShown /\ PumpRuns

(* What a step that starts no reader must leave of the pump.                       *)
PumpKept ==
    /\ UNCHANGED lowOwner
    /\ open' => open
    /\ status'[lowOwner] \in {"SENDING", "PREPARING"} => status[lowOwner] \in {"SENDING", "PREPARING"}
    /\ lowOwner \notin paused' \cup cancelled' => lowOwner \notin paused \cup cancelled
    /\ \A s \in Slices : s[1] = lowOwner => reading'[s] = reading[s]
    /\ lowEvents > 0 => lowEvents' > 0
    /\ BufferedAmount(buffer) > LowMark => BufferedAmount(buffer') > LowMark

LEMMA PumpStays == PumpRuns /\ lowOwner # None /\ PumpKept => PumpRuns'
<1> SUFFICES ASSUME PumpRuns, lowOwner # None, PumpKept,
                    open', status'[lowOwner'] \in {"SENDING", "PREPARING"},
                    lowOwner' \notin paused' \cup cancelled'
             PROVE  \/ \E s \in Slices : s[1] = lowOwner' /\ reading'[s] > 0
                    \/ lowEvents' > 0
                    \/ BufferedAmount(buffer') > LowMark
  BY DEF PumpRuns
<1>1. \/ \E s \in Slices : s[1] = lowOwner /\ reading[s] > 0
      \/ lowEvents > 0
      \/ BufferedAmount(buffer) > LowMark
  BY DEF PumpRuns, PumpKept
<1>2. CASE \E s \in Slices : s[1] = lowOwner /\ reading[s] > 0
  <2>1. PICK s \in Slices : s[1] = lowOwner /\ reading[s] > 0
    BY <1>2
  <2>2. reading'[s] = reading[s] /\ lowOwner' = lowOwner
    BY <2>1 DEF PumpKept
  <2> QED
    BY <2>1, <2>2
<1> QED
  BY <1>1, <1>2 DEF PumpKept

(* bufferedAmount is a number, and sending does not make it smaller.               *)
LEMMA AmountTyped ==
  ASSUME NEW b \in Seq(Packet)
  PROVE  IsFiniteSet({i \in DOMAIN b : b[i].type = "CHUNK"}) /\ BufferedAmount(b) \in Nat
<1>1. DOMAIN b = 1..Len(b) /\ Len(b) \in Nat
  OBVIOUS
<1>2. IsFiniteSet(DOMAIN b)
  BY <1>1, FS_Interval
<1>3. IsFiniteSet({i \in DOMAIN b : b[i].type = "CHUNK"})
  BY <1>2, FS_Subset
<1> QED
  BY <1>3, FS_CardinalityType DEF BufferedAmount

LEMMA AmountGrows ==
  ASSUME NEW b \in Seq(Packet), NEW p \in Packet
  PROVE  BufferedAmount(b) <= BufferedAmount(Append(b, p))
<1> DEFINE chunks(q) == {i \in DOMAIN q : q[i].type = "CHUNK"}
<1>1. Append(b, p) \in Seq(Packet)
  OBVIOUS
<1>2. chunks(b) \subseteq chunks(Append(b, p))
  OBVIOUS
<1>3. IsFiniteSet(chunks(Append(b, p)))
  BY <1>1, AmountTyped
<1>4. Cardinality(chunks(b)) <= Cardinality(chunks(Append(b, p)))
  BY <1>2, <1>3, FS_Subset
<1> QED
  BY <1>4 DEF BufferedAmount

(* What is sent does not bring the buffer down to the mark.                        *)
LEMMA SentStaysAbove ==
  ASSUME buffer \in Seq(Packet), NEW p \in Packet, buffer' = Append(buffer, p),
         BufferedAmount(buffer) > LowMark
  PROVE  BufferedAmount(buffer') > LowMark
<1>1. BufferedAmount(buffer) <= BufferedAmount(buffer')
  BY AmountGrows
<1>2. BufferedAmount(buffer) \in Nat /\ BufferedAmount(buffer') \in Nat
  <2>1. buffer' \in Seq(Packet)
    OBVIOUS
  <2> QED
    BY <2>1, AmountTyped
<1> QED
  BY <1>1, <1>2, ChannelAssumption

(* sendNext past its guards leaves a reader, or a buffer that has yet to drain.     *)
LEMMA ReaderPumps ==
  ASSUME MarksApart, NEW f \in Files, NEW c \in 0..(Chunks[f] - 1), NEW rd \in [Slices -> Nat],
         StartReader(f, c, rd), buffer' \in Seq(Packet)
  PROVE  \/ \E s \in Slices : s[1] = f /\ reading'[s] > 0
         \/ BufferedAmount(buffer') > LowMark
<1>1. <<f, c>> \in Slices
  BY SliceMember
<1>2. CASE BufferedAmount(buffer') > HighMark
  <2>1. BufferedAmount(buffer') \in Nat
    BY AmountTyped
  <2> QED
    BY <1>2, <2>1, ChannelAssumption DEF MarksApart
<1>3. CASE ~(BufferedAmount(buffer') > HighMark)
  <2>1. reading' = [rd EXCEPT ![<<f, c>>] = @ + 1]
    BY <1>3 DEF StartReader
  <2>2. reading'[<<f, c>>] > 0 /\ <<f, c>>[1] = f
    BY <1>1, <2>1
  <2> QED
    BY <1>1, <2>2
<1> QED
  BY <1>2, <1>3

(* processNextFile leaves alone what does not wait, and begins what does.           *)
LEMMA NextStatus ==
  ASSUME NEW st \in [Files -> SenderFile], NEW h, ProcessNextFile(st, h)
  PROVE  /\ \A f \in Files : st[f] # "WAITING" => status'[f] = st[f]
         /\ \A f \in Files : st[f] # "ABSENT" => status'[f] # "ABSENT"
         /\ activeTransferId' # None => activeTransferId' \in Files /\ st[activeTransferId'] = "WAITING"
<1> DEFINE waiting == {f \in Files : st[f] = "WAITING"}
<1>1. CASE waiting # {}
  <2>1. First(waiting) \in Files /\ st[First(waiting)] = "WAITING"
    BY <1>1, FirstIsIn
  <2>2. /\ status' = [st EXCEPT ![First(waiting)] = "PREPARING"]
        /\ activeTransferId' = First(waiting)
    BY <1>1 DEF ProcessNextFile
  <2> HIDE DEF waiting
  <2> QED
    BY <2>1, <2>2
<1>2. CASE waiting = {}
  <2>1. status' = st /\ activeTransferId' = None
    BY <1>2 DEF ProcessNextFile
  <2> QED
    BY <2>1
<1> QED
  BY <1>1, <1>2

(* A task that completes or cancels f and goes on to the next file.                *)
LEMMA FileMoves ==
  ASSUME SInv, NoneAbsent, NEW f \in Files, NEW v \in {"COMPLETED", "CANCELLED"}, NEW h,
         ProcessNextFile(Mark(status, f, v), h), UNCHANGED open
  PROVE  /\ NoneAbsent'
         /\ open => status'[f] = v
         /\ \A g \in Files \ {f} : status[g] # "WAITING" => status'[g] = status[g]
<1> DEFINE st == Mark(status, f, v)
<1>1. /\ st \in [Files -> SenderFile] /\ (status[f] # "ABSENT" => st[f] = v)
      /\ \A g \in Files \ {f} : st[g] = status[g]
  BY DEF Mark, SInv, SenderTypeOK, SenderFile
<1>2. ProcessNextFile(st, h)
  OBVIOUS
<1> HIDE DEF st
<1>3. /\ \A g \in Files : st[g] # "WAITING" => status'[g] = st[g]
      /\ \A g \in Files : st[g] # "ABSENT" => status'[g] # "ABSENT"
  BY <1>1, <1>2, NextStatus
<1>4. open => \A g \in Files : st[g] # "ABSENT"
  BY <1>1 DEF NoneAbsent
<1> QED
  BY <1>1, <1>3, <1>4 DEF NoneAbsent

(* The file of the last ChunkSender has been begun.                                *)
LEMMA OwnerBegun ==
  ASSUME SInv, OwnerIsActive
  PROVE  /\ lowOwner \in Files \cup {None} /\ activeSender \in Files \cup {None}
         /\ lowOwner # None => status[lowOwner] # "WAITING" /\ lowOwner \notin hashing
         /\ lowOwner = None => activeSender = None
         /\ None \notin Files
  BY DEF SInv, SenderTypeOK, Untouched, NotBegun, OwnerIsActive, None, Files

(* onComplete, with the reader that led to it gone.                                *)
LEMMA CompletePumps ==
  ASSUME SInv, PInv, NEW f \in Files, NEW pr, NEW h, Complete(f, pr, h),
         UNCHANGED <<open, lowOwner, paused, cancelled>>,
         lowOwner # None,
         \A s \in Slices : s[1] # f => reading'[s] = reading[s],
         f # lowOwner => /\ lowEvents > 0 => lowEvents' > 0
                         /\ BufferedAmount(buffer) > LowMark => BufferedAmount(buffer') > LowMark
  PROVE  PInv'
<1>1. /\ activeSender' = None /\ ProcessNextFile(Mark(status, f, "COMPLETED"), h)
  BY DEF Complete
<1>2. /\ NoneAbsent' /\ (open => status'[f] = "COMPLETED")
      /\ \A g \in Files \ {f} : status[g] # "WAITING" => status'[g] = status[g]
  BY <1>1, FileMoves DEF PInv
<1>3. OwnerIsActive' /\ ActiveShown'
  BY <1>1 DEF OwnerIsActive, ActiveShown
<1>4. CASE f = lowOwner
  BY <1>2, <1>3, <1>4 DEF PInv, PumpRuns
<1>5. CASE f # lowOwner
  <2>1. PumpKept
    BY <1>2, <1>5, OwnerBegun DEF PumpKept, PInv
  <2> QED
    BY <1>2, <1>3, <2>1, PumpStays DEF PInv
<1> QED
  BY <1>4, <1>5

LEMMA StartPumps == ASSUME SInv, PInv, Start PROVE PInv'
<1>1. /\ ProcessNextFile(status, hashing) /\ status \in [Files -> SenderFile]
      /\ UNCHANGED <<open, buffer, lowEvents, activeSender, paused, cancelled, reading, lowOwner>>
  BY DEF Start, channelVars, pumpVars, SInv, SenderTypeOK
<1>2. /\ \A f \in Files : status[f] # "WAITING" => status'[f] = status[f]
      /\ \A f \in Files : status[f] # "ABSENT" => status'[f] # "ABSENT"
      /\ activeTransferId' # None => status[activeTransferId'] = "WAITING"
  BY <1>1, NextStatus
<1>3. OwnerIsActive' /\ NoneAbsent'
  BY <1>1, <1>2 DEF PInv, OwnerIsActive, NoneAbsent
<1>4. ActiveShown'
  BY <1>1, <1>2, OwnerBegun DEF PInv, OwnerIsActive, ActiveShown
<1>5. CASE lowOwner = None
  BY <1>1, <1>3, <1>4, <1>5 DEF PInv, PumpRuns
<1>6. CASE lowOwner # None
  <2>1. PumpKept
    BY <1>1, <1>2, <1>6, OwnerBegun DEF PumpKept, PInv
  <2> QED
    BY <1>3, <1>4, <1>6, <2>1, PumpStays DEF PInv
<1> QED
  BY <1>5, <1>6

LEMMA HashDonePumps == ASSUME MarksApart, SInv, SInv', PInv, NEW f \in Files, HashDone(f) PROVE PInv'
<1>1. /\ f \in hashing /\ open /\ open' /\ lowOwner' = f /\ f # None
  BY OwnerBegun DEF HashDone, PInv
<1>2. CASE Complete(f, progress, hashing \ {f})
  <2>1. /\ activeSender' = None /\ ProcessNextFile(Mark(status, f, "COMPLETED"), hashing \ {f})
    BY <1>2 DEF Complete
  <2>2. NoneAbsent' /\ status'[f] = "COMPLETED"
    BY <1>1, <2>1, FileMoves DEF PInv
  <2> QED
    BY <1>1, <2>1, <2>2 DEF PInv, OwnerIsActive, ActiveShown, PumpRuns
<1>3. CASE /\ ~Finished(f, 0) /\ StartReader(f, 0, reading) /\ activeSender' = f
           /\ status' = Mark(status, f, "SENDING")
  <2>1. /\ status \in [Files -> SenderFile] /\ reading \in [Slices -> Nat]
        /\ buffer' \in Seq(Packet) /\ 0 \in 0..(Chunks[f] - 1)
    <3>1. 0 \in 0..(Chunks[f] - 1)
      BY <1>3, ChannelAssumption DEF Finished
    <3> QED
      BY <3>1 DEF SInv, SenderTypeOK, ChannelTypeOK
  <2>2. \/ \E s \in Slices : s[1] = f /\ reading'[s] > 0
        \/ BufferedAmount(buffer') > LowMark
    BY <1>3, <2>1, ReaderPumps
  <2>3. status'[f] = "SENDING" /\ \A g \in Files : status'[g] # "ABSENT"
    BY <1>1, <1>3, <2>1 DEF PInv, NoneAbsent, Mark
  <2> QED
    BY <1>1, <1>3, <2>2, <2>3 DEF PInv, OwnerIsActive, ActiveShown, NoneAbsent, PumpRuns
<1> QED
  BY <1>2, <1>3 DEF HashDone

(* handleTransferError of f, the reader that led to it gone.                       *)
LEMMA ErrorPumps ==
  ASSUME SInv, PInv, NEW f \in Files, TransferError(f),
         UNCHANGED <<channelVars, activeSender, paused, cancelled, lowOwner>>,
         \A s \in Slices : s[1] # f => reading'[s] = reading[s]
  PROVE  PInv'
<1>1. /\ status' = Mark(status, f, "FAILED") /\ transferState' = "FAILED"
      /\ status \in [Files -> SenderFile]
      /\ UNCHANGED <<activeTransferId, open, buffer, lowEvents, activeSender, paused, cancelled, lowOwner>>
  BY DEF TransferError, channelVars, SInv, SenderTypeOK
<1>2. /\ open => status'[f] = "FAILED"
      /\ \A g \in Files : g # f => status'[g] = status[g]
  BY <1>1 DEF PInv, NoneAbsent, Mark
<1>3. OwnerIsActive' /\ NoneAbsent'
  BY <1>1, <1>2 DEF PInv, OwnerIsActive, NoneAbsent
<1>4. ActiveShown'
  BY <1>1, <1>2, OwnerBegun DEF PInv, ActiveShown
<1>5. CASE f = lowOwner \/ lowOwner = None
  BY <1>1, <1>2, <1>3, <1>4, <1>5 DEF PInv, PumpRuns
<1>6. CASE f # lowOwner /\ lowOwner # None
  <2>1. PumpKept
    BY <1>1, <1>2, <1>6, OwnerBegun DEF PumpKept, PInv
  <2> QED
    BY <1>3, <1>4, <1>6, <2>1, PumpStays DEF PInv
<1> QED
  BY <1>5, <1>6

(* What the store shows stays true when a step writes none of it.                  *)
LEMMA ShownStays ==
  ASSUME PInv, UNCHANGED <<activeSender, lowOwner, status, transferState, activeTransferId>>,
         open' => open
  PROVE  OwnerIsActive' /\ NoneAbsent' /\ ActiveShown'
  BY DEF PInv, OwnerIsActive, NoneAbsent, ActiveShown

(* sendNext of the owner's ChunkSender, run in this task.                          *)
LEMMA RestartPumps ==
  ASSUME MarksApart, SInv, SInv', lowOwner # None, ~Finished(lowOwner, currentChunk'[lowOwner]),
         UNCHANGED lowOwner,
         NEW rd \in [Slices -> Nat], StartReader(lowOwner, currentChunk'[lowOwner], rd)
  PROVE  PumpRuns'
<1> DEFINE c == currentChunk'[lowOwner]
<1>1. /\ lowOwner \in Files /\ buffer' \in Seq(Packet) /\ currentChunk' \in [Files -> Nat]
  BY DEF SInv, SenderTypeOK, ChannelTypeOK
<1>2. c \in 0..(Chunks[lowOwner] - 1)
  BY <1>1, ChannelAssumption DEF Finished
<1>3. StartReader(lowOwner, c, rd)
  OBVIOUS
<1> HIDE DEF c
<1>4. \/ \E s \in Slices : s[1] = lowOwner /\ reading'[s] > 0
      \/ BufferedAmount(buffer') > LowMark
  BY <1>1, <1>2, <1>3, ReaderPumps
<1> QED
  BY <1>4 DEF PumpRuns

LEMMA ChunkLoadedPumps ==
  ASSUME MarksApart, SInv, SInv', PInv, NEW s \in Slices, ChunkLoaded(s[1], s[2])
  PROVE  PInv'
<1> DEFINE f == s[1]
           k == s[2]
           next == currentChunk[f] + 1
           rd == [reading EXCEPT ![<<f, k>>] = @ - 1]
           p == Chunk(f, currentChunk[f], k)
<1>1. /\ f \in Files /\ s = <<f, k>> /\ reading[s] > 0
      /\ buffer' = Append(buffer, p)
      /\ currentChunk' = [currentChunk EXCEPT ![f] = next]
      /\ UNCHANGED <<open, lowEvents, paused, cancelled, lowOwner>>
  BY SliceMember DEF ChunkLoaded
<1>2. /\ lowOwner # None /\ rd \in [Slices -> Nat] /\ buffer \in Seq(Packet)
      /\ currentChunk \in [Files -> Nat]
      /\ currentChunk'[f] = next
      /\ \A t \in Slices : t[1] # f => rd[t] = reading[t]
  <2>1. /\ lowOwner # None /\ buffer \in Seq(Packet) /\ reading \in [Slices -> Nat]
        /\ currentChunk \in [Files -> Nat]
    BY <1>1, ReaderBegun DEF SInv, SenderTypeOK, ChannelTypeOK
  <2>2. rd = [reading EXCEPT ![s] = @ - 1]
    BY <1>1
  <2>3. rd \in [Slices -> Nat]
    BY <1>1, <2>1, <2>2, ReaderEnds
  <2>4. \A t \in Slices : t[1] # f => rd[t] = reading[t]
    BY <2>1, <2>2
  <2>5. currentChunk'[f] = next
    BY <1>1, <2>1
  <2> QED
    BY <2>1, <2>3, <2>4, <2>5
<1>3. BufferedAmount(buffer) > LowMark => BufferedAmount(buffer') > LowMark
  <2>1. k \in Nat
    BY SliceMember, ChannelAssumption
  <2>2. p \in Packet
    BY <1>1, <1>2, <2>1 DEF Chunk, Packet, PacketType
  <2> QED
    BY <1>1, <1>2, <2>2, SentStaysAbove
<1>4. \/ /\ Finished(f, next) /\ reading' = rd
         /\ Complete(f, [progress EXCEPT ![f] = @ + 1], hashing)
      \/ /\ ~Finished(f, next) /\ StartReader(f, next, rd)
         /\ UNCHANGED <<status, transferState, activeTransferId, hashing, activeSender>>
  BY DEF ChunkLoaded
<1> HIDE DEF f, k, next, rd, p
<1>5. CASE reading' = rd /\ Complete(f, [progress EXCEPT ![f] = @ + 1], hashing)
  BY <1>1, <1>2, <1>3, <1>5, CompletePumps
<1>6. CASE /\ ~Finished(f, next) /\ StartReader(f, next, rd)
           /\ UNCHANGED <<status, transferState, activeTransferId, hashing, activeSender>>
  <2>1. OwnerIsActive' /\ NoneAbsent' /\ ActiveShown'
    BY <1>1, <1>6, ShownStays
  <2>2. CASE f = lowOwner
    BY <1>1, <1>2, <1>6, <2>1, <2>2, RestartPumps DEF PInv
  <2>3. CASE f # lowOwner
    <3>1. \A t \in Slices : t[1] = lowOwner => reading'[t] = reading[t]
      <4> SUFFICES ASSUME NEW t \in Slices, t[1] = lowOwner PROVE reading'[t] = reading[t]
        OBVIOUS
      <4>1. t # <<f, next>> /\ rd[t] = reading[t]
        BY <1>2, <2>3
      <4> QED
        BY <1>2, <1>6, <4>1 DEF StartReader
    <3>2. PumpKept
      BY <1>1, <1>3, <1>6, <3>1 DEF PumpKept
    <3> QED
      BY <1>2, <2>1, <3>2, PumpStays DEF PInv
  <2> QED
    BY <2>2, <2>3
<1> QED
  BY <1>4, <1>5, <1>6

LEMMA ChunkDroppedPumps ==
  ASSUME SInv, PInv, NEW s \in Slices, ChunkDropped(s[1], s[2])
  PROVE  PInv'
<1> DEFINE f == s[1]
<1>1. /\ s = <<f, s[2]>> /\ reading[s] > 0 /\ Stopped(f)
      /\ reading' = [reading EXCEPT ![s] = @ - 1]
      /\ UNCHANGED <<open, buffer, lowEvents, status, transferState, activeTransferId,
                     activeSender, paused, cancelled, lowOwner>>
  BY SliceMember DEF ChunkDropped, channelVars, storeVars
<1>2. lowOwner # None /\ reading \in [Slices -> Nat]
  BY <1>1 DEF SInv, SenderTypeOK, Unowned
<1>3. OwnerIsActive' /\ NoneAbsent' /\ ActiveShown'
  BY <1>1, ShownStays
<1>4. CASE f = lowOwner
  BY <1>1, <1>3, <1>4 DEF PInv, PumpRuns, Stopped
<1>5. CASE f # lowOwner
  <2>1. PumpKept
    BY <1>1, <1>2, <1>5 DEF PumpKept
  <2> QED
    BY <1>2, <1>3, <2>1, PumpStays DEF PInv
<1> QED
  BY <1>4, <1>5

LEMMA FailedPumps ==
  ASSUME SInv, PInv,
         \/ \E f \in Files : HashFailed(f)
         \/ \E s \in Slices : ChunkFailed(s[1], s[2])
  PROVE  PInv'
<1>1. ASSUME NEW f \in Files, HashFailed(f) PROVE PInv'
  BY <1>1, ErrorPumps DEF HashFailed, pumpVars
<1>2. ASSUME NEW s \in Slices, ChunkFailed(s[1], s[2]) PROVE PInv'
  <2>1. /\ s[1] \in Files /\ s = <<s[1], s[2]>> /\ reading' = [reading EXCEPT ![s] = @ - 1]
        /\ TransferError(s[1]) /\ UNCHANGED <<channelVars, activeSender, paused, cancelled, lowOwner>>
    BY <1>2, SliceMember DEF ChunkFailed
  <2>2. \A t \in Slices : t[1] # s[1] => reading'[t] = reading[t]
    BY <2>1 DEF SInv, SenderTypeOK
  <2> QED
    BY <2>1, <2>2, ErrorPumps
<1> QED
  BY <1>1, <1>2

LEMMA BufferedAmountLowPumps ==
  ASSUME MarksApart, SInv, SInv', PInv, BufferedAmountLow
  PROVE  PInv'
<1> DEFINE f == lowOwner
<1>1. /\ lowOwner # None /\ lowOwner \in Files
      /\ currentChunk' = currentChunk /\ reading \in [Slices -> Nat]
      /\ UNCHANGED <<open, buffer, paused, cancelled, lowOwner, currentChunk>>
  BY DEF BufferedAmountLow, SInv, SenderTypeOK, ChannelTypeOK, Unowned
<1>2. CASE Complete(f, progress, hashing) /\ UNCHANGED reading
  BY <1>1, <1>2, CompletePumps
<1>3. ASSUME UNCHANGED <<status, progress, transferState, activeTransferId, hashing, activeSender>>,
             \/ ~Finished(f, currentChunk[f]) /\ StartReader(f, currentChunk[f], reading)
             \/ Stopped(f)
             \/ ~open
      PROVE  PInv'
  <2>1. OwnerIsActive' /\ NoneAbsent' /\ ActiveShown'
    BY <1>1, <1>3, ShownStays
  <2>2. CASE ~Finished(f, currentChunk[f]) /\ StartReader(f, currentChunk[f], reading)
    BY <1>1, <2>1, <2>2, RestartPumps DEF PInv
  <2>3. CASE Stopped(f) \/ ~open
    BY <1>1, <2>1, <2>3 DEF PInv, PumpRuns, Stopped
  <2> QED
    BY <1>3, <2>2, <2>3
<1> QED
  BY <1>2, <1>3 DEF BufferedAmountLow

(* What pause() and resume() show and send of the active file.                     *)
LEMMA NotifyShows ==
  ASSUME SInv, PInv, NEW v \in {"PREPARING", "SENDING"}, NEW t \in PacketType, Notify(v, t),
         UNCHANGED <<open, activeSender, lowOwner, transferState, activeTransferId>>
  PROVE  /\ OwnerIsActive' /\ NoneAbsent' /\ ActiveShown'
         /\ \A f \in Files : f # activeTransferId => status'[f] = status[f]
         /\ BufferedAmount(buffer) > LowMark => BufferedAmount(buffer') > LowMark
<1>1. /\ status \in [Files -> SenderFile] /\ activeTransferId \in Files \cup {None}
      /\ buffer \in Seq(Packet)
  BY DEF SInv, SenderTypeOK, ChannelTypeOK
<1>2. CASE activeTransferId = None
  <2>1. UNCHANGED <<status, buffer>>
    BY <1>2 DEF Notify
  <2> QED
    BY <2>1, ShownStays
<1>3. CASE activeTransferId # None
  <2>1. /\ status' = Mark(status, activeTransferId, v)
        /\ buffer' \in {Append(buffer, Control(t, activeTransferId)), buffer}
    BY <1>3 DEF Notify
  <2>2. /\ open => status'[activeTransferId] = v
        /\ \A f \in Files : f # activeTransferId => status'[f] = status[f]
    BY <1>1, <1>3, <2>1 DEF PInv, NoneAbsent, Mark
  <2>3. OwnerIsActive' /\ NoneAbsent'
    BY <1>1, <1>3, <2>2 DEF PInv, OwnerIsActive, NoneAbsent
  <2>4. ActiveShown'
    BY <1>1, <1>3, <2>2, OwnerBegun DEF PInv, ActiveShown
  <2>5. Control(t, activeTransferId) \in Packet
    BY <1>1, <1>3, ControlTyped
  <2>6. BufferedAmount(buffer) > LowMark => BufferedAmount(buffer') > LowMark
    BY <1>1, <2>1, <2>5, SentStaysAbove
  <2> QED
    BY <2>2, <2>3, <2>4, <2>6
<1> QED
  BY <1>2, <1>3

LEMMA PausePumps == ASSUME SInv, PInv, Pause PROVE PInv'
<1>1. /\ activeSender # None /\ paused' = paused \cup {activeSender}
      /\ Notify("PREPARING", "PAUSE")
      /\ UNCHANGED <<open, activeSender, lowOwner, transferState, activeTransferId, cancelled>>
  BY DEF Pause
<1>2. OwnerIsActive' /\ NoneAbsent' /\ ActiveShown'
  BY <1>1, NotifyShows DEF PacketType
<1>3. lowOwner' \in paused'
  BY <1>1 DEF PInv, OwnerIsActive
<1> QED
  BY <1>2, <1>3 DEF PInv, PumpRuns

LEMMA ResumePumps ==
  ASSUME MarksApart, NoResumeAfterFailure, SInv, SInv', PInv, Resume
  PROVE  PInv'
<1>1. /\ activeSender # None /\ paused' = paused \ {activeSender}
      /\ Notify("SENDING", "RESUME") /\ transferState # "FAILED"
      /\ UNCHANGED <<open, lowEvents, activeSender, lowOwner, transferState, activeTransferId,
                     currentChunk, cancelled>>
      /\ \/ StartReader(activeSender, currentChunk[activeSender], reading)
         \/ activeSender \notin paused /\ UNCHANGED reading
  BY DEF Resume, NoResumeAfterFailure
<1>2. /\ OwnerIsActive' /\ NoneAbsent' /\ ActiveShown'
      /\ \A f \in Files : f # activeTransferId => status'[f] = status[f]
      /\ BufferedAmount(buffer) > LowMark => BufferedAmount(buffer') > LowMark
  BY <1>1, NotifyShows DEF PacketType
<1>3. /\ lowOwner = activeSender /\ lowOwner # None /\ lowOwner \in Files
      /\ reading \in [Slices -> Nat] /\ currentChunk' = currentChunk
  BY <1>1 DEF PInv, OwnerIsActive, SInv, SenderTypeOK
<1>4. CASE StartReader(activeSender, currentChunk[activeSender], reading)
  <2>1. ~Finished(lowOwner, currentChunk'[lowOwner])
    BY <1>1, <1>3, ChannelAssumption DEF SInv, SenderTypeOK, ActiveUnfinished, Finished
  <2> QED
    BY <1>1, <1>2, <1>3, <1>4, <2>1, RestartPumps DEF PInv
<1>5. CASE activeSender \notin paused /\ UNCHANGED reading
  <2>1. CASE ~open
    BY <1>1, <1>2, <2>1 DEF PInv, PumpRuns
  <2>2. CASE open
    <3>1. status'[lowOwner] \in {"SENDING", "PREPARING"}
            => status[lowOwner] \in {"SENDING", "PREPARING"}
      BY <1>1, <1>2, <1>3, <2>2 DEF PInv, ActiveShown
    <3>2. PumpKept
      BY <1>1, <1>2, <1>3, <1>5, <3>1 DEF PumpKept
    <3> QED
      BY <1>2, <1>3, <3>2, PumpStays DEF PInv
  <2> QED
    BY <2>1, <2>2
<1> QED
  BY <1>1, <1>4, <1>5

LEMMA CancelPumps == ASSUME SInv, PInv, Cancel PROVE PInv'
<1>1. /\ activeTransferId \in Files /\ activeSender' = None
      /\ cancelled' = cancelled \cup ({activeSender} \ {None})
      /\ ProcessNextFile(Mark(status, activeTransferId, "CANCELLED"), hashing)
      /\ UNCHANGED <<open, lowEvents, paused, reading, lowOwner>>
  BY DEF Cancel, SInv, SenderTypeOK
<1>2. /\ NoneAbsent' /\ (open => status'[activeTransferId] = "CANCELLED")
      /\ \A g \in Files \ {activeTransferId} : status[g] # "WAITING" => status'[g] = status[g]
  BY <1>1, FileMoves DEF PInv
<1>3. OwnerIsActive' /\ ActiveShown'
  BY <1>1 DEF OwnerIsActive, ActiveShown
<1>4. CASE activeSender # None \/ lowOwner = None
  <2>1. lowOwner' \in cancelled' \/ lowOwner' = None
    BY <1>1, <1>4 DEF PInv, OwnerIsActive
  <2> QED
    BY <1>2, <1>3, <2>1 DEF PInv, PumpRuns
<1>5. CASE activeSender = None /\ lowOwner # None
  <2>1. UNCHANGED <<buffer, cancelled>>
    BY <1>1, <1>5 DEF Cancel
  <2>2. CASE ~open
    BY <1>1, <1>2, <1>3, <2>2 DEF PInv, PumpRuns
  <2>3. CASE open
    <3>1. PumpKept
      BY <1>1, <1>2, <1>5, <2>1, <2>3, OwnerBegun DEF PumpKept, PInv
    <3> QED
      BY <1>2, <1>3, <1>5, <3>1, PumpStays DEF PInv
  <2> QED
    BY <2>2, <2>3
<1> QED
  BY <1>4, <1>5

(* Closing the channel ends the question; nothing moves the ChunkSenders.          *)
LEMMA ClosePumps ==
  ASSUME PInv, Close, UNCHANGED <<activeSender, lowOwner>>
  PROVE  PInv'
  BY DEF PInv, Close, OwnerIsActive, NoneAbsent, ActiveShown, PumpRuns

(* The receiving page takes packets off the network, and no more of the channel.    *)
LEMMA ReceiverChannel ==
  ASSUME ReceiverTask
  PROVE  UNCHANGED <<open, buffer, lowEvents>> \/ Close
  BY DEF ReceiverTask, ReceiveMetadata, ReceiveChunk, ReceivePause, ReceiveResume, ReceiveCancel,
         CancelByReceiver, VerifyPassed, VerifyFailed, ReceiverCleanup, Receive, channelVars

LEMMA ChannelPumps ==
  ASSUME SInv, PInv, UNCHANGED senderVars,
         \/ UNCHANGED <<open, buffer, lowEvents>>
         \/ Flush
         \/ Close
  PROVE  PInv'
<1>1. UNCHANGED <<activeSender, lowOwner, status, transferState, activeTransferId, paused,
                  cancelled, reading>>
  BY DEF senderVars, storeVars, pumpVars
<1>2. CASE Close
  BY <1>1, <1>2, ClosePumps
<1>3. CASE UNCHANGED <<open, buffer, lowEvents>>
  BY <1>1, <1>3 DEF PInv, OwnerIsActive, NoneAbsent, ActiveShown, PumpRuns
<1>4. CASE Flush
  <2>1. /\ open' = open /\ lowEvents \in Nat
        /\ \/ /\ lowEvents' = lowEvents + 1
           \/ /\ lowEvents' = lowEvents
              /\ \/ BufferedAmount(buffer) <= LowMark
                 \/ BufferedAmount(buffer') > LowMark
    BY <1>4, ChannelAssumption DEF Flush, SInv, ChannelTypeOK
  <2>2. OwnerIsActive' /\ NoneAbsent' /\ ActiveShown'
    BY <1>1, <2>1, ShownStays
  <2>3. BufferedAmount(buffer) \in Nat /\ LowMark \in Nat
    BY AmountTyped, ChannelAssumption DEF SInv, ChannelTypeOK
  <2>4. CASE lowEvents' > 0 \/ lowOwner = None
    BY <1>1, <2>2, <2>4 DEF PInv, PumpRuns
  <2>5. CASE ~(lowEvents' > 0) /\ lowOwner # None
    <3>1. /\ lowEvents = 0
          /\ BufferedAmount(buffer) > LowMark => BufferedAmount(buffer') > LowMark
      BY <2>1, <2>3, <2>5
    <3>2. PumpKept
      BY <1>1, <2>1, <3>1 DEF PumpKept
    <3> QED
      BY <2>2, <2>5, <3>2, PumpStays DEF PInv
  <2> QED
    BY <2>4, <2>5
<1> QED
  BY <1>2, <1>3, <1>4

LEMMA NextPInv ==
  MarksApart /\ NoResumeAfterFailure /\ IInv /\ IInv' /\ PInv /\ [Next]_vars => PInv'
<1> SUFFICES ASSUME MarksApart, NoResumeAfterFailure, IInv, IInv', PInv, [Next]_vars
             PROVE  PInv'
  OBVIOUS
<1>0. SInv /\ SInv'
  BY DEF IInv
<1>1. CASE SenderTask
  <2>1. ASSUME SenderCleanup PROVE PInv'
    BY <2>1, ClosePumps DEF SenderCleanup
  <2> QED
    BY <1>0, <1>1, <2>1, HashDonePumps, FailedPumps, ChunkLoadedPumps, ChunkDroppedPumps,
       BufferedAmountLowPumps, StartPumps, PausePumps, ResumePumps, CancelPumps
       DEF SenderTask
<1>2. CASE ReceiverTask /\ UNCHANGED senderVars
  BY <1>0, <1>2, ReceiverChannel, ChannelPumps
<1>3. CASE Flush /\ UNCHANGED senderVars
  BY <1>0, <1>3, ChannelPumps
<1>4. CASE UNCHANGED vars
  BY <1>0, <1>4, ChannelPumps DEF vars, channelVars
<1> QED
  BY <1>1, <1>2, <1>3, <1>4 DEF Next

(* With any files, sizes, marks that far apart and faults, no ChunkSender that owns  *)
(* onbufferedamountlow is ever left with nothing to wake it (chunk-sender.ts:121).    *)
THEOREM PumpNeverStops == MarksApart /\ NoResumeAfterFailure => (Spec => []PumpRuns)
<1> SUFFICES ASSUME MarksApart, NoResumeAfterFailure PROVE Spec => []PumpRuns
  OBVIOUS
<1>1. Init => PInv
  BY DEF Init, ChannelInit, SenderInit, PInv, OwnerIsActive, NoneAbsent, ActiveShown, PumpRuns
<1>2. IInv /\ IInv' /\ PInv /\ [Next]_vars => PInv'
  BY NextPInv
<1>3. PInv => PumpRuns
  BY DEF PInv
<1> QED
  BY <1>1, <1>2, <1>3, Inductive, PTL DEF Spec

-------------------------------------------------------------------------------
(* The chunk that makes a file complete starts its checksum, in the same task.     *)
VerdictStarted ==
    \A f \in Files : Chunks[f] > 0 /\ Full(got, f) => f \in verifying \cup settled

(* A chunk is stored in the file of the active ChunkReceiver.                      *)
LEMMA ChunkStarts ==
  ASSUME IInv, VerdictStarted, ReceiveChunk
  PROVE  VerdictStarted'
<1> DEFINE p == Head(network)
<1>0. got \in [Slices -> (Files \X Nat) \cup {NoSlice}] /\ UNCHANGED settled
  BY DEF IInv, RInv, ReceiverTypeOK, ReceiveChunk
<1>1. CASE UNCHANGED <<got, verifying>>
  BY <1>0, <1>1 DEF VerdictStarted, Full
<1>2. CASE /\ got' = [got EXCEPT ![<<activeReceiver, p.index>>] = <<p.file, p.slice>>]
           /\ verifying' = IF Full(got', activeReceiver) THEN verifying \cup {activeReceiver}
                           ELSE verifying
  <2> SUFFICES ASSUME NEW f \in Files, Chunks[f] > 0, Full(got', f)
               PROVE  f \in (verifying \cup settled)'
    BY DEF VerdictStarted, Full
  <2>1. CASE f = activeReceiver
    BY <1>2, <2>1
  <2>2. CASE f # activeReceiver
    <3>1. ASSUME NEW i \in 0..(Chunks[f] - 1) PROVE got[<<f, i>>] # NoSlice
      <4>1. <<f, i>> # <<activeReceiver, p.index>> /\ <<f, i>> \in Slices
        BY <2>2, <3>1, SliceMember
      <4>2. got'[<<f, i>>] = got[<<f, i>>]
        BY <1>0, <1>2, <4>1
      <4> QED
        BY <3>1, <4>2 DEF Full
    <3>2. Full(got, f)
      BY <3>1 DEF Full
    <3>3. f \in verifying \cup settled
      BY <3>2 DEF VerdictStarted
    <3> QED
      BY <1>0, <1>2, <3>3
  <2> QED
    BY <2>1, <2>2
<1> QED
  BY <1>1, <1>2 DEF ReceiveChunk

LEMMA NextStarted == IInv /\ VerdictStarted /\ [Next]_vars => VerdictStarted'
<1> SUFFICES ASSUME IInv, VerdictStarted, [Next]_vars PROVE VerdictStarted'
  OBVIOUS
<1>1. CASE ReceiveChunk
  BY <1>1, ChunkStarts
<1>2. CASE ReceiverTask /\ ~ReceiveChunk
  <2>1. UNCHANGED got /\ verifying \cup settled \subseteq verifying' \cup settled'
    BY <1>2 DEF ReceiverTask, ReceiveMetadata, ReceivePause, ReceiveResume, ReceiveCancel,
       CancelByReceiver, CancelReceiving, VerifyPassed, VerifyFailed, ReceiverCleanup, receiverVars
  <2> QED
    BY <2>1 DEF VerdictStarted, Full
<1>3. CASE UNCHANGED receiverVars \/ UNCHANGED vars
  BY <1>3 DEF vars, receiverVars, VerdictStarted, Full
<1> QED
  BY <1>1, <1>2, <1>3 DEF Next

(* Of a single file, what the sender shows as COMPLETED arrives: a chunk of it is    *)
(* under way or all of them are stored, and then the checksum was started           *)
(* (queue-manager.ts:119, chunk-receiver.ts:77).                                 *)
THEOREM CompletedIsDecided == NumFiles = 1 => (Spec => []CompletedArrives)
<1> SUFFICES ASSUME NumFiles = 1 PROVE Spec => []CompletedArrives
  OBVIOUS
<1>1. Init => VerdictStarted
  <2> SUFFICES ASSUME Init, NEW f \in Files, Chunks[f] > 0 PROVE ~Full(got, f)
    BY DEF VerdictStarted
  <2>1. 0 \in 0..(Chunks[f] - 1) /\ <<f, 0>> \in Slices
    BY ChannelAssumption, SliceMember
  <2>2. got[<<f, 0>>] = NoSlice
    BY <2>1 DEF Init, ReceiverInit
  <2> QED
    BY <2>1, <2>2 DEF Full
<1>2. IInv /\ NothingLost /\ CompletedWasSent /\ VerdictStarted => CompletedArrives
  <2> SUFFICES ASSUME IInv, NothingLost, CompletedWasSent, VerdictStarted, open,
                      NEW f \in Files \ (rCancelled \cup cancelled),
                      status[f] = "COMPLETED", Chunks[f] > 0,
                      \A m \in DOMAIN Wire : ~IsChunkOf(Wire[m], f)
               PROVE  f \in verifying \cup settled
    BY DEF CompletedArrives
  <2>1. ASSUME NEW i \in 0..(Chunks[f] - 1) PROVE got[<<f, i>>] # NoSlice
    <3>1. i < currentChunk[f]
      <4>1. currentChunk[f] \in Nat /\ Chunks[f] \in Nat
        BY ChannelAssumption DEF IInv, SInv, SenderTypeOK
      <4> QED
        BY <2>1, <4>1 DEF CompletedWasSent
    <3> QED
      BY <2>1, <3>1, OneFile DEF NothingLost, Alone
  <2>2. Full(got, f)
    BY <2>1 DEF Full
  <2> QED
    BY <2>2 DEF VerdictStarted
<1> QED
  BY <1>1, <1>2, NextStarted, Inductive, LosesNothing, CompletedIsSent, PTL DEF Spec

===============================================================================
