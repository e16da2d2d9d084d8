# P2P FileShare: a TLA+ verification

P2P FileShare lets two browsers exchange files over a WebRTC data channel.  A
sender creates a *session* at the API and shows its code; a receiver types the
code; a WebSocket gateway carries offer, answer and ICE candidates between the
two pages; then the sending page pumps the files through the data channel, and
the receiving page reassembles each one, compares its SHA-256 with the one
announced and saves it.  The modules here model the parts in which something
can go wrong between those steps.

## 1. Inventory

Paths are relative to the repository root.

| Part | State it keeps | Operations | Interacts with |
|---|---|---|---|
| Transfer engine, sending side (`apps/web/src/lib/transfer/queue-manager.ts`, `chunk-sender.ts`, `hooks/use-transfer.ts`, `stores/transfer.store.ts`, `app/send/page.tsx`) | the queue with a status and progress per file, `transferState`, `activeTransferId`, `activeSender`, a `ChunkSender` per file (current chunk, paused, cancelled) | start, hash done / failed, chunk read / failed, `bufferedamountlow`, pause, resume, cancel, teardown | data channel, hash worker, FileReader, user |
| Transfer engine, receiving side (`queue-manager.ts`, `chunk-receiver.ts`, `app/receive/page.tsx`) | `activeReceiver`, the chunks stored, the store's queue | METADATA, CHUNK, PAUSE, RESUME, CANCEL packets, checksum done, cancel button, teardown | data channel, hash worker, user |
| Data channel (browser; set up in `hooks/use-webrtc-session.ts`) | output buffer, packets under way, readyState | send, drain, `bufferedamountlow`, close | both engines |
| Session service (`apps/api/src/sessions/`, `cache/`, `database/repositories/session.repository.ts`, migration 003) | rows of `sessions`, Redis keys `session:code:*` and `device:session:*`, requests in flight | create, join, update status, expire, cleanup job | Postgres, Redis |
| Signaling (`apps/api/src/signaling/`, `apps/web/src/hooks/use-signaling.ts`, `use-webrtc-session.ts`) | Socket.IO rooms, Redis keys for connection state, peer pair, presence; each page's connection state, offer, answer, peer connection | join room, offer, answer, ICE, heartbeat, leave, disconnect, reconnect | Redis, both pages |
| Packet serializer (`packet-serializer.ts`) | none | serialize, deserialize | engines |
| Device store (`apps/web/src/stores/device.store.ts`, `hooks/use-device.ts`) | the fingerprint in localStorage and in the store of each tab, and the one each page shows | hydrate on load, initialize on mount, `getDeviceInfo` at each render | localStorage, signaling, session service |
| Presence (`apps/api/src/signaling/services/presence.service.ts`) | Redis keys `presence:device:*` and `peer:device:*` | track online, heartbeat, offline | Redis, gateway |
| REST client and session store (`apps/web/src/hooks/use-session.ts`, `stores/session.store.ts`, `services/session.service.ts`, the pages that use them) | the session, status and error of each tab, the query cache, requests under way | create, join, poll, go to a page, reset | session service, user |
| Migration runner (`apps/api/src/database/migrations/`) | `_migrations`, the schema, a run's list of pending files and its open transaction | make `_migrations`, read it, run a file, record it, commit, roll back | Postgres, other runs |
| Devices (`apps/api/src/devices/`, `device.repository.ts`) | rows of `devices` | upsert by fingerprint, touch | Postgres |
| Redis and database clients | connections | connect, retry | external services |
| REST controller, DTOs, filters, interceptors, logging, health, config | none | validation, formatting | session service |
| Layout, landing page, UI | what is displayed | rendering | hooks |

The hard behaviours are the awaits: in the browser a continuation runs long
after the decision it continues (a hash, a FileReader, a queued
`bufferedamountlow`), on the server a request is cut at every round trip to
Redis or Postgres; between the two stand answers that come late, twice or not
at all, to a page that may have moved on.  `PROJECT.json` lists them as hazards, each at its line.

## 2. Modules

| Module | Models | Correspondence |
|---|---|---|
| `DataChannel` | the channel between the pages | `buffer` is what `bufferedAmount` counts, `network` what has left; `Flush` moves one packet and may queue `bufferedamountlow`; `Close` discards both |
| `FileSender` | the sending page | one action per task of the event loop: `Start`, `HashDone` / `HashFailed` (the continuation of `processNextFile`), `ChunkLoaded` / `ChunkDropped` / `ChunkFailed` (FileReader), `BufferedAmountLow`, `Pause`, `Resume`, `Cancel`, `SenderCleanup`. `ProcessNextFile`, `Complete`, `TransferError`, `StartReader` are the calls these make |
| `FileReceiver` | the receiving page | `Receive...` per packet type, `VerifyPassed` / `VerifyFailed` (the continuation of `assembleAndVerify`), `CancelByReceiver`, `ReceiverCleanup` |
| `FileTransfer` | both pages and the channel; the properties of the transfer | |
| `Delivery` | abstract specification: slices are handed over, a file gets one verdict, and `delivered` only when all of it was handed over | `FileTransfer` implements it by `Handed`, `Verdict` |
| `SessionStates` | `session-state-machine.ts` | `ValidNext` |
| `SessionService` | rows, keys and requests | one action per round trip; `req[r].at` names the await a request stands at; `Fail` ends a request at any of them |
| `Pairing` | abstract specification: a session is offered once, taken at most once, by another device, while on offer | `SessionService` implements it with `open` = the WAITING sessions |
| `Gateway` | the signaling gateway for one session: the room, `connection:state`, `session:sockets` and the handlers | `task[<<k, h>>].at` names the await handler `h` of socket `k` stands at; `Enter`, `GetPair`, `MergePair`, `SavePair`, `ReadState`, `WriteState` are the runs between awaits; `Detect` is the server noticing a dead socket. One API process, as `docker-compose.yml` and `nginx.conf` deploy it |
| `Handshake` | both pages with their sockets, stores and peer connections, composed with `Gateway`; the properties of signaling | `Handle` is one event and the effects its render runs; `OfferReady`, `AnswerReady` the promises; `Connect`, `Drop`, `Quit` the socket's life |
| `Handshaking` | abstract specification: the nine turns of a handshake between an offering page, an answering page and the gateway, each taken once and in order | `Handshake` implements it, by `conn` and the `pc` of the two pages, as long as `faults = 0` |
| `Presence` | the tabs of one browser with their device stores, sockets and heartbeat timers; the presence service and the handlers that call it | `Load`, `Initialize` are the device store, `Render` is `useDevice`, with the fingerprint `getDeviceInfo` draws and nobody stores (`Passing`); `Connect`, `Drop`, `Beat` the socket; `Enter`, `SetPeer` the join handler through `trackOnline`; `TrackHeartbeat`; `Detect` is `handleDisconnect` with `trackOffline`; `Tick` ends a heartbeat interval |
| `Trickle` | the ICE candidates, composed with `Handshake`: every step of it is a step here, joined with what it does to the candidates | `Gather` is `onicecandidate`, `Forward` the gateway's handler, `Arrive` the event and its render, `Applied` the end of `setRemoteDescription`, `Rerender` a render with another cause; `Render` is the effect that hands candidates over |
| `SessionPages` | the tabs with their session stores, calls, polls and query cache, composed with what the session service promises, `Pairing` | `Request`, `Answered` are the two halves of `createSession` and `joinSession` around the await; `ServeCreate`, `ServeJoin`, `RefuseJoin`, `LoseCall` what happens in between; `StartPoll`, `ServePoll`, `PollAnswered`, `PollFailed`, `Forget` the query; `GoTo`, `Reset` the user |
| `Migrations` | overlapping runs of the migration runner over one Postgres | `Start`, `Create` are the two halves of CREATE TABLE IF NOT EXISTS, `Read` is the SELECT of the names, `Sql`, `Insert`, `Commit` the statements of a file's transaction, `Waits` Postgres' locks on unique names; `Die`, `Break` a crash and a lost answer |
| `PacketSerializer` | `serializePacket` and `deserializePacket`, byte by byte | a buffer is a function from offsets to bytes |
| `...Proofs` | theorems and their proofs, one module per component | |
| `MC...` | instances for TLC | |

Definitions whose comment says *mutant* are not part of the specification:
each is a plausible mistake in the definition that follows it, kept to show
that the property named in `PROJECT.json` depends on that definition.

Content is abstracted: a file is its place in the queue and the number of its
160 KB slices, a packet carries the identity of the slice it was cut from, and
the checksum compares identities; that a packet comes out of its bytes as it
went in is `PacketSerializer`'s theorem `RoundTrip`.  Time is abstracted to the set of sessions
whose `expires_at` has passed.

In signaling an offer is its number, an answer the number of the offer it
answers.  React runs the effects of `useWebRtcSession` after every render,
because their dependencies hold objects that are new at each one, and every
event renders; so an event and the effects that follow it are one action.

`SessionPages` stands on `Pairing` and not on `SessionService`: the service is
shown to implement `Pairing` (`ImplementsPairing`, for every instance), so the
pages see every outcome the service can have, without its round trips.  A code
stands for the session it was made for.  The store and the query cache live as
long as the tab: leaving a page with the browser's back keeps both.

In `Migrations` a file is what it needs, drops, creates if missing and creates;
the six records are the six SQL files.  Two open transactions that make or
record the same name wait for each other as Postgres makes them wait.

## 3. Runs

Passing runs:

| Run | Instance | What it shows |
|---|---|---|
| `FileTransferPage` | two files (one slice, then two), buttons as the send page offers them and Resume also where Pause leads to (`ResumingPage`), hashing, reading and checksums failing, teardown at any time | chunk indices leave in order (`IndicesIncrease`), behind the METADATA of their file (`MetadataFirst`); whatever pauses, resumes and drains, something is under way that runs `sendNext` again (`PumpRuns`); overlapping readers repeat slices but never skip one (`SlicesLag`); a COMPLETED file left the page whole; a cancelled file that was being sent is quiet afterwards, and a cancel by the receiver stands; the transfer implements `Delivery` |
| `FileTransferEnds` | a file of three slices and an empty one behind it, nobody pressing buttons on the sending page, fair browsers | no chunk is lost between the pages; the sender ends; what is shown as COMPLETED is under way, being verified or decided (`CompletedArrives`), and the receiver decides the file with chunks in the end |
| `SessionService` | two sessions, two codes, two devices, two requests, PATCH with EXPIRED or JOINED, requests dying at any await | no two active sessions share a code; a session on offer has no receiver; no key names a session of another code or device, also when an older session's late write meets a newer one's |
| `SessionRace` | one session, three devices, two requests, two attempts at a code, keys that vanish, fair requests | one join wins; the service implements `Pairing`; every request ends, also the one that tries again; an overdue session on offer is closed |
| `Presence` | two tabs of one browser, loaded again at any time, two sockets, a key that lives three intervals, any one fault, fair timers and handlers | once the open tabs agree on the fingerprint in localStorage, it stays the device's over every load, mount and render (`Remembered`); no socket names one drawn at a render (`NamesStored`); the key of a device in use never runs out; a device that stays in use ends up online for good, whatever its other tabs' late disconnects deleted; a device left alone ends up offline for good, whatever was handled late |
| `Handshake` | two pages, the sender's with two sockets, any one fault (a round trip, a socket, a page or a connection) | until something goes wrong, a page makes or is given an offer only with another socket beside its own in the room (`OffersMeet`); an undisturbed handshake takes the turns of `Handshaking` and comes to rest connected everywhere; no event replaces a connection |
| `Trickle` | two pages with a socket each, a candidate of each connection, any one fault | a candidate that overtook offer or answer is kept until it is given to the connection (`NoneLost`); those the receiver stored do not stay there (`ReceiverProcesses`); candidates only add to the handshake (`ImplementsHandshake`) |
| `SessionPages` | a tab that sends and receives and one that receives, two sessions, two calls, one call lost | a session in a store is one in which the device has the part its answer said; a page shows a session as taken or expired only when it is, and never as waiting again; the send page learns of the receiver from the poll alone |
| `Migrations` | three overlapping runs of all six files on a new database, two crashes or lost answers | every file is recorded once, in order; the schema is what the recorded files make; a run that reports success leaves none unrecorded; runs that are repeated get there |

Runs that find the code at odds with what it says, one trace each:

| Run | What happens |
|---|---|
| `V_ReceiverDecides` | the checksum of one file ends after METADATA of the next: the next file's receiver is dropped |
| `V_PausedResumes` | Pause leaves the page in TRANSFERRING, where it offers Pause and Cancel; Resume is offered in PREPARING, to which every way drops the `ChunkSender`.  A user who presses Resume whenever it is there never resumes the file |
| `V_HandshakeStarts` | two joins read an empty peer pair: both are "first", no PEER_JOINED is emitted, nothing ever happens |

The bounds.  Two files are what the queue needs to show its order, and what
`activeReceiver` needs to be the wrong one; two slices are what overlapping
readers need; `MaxQueued` bounds the `bufferedamountlow` events that wait
behind each other.  `MaxReaders` bounds the readers a Resume may add to;
`bufferedamountlow` may add to any number.  Two requests show every pairwise race
between round trips; a third device shows a loser of a race that joins later.
Codes clash, are tried again and run out of attempts in `SessionRace`, with one code
and two attempts.  `SessionService` has one attempt, and what keys need to
be wrong: two codes, and two sessions of which one is older.  Two sockets for
one page are what a reconnect needs while the old socket is still counted.
In `Presence` two sockets are a page that reconnects while its old socket is
still counted, or two tabs of which one leaves; for more the invariants are
proved.  Two fingerprints
(`MaxDrawn`) are two first visits side by side, or one too many.  In `Trickle` one
candidate per connection (`MaxCandidates`) shows every order of a candidate and a
description, because between candidates no order is kept; reconnects with two
sockets are `Handshake`'s, and the theorems hold for any number of both.  In
`SessionPages` two calls (`Call`) are one made twice, or a late one and a newer;
two sessions are one the tab holds and one it held; the pages a tab is used for
(`PagesOf`) make one tab both owner and receiver.  In `Migrations` three runs are
one that commits, one that waits and one that comes late; two faults end two of
them.  `MaxFaults` is 1:
the scenarios below that need more are recorded as seen in larger instances and
are not claimed by a run.

Deadlock is checked except where the system may stop: the queue is done, all
requests have ended, or the sockets a page may open are used up.

## 4. Fairness

* `FileTransfer!FairSpec`: continuations of promises and FileReader, packets
  under way and queued events are taken eventually; the event loop justifies
  it.  Users and failures are not fair.
* `SessionService!FairSpec`: each request takes its next round trip, and the
  cleanup job runs: Node's event loop and the cron decorator justify it.  A
  request may also die at any await, which ends it.
* `Presence!FairSpec`: heartbeat timers fire, handlers take their next step, the
  ping timeout notices a dead socket, and time passes.  An interval does not end
  before the timers in it have fired and the handlers are idle: `setInterval` is
  punctual to the 20 seconds, and a round trip to Redis is far shorter.  Loading
  a page and connecting are not fair.
* `Handshake!FairSpec`: the whole of the gateway, browsers and socket clients
  does not stop while one of them has work, the weakest form that excludes a
  standstill.

* `Trickle!TFairSpec`: as `Handshake!FairSpec`, for the composition.  Nothing
  makes a browser find a candidate, or a page render for a reason outside the
  handshake.
* `SessionPages!FairSpec`: the interval of a query in a page that is open fires
  and its request is served, and of the answers of a query that is asked again
  and again not all are lost (strong fairness): each is retried twice and asked
  again after three seconds, as long as the tab is in the foreground.  Users and the calls that
  create and join are not fair.
* `Migrations!FairSpec`: a run goes on while Postgres lets it, and whoever deploys
  runs the migrations again when they failed.  Crashes are not fair.

## 5. Proofs

`SessionServiceProofs` proves, for any sets of sessions, codes, devices and
requests, type correctness, `UniqueActiveCode`, `ClaimExclusive`,
`WaitingUnclaimed`, `KeysTruthful` and that the service implements `Pairing`.
The invariants of the runs are not inductive, because a request acts on a row
it read earlier.  The inductive one adds what each request in flight knows:
`RowsWhole` (a row that exists has a code and a sender) and `AllInformed` (per
await, what the request has read and what is still true of it).  Codes stay
unique because `Insert` looks at the index in the same step; claims stay
exclusive because `Claim` looks at the row it writes.  `RequestsAreShort` bounds every
request by `2 * MaxAttempts + 4` round trips: each await has fewer before it than the
one it follows (`RoundsAt`), a retry takes an attempt, and no other request gives one
back.  What `RequestsEnd` needs besides is that round trips come back.

`FileTransferProofs` proves, for any queue of files, type correctness,
`SlicesLag` and that the transfer implements `Delivery`.
Its invariant has a part per page.  The sender's: a file not begun owns no
reader and no chunk; the owner of `bufferedamountlow` is begun; the active file
is unfinished; readers and the packets under way carry a slice no later than
their index.  The receiver's: what was stored was handed over under that
index; a verdict falls once; what was delivered passed the checksum.

Nine more theorems build on it.  `CancelledStaysQuiet` follows from it step by
step, and `CompletedIsSent` is inductive beside it.  The others look at all that is
under way as one sequence, `Wire`.  `ChunksInOrder` (`IndicesIncrease`): of two chunks
of a file the older has the smaller index (`InOrder`), which overlapping readers keep
because each takes its index when it sends.  `MetadataLeads`: whoever has a
`ChunkSender` is known to the receiver or announced under way, and each chunk comes
behind its METADATA (`SendersKnown`, `ChunksFollow`).  `LosesNothing`, of one file: what
the sender has passed is stored or under way (`Lossless`), since the receiver listens
from METADATA to the verdict (`LInv`).  `ReceiverCancelHolds`: a file is announced
once, and what the receiver shows as active is not cancelled (`AInv`).
`ResumeIsIdle` says why `V_PausedResumes` is violated, and that it is on every instance.
It assumes `StartsAtRest`, that Start is offered only before anything was sent, as the
send page does: then no sender is active while the page offers Resume
(`NothingToResume`).

`PumpNeverStops`, for any number of files, marks and events that wait: while the file
of the `ChunkSender` that set `onbufferedamountlow` last is being sent and not paused, it
has a reader, an event is queued, or more than the low mark is in the buffer, so that
draining it queues one.  Its hypotheses are `MarksApart` (the low mark is not above the
high one: 4 and 16 MB) and `NoResumeAfterFailure` (no Resume on a transfer that has
failed: the send page offers none).  The invariant, `PInv`, adds that the
active sender is that `ChunkSender` (`OwnerIsActive`), that the queue forgets no file while the
channel is open (`NoneAbsent`), and that the active file is shown as being sent, or as
failed by a page that shows the failure (`ActiveShown`).

`CompletedIsDecided`, of one file: what the sender shows as COMPLETED is under way, is
being verified, or has its verdict (`CompletedArrives`).  It joins `CompletedIsSent`,
`LosesNothing` and `VerdictStarted`: once the receiver holds all slices, the check that
all are there has begun the checksum.

`HandshakeProofs` proves, for any devices, sockets and number of faults, type
correctness and `KeptByMessages`.  The types are inductive by
themselves; `KeptByMessages` follows step by step from them: the only event
that ends a connection is an answer the browser refuses, and the state it sets
is not the one that starts a new connection.

While there was no fault, more can be said.  `MeetsBeforeOffering` (`OffersMeet`), for any
devices and sockets: a page has a connection or an offer, and a handler of one runs, only
when its socket is in the room beside another one (`Calm`).  The joins are the hard
part: a join that found the pair taken knows only what it read, and `PairHeld` says
that whoever wrote the pair is in the room and past writing it.  `PairsAtRest`, for
two pages (`TwoPages`) and any sockets: `PairedAtRest`.  Its invariant `Phased` is a
chain of nine phases, from `Opening` through `Joining`, `Announced`, `Offering`,
`Offered`, `Told`, `Applying` and `Answered` to `Connected`; each says which single
task, event or promise leads on, and which events may lie before and after it in
each inbox.  A step of the gateway or a page keeps the phase or goes to the next;
all phases but the first and the last leave something to do, so the system does
not rest in them.  `TakesTurns`, for two pages: `Handshake` implements `Handshaking`.  Each
phase fixes the state of the gateway and of both connections; of the tasks at the
gateway only the one the phase names writes the state (`WritesInTurn`), and an event
changes a connection only forward (`HandledPc`).  So `transitionState`, which reads and
writes in two round trips, makes no transition its table forbids until something fails.

`PresenceProofs` proves, for any tabs, sockets, faults and life of the key, type
correctness, `Remembered`, `NamesStored` and `NeverLapses`.  The first follows step by
step: a tab whose store holds a fingerprint draws none, and a tab that is loaded gets
the one of localStorage.  The second needs `Shown`, that a page says isReady only of
the fingerprint in its store.  The third needs
`LastsLong`, which counts what the key has left: all of its life but an interval
per fault, and one more while this interval's heartbeat is still to come.
`TakenOffByOthers` names the only other way to lose the key, as long as `NeverLapses`
keeps it from running out: a device in use and acknowledged is online, unless another
of its sockets has left and `trackOffline` deleted what both share (`OnlineOrOthersLeft`).

`TrickleProofs` proves, for any sockets, faults and candidates, type correctness
and `ImplementsHandshake`, and so carries `OffersMeet` and `KeptByMessages` over to
the composition.  A candidate makes a page render, and a render runs the effects
of the handshake; the proof needs `AllSettled`: every action that sets the store
has run the effects already, so a render with nothing new finds nothing to do.
That candidates are finitely many (`TInv`) is what bounds the next one's number.
`CandidatesCarried` proves `NoneLost`: until a fault, each candidate is on its way to,
stored by or given to the other page (`CarriedUntilFault`); the gateway finds
somebody to forward it to by `Calm`.  `TurnsHold` carries `PairedAtRest` and `Handshaking`
over as well.  `ReceiverTakesAll`, with any faults: a receiver whose connection is stable
has its remote description and no candidate left in its store (`TakenWhenConnected`),
because the event that makes it stable renders, and each candidate that arrives later
renders again.

`SessionPagesProofs` proves, for any tabs, devices, sessions and calls, type
correctness, `HeldIsOurs`, `NeverAhead` and `NeverBackOnOffer`.  The two ends of a
session never change and its status leaves WAITING once; so what a call, a store,
a poll or the cache was told stays true (`AllTold`), however late it is.
`NeverBackOnOffer` needs an order as well (`InOrder`): a query has one request
under way, so no old WAITING follows a newer answer; and that a device which
joined a session never had an answer that it waits, because it does not own it.

`MigrationsProofs` proves, for any number of runs and faults, type correctness,
`OnceInOrder`, `SchemaMatches` and `DoneIsDone`.  The inductive part is `Suffixes`:
what a run has still to do are the last files, from at most the first that is not
recorded; hence a run that may commit does that file, and one at most may.
`FailsOnlyBehind`: the SQL of a file fails, with nothing broken, only in a run behind
another one that has recorded the file; so a run that is alone, or is repeated after
the others, succeeds.

`PacketSerializerProofs` proves `RoundTrip`: any packet whose id has at most 36
ASCII characters and no white space at its ends, and whose numbers fit their bytes, is
read as it was written, with its payload.  What `trim` takes off is more than the
spaces `padEnd` adds (`White`): an id that ends in a tab does not come back as it
was; the ids of `crypto.randomUUID` have no white space.  `Fits` names what the callers owe; the same
statement is evaluated on numbers at the limits of their bytes by every run of
`MCFileTransfer`.

Assumptions are those named in the modules: the shape of the constants, and
`None` being none of the values it stands beside.

Every invariant and action property of a run is proved for all instances, those of
`FileTransferEnds` for a queue of one file, `PumpRuns`, `PairedAtRest` and
`ImplementsHandshaking` under the hypotheses named above.  Where a run
checks no type invariant, it was exchanged for a deeper property; `TypeCorrect` proves it
for all instances.  Only model-checked is liveness (`SenderEnds`, `ReceiverDecides`, `RequestsEnd`,
`OverdueCloses`, `Settles`, `Fades`, `ReceiverProcesses`, `SenderLearns`, `Migrated`),
which is out of the prover's reach.  Of several the part that is not about time is
proved: `PumpNeverStops` says that a sender that has not ended has something to do
(`SenderEnds`), `CompletedIsDecided` what a verdict waits for (`ReceiverDecides`),
`RequestsAreShort` that a request cannot go on forever (`RequestsEnd`), `ReceiverTakesAll`
that nothing is held back (`ReceiverProcesses`), `TakenOffByOthers` what can still
unsettle a device (`Settles`), `FailsOnlyBehind` that failing is never
in vain (`Migrated`).

## 6. What the model shows besides

Behaviour that follows from the code and that no run states.  Three of these the
repository contradicts:

* Two updates that read the same row: the second overwrites a terminal status
  (`session.service.ts`, 264), and a join that read an overdue row writes EXPIRED over
  JOINED or whatever else it is by then (154).  `session-state-machine.ts` says "Any
  transition not in this map is REJECTED" (12) and "Terminal states — no transitions
  out" (40); it is asked before the write and not by it.  `Pairing` leaves the states
  after the pairing open, so no run depends on it.
* With a reconnect that races the receiver's join, `transitionState` writes
  JOINED over PAIRING, which its table (`signaling.service.ts`, 8) does not permit.
  Undisturbed, two pages never bring that about (`TakesTurns`).
* Two tabs opened on a first visit draw a fingerprint each, and each writes its own
  over the other's whenever a component mounts; the one whose write came before the
  last is another device after it is loaded again.  `device.store.ts` (7-8) says that
  "the device is remembered across refreshes": `Remembered` holds of a browser whose
  open tabs agree.

Of the others it says nothing:

* An empty file is COMPLETED at the sender and never verified at the receiver:
  the check that all chunks are there runs when a chunk arrives.
* A cancel by the receiver sends nothing: the sender shows COMPLETED.
* An error of one file leaves the rest of the queue waiting.
* A joined session never expires, and PATCH accepts JOINED for a session nobody
  joined.
* Cleanup of an old session clears the device key of a newer one.
* A page that loses its socket while it is alone and joins again counts as the
  second participant: it receives PEER_JOINED, offers to an empty room, and the
  receiver that comes later is refused.
* A page that joins again after DISCONNECTED is refused by the table.
* `trackOffline` of one socket deletes `peer:device` of another one of the same
  device, and no heartbeat restores it; a join overtaken by its own disconnect
  leaves the mapping of a dead socket.
* `updateLastSeen` is given a fingerprint where it expects the id of a row, and
  touches nothing.
* With such a reconnect and two failed connections, the receiver answers its old offer
  again and the sender applies that answer to a newer offer.

* Resume after a failure, which the send page does not offer but `useTransfer` permits,
  shows SENDING with nothing under way: the failed ChunkSender is not paused, so its
  `resume` does nothing (`chunk-sender.ts`, 67).  A ChunkSender whose
  `onbufferedamountlow` was taken over by another file's waits with nobody to wake it (43).
* A file cancelled while its checksum is computed is announced and sent all the
  same: the continuation does not look at its status again
  (`queue-manager.ts`, 67 and 187).
* A second reader sends one chunk too many, and the overall progress passes
  100 % (`chunk-sender.ts`, 43; `transfer.store.ts`, 22).
* `setError(null)` puts the status of the session store back to idle, and both
  calls do it right after `setStatus('creating')` or `('joining')`: the buttons
  are never off, and two clicks are two calls (`session.store.ts`, 75).
* An answer that comes after a reset, or on another page, sets its session in the
  store all the same; "Cancel Session" tells the service nothing.
* The receive page looks for the polled status in `sessionDetail.session.status`,
  which the service does not send: it shows the status it joined with.
* The poll goes on after the session has ended.
* Candidates that overtook the answer stay in the sender's store until something
  renders: PEER_CONNECTED renders before `setRemoteDescription` of the answer is
  done.  Candidates stay in the store over `cleanup`.
* The names of chosen files are in the store, the files in the state of the send
  page: back and forward keeps the first and loses the second.

## 7. Not modelled

Several API processes.  `main.ts` installs the Redis adapter of Socket.IO, with which
processes may share a session, and `docker-compose.yml` and `nginx.conf` deploy one.
With several, `handleJoinSession` counts the sockets of its own process only
(`signaling.gateway.ts`, 72): a third socket is let in, and events of different
processes overtake each other.  Nothing here holds of that.

Speed, ETA and other displayed figures, SHA-256, the browser's and Socket.IO's
internals, rendering, REST validation and formatting, audit rows, infrastructure.
Rows of devices have one writer, an upsert in one statement.  The list of chosen
files, and the buttons of the test page that make offers and answers by hand.
Reconnection of the Redis and Postgres clients: a query that fails is a fault of
the service that made it.

The handlers of one socket are bounded: one offer and one answer under way at a
time.  Messages of one socket may be handled in any order, which the awaits of
the handlers allow in any case.

## 8. Plan

1. `SessionPages` composed with `Handshake`: the page that joins a session by REST
   and its room by socket.
2. A measure for the sending page, as `RoundsLeft` is for requests: `PumpNeverStops`
   says that something is under way, `IndicesIncrease` that each index leaves once;
   together they bound what a file takes.
3. The phases with a third page that is refused at the door.  `TwoPages` is needed as
   it stands: two receivers that come before the sender fill the room, and the
   handshake does not begin.
4. For `Presence`, the part of `Fades` that is not about time.
