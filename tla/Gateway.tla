------------------------------- MODULE Gateway -------------------------------
(***************************************************************************)
(* The signaling gateway of the API for one session: the Socket.IO room, the *)
(* connection state and the peer pair kept in Redis, and the message          *)
(* handlers that read and write them.  Handlers of all sockets interleave at  *)
(* every await; one action is one handler's run from an await to the next.    *)
(*                                                                          *)
(* There is one API process, as docker-compose.yml and nginx.conf deploy it.   *)
(* The Redis adapter of main.ts would let several share a session: each would  *)
(* then look only at its own sockets of the room (signaling.gateway.ts:72), and *)
(* events of different processes would overtake each other.  Neither is         *)
(* modelled.                                                                *)
(*                                                                          *)
(* A socket has two ends: the page's may be gone (live) before the server     *)
(* notices (linked).  What is emitted to a socket without both is lost.       *)
(* Presence keys and the audit log are written here and never read back; the  *)
(* awaits spent on them are part of the step that follows.                   *)
(***************************************************************************)
EXTENDS Naturals, Sequences, FiniteSets

CONSTANTS
    Socket,      \* bound: sockets opened during the session
    Device,
    DeviceOf,    \* the device that opens a socket
    MaxFaults,   \* bound: faults of all kinds, see Fault
    None

ASSUME GatewayAssumption ==
    /\ DeviceOf \in [Socket -> Device]
    /\ MaxFaults \in Nat
    /\ None \notin Device

WebRtcState == {"WAITING", "JOINED", "PAIRING", "NEGOTIATING",
                "CONNECTED", "DISCONNECTED", "FAILED"}

ValidNext ==
    [s \in WebRtcState |->
        CASE s = "WAITING"      -> {"JOINED", "FAILED"}
          [] s = "JOINED"       -> {"PAIRING", "FAILED"}
          [] s = "PAIRING"      -> {"NEGOTIATING", "FAILED"}
          [] s = "NEGOTIATING"  -> {"CONNECTED", "FAILED"}
          [] s = "CONNECTED"    -> {"DISCONNECTED", "FAILED"}
          [] s = "DISCONNECTED" -> {"NEGOTIATING", "FAILED"}
          [] s = "FAILED"       -> {"NEGOTIATING"}]

Handler == {"join", "offer", "answer", "leave", "disconnect"}
Event   == {"SESSION_CREATED", "PEER_JOINED", "OFFER_RECEIVED", "ANSWER_RECEIVED",
            "PEER_CONNECTED", "PEER_DISCONNECTED", "ERROR"}

VARIABLES
    live,     \* sockets whose page still uses them
    linked,   \* sockets the server holds to be connected
    bound,    \* sockets whose client.data names the session and a device
    room,     \* members of room:session:<id>
    conn,     \* connection:state:<id>; a missing key counts as WAITING
    pair,     \* session:sockets:<id>
    task,     \* task[<<k, h>>]: the handler h of socket k
    inbox,    \* events on their way to the page of each socket
    faults    \* faults that happened so far

gatewayVars == <<live, linked, bound, room, conn, pair, task, inbox, faults>>

(* What a handler has read, and where it stands.  n is the payload, the number  *)
(* of the peer connection an offer or an answer belongs to.                    *)
Point == {"idle", "sent", "validate", "pair", "merge", "save", "offline", "read", "write"}
Pair  == [sender: Device \cup {None}, receiver: Device \cup {None}]
NoPair == [sender |-> None, receiver |-> None]
Task  == [at: Point, to: WebRtcState, seen: Pair, n: Nat]
Idle  == [at |-> "idle", to |-> "WAITING", seen |-> NoPair, n |-> 0]
Message == [type: Event, n: Nat]
Says(type) == [type |-> type, n |-> 0]

GatewayTypeOK ==
    /\ live \subseteq Socket
    /\ linked \subseteq Socket
    /\ bound \subseteq Socket
    /\ room \subseteq Socket
    /\ conn \in WebRtcState
    /\ pair \in Pair
    /\ task \in [Socket \X Handler -> Task]
    /\ inbox \in [Socket -> Seq(Message)]
    /\ faults \in 0..MaxFaults

GatewayInit ==
    /\ live = {} /\ linked = {} /\ bound = {} /\ room = {}
    /\ conn = "WAITING"
    /\ pair = NoPair
    /\ task = [t \in Socket \X Handler |-> Idle]
    /\ inbox = [k \in Socket |-> <<>>]
    /\ faults = 0

-------------------------------------------------------------------------------
At(k, h, p)   == task[<<k, h>>].at = p
Goto(k, h, p) == task' = [task EXCEPT ![<<k, h>>].at = p]
End(k, h)     == task' = [task EXCEPT ![<<k, h>>] = Idle]

(* Start transitionState(session, to).                                        *)
Transition(k, h, to) ==
    task' = [task EXCEPT ![<<k, h>>].at = "read", ![<<k, h>>].to = to]

(* emit: to one socket, to the room, to the room but the sender itself; more    *)
(* than one event is given as the sequence each socket gets.                   *)
Post(events(_)) ==
    inbox' = [k \in Socket |-> IF k \in live \cap linked THEN inbox[k] \o events(k) ELSE <<>>]
ToOne(k, msgs)    == LET E(j) == IF j = k THEN msgs ELSE <<>> IN Post(E)
ToOthers(k, msgs) == LET E(j) == IF j \in room \ {k} THEN msgs ELSE <<>> IN Post(E)

keysKept  == UNCHANGED <<conn, pair, faults>>

(* A round trip to Redis or Postgres that fails, a socket that drops, a page     *)
(* that quits, a peer connection that fails.                                   *)
Fault == faults < MaxFaults /\ faults' = faults + 1
linksKept == UNCHANGED <<live, linked, bound, room>>

(* A page's message.  Its handler is in front of its first await: that the       *)
(* message is still on its way makes no difference there, but the leave handler   *)
(* acts as soon as it arrives.                                                 *)
First(h) ==
    CASE h = "join"   -> [Idle EXCEPT !.at = "validate"]
      [] h = "offer"  -> [Idle EXCEPT !.at = "read", !.to = "NEGOTIATING"]
      [] h = "answer" -> [Idle EXCEPT !.at = "read", !.to = "CONNECTED"]
      [] h = "leave"  -> [Idle EXCEPT !.at = "sent"]
Send(k, h, n) == task' = [task EXCEPT ![<<k, h>>] = [First(h) EXCEPT !.n = n]]

Leave(k) ==
    /\ At(k, "leave", "sent")
    /\ k \in linked
    /\ room' = room \ {k}
    /\ ToOthers(k, <<Says("PEER_DISCONNECTED")>>)
    /\ Transition(k, "leave", "FAILED")
    /\ UNCHANGED <<live, linked, bound>> /\ keysKept

-------------------------------------------------------------------------------
(* handleJoinSession                                                          *)

(* The room as this process knows it: with several, each would count its own.    *)
RoomHasSpace == Cardinality(room) < 2

(* The session row was read: enter the room unless it is full.  A socket that   *)
(* is gone by now does not enter it, the handler goes on all the same.         *)
Enter(k) ==
    /\ At(k, "join", "validate")
    /\ \/ /\ RoomHasSpace
          /\ bound' = bound \cup {k}
          /\ room' = IF k \in linked THEN room \cup {k} ELSE room
          /\ Goto(k, "join", "pair")
          /\ UNCHANGED inbox
       \/ /\ ~RoomHasSpace
          /\ ToOne(k, <<Says("ERROR")>>)
          /\ End(k, "join")
          /\ UNCHANGED <<bound, room>>
    /\ UNCHANGED <<live, linked>> /\ keysKept

(* getPeerPair                                                                *)
GetPair(k) ==
    /\ At(k, "join", "pair")
    /\ task' = [task EXCEPT ![<<k, "join">>].at = "merge", ![<<k, "join">>].seen = pair]
    /\ UNCHANGED inbox /\ linksKept /\ keysKept

IsFirstSwapped(k) == task[<<k, "join">>].seen.sender # None   \* mutant: the ! is missing
IsFirst(k) == task[<<k, "join">>].seen.sender = None

(* savePeerPair reads the pair again and writes the merged one back; the branch *)
(* was taken on the pair as it was read first.                                 *)
WithPeerSocket(p, first, k) ==           \* mutant: the socket's id for the device's
    IF first THEN [p EXCEPT !.sender = k] ELSE [p EXCEPT !.receiver = k]
WithPeer(p, first, k) ==
    IF first THEN [p EXCEPT !.sender = DeviceOf[k]] ELSE [p EXCEPT !.receiver = DeviceOf[k]]

MergePair(k) ==
    /\ At(k, "join", "merge")
    /\ task' = [task EXCEPT ![<<k, "join">>].at = "save",
                            ![<<k, "join">>].seen = WithPeer(pair, IsFirst(k), k),
                            ![<<k, "join">>].to = IF IsFirst(k) THEN "WAITING" ELSE "JOINED"]
    /\ UNCHANGED inbox /\ linksKept /\ keysKept

SavePair(k) ==
    /\ At(k, "join", "save")
    /\ pair' = task[<<k, "join">>].seen
    /\ Goto(k, "join", "read")
    /\ UNCHANGED <<conn, inbox, faults>> /\ linksKept

-------------------------------------------------------------------------------
(* handleDisconnect, once the presence keys are deleted.                       *)
Offline(k) ==
    /\ At(k, "disconnect", "offline")
    /\ ToOthers(k, <<Says("PEER_DISCONNECTED")>>)
    /\ Transition(k, "disconnect", "DISCONNECTED")
    /\ linksKept /\ keysKept

-------------------------------------------------------------------------------
(* What the handler h of k does once its transition to s went through: a join   *)
(* that came second makes two.                                                *)
Done(k, h, s) ==
    LET n == task[<<k, h>>].n IN
    \/ /\ h = "join" /\ s = "JOINED"
       /\ Transition(k, h, "PAIRING")
       /\ UNCHANGED inbox
    \/ /\ h = "join" /\ s # "JOINED"
       /\ LET created == IF k \in live THEN <<Says("SESSION_CREATED")>> ELSE <<>>
              E(j) == (IF s = "PAIRING" /\ j \in room THEN <<Says("PEER_JOINED")>> ELSE <<>>)
                        \o (IF j = k THEN created ELSE <<>>)
          IN Post(E)
       /\ End(k, h)
    \/ /\ h = "offer"
       /\ ToOthers(k, <<[type |-> "OFFER_RECEIVED", n |-> n]>>)
       /\ End(k, h)
    \/ /\ h = "answer"
       /\ LET E(j) == IF j \notin room THEN <<>>
                      ELSE (IF j = k THEN <<>> ELSE <<[type |-> "ANSWER_RECEIVED", n |-> n]>>)
                              \o <<Says("PEER_CONNECTED")>>
          IN Post(E)
       /\ End(k, h)
    \/ /\ h \in {"leave", "disconnect"}
       /\ UNCHANGED inbox
       /\ End(k, h)

(* An invalid transition, or a failed round trip: join, offer and answer tell   *)
(* their own page, disconnect is silent, leave reports to nobody who listens.   *)
Refuse(k, h) ==
    /\ \/ h \in {"join", "offer", "answer"} /\ ToOne(k, <<Says("ERROR")>>)
       \/ h \in {"leave", "disconnect"} /\ UNCHANGED inbox
    /\ End(k, h)

PermitsAny(from, to) == TRUE             \* mutant: the table is not looked at
Permits(from, to)    == to \in ValidNext[from]

(* transitionState: the state is read, and written in another round trip.      *)
ReadState(k, h) ==
    LET s == task[<<k, h>>].to IN
    /\ At(k, h, "read")
    /\ \/ conn = s /\ Done(k, h, s)
       \/ conn # s /\ Permits(conn, s) /\ Goto(k, h, "write") /\ UNCHANGED inbox
       \/ conn # s /\ ~Permits(conn, s) /\ Refuse(k, h)
    /\ linksKept /\ keysKept

WriteState(k, h) ==
    LET s == task[<<k, h>>].to IN
    /\ At(k, h, "write")
    /\ conn' = s
    /\ Done(k, h, s)
    /\ UNCHANGED <<pair, faults>> /\ linksKept

(* A round trip fails: its effect may be there or not.  A session that is not   *)
(* found or past its time fails a join in the same way.                        *)
Fail(k, h) ==
    LET t == task[<<k, h>>] IN
    /\ t.at \notin {"idle", "sent"}
    /\ Fault
    /\ conn' \in {conn} \cup {s \in {t.to} : t.at = "write"}
    /\ pair' \in {pair} \cup {p \in {t.seen} : t.at = "save"}
    /\ Refuse(k, h)
    /\ linksKept

-------------------------------------------------------------------------------
(* The server notices that the page's end is gone: the socket leaves its room,  *)
(* messages that were still on their way are lost, and handleDisconnect runs if   *)
(* the socket was bound.                                                       *)
OnItsWay(t) == task[t] = [First(t[2]) EXCEPT !.n = task[t].n]

Detect(k) ==
    /\ k \in linked \ live
    /\ linked' = linked \ {k}
    /\ room' = room \ {k}
    /\ \E lost \in SUBSET {h \in Handler \ {"disconnect"} : OnItsWay(<<k, h>>)} :
          /\ task[<<k, "leave">>].at = "sent" => "leave" \in lost
          /\ task' = [t \in Socket \X Handler |->
                        IF t = <<k, "disconnect">> /\ k \in bound
                        THEN [Idle EXCEPT !.at = "offline"]
                        ELSE IF t[1] = k /\ t[2] \in lost THEN Idle
                        ELSE task[t]]
    /\ UNCHANGED <<live, bound, inbox>> /\ keysKept

GatewayStep(k) ==
    \/ \E h \in Handler : ReadState(k, h) \/ WriteState(k, h)
    \/ Enter(k) \/ GetPair(k) \/ MergePair(k) \/ SavePair(k)
    \/ Leave(k) \/ Offline(k) \/ Detect(k)
===============================================================================
