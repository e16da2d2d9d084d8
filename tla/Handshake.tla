------------------------------ MODULE Handshake ------------------------------
(***************************************************************************)
(* The pages of one session and the gateway between them: the signaling       *)
(* socket with its reconnects, the store that follows the gateway's events,   *)
(* and the effects of useWebRtcSession that make, answer and give up peer      *)
(* connections.                                                             *)
(*                                                                          *)
(* React runs the effects after every render, and every event renders: their  *)
(* dependencies hold objects that are new each time.  So an event and the      *)
(* effects that follow it are one action.  Offers are numbered; an answer      *)
(* bears the number of the offer it answers.                                  *)
(***************************************************************************)
EXTENDS Gateway

CONSTANTS
    Sender       \* the device whose page has the role of the sender

ASSUME HandshakeAssumption ==
    /\ Sender \in Device
    /\ None \notin Socket

VARIABLES
    page,        \* page[d]: the page of device d
    opened       \* sockets opened so far

vars == <<gatewayVars, page, opened>>

(* state: connectionState of the store.  offer: the offer in the store, 0 for   *)
(* none.  pc: the connection, which is for offer number num; with: the answer    *)
(* it was given.  held[h]: the signal the socket client keeps   *)
(* until it is connected again, 0 for none.                                    *)
Page == [open: BOOLEAN, sock: Socket \cup {None}, state: WebRtcState, offer: Nat,
         pc: {"none", "offering", "offered", "applying", "stable"},
         num: Nat, with: Nat, held: [{"offer", "answer"} -> Nat]]

NoneHeld == [h \in {"offer", "answer"} |-> 0]
FreshPage == [open |-> TRUE, sock |-> None, state |-> "WAITING", offer |-> 0,
              pc |-> "none", num |-> 0, with |-> 0,
              held |-> NoneHeld]

Init == GatewayInit /\ page = [d \in Device |-> FreshPage] /\ opened = {}

TypeOK == GatewayTypeOK /\ page \in [Device -> Page] /\ opened \subseteq Socket

-------------------------------------------------------------------------------
(* The effects                                                                *)

NewPc(p, n) == [p EXCEPT !.num = n, !.with = 0]

WantsPcAnew(p) == TRUE                  \* mutant: a connection under way is not looked for
WantsPc(p)    == p.pc = "none"

Effects(d, p) ==
    CASE WantsPc(p) /\ d = Sender /\ p.state = "PAIRING" ->
            [NewPc(p, p.num + 1) EXCEPT !.pc = "offering"]
      [] WantsPc(p) /\ d # Sender /\ p.offer # 0 ->
            [NewPc(p, p.offer) EXCEPT !.pc = "applying"]
      [] OTHER -> p

(* setRemoteDescription of the answer, unless there is one: the browser refuses  *)
(* it before the offer is in place, and the page then gives the connection up.   *)
TakesNoAnswer(d, p) == FALSE            \* mutant: the answer stays in the store
TakesAnswer(d, p) == d = Sender /\ p.pc # "none" /\ p.with = 0

GiveAnswer(d, p, n) ==
    CASE TakesAnswer(d, p) /\ p.pc = "offering" -> [p EXCEPT !.pc = "none"]
      [] TakesAnswer(d, p) /\ p.pc # "offering" -> [p EXCEPT !.pc = "stable", !.with = n]
      [] OTHER -> p

(* The handlers of the socket's events                                        *)
After(d, p, m) ==
    CASE m.type = "SESSION_CREATED"   -> [p EXCEPT !.state = "WAITING"]
      [] m.type = "PEER_JOINED"       -> [p EXCEPT !.state = "PAIRING"]
      [] m.type = "OFFER_RECEIVED"    -> [p EXCEPT !.state = "NEGOTIATING", !.offer = m.n]
      [] m.type = "ANSWER_RECEIVED"   -> [GiveAnswer(d, p, m.n) EXCEPT !.state = "CONNECTED"]
      [] m.type = "PEER_CONNECTED"    -> [p EXCEPT !.state = "CONNECTED"]
      [] m.type = "PEER_DISCONNECTED" -> [p EXCEPT !.state = "DISCONNECTED"]
      [] m.type = "ERROR"             -> p

Handle(d) ==
    LET k == page[d].sock IN
    /\ k # None
    /\ inbox[k] # <<>>
    /\ page' = [page EXCEPT ![d] = Effects(d, After(d, page[d], Head(inbox[k])))]
    /\ inbox' = [inbox EXCEPT ![k] = Tail(@)]
    /\ UNCHANGED <<opened, task>> /\ linksKept /\ keysKept

-------------------------------------------------------------------------------
(* A signal goes out on the socket, or waits for the next one.  Bound: a page    *)
(* has one offer and one answer under way on a socket, and holds one of each.   *)
Signal(d, h, p) ==
    \/ /\ p.sock # None
       /\ At(p.sock, h, "idle")
       /\ Send(p.sock, h, p.num)
       /\ page' = [page EXCEPT ![d] = p]
    \/ /\ p.sock = None
       /\ p.held[h] = 0
       /\ page' = [page EXCEPT ![d] = [p EXCEPT !.held[h] = p.num]]
       /\ UNCHANGED task

(* The promises of the sender's effect, and of the receiver's                  *)
OfferReady(d) ==
    /\ page[d].pc = "offering"
    /\ Signal(d, "offer", [page[d] EXCEPT !.pc = "offered", !.state = "NEGOTIATING"])
    /\ UNCHANGED <<inbox, opened>> /\ linksKept /\ keysKept

AnswerReady(d) ==
    /\ page[d].pc = "applying"
    /\ Signal(d, "answer", [page[d] EXCEPT !.pc = "stable", !.state = "CONNECTED"])
    /\ UNCHANGED <<inbox, opened>> /\ linksKept /\ keysKept

(* A promise is rejected, the connection fails or its channel closes: cleanup,   *)
(* which renders.                                                             *)
PcFails(d) ==
    /\ page[d].pc \in {"offering", "applying", "stable"}
    /\ Fault
    /\ page' = [page EXCEPT ![d] = Effects(d, [page[d] EXCEPT !.pc = "none"])]
    /\ UNCHANGED <<task, inbox, opened, conn, pair>> /\ linksKept

-------------------------------------------------------------------------------
(* The socket connects, for the first time or again: the client sends what it    *)
(* held back and joins.                                                        *)
Waiting(p, h) == IF h \in {"offer", "answer"} THEN p.held[h] ELSE 0

Connect(d, k) ==
    /\ page[d].open /\ page[d].sock = None
    /\ k \notin opened /\ DeviceOf[k] = d
    /\ opened' = opened \cup {k}
    /\ live' = live \cup {k}
    /\ linked' = linked \cup {k}
    /\ task' = [t \in Socket \X Handler |->
                  LET n == Waiting(page[d], t[2]) IN
                  IF t[1] = k /\ (t[2] = "join" \/ n # 0)
                  THEN [First(t[2]) EXCEPT !.n = n]
                  ELSE task[t]]
    /\ page' = [page EXCEPT ![d].sock = k, ![d].held = NoneHeld]
    /\ UNCHANGED <<bound, room, inbox>> /\ keysKept

Unplug(d) ==
    /\ live' = live \ {page[d].sock}
    /\ inbox' = [k \in Socket |-> IF k = page[d].sock THEN <<>> ELSE inbox[k]]
    /\ Fault
    /\ UNCHANGED <<linked, bound, room, opened, conn, pair>>

Drop(d) ==
    /\ page[d].sock # None
    /\ page' = [page EXCEPT ![d].sock = None]
    /\ Unplug(d) /\ UNCHANGED task

(* The page is reset or closed; the test page says so first.                    *)
Quit(d) ==
    /\ page[d].open
    /\ page' = [page EXCEPT ![d] = [FreshPage EXCEPT !.open = FALSE]]
    /\ Unplug(d)
    /\ \/ UNCHANGED task
       \/ page[d].sock # None /\ Send(page[d].sock, "leave", 0)

-------------------------------------------------------------------------------
Progress ==
    \/ \E k \in Socket : GatewayStep(k) /\ UNCHANGED <<page, opened>>
    \/ \E d \in Device :
          \/ Handle(d) \/ OfferReady(d) \/ AnswerReady(d)
          \/ \E k \in Socket : Connect(d, k)

Disturbance ==
    \/ \E k \in Socket, h \in Handler : Fail(k, h) /\ UNCHANGED <<page, opened>>
    \/ \E d \in Device : PcFails(d) \/ Drop(d) \/ Quit(d)

Next == Progress \/ Disturbance

Spec == Init /\ [][Next]_vars

(* The process runs its continuations and its ping timeouts, browsers deliver    *)
(* events and settle promises, and the socket client connects while it has        *)
(* attempts left: together they do not stop while one of them has work.  Nothing   *)
(* makes a round trip or a connection fail, a socket drop or a user quit.        *)
FairSpec == Spec /\ WF_vars(Progress)

-------------------------------------------------------------------------------
(* OffersMeet: while nothing goes wrong, a page makes or is offered a connection    *)
(* only when its socket shares the room with another one.  The gateway counts a     *)
(* second participant by a pair in Redis, not by the room, and joins interleave      *)
(* between the two (gateway, 71-114): no offer goes out to an empty room.            *)
OffersMeet ==
    faults = 0 =>
        \A d \in Device : page[d].pc # "none" \/ page[d].offer # 0 =>
            page[d].sock \in room /\ \E j \in room : j # page[d].sock

(* PairedAtRest: once a second join was counted and nothing went wrong, the       *)
(* system comes to rest only with both connections described on both sides, and    *)
(* the gateway and both pages agree that they are connected, whatever the order    *)
(* in which the handlers and the events of the two pages were run.               *)
Resting ==
    /\ \A t \in Socket \X Handler : task[t].at = "idle"
    /\ \A k \in Socket : inbox[k] = <<>>
    /\ \A d \in Device : page[d].sock # None /\ page[d].pc \notin {"offering", "applying"}

PairedAtRest ==
    Resting /\ faults = 0 /\ conn # "WAITING" =>
        /\ conn = "CONNECTED"
        /\ \A d \in Device : page[d].pc = "stable" /\ page[d].state = "CONNECTED"

(* KeptByMessages: no event, late or repeated, replaces a connection that is      *)
(* being made or is up; only its own failure does (use-webrtc-session, 61 and 92). *)
KeptByMessages ==
    [][ \A d \in Device :
          /\ page'[d].pc \in {"offering", "applying"}
          /\ <<page'[d].pc, page'[d].num>> # <<page[d].pc, page[d].num>>
          /\ page[d].pc # "none"
          => inbox' = inbox ]_vars

(* ImplementsHandshaking: while nothing goes wrong the gateway and the two pages    *)
(* take the turns of Handshaking, each once and in order.  So connection:state     *)
(* changes only as its table permits, though handlers read it and write it in two   *)
(* round trips (signaling.service.ts, 60), and no page goes back.                *)
Receiver == CHOOSE d \in Device : d # Sender

H == INSTANCE Handshaking WITH
        gateway <- conn, offerer <- page[Sender].pc, answerer <- page[Receiver].pc,
        disturbed <- faults # 0

ImplementsHandshaking == H!HSpec

(* HandshakeStarts, which the code does not keep: with both pages in the room and  *)
(* nothing going wrong, the sender makes a connection (use-webrtc-session, 58).    *)
(* Two joins that both read the pair before either saved it are both the first.    *)
HandshakeStarts ==
    (\A d \in Device : page[d].sock \in room) ~> (page[Sender].pc # "none" \/ faults > 0)
===============================================================================
