--------------------------- MODULE HandshakeProofs ---------------------------
(***************************************************************************)
(* Theorems about Handshake: it keeps its types; no event replaces a             *)
(* connection; the room of a session never holds more than two sockets, which    *)
(* is inductive by itself once the set is known to be finite.                  *)
(*                                                                          *)
(* While nothing goes wrong, more holds.  Calm: a page has a connection or an     *)
(* offer only beside another socket in the room.  Phased: the handshake of two     *)
(* pages is in one of nine phases, each of which leaves exactly one thing to do     *)
(* for the next.  So the handshake rests before its second join, or connected.    *)
(***************************************************************************)
EXTENDS Handshake, FiniteSetTheorems, TLAPS

(* What a handler's step does to the tasks and the inboxes                    *)

LEMMA TaskTypes ==
    ASSUME task \in [Socket \X Handler -> Task], NEW k \in Socket, NEW h \in Handler
    PROVE  /\ \A p \in Point : Goto(k, h, p) => task' \in [Socket \X Handler -> Task]
           /\ \A s \in WebRtcState : Transition(k, h, s) => task' \in [Socket \X Handler -> Task]
           /\ End(k, h) => task' \in [Socket \X Handler -> Task]
           /\ task[<<k, h>>] \in Task
<1>1. task[<<k, h>>] \in Task
  OBVIOUS
<1>2. ASSUME NEW p \in Point, Goto(k, h, p) PROVE task' \in [Socket \X Handler -> Task]
  <2>1. [task[<<k, h>>] EXCEPT !.at = p] \in Task
    BY <1>1 DEF Task
  <2> QED
    BY <1>2, <2>1 DEF Goto
<1>3. ASSUME NEW s \in WebRtcState, Transition(k, h, s) PROVE task' \in [Socket \X Handler -> Task]
  <2>1. [[task[<<k, h>>] EXCEPT !.at = "read"] EXCEPT !.to = s] \in Task
    BY <1>1 DEF Task, Point
  <2>2. \A j \in Socket \X Handler : task'[j] \in Task
    BY <1>3, <2>1 DEF Transition
  <2> QED
    BY <1>3, <2>2 DEF Transition
<1>4. Idle \in Task
  BY GatewayAssumption DEF Idle, Task, Point, WebRtcState, NoPair, Pair
<1>5. End(k, h) => task' \in [Socket \X Handler -> Task]
  BY <1>4 DEF End
<1> QED
  BY <1>1, <1>2, <1>3, <1>5

LEMMA PostTypes ==
    ASSUME inbox \in [Socket -> Seq(Message)], NEW msgs \in Seq(Message), NEW k
    PROVE  /\ ToOne(k, msgs) => inbox' \in [Socket -> Seq(Message)]
           /\ ToOthers(k, msgs) => inbox' \in [Socket -> Seq(Message)]
<1>0. <<>> \in Seq(Message)
  OBVIOUS
<1>1. \A j \in Socket : inbox[j] \o msgs \in Seq(Message) /\ inbox[j] \o <<>> \in Seq(Message)
  OBVIOUS
<1>2. ToOne(k, msgs) => inbox' \in [Socket -> Seq(Message)]
  BY <1>0, <1>1 DEF ToOne, Post
<1>3. ToOthers(k, msgs) => inbox' \in [Socket -> Seq(Message)]
  BY <1>0, <1>1 DEF ToOthers, Post
<1> QED
  BY <1>2, <1>3

LEMMA SaysTypes ==
    /\ \A t \in Event : Says(t) \in Message /\ <<Says(t)>> \in Seq(Message)
    /\ \A t \in Event, n \in Nat : /\ [type |-> t, n |-> n] \in Message
                               /\ <<[type |-> t, n |-> n]>> \in Seq(Message)
BY DEF Says, Message

LEMMA DoneTypes ==
    ASSUME GatewayTypeOK, NEW k \in Socket, NEW h \in Handler, NEW s \in WebRtcState, Done(k, h, s)
    PROVE  task' \in [Socket \X Handler -> Task] /\ inbox' \in [Socket -> Seq(Message)]
<1> USE DEF GatewayTypeOK
<1> DEFINE n == task[<<k, h>>].n
<1>0. n \in Nat
  BY TaskTypes DEF Task
<1>1. CASE h = "join" /\ s = "JOINED" /\ Transition(k, h, "PAIRING") /\ UNCHANGED inbox
  BY <1>1, TaskTypes DEF WebRtcState
<1>2. CASE h = "join" /\ s # "JOINED"
  <2> DEFINE created == IF k \in live THEN <<Says("SESSION_CREATED")>> ELSE <<>>
             E(j) == (IF s = "PAIRING" /\ j \in room THEN <<Says("PEER_JOINED")>> ELSE <<>>)
                        \o (IF j = k THEN created ELSE <<>>)
  <2>1. Post(E) /\ End(k, h)
    BY <1>2 DEF Done
  <2>2. \A j \in Socket : E(j) \in Seq(Message)
    BY SaysTypes DEF Event
  <2>3. \A j \in Socket : inbox[j] \o E(j) \in Seq(Message)
    <3> HIDE DEF E
    <3> QED BY <2>2
  <2>4. inbox' \in [Socket -> Seq(Message)]
    <3> inbox' = [j \in Socket |-> IF j \in live \cap linked THEN inbox[j] \o E(j) ELSE <<>>]
      BY <2>1 DEF Post
    <3> HIDE DEF E
    <3> QED BY <2>3
  <2> QED
    BY <2>1, <2>4, TaskTypes
<1>3. CASE h = "offer"
  <2>1. ToOthers(k, <<[type |-> "OFFER_RECEIVED", n |-> n]>>) /\ End(k, h)
    BY <1>3 DEF Done
  <2>2. <<[type |-> "OFFER_RECEIVED", n |-> n]>> \in Seq(Message)
    BY <1>0, SaysTypes DEF Event
  <2> QED
    BY <2>1, <2>2, TaskTypes, PostTypes
<1>4. CASE h = "answer"
  <2> DEFINE E(j) == IF j \notin room THEN <<>>
                      ELSE (IF j = k THEN <<>> ELSE <<[type |-> "ANSWER_RECEIVED", n |-> n]>>)
                              \o <<Says("PEER_CONNECTED")>>
  <2>1. Post(E) /\ End(k, h)
    BY <1>4 DEF Done
  <2>2. \A j \in Socket : E(j) \in Seq(Message)
    BY <1>0, SaysTypes DEF Event
  <2>3. \A j \in Socket : inbox[j] \o E(j) \in Seq(Message)
    <3> HIDE DEF E
    <3> QED BY <2>2
  <2>4. inbox' \in [Socket -> Seq(Message)]
    <3> inbox' = [j \in Socket |-> IF j \in live \cap linked THEN inbox[j] \o E(j) ELSE <<>>]
      BY <2>1 DEF Post
    <3> HIDE DEF E
    <3> QED BY <2>3
  <2> QED
    BY <2>1, <2>4, TaskTypes
<1>5. CASE h \in {"leave", "disconnect"} /\ UNCHANGED inbox /\ End(k, h)
  BY <1>5, TaskTypes
<1> QED
  BY <1>1, <1>2, <1>3, <1>4, <1>5 DEF Done

LEMMA RefuseTypes ==
    ASSUME GatewayTypeOK, NEW k \in Socket, NEW h \in Handler, Refuse(k, h)
    PROVE  task' \in [Socket \X Handler -> Task] /\ inbox' \in [Socket -> Seq(Message)]
<1>1. task' \in [Socket \X Handler -> Task]
  BY TaskTypes DEF GatewayTypeOK, Refuse
<1>2. CASE ToOne(k, <<Says("ERROR")>>)
  BY <1>1, <1>2, SaysTypes, PostTypes DEF GatewayTypeOK, Event
<1>3. CASE UNCHANGED inbox
  BY <1>1, <1>3 DEF GatewayTypeOK
<1> QED
  BY <1>2, <1>3 DEF Refuse

(* One lemma per group of actions                                             *)

LEMMA GatewayKeeps ==
    ASSUME GatewayTypeOK, NEW k \in Socket, GatewayStep(k)
    PROVE  GatewayTypeOK'
<1> USE DEF GatewayTypeOK
<1>1. ASSUME NEW h \in Handler, ReadState(k, h) PROVE GatewayTypeOK'
  <2> DEFINE s == task[<<k, h>>].to
  <2>1. s \in WebRtcState
    BY TaskTypes DEF Task
  <2>2. task' \in [Socket \X Handler -> Task] /\ inbox' \in [Socket -> Seq(Message)]
    <3>1. CASE Done(k, h, s)
      BY <2>1, <3>1, DoneTypes
    <3>2. CASE Goto(k, h, "write") /\ UNCHANGED inbox
      BY <3>2, TaskTypes DEF Point
    <3>3. CASE Refuse(k, h)
      BY <3>3, RefuseTypes
    <3> QED
      BY <1>1, <3>1, <3>2, <3>3 DEF ReadState
  <2> QED
    BY <1>1, <2>2 DEF ReadState, linksKept, keysKept
<1>2. ASSUME NEW h \in Handler, WriteState(k, h) PROVE GatewayTypeOK'
  <2> DEFINE s == task[<<k, h>>].to
  <2>1. s \in WebRtcState /\ conn' = s /\ Done(k, h, s)
    BY <1>2, TaskTypes DEF Task, WriteState
  <2>2. task' \in [Socket \X Handler -> Task] /\ inbox' \in [Socket -> Seq(Message)]
    BY <2>1, DoneTypes
  <2> QED
    BY <1>2, <2>1, <2>2 DEF WriteState, linksKept
<1>3. CASE Enter(k)
  <2>1. "join" \in Handler
    BY DEF Handler
  <2>2. task' \in [Socket \X Handler -> Task]
    BY <1>3, <2>1, TaskTypes DEF Enter, Point
  <2>3. inbox' \in [Socket -> Seq(Message)]
    BY <1>3, SaysTypes, PostTypes DEF Enter, Event
  <2> QED
    BY <1>3, <2>2, <2>3 DEF Enter, keysKept
<1>4. CASE GetPair(k)
  <2> DEFINE t == task[<<k, "join">>]
  <2>1. <<k, "join">> \in Socket \X Handler /\ t \in Task
    BY TaskTypes DEF Handler
  <2>2. [[t EXCEPT !.at = "merge"] EXCEPT !.seen = pair] \in Task
    BY <2>1 DEF Task, Point
  <2>3. \A j \in Socket \X Handler : task'[j] \in Task
    BY <1>4, <2>1, <2>2 DEF GetPair
  <2>4. task' \in [Socket \X Handler -> Task]
    BY <1>4, <2>3 DEF GetPair
  <2> QED
    BY <1>4, <2>4 DEF GetPair, linksKept, keysKept
<1>5. CASE MergePair(k)
  <2> DEFINE t == task[<<k, "join">>]
             p == WithPeer(pair, IsFirst(k), k)
             s == IF IsFirst(k) THEN "WAITING" ELSE "JOINED"
  <2>1. <<k, "join">> \in Socket \X Handler /\ t \in Task
    BY TaskTypes DEF Handler
  <2>2. p \in Pair /\ s \in WebRtcState
    BY GatewayAssumption DEF WithPeer, Pair, WebRtcState
  <2>3. [[[t EXCEPT !.at = "save"] EXCEPT !.seen = p] EXCEPT !.to = s] \in Task
    <3> HIDE DEF p, s
    <3> QED BY <2>1, <2>2 DEF Task, Point
  <2>4. task' = [task EXCEPT ![<<k, "join">>] =
                   [[[t EXCEPT !.at = "save"] EXCEPT !.seen = p] EXCEPT !.to = s]]
    BY <1>5, <2>1 DEF MergePair
  <2>5. task' \in [Socket \X Handler -> Task]
    <3> HIDE DEF p, s, t
    <3> QED BY <2>1, <2>3, <2>4
  <2> QED
    BY <1>5, <2>5 DEF MergePair, linksKept, keysKept
<1>6. CASE SavePair(k)
  <2>1. task[<<k, "join">>].seen \in Pair
    BY TaskTypes DEF Task, Handler
  <2>2. task' \in [Socket \X Handler -> Task]
    BY <1>6, TaskTypes DEF SavePair, Point, Handler
  <2> QED
    BY <1>6, <2>1, <2>2 DEF SavePair, linksKept
<1>7. CASE Leave(k)
  <2>1. task' \in [Socket \X Handler -> Task]
    BY <1>7, TaskTypes DEF Leave, Handler, WebRtcState
  <2>2. inbox' \in [Socket -> Seq(Message)]
    BY <1>7, SaysTypes, PostTypes DEF Leave, Event
  <2> QED
    BY <1>7, <2>1, <2>2 DEF Leave, keysKept
<1>8. CASE Offline(k)
  <2>1. task' \in [Socket \X Handler -> Task]
    BY <1>8, TaskTypes DEF Offline, Handler, WebRtcState
  <2>2. inbox' \in [Socket -> Seq(Message)]
    BY <1>8, SaysTypes, PostTypes DEF Offline, Event
  <2> QED
    BY <1>8, <2>1, <2>2 DEF Offline, linksKept, keysKept
<1>9. CASE Detect(k)
  <2>1. Idle \in Task /\ [Idle EXCEPT !.at = "offline"] \in Task
    BY GatewayAssumption DEF Idle, Task, Point, WebRtcState, NoPair, Pair
  <2>2. task' \in [Socket \X Handler -> Task]
    <3>1. PICK lost \in SUBSET Handler :
             task' = [t \in Socket \X Handler |->
                        IF t = <<k, "disconnect">> /\ k \in bound
                        THEN [Idle EXCEPT !.at = "offline"]
                        ELSE IF t[1] = k /\ t[2] \in lost THEN Idle
                        ELSE task[t]]
      BY <1>9 DEF Detect
    <3> QED
      BY <2>1, <3>1
  <2> QED
    BY <1>9, <2>2 DEF Detect, keysKept
<1> QED
  BY <1>1, <1>2, <1>3, <1>4, <1>5, <1>6, <1>7, <1>8, <1>9, ZenonT(30) DEF GatewayStep

LEMMA FailKeeps ==
    ASSUME GatewayTypeOK, NEW k \in Socket, NEW h \in Handler, Fail(k, h)
    PROVE  GatewayTypeOK'
<1>1. task' \in [Socket \X Handler -> Task] /\ inbox' \in [Socket -> Seq(Message)]
  BY RefuseTypes DEF Fail
<1>2. task[<<k, h>>].to \in WebRtcState /\ task[<<k, h>>].seen \in Pair
  BY TaskTypes DEF GatewayTypeOK, Task
<1>3. conn' \in WebRtcState /\ pair' \in Pair
  BY <1>2 DEF Fail, GatewayTypeOK
<1>4. faults' \in 0..MaxFaults
  BY GatewayAssumption DEF Fail, Fault, GatewayTypeOK
<1> QED
  BY <1>1, <1>3, <1>4 DEF Fail, GatewayTypeOK, linksKept

LEMMA MessageTypes ==
    ASSUME NEW p \in Page, NEW d \in Device, NEW m \in Message
    PROVE  After(d, p, m) \in Page /\ Effects(d, p) \in Page
<1>1. GiveAnswer(d, p, m.n) \in Page
  BY DEF GiveAnswer, Page, Message
<1>2. After(d, p, m) \in Page
  <2>1. CASE m.type = "ANSWER_RECEIVED"
    BY <1>1, <2>1 DEF After, Page, WebRtcState
  <2>2. CASE m.type = "OFFER_RECEIVED"
    BY <2>2 DEF After, Page, WebRtcState, Message
  <2>3. CASE m.type \notin {"ANSWER_RECEIVED", "OFFER_RECEIVED"}
    BY <2>3 DEF After, Page, WebRtcState, Message, Event
  <2> QED
    BY <2>1, <2>2, <2>3
<1>3. \A n \in Nat : NewPc(p, n) \in Page
  BY DEF NewPc, Page
<1>4. Effects(d, p) \in Page
  <2>1. p.num + 1 \in Nat /\ p.offer \in Nat
    BY DEF Page
  <2>2. NewPc(p, p.num + 1) \in Page /\ NewPc(p, p.offer) \in Page
    BY <1>3, <2>1
  <2>3. /\ [NewPc(p, p.num + 1) EXCEPT !.pc = "offering"] \in Page
        /\ [NewPc(p, p.offer) EXCEPT !.pc = "applying"] \in Page
    BY <2>2 DEF Page
  <2> QED
    BY <2>3 DEF Effects
<1> QED
  BY <1>2, <1>4

LEMMA SignalKeeps ==
    ASSUME TypeOK, NEW d \in Device, NEW h \in {"offer", "answer"}, NEW p \in Page,
           Signal(d, h, p)
    PROVE  task' \in [Socket \X Handler -> Task] /\ page' \in [Device -> Page]
<1> USE DEF TypeOK, GatewayTypeOK
<1>1. CASE p.sock # None /\ Send(p.sock, h, p.num) /\ page' = [page EXCEPT ![d] = p]
  <2>1. Idle \in Task
    BY GatewayAssumption DEF Idle, Task, Point, WebRtcState, NoPair, Pair
  <2>2. First(h) \in Task
    BY <2>1 DEF First, Task, Point, WebRtcState
  <2>3. [First(h) EXCEPT !.n = p.num] \in Task
    BY <2>2 DEF Task, Page
  <2> QED
    BY <1>1, <2>3 DEF Send
<1>2. CASE page' = [page EXCEPT ![d] = [p EXCEPT !.held[h] = p.num]] /\ UNCHANGED task
  <2>1. [p.held EXCEPT ![h] = p.num] \in [{"offer", "answer"} -> Nat]
    BY DEF Page
  <2>2. [p EXCEPT !.held[h] = p.num] \in Page
    BY <2>1 DEF Page
  <2> QED
    BY <1>2, <2>2
<1> QED
  BY <1>1, <1>2 DEF Signal

LEMMA PageKeeps ==
    ASSUME TypeOK, NEW d \in Device, Handle(d) \/ OfferReady(d) \/ AnswerReady(d) \/ PcFails(d)
    PROVE  TypeOK'
<1> USE DEF TypeOK
<1>0. page[d] \in Page /\ page[d].sock \in Socket \cup {None}
  BY DEF Page
<1>1. CASE Handle(d)
  <2> DEFINE k == page[d].sock
             m == Head(inbox[k])
  <2>1. k \in Socket /\ inbox[k] \in Seq(Message) /\ inbox[k] # <<>>
    BY <1>0, <1>1 DEF Handle, GatewayTypeOK
  <2>2. m \in Message /\ Tail(inbox[k]) \in Seq(Message)
    BY <2>1
  <2>3. After(d, page[d], m) \in Page
    BY <1>0, <2>2, MessageTypes
  <2>4. Effects(d, After(d, page[d], m)) \in Page
    BY <2>2, <2>3, MessageTypes
  <2>5. page' \in [Device -> Page] /\ inbox' \in [Socket -> Seq(Message)]
    BY <1>1, <2>1, <2>2, <2>4 DEF Handle, GatewayTypeOK
  <2> QED
    BY <1>1, <2>5 DEF Handle, GatewayTypeOK, linksKept, keysKept
<1>2. CASE OfferReady(d)
  <2>1. [[page[d] EXCEPT !.pc = "offered"] EXCEPT !.state = "NEGOTIATING"] \in Page
    BY <1>0 DEF Page, WebRtcState
  <2>2. task' \in [Socket \X Handler -> Task] /\ page' \in [Device -> Page]
    BY <1>2, <2>1, SignalKeeps DEF OfferReady
  <2> QED
    BY <1>2, <2>2 DEF OfferReady, GatewayTypeOK, linksKept, keysKept
<1>3. CASE AnswerReady(d)
  <2>1. [[page[d] EXCEPT !.pc = "stable"] EXCEPT !.state = "CONNECTED"] \in Page
    BY <1>0 DEF Page, WebRtcState
  <2>2. task' \in [Socket \X Handler -> Task] /\ page' \in [Device -> Page]
    BY <1>3, <2>1, SignalKeeps DEF AnswerReady
  <2> QED
    BY <1>3, <2>2 DEF AnswerReady, GatewayTypeOK, linksKept, keysKept
<1>4. CASE PcFails(d)
  <2>1. [page[d] EXCEPT !.pc = "none"] \in Page
    BY <1>0 DEF Page
  <2>2. Says("ERROR") \in Message
    BY SaysTypes DEF Event
  <2>3. Effects(d, [page[d] EXCEPT !.pc = "none"]) \in Page
    BY <2>1, <2>2, MessageTypes
  <2>4. faults' \in 0..MaxFaults
    BY <1>4, GatewayAssumption DEF PcFails, Fault, GatewayTypeOK
  <2> QED
    BY <1>4, <2>3, <2>4 DEF PcFails, GatewayTypeOK, linksKept
<1> QED
  BY <1>1, <1>2, <1>3, <1>4

LEMMA SocketKeeps ==
    ASSUME TypeOK, NEW d \in Device,
           (\E k \in Socket : Connect(d, k)) \/ Drop(d) \/ Quit(d)
    PROVE  TypeOK'
<1> USE DEF TypeOK
<1>0. page[d] \in Page /\ page[d].sock \in Socket \cup {None}
  BY DEF Page
<1>i. Idle \in Task
  BY GatewayAssumption DEF Idle, Task, Point, WebRtcState, NoPair, Pair
<1>1. ASSUME NEW k \in Socket, Connect(d, k) PROVE TypeOK'
  <2>1. \A h \in Handler : Waiting(page[d], h) \in Nat
    BY <1>0 DEF Waiting, Page
  <2>2. \A h \in Handler \ {"disconnect"} : First(h) \in Task
    BY <1>i DEF First, Task, Point, WebRtcState, Handler
  <2>3. \A h \in Handler \ {"disconnect"}, n \in Nat : [First(h) EXCEPT !.n = n] \in Task
    BY <2>2 DEF Task
  <2>4. Waiting(page[d], "disconnect") = 0
    BY DEF Waiting
  <2>5. \A t \in Socket \X Handler : task'[t] \in Task
    <3>1. TAKE t \in Socket \X Handler
    <3> DEFINE n == Waiting(page[d], t[2])
    <3>2. t[2] \in Handler /\ n \in Nat /\ task[t] \in Task
      BY <2>1 DEF GatewayTypeOK
    <3>3. task'[t] = IF t[1] = k /\ (t[2] = "join" \/ n # 0)
                     THEN [First(t[2]) EXCEPT !.n = n] ELSE task[t]
      BY <1>1 DEF Connect
    <3>4. CASE t[1] = k /\ (t[2] = "join" \/ n # 0)
      <4>1. t[2] # "disconnect"
        BY <2>4, <3>4
      <4> HIDE DEF n
      <4> QED
        BY <2>3, <3>2, <3>3, <3>4, <4>1
    <3> QED
      BY <3>2, <3>3, <3>4
  <2>6. task' \in [Socket \X Handler -> Task]
    BY <1>1, <2>5 DEF Connect
  <2>7. [[page[d] EXCEPT !.sock = k] EXCEPT !.held = NoneHeld] \in Page
    BY <1>0 DEF Page, NoneHeld
  <2>8. page' = [page EXCEPT ![d] = [[page[d] EXCEPT !.sock = k] EXCEPT !.held = NoneHeld]]
    BY <1>1 DEF Connect
  <2>9. page' \in [Device -> Page]
    BY <2>7, <2>8
  <2> QED
    BY <1>1, <2>6, <2>9 DEF Connect, GatewayTypeOK, keysKept
<1>2. ASSUME Unplug(d) PROVE /\ live' \subseteq Socket /\ linked' \subseteq Socket
                             /\ bound' \subseteq Socket /\ room' \subseteq Socket
                             /\ opened' \subseteq Socket
                             /\ conn' \in WebRtcState /\ pair' \in Pair
                             /\ inbox' \in [Socket -> Seq(Message)]
                             /\ faults' \in 0..MaxFaults
  <2>1. <<>> \in Seq(Message)
    OBVIOUS
  <2>2. inbox' \in [Socket -> Seq(Message)]
    BY <1>2, <2>1 DEF Unplug, GatewayTypeOK
  <2>3. faults' \in 0..MaxFaults
    BY <1>2, GatewayAssumption DEF Unplug, Fault, GatewayTypeOK
  <2> QED
    BY <1>2, <2>2, <2>3 DEF Unplug, GatewayTypeOK
<1>3. CASE Drop(d)
  <2>1. [page[d] EXCEPT !.sock = None] \in Page
    BY <1>0 DEF Page
  <2>2. page' \in [Device -> Page] /\ task' \in [Socket \X Handler -> Task]
    BY <1>3, <2>1 DEF Drop, GatewayTypeOK
  <2> QED
    BY <1>2, <1>3, <2>2 DEF Drop, GatewayTypeOK
<1>4. CASE Quit(d)
  <2>1. [FreshPage EXCEPT !.open = FALSE] \in Page
    BY DEF FreshPage, Page, NoneHeld, WebRtcState
  <2>2. page' \in [Device -> Page]
    BY <1>4, <2>1 DEF Quit
  <2>3. task' \in [Socket \X Handler -> Task]
    <3>1. First("leave") \in Task
      BY <1>i DEF First, Task, Point
    <3>2. [First("leave") EXCEPT !.n = 0] \in Task
      BY <3>1 DEF Task
    <3> QED
      BY <1>0, <1>4, <3>2 DEF Quit, Send, GatewayTypeOK
  <2> QED
    BY <1>2, <1>4, <2>2, <2>3 DEF Quit, GatewayTypeOK
<1> QED
  BY <1>1, <1>3, <1>4

LEMMA TypesStart == Init => TypeOK
<1> SUFFICES ASSUME Init PROVE TypeOK
  OBVIOUS
<1>1. Idle \in Task /\ NoPair \in Pair
  BY GatewayAssumption DEF Idle, Task, Point, WebRtcState, NoPair, Pair
<1>2. FreshPage \in Page
  BY DEF FreshPage, Page, NoneHeld, WebRtcState
<1>3. <<>> \in Seq(Message) /\ 0 \in 0..MaxFaults
  BY GatewayAssumption
<1> QED
  BY <1>1, <1>2, <1>3 DEF Init, GatewayInit, TypeOK, GatewayTypeOK, WebRtcState

LEMMA TypesKept == TypeOK /\ [Next]_vars => TypeOK'
<1> SUFFICES ASSUME TypeOK, [Next]_vars PROVE TypeOK'
  OBVIOUS
<1>1. ASSUME NEW k \in Socket, GatewayStep(k), UNCHANGED <<page, opened>> PROVE TypeOK'
  BY <1>1, GatewayKeeps DEF TypeOK
<1>2. ASSUME NEW k \in Socket, NEW h \in Handler, Fail(k, h), UNCHANGED <<page, opened>>
      PROVE  TypeOK'
  BY <1>2, FailKeeps DEF TypeOK
<1>3. ASSUME NEW d \in Device, Handle(d) \/ OfferReady(d) \/ AnswerReady(d) \/ PcFails(d)
      PROVE  TypeOK'
  BY <1>3, PageKeeps
<1>4. ASSUME NEW d \in Device, (\E k \in Socket : Connect(d, k)) \/ Drop(d) \/ Quit(d)
      PROVE  TypeOK'
  BY <1>4, SocketKeeps
<1>5. CASE UNCHANGED vars
  BY <1>5 DEF vars, gatewayVars, TypeOK, GatewayTypeOK
<1> QED
  BY <1>1, <1>2, <1>3, <1>4, <1>5 DEF Next, Progress, Disturbance

(* The gateway, the sockets and the pages keep their types, for any number of     *)
(* devices, sockets and faults.                                               *)
THEOREM TypeCorrect == Spec => []TypeOK
BY TypesStart, TypesKept, PTL DEF Spec

-------------------------------------------------------------------------------
(* Events and connections                                                     *)

LEMMA NotReplaced ==
    ASSUME TypeOK, [Next]_vars, NEW d \in Device,
           page'[d].pc \in {"offering", "applying"},
           <<page'[d].pc, page'[d].num>> # <<page[d].pc, page[d].num>>,
           page[d].pc # "none"
    PROVE  inbox' = inbox
<1>0. \A e \in Device : page[e] \in Page
  BY DEF TypeOK
<1>1. SUFFICES ASSUME inbox' # inbox PROVE FALSE
  OBVIOUS
<1>2. ASSUME NEW e \in Device, Handle(e) PROVE FALSE
  <2> DEFINE m == Head(inbox[page[e].sock])
             a == After(d, page[d], m)
  <2>1. d = e
    BY <1>0, <1>2 DEF Handle, TypeOK
  <2>2. page'[d] = Effects(d, a)
    BY <1>2, <2>1 DEF Handle, TypeOK
  <2>3. page[d] \in Page
    BY <1>0
  <2>4. CASE m.type = "ANSWER_RECEIVED" /\ TakesAnswer(d, page[d])
    <3>1. a = [GiveAnswer(d, page[d], m.n) EXCEPT !.state = "CONNECTED"]
      BY <2>4 DEF After
    <3>2. d = Sender
      BY <2>4 DEF TakesAnswer
    <3>3. GiveAnswer(d, page[d], m.n) = [page[d] EXCEPT !.pc = "none"]
          \/ GiveAnswer(d, page[d], m.n) = [[page[d] EXCEPT !.pc = "stable"] EXCEPT !.with = m.n]
      BY <2>4 DEF GiveAnswer
    <3>4. a.state = "CONNECTED" /\ a.pc \in {"none", "stable"}
      BY <2>3, <3>1, <3>3 DEF Page
    <3>5. Effects(d, a) = a
      <4> HIDE DEF a
      <4> QED BY <3>2, <3>4 DEF Effects
    <3> QED
      BY <2>2, <3>4, <3>5
  <2>5. CASE ~(m.type = "ANSWER_RECEIVED" /\ TakesAnswer(d, page[d]))
    <3>1. a.pc = page[d].pc /\ a.num = page[d].num
      <4>1. GiveAnswer(d, page[d], m.n) = page[d] \/ m.type # "ANSWER_RECEIVED"
        BY <2>5 DEF GiveAnswer
      <4>2. m \in Message
        BY <1>2, <2>1 DEF Handle, TypeOK, GatewayTypeOK, Page
      <4> QED
        BY <2>3, <4>1, <4>2 DEF After, Page, Message, Event
    <3>2. Effects(d, a) = a
      <4> HIDE DEF a
      <4> QED BY <3>1 DEF Effects, WantsPc
    <3> QED
      BY <2>2, <3>1, <3>2
  <2> QED
    BY <2>4, <2>5
<1>3. ASSUME NEW e \in Device, Drop(e) PROVE FALSE
  <2>1. page'[d] = page[d] \/ page'[d] = [page[d] EXCEPT !.sock = None]
    BY <1>0, <1>3 DEF Drop, TypeOK
  <2> QED
    BY <1>0, <2>1 DEF Page
<1>4. ASSUME NEW e \in Device, Quit(e) PROVE FALSE
  <2>1. page'[d] = page[d] \/ page'[d] = [FreshPage EXCEPT !.open = FALSE]
    BY <1>0, <1>4 DEF Quit, TypeOK
  <2> QED
    BY <2>1 DEF FreshPage
<1>5. page' # page
  OBVIOUS
<1>6. ASSUME NEW e \in Device,
             OfferReady(e) \/ AnswerReady(e) \/ PcFails(e) \/ \E k \in Socket : Connect(e, k)
      PROVE  FALSE
  BY <1>1, <1>6 DEF OfferReady, AnswerReady, PcFails, Connect
<1> QED
  BY <1>2, <1>3, <1>4, <1>5, <1>6 DEF Next, Progress, Disturbance, vars

(* No event, late or repeated, replaces a connection that is being made or is up *)
(* (KeptByMessages).                                                          *)
THEOREM ConnectionsKept == Spec => KeptByMessages
<1>1. TypeOK /\ [Next]_vars =>
        [ \A d \in Device :
            /\ page'[d].pc \in {"offering", "applying"}
            /\ <<page'[d].pc, page'[d].num>> # <<page[d].pc, page[d].num>>
            /\ page[d].pc # "none"
            => inbox' = inbox ]_vars
  BY NotReplaced
<1> QED
  BY <1>1, TypeCorrect, PTL DEF Spec, KeptByMessages

-------------------------------------------------------------------------------
(* While nothing goes wrong                                                   *)

(* Calm holds until the first fault: a page has one socket and keeps it, and        *)
(* whatever it sets up, signals or is told of its peer, its socket is in the room     *)
(* beside another one by then.                                                *)
Two      == \E i, j \in room : i # j
Meets(k) == k \in room /\ Two

OneSocketEach ==
    /\ live = opened /\ linked = opened /\ room \subseteq opened
    /\ \A k \in opened : page[DeviceOf[k]].sock = k
    /\ \A d \in Device : page[d].sock # None =>
          page[d].sock \in opened /\ DeviceOf[page[d].sock] = d

(* A join that is past its entry is in the room; one that found the pair taken, or   *)
(* goes on to JOINED or PAIRING, is not alone there.                             *)
CameSecond(t) ==
    \/ t.at = "merge" /\ t.seen.sender # None
    \/ t.at \in {"save", "read", "write"} /\ t.to # "WAITING"

Fits(k, h, t) ==
    t.at # "idle" =>
        /\ h = "join" => /\ k \in opened
                         /\ t.at # "validate" => k \in room
                         /\ CameSecond(t) => Two
        /\ h \in {"offer", "answer"} => Meets(k)
        /\ h \notin {"leave", "disconnect"}

TasksFit == \A k \in Socket, h \in Handler : Fits(k, h, task[<<k, h>>])

(* Who is named in the pair has entered the room, and is past saving it.             *)
Past(t)   == t.at \in {"idle", "read", "write"}
PairHeld == pair.sender # None => \E j \in room : Past(task[<<j, "join">>])

(* Alone, a socket is told only that the session was created, or of an error.         *)
Quiet(s)     == \A i \in 1..Len(s) : s[i].type \in {"SESSION_CREATED", "ERROR"}
InboxesFit == \A k \in Socket : Meets(k) \/ Quiet(inbox[k])

Began(p)  == p.pc # "none" \/ p.state = "PAIRING" \/ p.offer # 0
PagesFit == \A d \in Device : page[d].held = NoneHeld /\ (Began(page[d]) => Meets(page[d].sock))

Calm == OneSocketEach /\ TasksFit /\ PairHeld /\ InboxesFit /\ PagesFit

LEMMA CalmStart == Init => Calm
BY GatewayAssumption, HandshakeAssumption
   DEF Init, GatewayInit, FreshPage, Idle, NoPair, Calm, OneSocketEach, TasksFit, Fits,
       PairHeld, InboxesFit, Quiet, PagesFit, Began

(* Sockets enter the room and none leaves it.                                    *)
LEMMA MeetingsStay ==
    ASSUME room \subseteq room', opened \subseteq opened'
    PROVE  /\ Two => Two'
           /\ \A k : Meets(k) => Meets(k)'
           /\ \A k, h, t : Fits(k, h, t) => Fits(k, h, t)'
<1>1. Two => Two'
  BY DEF Two
<1>2. ASSUME NEW k, Meets(k) PROVE Meets(k)'
  BY <1>1, <1>2 DEF Meets
<1>3. ASSUME NEW k, NEW h, NEW t, Fits(k, h, t) PROVE Fits(k, h, t)'
  BY <1>1, <1>2, <1>3 DEF Fits, CameSecond
<1>. QED
  BY <1>1, <1>2, <1>3

(* One handler's task changes.                                                 *)
LEMMA OneTask ==
    ASSUME TypeOK, TasksFit, room \subseteq room', opened \subseteq opened',
           NEW k \in Socket, NEW h \in Handler, NEW t,
           task' = [task EXCEPT ![<<k, h>>] = t], Fits(k, h, t) \/ Fits(k, h, t)'
    PROVE  /\ TasksFit'
           /\ pair' = pair /\ PairHeld /\ (h = "join" /\ Past(task[<<k, h>>]) => Past(t))
                => PairHeld'
<1>1. ASSUME NEW j \in Socket, NEW g \in Handler
      PROVE  task'[<<j, g>>] = IF <<j, g>> = <<k, h>> THEN t ELSE task[<<j, g>>]
  BY DEF TypeOK, GatewayTypeOK
<1>0. Fits(k, h, t)'
  BY MeetingsStay
<1>2. ASSUME NEW j \in Socket, NEW g \in Handler PROVE Fits(j, g, task[<<j, g>>])'
  <2>1. CASE <<j, g>> = <<k, h>>
    BY <1>0, <1>1, <2>1 DEF Fits, CameSecond, Meets, Two
  <2>2. CASE <<j, g>> # <<k, h>>
    <3>1. Fits(j, g, task[<<j, g>>]) /\ task'[<<j, g>>] = task[<<j, g>>]
      BY <1>1, <2>2 DEF TasksFit
    <3>. QED
      BY <3>1, MeetingsStay DEF Fits, CameSecond, Meets, Two
  <2>. QED
    BY <2>1, <2>2
<1>3. ASSUME pair' = pair, PairHeld, h = "join" /\ Past(task[<<k, h>>]) => Past(t)
      PROVE  PairHeld'
  <2>. SUFFICES ASSUME pair.sender # None PROVE \E j \in room' : Past(task'[<<j, "join">>])
    BY <1>3 DEF PairHeld, Past
  <2>1. PICK j \in room : Past(task[<<j, "join">>])
    BY <1>3 DEF PairHeld
  <2>2. j \in Socket /\ "join" \in Handler
    BY DEF TypeOK, GatewayTypeOK, Handler
  <2>3. Past(task'[<<j, "join">>])
    BY <1>1, <1>3, <2>1, <2>2
  <2>. QED
    BY <2>1, <2>3
<1>. QED
  BY <1>2, <1>3 DEF TasksFit

(* What is said to a socket that is not yet beside another one is quiet.              *)
LEMMA SaidQuietly ==
    ASSUME TypeOK, InboxesFit, room \subseteq room', opened \subseteq opened',
           \A j \in Socket : Meets(j) \/
               \E e \in Seq(Message) :
                  Quiet(e) /\ (inbox'[j] = <<>> \/ inbox'[j] = inbox[j] \o e)
    PROVE  InboxesFit'
<1>. SUFFICES ASSUME NEW j \in Socket, ~Meets(j)' PROVE Quiet(inbox'[j])
  BY DEF InboxesFit, Quiet
<1>1. ~Meets(j)
  BY MeetingsStay
<1>2. PICK e \in Seq(Message) :
         Quiet(e) /\ (inbox'[j] = <<>> \/ inbox'[j] = inbox[j] \o e)
  BY <1>1
<1>3. inbox[j] \in Seq(Message) /\ Quiet(inbox[j])
  BY <1>1 DEF InboxesFit, TypeOK, GatewayTypeOK
<1>4. CASE inbox'[j] = <<>>
  BY <1>4 DEF Quiet
<1>5. CASE inbox'[j] = inbox[j] \o e
  <2>1. ASSUME NEW i \in 1..Len(inbox'[j])
        PROVE  inbox'[j][i].type \in {"SESSION_CREATED", "ERROR"}
    <3>1. CASE i <= Len(inbox[j])
      BY <1>3, <1>5, <2>1, <3>1 DEF Quiet
    <3>2. CASE i > Len(inbox[j])
      <4>1. i - Len(inbox[j]) \in 1..Len(e) /\ inbox'[j][i] = e[i - Len(inbox[j])]
        BY <1>3, <1>5, <2>1, <3>2
      <4>. QED
        BY <1>2, <4>1 DEF Quiet
    <3>. QED
      BY <3>1, <3>2
  <2>. QED
    BY <2>1 DEF Quiet
<1>. QED
  BY <1>2, <1>4, <1>5

LEMMA ToOneQuietly ==
    ASSUME TypeOK, InboxesFit, UNCHANGED <<room, opened>>, NEW k, NEW type \in Event,
           type \in {"SESSION_CREATED", "ERROR"}, ToOne(k, <<Says(type)>>)
    PROVE  InboxesFit'
<1>1. <<Says(type)>> \in Seq(Message) /\ Quiet(<<Says(type)>>)
  BY SaysTypes DEF Says, Quiet
<1>2. <<>> \in Seq(Message) /\ Quiet(<<>>)
  BY DEF Quiet
<1>3. ASSUME NEW j \in Socket
      PROVE  \/ inbox'[j] = <<>> \/ inbox'[j] = inbox[j] \o <<Says(type)>>
             \/ inbox'[j] = inbox[j] \o <<>>
  BY DEF ToOne, Post
<1>. QED
  BY <1>1, <1>2, <1>3, SaidQuietly

(* A socket beside another one tells the room.                                    *)
LEMMA ToOthersMeeting ==
    ASSUME TypeOK, InboxesFit, UNCHANGED <<room, opened>>, NEW k, NEW msgs,
           Meets(k), ToOthers(k, msgs)
    PROVE  InboxesFit'
<1>1. <<>> \in Seq(Message) /\ Quiet(<<>>)
  BY DEF Quiet
<1>2. ASSUME NEW j \in Socket
      PROVE  Meets(j) \/ inbox'[j] = <<>> \/ inbox'[j] = inbox[j] \o <<>>
  BY DEF ToOthers, Post, Meets
<1>. QED
  BY <1>1, <1>2, SaidQuietly

(* A transition that went through: a join that goes on to PAIRING, an offer and an     *)
(* answer are those of a socket beside another one.                               *)
LEMMA DoneCalm ==
    ASSUME TypeOK, Calm, UNCHANGED <<room, opened>>, NEW k \in Socket, NEW h \in Handler,
           task[<<k, h>>].at \in {"read", "write"}, Done(k, h, task[<<k, h>>].to)
    PROVE  TasksFit' /\ InboxesFit' /\ (pair' = pair => PairHeld')
<1>. DEFINE t == task[<<k, h>>]
            s == t.to
            n == t.n
<1>1. Fits(k, h, t) /\ t \in Task
  BY DEF Calm, TasksFit, TypeOK, GatewayTypeOK
<1>2. h \in {"join", "offer", "answer"} /\ (h # "join" => Meets(k))
  BY <1>1 DEF Fits, Handler
<1>3. ASSUME End(k, h) PROVE TasksFit' /\ (pair' = pair => PairHeld')
  <2>1. Fits(k, h, Idle)' /\ Past(Idle)
    BY DEF Fits, Idle, Past
  <2>2. task' = [task EXCEPT ![<<k, h>>] = Idle]
    BY <1>3 DEF End
  <2>. QED
    BY <2>1, <2>2, OneTask DEF Calm
<1>4. CASE h = "join" /\ s = "JOINED" /\ Transition(k, h, "PAIRING") /\ UNCHANGED inbox
  <2>. DEFINE u == [t EXCEPT !.at = "read", !.to = "PAIRING"]
  <2>1. u.at = "read" /\ u.to = "PAIRING"
    BY <1>1 DEF Task
  <2>2. k \in opened /\ Meets(k)
    BY <1>1, <1>4 DEF Fits, CameSecond, Meets
  <2>3. task' = [task EXCEPT ![<<k, h>>] = u]
    BY <1>4 DEF Transition
  <2>. HIDE DEF u
  <2>4. Fits(k, h, u) /\ Past(u)
    BY <1>4, <2>1, <2>2 DEF Fits, CameSecond, Meets, Two, Past
  <2>5. InboxesFit'
    BY <1>4 DEF Calm, InboxesFit, Meets, Two
  <2>. QED
    BY <2>3, <2>4, <2>5, OneTask DEF Calm
<1>5. CASE h = "join" /\ s # "JOINED" /\ End(k, h)
  <2>. DEFINE created == IF k \in live THEN <<Says("SESSION_CREATED")>> ELSE <<>>
              E(j) == (IF s = "PAIRING" /\ j \in room THEN <<Says("PEER_JOINED")>> ELSE <<>>)
                        \o (IF j = k THEN created ELSE <<>>)
  <2>1. Post(E)
    BY <1>5 DEF Done
  <2>2. /\ <<Says("SESSION_CREATED")>> \in Seq(Message) /\ Quiet(<<Says("SESSION_CREATED")>>)
        /\ <<>> \in Seq(Message) /\ Quiet(<<>>)
    BY SaysTypes DEF Event, Quiet, Says
  <2>3. created \in Seq(Message) /\ Quiet(created)
    BY <2>2
  <2>4. ASSUME NEW j \in Socket, ~Meets(j)
        PROVE  \E e \in Seq(Message) :
                  Quiet(e) /\ (inbox'[j] = <<>> \/ inbox'[j] = inbox[j] \o e)
    <3>1. ~(s = "PAIRING" /\ j \in room)
      BY <1>1, <1>5, <2>4 DEF Fits, CameSecond, Meets
    <3>2. inbox'[j] = IF j \in live \cap linked THEN inbox[j] \o E(j) ELSE <<>>
      <4>. HIDE DEF E
      <4>. QED
        BY <2>1 DEF Post
    <3>. HIDE DEF created
    <3>3. E(j) = <<>> \o (IF j = k THEN created ELSE <<>>)
      BY <3>1
    <3>. DEFINE e == IF j = k THEN created ELSE <<>>
    <3>4. e \in Seq(Message) /\ Quiet(e) /\ <<>> \o e = e
      BY <2>2, <2>3
    <3>. HIDE DEF E
    <3>. QED
      BY <3>2, <3>3, <3>4
  <2>5. InboxesFit'
    BY <2>4, SaidQuietly DEF Calm
  <2>. QED
    BY <1>3, <1>5, <2>5
<1>6. CASE h = "offer"
  <2>1. ToOthers(k, <<[type |-> "OFFER_RECEIVED", n |-> n]>>) /\ End(k, h)
    BY <1>6 DEF Done
  <2>. QED
    BY <1>2, <1>3, <1>6, <2>1, ToOthersMeeting DEF Calm
<1>7. CASE h = "answer"
  <2>. DEFINE E(j) == IF j \notin room THEN <<>>
                      ELSE (IF j = k THEN <<>> ELSE <<[type |-> "ANSWER_RECEIVED", n |-> n]>>)
                              \o <<Says("PEER_CONNECTED")>>
  <2>1. Post(E) /\ End(k, h)
    BY <1>7 DEF Done
  <2>2. <<>> \in Seq(Message) /\ Quiet(<<>>)
    BY DEF Quiet
  <2>3. ASSUME NEW j \in Socket, ~Meets(j)
        PROVE  \E e \in Seq(Message) :
                  Quiet(e) /\ (inbox'[j] = <<>> \/ inbox'[j] = inbox[j] \o e)
    <3>1. E(j) = <<>>
      BY <1>2, <1>7, <2>3 DEF Meets
    <3>. HIDE DEF E
    <3>. QED
      BY <2>1, <2>2, <3>1 DEF Post
  <2>4. InboxesFit'
    BY <2>3, SaidQuietly DEF Calm
  <2>. QED
    BY <1>3, <2>1, <2>4
<1>. QED
  BY <1>2, <1>4, <1>5, <1>6, <1>7 DEF Done

LEMMA GatewayCalm ==
    ASSUME TypeOK, Calm, NEW k \in Socket, GatewayStep(k), UNCHANGED <<page, opened>>
    PROVE  Calm' /\ room \subseteq room'
<1>. DEFINE t == task[<<k, "join">>]
<1>0. "join" \in Handler /\ t \in Task /\ Fits(k, "join", t) /\ k \in Socket
  BY DEF Handler, TypeOK, GatewayTypeOK, Calm, TasksFit
<1>1. SUFFICES /\ UNCHANGED <<live, linked>> /\ room \subseteq room' /\ room' \subseteq opened
               /\ TasksFit' /\ InboxesFit' /\ PairHeld'
  <2>1. ASSUME UNCHANGED <<live, linked>>, room \subseteq room', room' \subseteq opened
        PROVE  OneSocketEach' /\ PagesFit'
    <3>1. OneSocketEach'
      BY <2>1 DEF Calm, OneSocketEach
    <3>2. PagesFit'
      BY <2>1, MeetingsStay DEF Calm, PagesFit, Began
    <3>. QED
      BY <3>1, <3>2
  <2>. QED
    BY <2>1 DEF Calm
<1>2. room \subseteq opened /\ live = opened /\ linked = opened
  BY DEF Calm, OneSocketEach
<1>3. ASSUME UNCHANGED inbox, room \subseteq room' PROVE InboxesFit'
  BY <1>3, MeetingsStay DEF Calm, InboxesFit, Quiet
<1>4. ASSUME NEW h \in Handler, Refuse(k, h), UNCHANGED <<room, opened, pair>>
      PROVE  TasksFit' /\ InboxesFit' /\ PairHeld'
  <2>1. Fits(k, h, Idle)' /\ Past(Idle)
    BY DEF Fits, Idle, Past
  <2>2. task' = [task EXCEPT ![<<k, h>>] = Idle]
    BY <1>4 DEF Refuse, End
  <2>3. InboxesFit'
    BY <1>3, <1>4, ToOneQuietly DEF Refuse, Event, Calm
  <2>. QED
    BY <1>4, <2>1, <2>2, <2>3, OneTask DEF Calm
<1>5. ASSUME NEW h \in Handler, ReadState(k, h)
      PROVE  TasksFit' /\ InboxesFit' /\ PairHeld'
  <2>1. UNCHANGED <<room, pair>> /\ task[<<k, h>>].at = "read"
    BY <1>5 DEF ReadState, linksKept, keysKept, At
  <2>2. CASE Done(k, h, task[<<k, h>>].to)
    BY <2>1, <2>2, DoneCalm
  <2>3. CASE Goto(k, h, "write") /\ UNCHANGED inbox
    <3>. DEFINE u == [task[<<k, h>>] EXCEPT !.at = "write"]
    <3>1. Fits(k, h, task[<<k, h>>]) /\ task[<<k, h>>] \in Task
      BY DEF Calm, TasksFit, TypeOK, GatewayTypeOK
    <3>2. u.at = "write" /\ u.to = task[<<k, h>>].to
      BY <3>1 DEF Task
    <3>3. task' = [task EXCEPT ![<<k, h>>] = u]
      BY <2>3 DEF Goto
    <3>. HIDE DEF u
    <3>4. Fits(k, h, u) /\ Past(u)
      BY <2>1, <3>1, <3>2 DEF Fits, CameSecond, Meets, Two, Past
    <3>. QED
      BY <1>3, <2>1, <2>3, <3>3, <3>4, OneTask DEF Calm
  <2>. QED
    BY <1>4, <1>5, <2>1, <2>2, <2>3 DEF ReadState
<1>6. ASSUME NEW h \in Handler, WriteState(k, h)
      PROVE  TasksFit' /\ InboxesFit' /\ PairHeld'
  <2>1. UNCHANGED <<room, pair>> /\ task[<<k, h>>].at = "write"
    BY <1>6 DEF WriteState, linksKept, At
  <2>. QED
    BY <1>6, <2>1, DoneCalm DEF WriteState
<1>7. CASE Enter(k)
  <2>1. t.at = "validate" /\ k \in opened /\ UNCHANGED pair
    BY <1>0, <1>7 DEF Enter, At, Fits, keysKept
  <2>2. CASE RoomHasSpace /\ room' = room \cup {k} /\ Goto(k, "join", "pair") /\ UNCHANGED inbox
    <3>1. PICK u : u = [t EXCEPT !.at = "pair"]
      OBVIOUS
    <3>2. task' = [task EXCEPT ![<<k, "join">>] = u] /\ u.at = "pair"
      BY <1>0, <2>2, <3>1 DEF Goto, Task
    <3>3. Fits(k, "join", u)'
      BY <2>1, <2>2, <3>2 DEF Fits, CameSecond
    <3>4. TasksFit' /\ PairHeld'
      BY <1>0, <2>1, <2>2, <3>2, <3>3, OneTask DEF Calm, Past
    <3>. QED
      BY <1>2, <1>3, <1>7, <2>1, <2>2, <3>4 DEF Enter
  <2>3. CASE ToOne(k, <<Says("ERROR")>>) /\ End(k, "join") /\ UNCHANGED room
    <3>1. Refuse(k, "join")
      BY <2>3 DEF Refuse
    <3>. QED
      BY <1>0, <1>2, <1>4, <1>7, <2>1, <2>3, <3>1 DEF Enter
  <2>. QED
    BY <1>0, <1>2, <1>7, <2>1, <2>2, <2>3 DEF Enter
<1>8. CASE GetPair(k)
  <2>. DEFINE u == [t EXCEPT !.at = "merge", !.seen = pair]
  <2>1. UNCHANGED <<room, pair, inbox>> /\ t.at = "pair" /\ k \in room /\ k \in opened
    BY <1>0, <1>8 DEF GetPair, linksKept, keysKept, At, Fits
  <2>2. u.at = "merge" /\ u.seen = pair
    BY <1>0 DEF Task
  <2>3. task' = [task EXCEPT ![<<k, "join">>] = u]
    BY <1>8 DEF GetPair
  <2>. HIDE DEF u
  <2>4. pair.sender # None => Two
    BY <2>1 DEF Calm, PairHeld, Past, Two
  <2>5. Fits(k, "join", u)
    BY <2>1, <2>2, <2>4 DEF Fits, CameSecond, Two
  <2>6. TasksFit' /\ PairHeld'
    BY <1>0, <2>1, <2>3, <2>5, OneTask DEF Calm, Past
  <2>. QED
    BY <1>2, <1>3, <1>8, <2>1, <2>6 DEF GetPair, linksKept
<1>9. CASE MergePair(k)
  <2>. DEFINE p == WithPeer(pair, IsFirst(k), k)
              s == IF IsFirst(k) THEN "WAITING" ELSE "JOINED"
              u == [t EXCEPT !.at = "save", !.seen = p, !.to = s]
  <2>1. UNCHANGED <<room, pair, inbox>> /\ t.at = "merge" /\ k \in room /\ k \in opened
    BY <1>0, <1>9 DEF MergePair, linksKept, keysKept, At, Fits
  <2>2. u.at = "save" /\ u.to = s
    BY <1>0 DEF Task
  <2>3. task' = [task EXCEPT ![<<k, "join">>] = u]
    BY <1>9 DEF MergePair
  <2>4. s # "WAITING" => Two
    BY <1>0, <2>1 DEF IsFirst, Fits, CameSecond
  <2>. HIDE DEF u, s
  <2>5. Fits(k, "join", u)
    BY <2>1, <2>2, <2>4 DEF Fits, CameSecond, Two
  <2>6. TasksFit' /\ PairHeld'
    BY <1>0, <2>1, <2>3, <2>5, OneTask DEF Calm, Past
  <2>. QED
    BY <1>2, <1>3, <1>9, <2>1, <2>6 DEF MergePair, linksKept
<1>10. CASE SavePair(k)
  <2>. DEFINE u == [t EXCEPT !.at = "read"]
  <2>1. UNCHANGED <<room, inbox>> /\ t.at = "save" /\ k \in room /\ k \in opened
    BY <1>0, <1>10 DEF SavePair, linksKept, At, Fits
  <2>2. u.at = "read" /\ u.to = t.to
    BY <1>0 DEF Task
  <2>3. task' = [task EXCEPT ![<<k, "join">>] = u]
    BY <1>10 DEF SavePair, Goto
  <2>4. t.to # "WAITING" => Two
    BY <1>0, <2>1 DEF Fits, CameSecond
  <2>. HIDE DEF u
  <2>5. Fits(k, "join", u)
    BY <2>1, <2>2, <2>4 DEF Fits, CameSecond, Two
  <2>6. TasksFit'
    BY <1>0, <2>1, <2>3, <2>5, OneTask DEF Calm
  <2>7. task'[<<k, "join">>] = u
    BY <1>0, <2>3 DEF TypeOK, GatewayTypeOK
  <2>8. PairHeld'
    BY <2>1, <2>2, <2>7 DEF PairHeld, Past
  <2>. QED
    BY <1>2, <1>3, <1>10, <2>1, <2>6, <2>8 DEF SavePair, linksKept
<1>11. CASE Leave(k) \/ Offline(k)
  <2>1. \E h \in {"leave", "disconnect"} : task[<<k, h>>].at # "idle"
    BY <1>11 DEF Leave, Offline, At
  <2>. QED
    BY <2>1 DEF Calm, TasksFit, Fits, Handler
<1>12. CASE Detect(k)
  BY <1>2, <1>12 DEF Detect
<1>13. ASSUME NEW h \in Handler, ReadState(k, h) \/ WriteState(k, h)
       PROVE  UNCHANGED <<live, linked, room>>
  BY <1>13 DEF ReadState, WriteState, linksKept
<1>. QED
  BY <1>2, <1>5, <1>6, <1>7, <1>8, <1>9, <1>10, <1>11, <1>12, <1>13 DEF GatewayStep

(* What a page is told of its peer, and what its effects make of it, comes after its    *)
(* socket met the other one.                                                      *)
LEMMA PageKeepsSocket ==
    ASSUME NEW d \in Device, NEW p \in Page, NEW m \in Message
    PROVE  /\ After(d, p, m).sock = p.sock /\ After(d, p, m).held = p.held
           /\ Effects(d, p).sock = p.sock /\ Effects(d, p).held = p.held
           /\ Began(Effects(d, p)) => Began(p)
           /\ m.type \in {"SESSION_CREATED", "ERROR"} /\ Began(After(d, p, m)) => Began(p)
<1>1. /\ GiveAnswer(d, p, m.n).sock = p.sock /\ GiveAnswer(d, p, m.n).held = p.held
      /\ GiveAnswer(d, p, m.n) \in Page
  BY DEF GiveAnswer, Page, Message
<1>2. After(d, p, m).sock = p.sock /\ After(d, p, m).held = p.held
  <2>1. CASE m.type = "ANSWER_RECEIVED"
    BY <1>1, <2>1 DEF After, Page
  <2>2. CASE m.type # "ANSWER_RECEIVED"
    BY <2>2 DEF After, Page, Message, Event
  <2>. QED
    BY <2>1, <2>2
<1>3. \A n \in Nat : /\ NewPc(p, n) \in Page
                     /\ NewPc(p, n).sock = p.sock /\ NewPc(p, n).held = p.held
  BY DEF NewPc, Page
<1>4. p.num + 1 \in Nat /\ p.offer \in Nat
  BY DEF Page
<1>5. Effects(d, p).sock = p.sock /\ Effects(d, p).held = p.held
  BY <1>3, <1>4 DEF Effects, Page
<1>6. Began(Effects(d, p)) => Began(p)
  BY DEF Effects, Began
<1>7. ASSUME m.type \in {"SESSION_CREATED", "ERROR"}, Began(After(d, p, m)) PROVE Began(p)
  BY <1>7 DEF After, Began, Page
<1>. QED
  BY <1>2, <1>5, <1>6, <1>7

LEMMA HandleCalm ==
    ASSUME TypeOK, Calm, NEW d \in Device, Handle(d)
    PROVE  Calm'
<1>. DEFINE k == page[d].sock
            m == Head(inbox[k])
            a == After(d, page[d], m)
            e == Effects(d, a)
<1>1. /\ page[d] \in Page /\ k \in Socket /\ inbox[k] \in Seq(Message) /\ inbox[k] # <<>>
      /\ UNCHANGED <<live, linked, room, opened, task, pair>>
  BY DEF Handle, TypeOK, GatewayTypeOK, Page, linksKept, keysKept
<1>2. m \in Message /\ a \in Page
  BY <1>1, MessageTypes
<1>3. page' = [page EXCEPT ![d] = e] /\ inbox' = [inbox EXCEPT ![k] = Tail(@)]
  BY DEF Handle
<1>4. e.sock = k /\ e.held = page[d].held
  BY <1>1, <1>2, PageKeepsSocket
<1>5. Began(e) => Meets(k)
  <2>1. CASE Meets(k)
    BY <2>1
  <2>2. CASE ~Meets(k)
    <3>1. m.type \in {"SESSION_CREATED", "ERROR"}
      BY <1>1, <2>2 DEF Calm, InboxesFit, Quiet
    <3>2. ~Began(page[d])
      BY <2>2 DEF Calm, PagesFit
    <3>. QED
      BY <1>1, <1>2, <3>1, <3>2, PageKeepsSocket
  <2>. QED
    BY <2>1, <2>2
<1>. HIDE DEF e
<1>6. OneSocketEach'
  BY <1>1, <1>3, <1>4 DEF Calm, OneSocketEach, TypeOK
<1>7. TasksFit' /\ PairHeld'
  BY <1>1 DEF Calm, TasksFit, PairHeld, Fits, CameSecond, Meets, Two, Past
<1>8. InboxesFit'
  <2>. SUFFICES ASSUME NEW j \in Socket, ~Meets(j) PROVE Quiet(inbox'[j])
    BY <1>1 DEF InboxesFit, Meets, Two, Quiet
  <2>1. Quiet(inbox[j]) /\ inbox[j] \in Seq(Message)
    BY DEF Calm, InboxesFit, TypeOK, GatewayTypeOK
  <2>2. CASE j = k
    <3>1. inbox'[j] = Tail(inbox[j])
      BY <1>3, <2>2 DEF TypeOK, GatewayTypeOK
    <3>2. \A i \in 1..Len(Tail(inbox[j])) :
             i + 1 \in 1..Len(inbox[j]) /\ Tail(inbox[j])[i] = inbox[j][i + 1]
      BY <1>1, <2>1, <2>2
    <3>. QED
      BY <2>1, <3>1, <3>2 DEF Quiet
  <2>3. CASE j # k
    BY <1>3, <2>1, <2>3 DEF TypeOK, GatewayTypeOK
  <2>. QED
    BY <2>2, <2>3
<1>9. PagesFit'
  BY <1>1, <1>3, <1>4, <1>5 DEF Calm, PagesFit, TypeOK, Meets, Two, Began
<1>. QED
  BY <1>6, <1>7, <1>8, <1>9 DEF Calm

(* A page signals on the socket that met the other one.                             *)
LEMMA SignalCalm ==
    ASSUME TypeOK, Calm, NEW d \in Device, NEW h \in {"offer", "answer"}, NEW p \in Page,
           page[d].pc # "none", p.sock = page[d].sock, p.held = page[d].held,
           Signal(d, h, p), UNCHANGED <<live, linked, room, opened, inbox, pair>>
    PROVE  Calm'
<1>. DEFINE k == page[d].sock
<1>1. Meets(k) /\ k \in Socket /\ h \in Handler /\ k # None
  BY HandshakeAssumption DEF Calm, PagesFit, Began, Meets, TypeOK, GatewayTypeOK, Handler
<1>2. page' = [page EXCEPT ![d] = p] /\ Send(k, h, p.num)
  BY <1>1 DEF Signal
<1>3. PICK t : t = [First(h) EXCEPT !.n = p.num]
  OBVIOUS
<1>4. task' = [task EXCEPT ![<<k, h>>] = t]
  BY <1>2, <1>3 DEF Send
<1>5. Fits(k, h, t)
  BY <1>1 DEF Fits
<1>6. TasksFit' /\ PairHeld'
  BY <1>1, <1>4, <1>5, OneTask DEF Calm
<1>7. InboxesFit'
  BY DEF Calm, InboxesFit, Meets, Two, Quiet
<1>8. OneSocketEach'
  BY <1>2 DEF Calm, OneSocketEach, TypeOK
<1>9. PagesFit'
  BY <1>1, <1>2 DEF Calm, PagesFit, TypeOK, Meets, Two, Began
<1>. QED
  BY <1>6, <1>7, <1>8, <1>9 DEF Calm

(* A page that held nothing back joins, and no more.                               *)
LEMMA JoinsFirst ==
    ASSUME TypeOK, PagesFit, NEW d \in Device, NEW k \in Socket, Connect(d, k)
    PROVE  task' = [task EXCEPT ![<<k, "join">>] = [First("join") EXCEPT !.n = 0]]
<1>. DEFINE t == [First("join") EXCEPT !.n = 0]
<1>1. page[d].held = NoneHeld
  BY DEF PagesFit
<1>2. \A h \in Handler : Waiting(page[d], h) = 0
  BY <1>1 DEF Waiting, NoneHeld
<1>3. task' = [task EXCEPT ![<<k, "join">>] = t]
  <2>1. task' = [u \in Socket \X Handler |->
                   IF u[1] = k /\ u[2] = "join" THEN t ELSE task[u]]
    <3>1. \A u \in Socket \X Handler : Waiting(page[d], u[2]) = 0
      BY <1>2
    <3>2. \A u \in Socket \X Handler :
             u[2] = "join" => [First(u[2]) EXCEPT !.n = Waiting(page[d], u[2])] = t
      BY <3>1
    <3>. HIDE DEF t
    <3>. QED
      BY <3>1, <3>2 DEF Connect
  <2>2. \A u \in Socket \X Handler : u = <<k, "join">> <=> (u[1] = k /\ u[2] = "join")
    OBVIOUS
  <2>. HIDE DEF t
  <2>. QED
    BY <2>1, <2>2 DEF TypeOK, GatewayTypeOK
<1>. QED
  BY <1>3

(* A socket that connects is the only one of its page, which held nothing back.        *)
LEMMA ConnectCalm ==
    ASSUME TypeOK, Calm, NEW d \in Device, NEW k \in Socket, Connect(d, k)
    PROVE  Calm'
<1>. DEFINE t == [First("join") EXCEPT !.n = 0]
<1>1. /\ page[d] \in Page /\ page[d].sock = None /\ page[d].held = NoneHeld
      /\ k \notin opened /\ DeviceOf[k] = d
      /\ opened' = opened \cup {k} /\ live' = live \cup {k} /\ linked' = linked \cup {k}
      /\ UNCHANGED <<room, inbox, pair>>
  BY DEF Connect, TypeOK, Calm, PagesFit, keysKept
<1>2. task' = [task EXCEPT ![<<k, "join">>] = t]
  BY JoinsFirst DEF Calm
<1>3. t.at = "validate"
  BY DEF First, Idle
<1>4. page' = [page EXCEPT ![d] = [[page[d] EXCEPT !.sock = k] EXCEPT !.held = NoneHeld]]
  BY DEF Connect
<1>. DEFINE p == [[page[d] EXCEPT !.sock = k] EXCEPT !.held = NoneHeld]
<1>5. /\ page' = [page EXCEPT ![d] = p] /\ p.sock = k /\ p.held = NoneHeld
      /\ p.pc = page[d].pc /\ p.state = page[d].state /\ p.offer = page[d].offer
  BY <1>1, <1>4 DEF Page
<1>. HIDE DEF p
<1>6. TasksFit'
  <2>1. Fits(k, "join", t)'
    BY <1>1, <1>3 DEF Fits, CameSecond, t
  <2>. HIDE DEF t
  <2>. QED
    BY <1>1, <1>2, <2>1, OneTask DEF Calm, Handler
<1>7. k \notin room /\ ~Meets(None)
  BY <1>1, HandshakeAssumption DEF Calm, OneSocketEach, Meets, TypeOK, GatewayTypeOK
<1>8. PairHeld'
  <2>. HIDE DEF t
  <2>1. \A j \in room : task'[<<j, "join">>] = task[<<j, "join">>]
    BY <1>2, <1>7 DEF TypeOK, GatewayTypeOK, Handler
  <2>. QED
    BY <1>1, <2>1 DEF Calm, PairHeld, Past
<1>9. InboxesFit'
  BY <1>1 DEF Calm, InboxesFit, Meets, Two, Quiet
<1>10. OneSocketEach'
  <2>1. \A j \in opened : DeviceOf[j] # d
    BY <1>1, HandshakeAssumption DEF Calm, OneSocketEach, TypeOK
  <2>. QED
    BY <1>1, <1>5, <2>1 DEF Calm, OneSocketEach, TypeOK
<1>11. PagesFit'
  <2>1. ~Began(p)
    BY <1>1, <1>5, <1>7 DEF Calm, PagesFit, Began
  <2>. QED
    BY <1>1, <1>5, <2>1 DEF Calm, PagesFit, TypeOK, Meets, Two, Began
<1>. QED
  BY <1>6, <1>8, <1>9, <1>10, <1>11 DEF Calm

UntilFault == faults = 0 => Calm

LEMMA NoDisturbance ==
    ASSUME TypeOK, faults' = 0
    PROVE  ~Disturbance
<1>1. faults \in Nat /\ (faults' = faults + 1 => FALSE)
  BY GatewayAssumption DEF TypeOK, GatewayTypeOK
<1>. QED
  BY <1>1 DEF Disturbance, Fail, PcFails, Drop, Quit, Unplug, Fault

LEMMA FaultsOnlyGrow ==
    ASSUME TypeOK, [Next]_vars, faults' = 0
    PROVE  faults = 0
<1>1. ASSUME NEW k \in Socket, GatewayStep(k) PROVE faults' = faults
  BY <1>1 DEF GatewayStep, ReadState, WriteState, Enter, GetPair, MergePair, SavePair,
              Leave, Offline, Detect, keysKept
<1>2. ASSUME NEW d \in Device, Handle(d) \/ OfferReady(d) \/ AnswerReady(d)
      PROVE  faults' = faults
  BY <1>2 DEF Handle, OfferReady, AnswerReady, keysKept
<1>3. ASSUME NEW d \in Device, NEW k \in Socket, Connect(d, k) PROVE faults' = faults
  BY <1>3 DEF Connect, keysKept
<1>4. CASE UNCHANGED vars
  BY <1>4 DEF vars, gatewayVars
<1>. QED
  BY <1>1, <1>2, <1>3, <1>4, NoDisturbance DEF Next, Progress

LEMMA CalmGoesOn ==
    ASSUME TypeOK, UntilFault, [Next]_vars, faults' = 0
    PROVE  Calm /\ Calm' /\ room \subseteq room' /\ opened \subseteq opened'
<1>2. ~Disturbance
  BY NoDisturbance
<1>3. CASE Progress
  <2>2. Calm
    BY FaultsOnlyGrow DEF UntilFault
  <2>3. ASSUME NEW d \in Device, OfferReady(d) PROVE Calm'
    <3>. DEFINE p == [page[d] EXCEPT !.pc = "offered", !.state = "NEGOTIATING"]
    <3>1. page[d] \in Page
      BY DEF TypeOK
    <3>2. p \in Page /\ p.sock = page[d].sock /\ p.held = page[d].held
      BY <3>1 DEF Page, WebRtcState
    <3>3. Signal(d, "offer", p) /\ page[d].pc # "none"
      BY <2>3 DEF OfferReady
    <3>4. UNCHANGED <<live, linked, room, opened, inbox, pair>>
      BY <2>3 DEF OfferReady, linksKept, keysKept
    <3>. HIDE DEF p
    <3>. QED
      BY <2>2, <3>2, <3>3, <3>4, SignalCalm
  <2>4. ASSUME NEW d \in Device, AnswerReady(d) PROVE Calm'
    <3>. DEFINE p == [page[d] EXCEPT !.pc = "stable", !.state = "CONNECTED"]
    <3>1. page[d] \in Page
      BY DEF TypeOK
    <3>2. p \in Page /\ p.sock = page[d].sock /\ p.held = page[d].held
      BY <3>1 DEF Page, WebRtcState
    <3>3. Signal(d, "answer", p) /\ page[d].pc # "none"
      BY <2>4 DEF AnswerReady
    <3>4. UNCHANGED <<live, linked, room, opened, inbox, pair>>
      BY <2>4 DEF AnswerReady, linksKept, keysKept
    <3>. HIDE DEF p
    <3>. QED
      BY <2>2, <3>2, <3>3, <3>4, SignalCalm
  <2>5. Calm'
    BY <1>3, <2>2, <2>3, <2>4, GatewayCalm, HandleCalm, ConnectCalm DEF Progress
  <2>6. ASSUME NEW d \in Device, Handle(d) \/ OfferReady(d) \/ AnswerReady(d)
        PROVE  room' = room /\ opened' = opened
    BY <2>6 DEF Handle, OfferReady, AnswerReady, linksKept
  <2>7. ASSUME NEW d \in Device, NEW k \in Socket, Connect(d, k)
        PROVE  room' = room /\ opened \subseteq opened'
    BY <2>7 DEF Connect
  <2>. QED
    BY <1>3, <2>2, <2>5, <2>6, <2>7, GatewayCalm DEF Progress
<1>4. CASE UNCHANGED vars
  <2>1. Calm
    BY <1>4 DEF UntilFault, vars, gatewayVars
  <2>2. Calm'
    BY <1>4, <2>1 DEF vars, gatewayVars, Calm, OneSocketEach, TasksFit, Fits, CameSecond,
                      PairHeld, Past, InboxesFit, Quiet, PagesFit, Began, Meets, Two
  <2>. QED
    BY <1>4, <2>1, <2>2 DEF vars, gatewayVars
<1>. QED
  BY <1>2, <1>3, <1>4 DEF Next

LEMMA CalmKept == TypeOK /\ UntilFault /\ [Next]_vars => UntilFault'
BY CalmGoesOn DEF UntilFault

(* While nothing goes wrong, a page has a connection or an offer only when its socket    *)
(* is in the room with another one: no offer goes out to an empty room, whatever the     *)
(* order in which the joins were run (gateway, 71-114; use-webrtc-session, 58).         *)
THEOREM MeetsBeforeOffering == Spec => []OffersMeet
<1>1. Init => TypeOK /\ UntilFault
  BY TypesStart, CalmStart DEF UntilFault
<1>2. UntilFault => OffersMeet
  BY DEF UntilFault, Calm, PagesFit, Began, Meets, Two, OffersMeet
<1>. QED
  BY <1>1, <1>2, CalmKept, TypesKept, PTL DEF Spec
-------------------------------------------------------------------------------
(* The handshake of two pages, step by step                                     *)

TwoPages == \E d : d # Sender /\ Device = {Sender, d}

Only(s, types) == \A i \in 1..Len(s) : s[i].type \in types

(* One message of type x, numbered if it is an offer, with others before and after.    *)
Holds(s, x, before, after) ==
    \E i \in 1..Len(s) :
        /\ s[i].type = x /\ (x = "OFFER_RECEIVED" => s[i].n # 0)
        /\ \A j \in 1..Len(s) : /\ j < i => s[j].type \in before
                                /\ i < j => s[j].type \in after

Early  == {"SESSION_CREATED", "ERROR"}
Joint  == {"SESSION_CREATED", "ERROR", "PEER_JOINED"}
Late   == {"ERROR", "PEER_CONNECTED"}

sPage == page[Sender]
rPage == page[Receiver]
toSender   == inbox[sPage.sock]
toReceiver == inbox[rPage.sock]
Joins(k) == task[<<k, "join">>]

(* A join that came first, or none any more: it has nothing to write.                *)
Rests(t) == t.at = "idle" \/ (t.at = "read" /\ t.to = "WAITING")
BothIn   == Two /\ \A k \in Socket : Rests(Joins(k))

SignalsOnly(T) == \A k \in Socket, h \in {"offer", "answer"} :
                     task[<<k, h>>].at # "idle" => <<k, h>> \in T

NothingBegan ==
    /\ SignalsOnly({})
    /\ \A k \in Socket : Only(inbox[k], Early)
    /\ \A d \in Device : ~Began(page[d])

(* The connection state goes from one to the next, and each step leaves exactly one      *)
(* thing to do for the next one.                                                *)
Opening ==
    /\ conn = "WAITING" /\ NothingBegan
    /\ \A k \in Socket :
          /\ Joins(k).at \in {"save", "read"} => Joins(k).to \in {"WAITING", "JOINED"}
          /\ Joins(k).at = "write" => Joins(k).to = "JOINED"
          /\ CameSecond(Joins(k)) => \A j \in room \ {k} : Rests(Joins(j))
    /\ pair.sender # None => \E j \in room : Rests(Joins(j))

Joining ==
    /\ conn = "JOINED" /\ Two /\ NothingBegan
    /\ \E k \in room : /\ Joins(k).at \in {"read", "write"} /\ Joins(k).to = "PAIRING"
                       /\ \A j \in Socket \ {k} : Rests(Joins(j))

Untold == rPage.pc = "none" /\ rPage.offer = 0
Given  == sPage.pc = "offered" /\ sPage.with = 0 /\ Only(toSender, Early)

Announced ==
    /\ conn = "PAIRING" /\ BothIn /\ SignalsOnly({})
    /\ ~Began(sPage) /\ Holds(toSender, "PEER_JOINED", Early, Early)
    /\ Untold /\ Only(toReceiver, Joint)

Offering ==
    /\ conn = "PAIRING" /\ BothIn /\ SignalsOnly({})
    /\ sPage.pc = "offering" /\ sPage.num # 0 /\ sPage.with = 0 /\ Only(toSender, Early)
    /\ Untold /\ Only(toReceiver, Joint)

Offered ==
    /\ conn = "PAIRING" /\ BothIn /\ SignalsOnly({<<sPage.sock, "offer">>})
    /\ LET t == task[<<sPage.sock, "offer">>] IN
          t.at \in {"read", "write"} /\ t.to = "NEGOTIATING" /\ t.n # 0
    /\ Given
    /\ Untold /\ Only(toReceiver, Joint)

Told ==
    /\ conn = "NEGOTIATING" /\ BothIn /\ SignalsOnly({})
    /\ Given
    /\ Untold /\ Holds(toReceiver, "OFFER_RECEIVED", Joint, {"ERROR"})

Applying ==
    /\ conn = "NEGOTIATING" /\ BothIn /\ SignalsOnly({})
    /\ Given
    /\ rPage.pc = "applying" /\ Only(toReceiver, {"ERROR"})

Answered ==
    /\ conn = "NEGOTIATING" /\ BothIn /\ SignalsOnly({<<rPage.sock, "answer">>})
    /\ LET t == task[<<rPage.sock, "answer">>] IN
          t.at \in {"read", "write"} /\ t.to = "CONNECTED"
    /\ Given
    /\ rPage.pc = "stable" /\ rPage.state = "CONNECTED" /\ Only(toReceiver, {"ERROR"})

Connected ==
    /\ conn = "CONNECTED" /\ BothIn /\ SignalsOnly({})
    /\ \/ sPage.pc = "offered" /\ sPage.with = 0 /\ Holds(toSender, "ANSWER_RECEIVED", Early, Late)
       \/ sPage.pc = "stable" /\ sPage.state = "CONNECTED" /\ Only(toSender, Late)
    /\ rPage.pc = "stable" /\ rPage.state = "CONNECTED" /\ Only(toReceiver, Late)

Phased == \/ Opening \/ Joining \/ Announced \/ Offering \/ Offered
          \/ Told \/ Applying \/ Answered \/ Connected

(* Sequences of messages                                                      *)

LEMMA OnlyLonger ==
    ASSUME NEW s \in Seq(Message), NEW u \in Seq(Message), NEW types,
           Only(s, types), Only(u, types)
    PROVE  Only(s \o u, types)
<1>. SUFFICES ASSUME NEW i \in 1..Len(s \o u) PROVE (s \o u)[i].type \in types
  BY DEF Only
<1>1. CASE i <= Len(s)
  BY <1>1 DEF Only
<1>2. CASE i > Len(s)
  <2>1. i - Len(s) \in 1..Len(u) /\ (s \o u)[i] = u[i - Len(s)]
    BY <1>2
  <2>. QED
    BY <2>1 DEF Only
<1>. QED
  BY <1>1, <1>2

LEMMA OnlyWider ==
    ASSUME NEW s, NEW types, NEW more, Only(s, types), types \subseteq more
    PROVE  Only(s, more)
BY DEF Only

LEMMA OnlyTail ==
    ASSUME NEW s \in Seq(Message), NEW types, s # <<>>, Only(s, types)
    PROVE  Head(s).type \in types /\ Only(Tail(s), types)
<1>1. Head(s) = s[1] /\ 1 \in 1..Len(s)
  OBVIOUS
<1>2. \A i \in 1..Len(Tail(s)) : i + 1 \in 1..Len(s) /\ Tail(s)[i] = s[i + 1]
  OBVIOUS
<1>. QED
  BY <1>1, <1>2 DEF Only

LEMMA HoldsLonger ==
    ASSUME NEW s \in Seq(Message), NEW u \in Seq(Message), NEW x, NEW before, NEW after,
           Holds(s, x, before, after), Only(u, after)
    PROVE  Holds(s \o u, x, before, after)
<1>1. PICK i \in 1..Len(s) :
        /\ s[i].type = x /\ (x = "OFFER_RECEIVED" => s[i].n # 0)
        /\ \A j \in 1..Len(s) : /\ j < i => s[j].type \in before
                                /\ i < j => s[j].type \in after
  BY DEF Holds
<1>2. i \in 1..Len(s \o u) /\ (s \o u)[i] = s[i]
  OBVIOUS
<1>3. ASSUME NEW j \in 1..Len(s \o u)
      PROVE  /\ j < i => (s \o u)[j].type \in before
             /\ i < j => (s \o u)[j].type \in after
  <2>1. CASE j <= Len(s)
    <3>1. j \in 1..Len(s) /\ (s \o u)[j] = s[j]
      BY <2>1
    <3>. QED
      BY <1>1, <3>1
  <2>2. CASE j > Len(s)
    <3>1. j - Len(s) \in 1..Len(u) /\ (s \o u)[j] = u[j - Len(s)] /\ ~(j < i)
      BY <2>2
    <3>. QED
      BY <3>1 DEF Only
  <2>. QED
    BY <2>1, <2>2
<1>. QED
  BY <1>1, <1>2, <1>3 DEF Holds

LEMMA HoldsNew ==
    ASSUME NEW s \in Seq(Message), NEW u \in Seq(Message), NEW m \in Message,
           NEW before, NEW after, m.type = "OFFER_RECEIVED" => m.n # 0,
           Only(s, before), Only(u, after)
    PROVE  Holds(s \o (<<m>> \o u), m.type, before, after)
<1>. DEFINE w == s \o (<<m>> \o u)
            i == Len(s) + 1
<1>1. i \in 1..Len(w) /\ w[i] = m
  OBVIOUS
<1>2. ASSUME NEW j \in 1..Len(w)
      PROVE  /\ j < i => w[j].type \in before
             /\ i < j => w[j].type \in after
  <2>1. CASE j < i
    <3>1. j \in 1..Len(s) /\ w[j] = s[j]
      BY <2>1
    <3>. QED
      BY <2>1, <3>1 DEF Only
  <2>2. CASE i < j
    <3>1. j - i \in 1..Len(u) /\ w[j] = u[j - i]
      BY <2>2
    <3>. QED
      BY <2>2, <3>1 DEF Only
  <2>3. CASE i = j
    BY <2>3
  <2>. QED
    BY <2>1, <2>2, <2>3
<1>. HIDE DEF w, i
<1>3. Holds(w, m.type, before, after)
  BY <1>1, <1>2 DEF Holds
<1>. QED
  BY <1>3 DEF w

LEMMA HoldsTail ==
    ASSUME NEW s \in Seq(Message), NEW x, NEW before, NEW after, s # <<>>,
           Holds(s, x, before, after)
    PROVE  \/ /\ Head(s).type = x /\ (x = "OFFER_RECEIVED" => Head(s).n # 0)
              /\ Only(Tail(s), after)
           \/ Head(s).type \in before /\ Holds(Tail(s), x, before, after)
<1>1. PICK i \in 1..Len(s) :
        /\ s[i].type = x /\ (x = "OFFER_RECEIVED" => s[i].n # 0)
        /\ \A j \in 1..Len(s) : /\ j < i => s[j].type \in before
                                /\ i < j => s[j].type \in after
  BY DEF Holds
<1>2. Head(s) = s[1] /\ 1 \in 1..Len(s) /\ Len(Tail(s)) = Len(s) - 1
  OBVIOUS
<1>3. \A j \in 1..Len(Tail(s)) : j + 1 \in 1..Len(s) /\ Tail(s)[j] = s[j + 1]
  OBVIOUS
<1>4. CASE i = 1
  BY <1>1, <1>2, <1>3, <1>4 DEF Only
<1>5. CASE i > 1
  <2>1. i - 1 \in 1..Len(Tail(s)) /\ Tail(s)[i - 1] = s[i]
    BY <1>2, <1>3, <1>5
  <2>2. \A j \in 1..Len(Tail(s)) : /\ j < i - 1 => Tail(s)[j].type \in before
                                   /\ i - 1 < j => Tail(s)[j].type \in after
    BY <1>1, <1>3, <2>1
  <2>3. Holds(Tail(s), x, before, after)
    BY <1>1, <2>1, <2>2 DEF Holds
  <2>4. Head(s).type \in before
    BY <1>1, <1>2, <1>5
  <2>. QED
    BY <2>3, <2>4
<1>. QED
  BY <1>4, <1>5

(* What an event does to a page                                               *)

LEMMA NewConnection ==
    ASSUME NEW p \in Page, NEW n \in Nat
    PROVE  NewPc(p, n) \in Page /\ NewPc(p, n).num = n /\ NewPc(p, n).with = 0
BY DEF NewPc, Page

LEMMA ConnectionStays ==
    ASSUME NEW d, NEW p \in Page, NEW m \in Message, p.pc # "none",
           m.type # "ANSWER_RECEIVED"
    PROVE  LET e == Effects(d, After(d, p, m)) IN
           /\ e.pc = p.pc /\ e.num = p.num /\ e.with = p.with
           /\ m.type = "ERROR" => e.state = p.state
           /\ m.type = "PEER_CONNECTED" => e.state = "CONNECTED"
<1>. DEFINE a == After(d, p, m)
<1>1. /\ a.pc = p.pc /\ a.num = p.num /\ a.with = p.with
      /\ m.type = "ERROR" => a.state = p.state
      /\ m.type = "PEER_CONNECTED" => a.state = "CONNECTED"
  BY DEF After, Page, Message, Event
<1>. HIDE DEF a
<1>2. Effects(d, a) = a
  BY <1>1 DEF Effects, WantsPc
<1>. QED
  BY <1>1, <1>2 DEF a

LEMMA SenderOffers ==
    ASSUME NEW p \in Page, NEW m \in Message, ~Began(p), m.type = "PEER_JOINED"
    PROVE  LET e == Effects(Sender, After(Sender, p, m)) IN
           e.pc = "offering" /\ e.num # 0 /\ e.with = 0
<1>. DEFINE a == After(Sender, p, m)
            q == NewPc(a, a.num + 1)
<1>1. a \in Page /\ a.pc = "none" /\ a.state = "PAIRING"
  BY DEF After, Page, WebRtcState, Began
<1>. HIDE DEF a
<1>2. a.num \in Nat /\ a.num + 1 \in Nat /\ a.num + 1 # 0
  BY <1>1 DEF Page
<1>3. q \in Page /\ q.num = a.num + 1 /\ q.with = 0
  <2>1. \A n \in Nat : NewPc(a, n) \in Page /\ NewPc(a, n).num = n /\ NewPc(a, n).with = 0
    BY <1>1, NewConnection
  <2>. QED
    BY <1>2, <2>1, Zenon
<1>4. Effects(Sender, a) = [q EXCEPT !.pc = "offering"]
  BY <1>1 DEF Effects, WantsPc
<1>. HIDE DEF q
<1>. QED
  BY <1>2, <1>3, <1>4 DEF Page, a

LEMMA ReceiverWaits ==
    ASSUME NEW d, d # Sender, NEW p \in Page, NEW m \in Message,
           p.pc = "none", p.offer = 0, m.type \in Joint
    PROVE  LET e == Effects(d, After(d, p, m)) IN e.pc = "none" /\ e.offer = 0
<1>. DEFINE a == After(d, p, m)
<1>1. a.pc = "none" /\ a.offer = 0
  BY DEF After, Page, Joint
<1>. HIDE DEF a
<1>. QED
  BY <1>1 DEF Effects, a

LEMMA ReceiverApplies ==
    ASSUME NEW d, d # Sender, NEW p \in Page, NEW m \in Message,
           p.pc = "none", m.type = "OFFER_RECEIVED", m.n # 0
    PROVE  Effects(d, After(d, p, m)).pc = "applying"
<1>. DEFINE a == After(d, p, m)
            q == NewPc(a, a.offer)
<1>1. a \in Page /\ a.pc = "none" /\ a.offer = m.n
  BY DEF After, Page, Message, WebRtcState
<1>. HIDE DEF a
<1>2. q \in Page
  BY <1>1, NewConnection DEF Page
<1>3. Effects(d, a) = [q EXCEPT !.pc = "applying"]
  BY <1>1 DEF Effects, WantsPc
<1>. HIDE DEF q
<1>. QED
  BY <1>2, <1>3 DEF Page, a

LEMMA SenderTakesAnswer ==
    ASSUME NEW p \in Page, NEW m \in Message,
           p.pc = "offered", p.with = 0, m.type = "ANSWER_RECEIVED"
    PROVE  LET e == Effects(Sender, After(Sender, p, m)) IN
           e.pc = "stable" /\ e.state = "CONNECTED"
<1>. DEFINE a == After(Sender, p, m)
<1>1. a = [[[p EXCEPT !.pc = "stable"] EXCEPT !.with = m.n] EXCEPT !.state = "CONNECTED"]
  BY DEF After, GiveAnswer, TakesAnswer
<1>2. a.pc = "stable" /\ a.state = "CONNECTED"
  BY <1>1 DEF Page
<1>. HIDE DEF a
<1>3. Effects(Sender, a) = a
  BY <1>2 DEF Effects, WantsPc
<1>. QED
  BY <1>2, <1>3 DEF a

(* Two pages have two sockets, and nobody else comes.                             *)
LEMMA TwoSockets ==
    ASSUME TypeOK, Calm, TwoPages, Two
    PROVE  /\ Receiver \in Device /\ Receiver # Sender /\ Device = {Sender, Receiver}
           /\ sPage.sock \in Socket /\ rPage.sock \in Socket /\ sPage.sock # rPage.sock
           /\ room = {sPage.sock, rPage.sock} /\ opened = room
           /\ live = room /\ linked = room
<1>1. Receiver \in Device /\ Receiver # Sender /\ Device = {Sender, Receiver}
  BY DEF TwoPages, Receiver
<1>2. ASSUME NEW k \in opened PROVE k \in Socket /\ (k = sPage.sock \/ k = rPage.sock)
  <2>1. k \in Socket /\ DeviceOf[k] \in Device /\ page[DeviceOf[k]].sock = k
    BY GatewayAssumption DEF Calm, OneSocketEach, TypeOK
  <2>. QED
    BY <1>1, <2>1 DEF sPage, rPage
<1>3. PICK i \in room, j \in room : i # j
  BY DEF Two
<1>4. i \in opened /\ j \in opened /\ room \subseteq opened
  BY DEF Calm, OneSocketEach
<1>5. room = {sPage.sock, rPage.sock} /\ sPage.sock # rPage.sock /\ opened = room
  BY <1>2, <1>3, <1>4
<1>. QED
  BY <1>1, <1>2, <1>3, <1>4, <1>5 DEF Calm, OneSocketEach

(* The events of the pages                                                    *)

LEMMA HandleFrame ==
    ASSUME TypeOK, NEW d \in Device, Handle(d)
    PROVE  LET k == page[d].sock  m == Head(inbox[k]) IN
           /\ k \in Socket /\ inbox[k] \in Seq(Message) /\ inbox[k] # <<>> /\ m \in Message
           /\ page[d] \in Page /\ After(d, page[d], m) \in Page
           /\ page'[d] = Effects(d, After(d, page[d], m)) /\ page'[d].sock = k
           /\ inbox'[k] = Tail(inbox[k])
           /\ \A e \in Device \ {d} : page'[e] = page[e]
           /\ \A j \in Socket \ {k} : inbox'[j] = inbox[j]
           /\ UNCHANGED <<task, conn, room, pair, opened>>
<1>. DEFINE k == page[d].sock
            m == Head(inbox[k])
<1>1. /\ page[d] \in Page /\ k \in Socket /\ inbox[k] \in Seq(Message) /\ inbox[k] # <<>>
      /\ UNCHANGED <<task, conn, room, pair, opened>>
  BY DEF Handle, TypeOK, GatewayTypeOK, Page, linksKept, keysKept
<1>2. m \in Message
  BY <1>1
<1>3. After(d, page[d], m) \in Page
  BY <1>1, <1>2, MessageTypes
<1>4. Effects(d, After(d, page[d], m)).sock = k
  BY <1>1, <1>2, <1>3, PageKeepsSocket
<1>5. /\ page' = [page EXCEPT ![d] = Effects(d, After(d, page[d], m))]
      /\ inbox' = [inbox EXCEPT ![k] = Tail(inbox[k])]
  BY DEF Handle
<1>6. /\ page'[d] = Effects(d, After(d, page[d], m)) /\ inbox'[k] = Tail(inbox[k])
      /\ \A e \in Device \ {d} : page'[e] = page[e]
      /\ \A j \in Socket \ {k} : inbox'[j] = inbox[j]
  BY <1>1, <1>5 DEF TypeOK, GatewayTypeOK
<1>. QED
  BY <1>1, <1>2, <1>3, <1>4, <1>6

LEMMA HandleBeginsNothing ==
    ASSUME TypeOK, NothingBegan, NEW d \in Device, Handle(d)
    PROVE  NothingBegan' /\ UNCHANGED <<task, conn, room, pair>>
<1>. DEFINE k == page[d].sock
            m == Head(inbox[k])
            a == After(d, page[d], m)
<1>1. /\ k \in Socket /\ inbox[k] \in Seq(Message) /\ inbox[k] # <<>> /\ m \in Message
      /\ page[d] \in Page /\ a \in Page /\ page'[d] = Effects(d, a)
      /\ inbox'[k] = Tail(inbox[k])
      /\ \A e \in Device \ {d} : page'[e] = page[e]
      /\ \A j \in Socket \ {k} : inbox'[j] = inbox[j]
      /\ UNCHANGED <<task, conn, room, pair>>
  BY HandleFrame
<1>2. m.type \in Early /\ Only(Tail(inbox[k]), Early)
  BY <1>1, OnlyTail DEF NothingBegan
<1>3. ~Began(a)
  BY <1>1, <1>2, PageKeepsSocket DEF NothingBegan, Early
<1>4. ~Began(page'[d])
  BY <1>1, <1>3, PageKeepsSocket
<1>5. \A e \in Device : ~Began(page'[e])
  BY <1>1, <1>4 DEF NothingBegan
<1>6. \A j \in Socket : Only(inbox'[j], Early)
  BY <1>1, <1>2 DEF NothingBegan
<1>7. SignalsOnly({})'
  BY <1>1 DEF NothingBegan, SignalsOnly
<1>. QED
  BY <1>1, <1>5, <1>6, <1>7 DEF NothingBegan, Began, Only, Early

LEMMA HandleEarly ==
    ASSUME TypeOK, Calm, TwoPages, Opening \/ Joining, NEW d \in Device, Handle(d)
    PROVE  Phased'
<1>1. NothingBegan
  BY DEF Opening, Joining
<1>2. NothingBegan' /\ UNCHANGED <<task, conn, room, pair>>
  BY <1>1, HandleBeginsNothing
<1>3. CASE Opening
  <2>1. \A k : Joins(k)' = Joins(k)
    BY <1>2 DEF Joins
  <2>2. \A k \in Socket :
           /\ Joins(k)'.at \in {"save", "read"} => Joins(k)'.to \in {"WAITING", "JOINED"}
           /\ Joins(k)'.at = "write" => Joins(k)'.to = "JOINED"
           /\ CameSecond(Joins(k)') => \A j \in room \ {k} : Rests(Joins(j)')
    BY <1>3, <2>1 DEF Opening
  <2>3. pair.sender # None => \E j \in room : Rests(Joins(j)')
    BY <1>3, <2>1 DEF Opening
  <2>4. Opening'
    BY <1>2, <1>3, <2>2, <2>3 DEF Opening, CameSecond, Rests
  <2>. QED
    BY <2>4 DEF Phased
<1>4. CASE Joining
  BY <1>2, <1>4 DEF Joining, Joins, Rests, Two, Phased
<1>. QED
  BY <1>3, <1>4

LEMMA SenderHandles ==
    ASSUME TypeOK, Calm, TwoPages, Two, Phased, ~Opening, ~Joining, Handle(Sender)
    PROVE  Phased'
<1>. DEFINE m == Head(toSender)
<1>1. /\ Receiver \in Device /\ Receiver # Sender /\ Sender \in Device
      /\ sPage.sock \in Socket /\ rPage.sock \in Socket /\ sPage.sock # rPage.sock
  BY TwoSockets, HandshakeAssumption
<1>2. /\ toSender \in Seq(Message) /\ toSender # <<>> /\ m \in Message
      /\ sPage \in Page /\ After(Sender, sPage, m) \in Page
      /\ sPage' = Effects(Sender, After(Sender, sPage, m))
      /\ sPage'.sock = sPage.sock
      /\ toSender' = Tail(toSender) /\ rPage' = rPage /\ toReceiver' = toReceiver
      /\ UNCHANGED <<task, conn, room>>
  BY <1>1, HandleFrame DEF sPage, rPage, toSender, toReceiver
<1>3. /\ BothIn => BothIn'
      /\ SignalsOnly({}) => SignalsOnly({})'
      /\ SignalsOnly({<<sPage.sock, "offer">>}) => SignalsOnly({<<sPage.sock, "offer">>})'
      /\ SignalsOnly({<<rPage.sock, "answer">>}) => SignalsOnly({<<rPage.sock, "answer">>})'
      /\ Untold => Untold'
  BY <1>2 DEF BothIn, Joins, Two, SignalsOnly, sPage, rPage, Untold
<1>4. ASSUME Given PROVE Given'
  <2>1. m.type \in Early /\ Only(toSender', Early)
    BY <1>2, <1>4, OnlyTail DEF Given
  <2>2. sPage'.pc = "offered" /\ sPage'.with = 0
    BY <1>2, <1>4, <2>1, ConnectionStays DEF Given, Early
  <2>. QED
    BY <2>1, <2>2 DEF Given, Only, Early
<1>5. CASE Announced
  <2>1. ~Began(sPage) /\ Holds(toSender, "PEER_JOINED", Early, Early)
    BY <1>5 DEF Announced
  <2>2. CASE m.type = "PEER_JOINED" /\ Only(toSender', Early)
    <3>1. sPage'.pc = "offering" /\ sPage'.num # 0 /\ sPage'.with = 0
      BY <1>2, <2>1, <2>2, SenderOffers
    <3>2. Offering'
      BY <1>2, <1>3, <1>5, <2>2, <3>1 DEF Announced, Offering, Only, Early, Joint
    <3>. QED
      BY <3>2 DEF Phased
  <2>3. CASE m.type \in Early /\ Holds(toSender', "PEER_JOINED", Early, Early)
    <3>1. ~Began(After(Sender, sPage, m))
      BY <1>1, <1>2, <2>1, <2>3, PageKeepsSocket DEF Early
    <3>2. ~Began(sPage')
      BY <1>1, <1>2, <3>1, PageKeepsSocket
    <3>3. Announced'
      BY <1>2, <1>3, <1>5, <2>3, <3>2 DEF Announced, Only, Holds, Began, Early, Joint
    <3>. QED
      BY <3>3 DEF Phased
  <2>. QED
    BY <1>2, <2>1, <2>2, <2>3, HoldsTail
<1>6. CASE Offering
  <2>1. m.type \in Early /\ Only(toSender', Early)
    BY <1>2, <1>6, OnlyTail DEF Offering
  <2>2. sPage'.pc = "offering" /\ sPage'.num # 0 /\ sPage'.with = 0
    BY <1>2, <1>6, <2>1, ConnectionStays DEF Offering, Early
  <2>3. Offering'
    BY <1>2, <1>3, <1>6, <2>1, <2>2 DEF Offering, Only, Early, Joint
  <2>. QED
    BY <2>3 DEF Phased
<1>7. CASE Offered
  <2>1. Offered'
    BY <1>2, <1>3, <1>4, <1>7 DEF Offered, Only, Joint
  <2>. QED
    BY <2>1 DEF Phased
<1>8. CASE Told
  <2>1. Told'
    BY <1>2, <1>3, <1>4, <1>8 DEF Told, Holds, Joint
  <2>. QED
    BY <2>1 DEF Phased
<1>9. CASE Applying
  <2>1. Applying'
    BY <1>2, <1>3, <1>4, <1>9 DEF Applying, Only
  <2>. QED
    BY <2>1 DEF Phased
<1>10. CASE Answered
  <2>1. Answered'
    BY <1>2, <1>3, <1>4, <1>10 DEF Answered, Only
  <2>. QED
    BY <2>1 DEF Phased
<1>11. CASE Connected
  <2>1. \/ /\ sPage'.pc = "offered" /\ sPage'.with = 0
           /\ Holds(toSender', "ANSWER_RECEIVED", Early, Late)
        \/ sPage'.pc = "stable" /\ sPage'.state = "CONNECTED" /\ Only(toSender', Late)
    <3>1. CASE /\ sPage.pc = "offered" /\ sPage.with = 0
               /\ Holds(toSender, "ANSWER_RECEIVED", Early, Late)
      <4>1. CASE m.type = "ANSWER_RECEIVED" /\ Only(toSender', Late)
        BY <1>2, <3>1, <4>1, SenderTakesAnswer
      <4>2. CASE m.type \in Early /\ Holds(toSender', "ANSWER_RECEIVED", Early, Late)
        BY <1>2, <3>1, <4>2, ConnectionStays DEF Early
      <4>. QED
        BY <1>2, <3>1, <4>1, <4>2, HoldsTail
    <3>2. CASE sPage.pc = "stable" /\ sPage.state = "CONNECTED" /\ Only(toSender, Late)
      <4>1. m.type \in Late /\ Only(toSender', Late)
        BY <1>2, <3>2, OnlyTail
      <4>. QED
        BY <1>2, <3>2, <4>1, ConnectionStays DEF Late
    <3>. QED
      BY <1>11, <3>1, <3>2 DEF Connected
  <2>2. Connected'
    BY <1>2, <1>3, <1>11, <2>1 DEF Connected, Only, Holds, Early, Late
  <2>. QED
    BY <2>2 DEF Phased
<1>. QED
  BY <1>5, <1>6, <1>7, <1>8, <1>9, <1>10, <1>11 DEF Phased

LEMMA ReceiverHandles ==
    ASSUME TypeOK, Calm, TwoPages, Two, Phased, ~Opening, ~Joining, Handle(Receiver)
    PROVE  Phased'
<1>. DEFINE m == Head(toReceiver)
<1>1. /\ Receiver \in Device /\ Receiver # Sender /\ Sender \in Device
      /\ sPage.sock \in Socket /\ rPage.sock \in Socket /\ sPage.sock # rPage.sock
  BY TwoSockets, HandshakeAssumption
<1>2. /\ toReceiver \in Seq(Message) /\ toReceiver # <<>> /\ m \in Message
      /\ rPage \in Page
      /\ rPage' = Effects(Receiver, After(Receiver, rPage, m))
      /\ rPage'.sock = rPage.sock
      /\ toReceiver' = Tail(toReceiver) /\ sPage' = sPage /\ toSender' = toSender
      /\ UNCHANGED <<task, conn, room>>
  BY <1>1, HandleFrame DEF sPage, rPage, toSender, toReceiver
<1>3. /\ BothIn => BothIn'
      /\ SignalsOnly({}) => SignalsOnly({})'
      /\ SignalsOnly({<<sPage.sock, "offer">>}) => SignalsOnly({<<sPage.sock, "offer">>})'
      /\ SignalsOnly({<<rPage.sock, "answer">>}) => SignalsOnly({<<rPage.sock, "answer">>})'
      /\ Given => Given' /\ (Began(sPage)' <=> Began(sPage))
  BY <1>2 DEF BothIn, Joins, Two, SignalsOnly, sPage, rPage, Given, Began, Only, Early
<1>4. ASSUME Untold, m.type \in Joint PROVE Untold'
  BY <1>1, <1>2, <1>4, ReceiverWaits DEF Untold
<1>5. ASSUME Untold, Only(toReceiver, Joint) PROVE Untold' /\ Only(toReceiver', Joint)
  BY <1>2, <1>4, <1>5, OnlyTail
<1>6. CASE Announced
  <2>1. Announced'
    BY <1>2, <1>3, <1>5, <1>6 DEF Announced, Only, Holds, Early, Joint
  <2>. QED
    BY <2>1 DEF Phased
<1>7. CASE Offering
  <2>1. Offering'
    BY <1>2, <1>3, <1>5, <1>7 DEF Offering, Only, Early, Joint
  <2>. QED
    BY <2>1 DEF Phased
<1>8. CASE Offered
  <2>1. Offered'
    BY <1>2, <1>3, <1>5, <1>8 DEF Offered, Only, Joint
  <2>. QED
    BY <2>1 DEF Phased
<1>9. CASE Told
  <2>1. Untold /\ Holds(toReceiver, "OFFER_RECEIVED", Joint, {"ERROR"})
    BY <1>9 DEF Told
  <2>2. CASE m.type = "OFFER_RECEIVED" /\ m.n # 0 /\ Only(toReceiver', {"ERROR"})
    <3>1. rPage'.pc = "applying"
      BY <1>1, <1>2, <2>1, <2>2, ReceiverApplies DEF Untold
    <3>2. Applying'
      BY <1>2, <1>3, <1>9, <2>2, <3>1 DEF Told, Applying, Only
    <3>. QED
      BY <3>2 DEF Phased
  <2>3. CASE m.type \in Joint /\ Holds(toReceiver', "OFFER_RECEIVED", Joint, {"ERROR"})
    <3>1. Told'
      BY <1>2, <1>3, <1>4, <1>9, <2>1, <2>3 DEF Told, Holds, Joint
    <3>. QED
      BY <3>1 DEF Phased
  <2>. QED
    BY <1>2, <2>1, <2>2, <2>3, HoldsTail
<1>10. CASE Applying
  <2>1. m.type = "ERROR" /\ Only(toReceiver', {"ERROR"})
    BY <1>2, <1>10, OnlyTail DEF Applying
  <2>2. rPage'.pc = "applying"
    BY <1>2, <1>10, <2>1, ConnectionStays DEF Applying
  <2>3. Applying'
    BY <1>2, <1>3, <1>10, <2>1, <2>2 DEF Applying, Only
  <2>. QED
    BY <2>3 DEF Phased
<1>11. CASE Answered
  <2>1. m.type = "ERROR" /\ Only(toReceiver', {"ERROR"})
    BY <1>2, <1>11, OnlyTail DEF Answered
  <2>2. rPage'.pc = "stable" /\ rPage'.state = "CONNECTED"
    BY <1>2, <1>11, <2>1, ConnectionStays DEF Answered
  <2>3. Answered'
    BY <1>2, <1>3, <1>11, <2>1, <2>2 DEF Answered, Only
  <2>. QED
    BY <2>3 DEF Phased
<1>12. CASE Connected
  <2>1. m.type \in Late /\ Only(toReceiver', Late)
    BY <1>2, <1>12, OnlyTail DEF Connected
  <2>2. rPage'.pc = "stable" /\ rPage'.state = "CONNECTED"
    BY <1>2, <1>12, <2>1, ConnectionStays DEF Connected, Late
  <2>3. Connected'
    BY <1>2, <1>3, <1>12, <2>1, <2>2 DEF Connected, Only, Holds, Early, Late
  <2>. QED
    BY <2>3 DEF Phased
<1>. QED
  BY <1>6, <1>7, <1>8, <1>9, <1>10, <1>11, <1>12 DEF Phased

(* The signals of the pages                                                   *)

LEMMA OnlyOffering ==
    ASSUME TypeOK, Calm, TwoPages, Phased, NEW d \in Device,
           page[d].pc \in {"offering", "applying"}
    PROVE  \/ d = Sender /\ page[d].pc = "offering" /\ Offering /\ Two
           \/ d = Receiver /\ page[d].pc = "applying" /\ Applying /\ Two
<1>1. Device = {Sender, Receiver} /\ Receiver # Sender
  BY DEF TwoPages, Receiver
<1>2. ~Opening /\ ~Joining
  BY DEF Opening, Joining, NothingBegan, Began
<1>3. BothIn
  BY <1>2 DEF Phased, Announced, Offering, Offered, Told, Applying, Answered, Connected
<1>4. Offering \/ Applying
  <2>1. CASE d = Sender
    BY <1>2, <2>1 DEF Phased, Announced, Offered, Told, Answered, Connected, Began, Given, sPage
  <2>2. CASE d = Receiver
    BY <1>2, <2>2 DEF Phased, Announced, Offered, Told, Answered, Connected, Untold, rPage
  <2>. QED
    BY <1>1, <2>1, <2>2
<1>5. d = Sender \/ d = Receiver
  BY <1>1
<1>. QED
  BY <1>1, <1>3, <1>4, <1>5 DEF Offering, Applying, Untold, Given, sPage, rPage, BothIn

LEMMA SignalFrame ==
    ASSUME TypeOK, Calm, TwoPages, Two, NEW d \in Device, NEW h \in {"offer", "answer"},
           NEW p \in Page, p.sock = page[d].sock, Signal(d, h, p)
    PROVE  LET k == page[d].sock IN
           /\ k \in Socket /\ page'[d] = p /\ \A e \in Device \ {d} : page'[e] = page[e]
           /\ task'[<<k, h>>] = [First(h) EXCEPT !.n = p.num]
           /\ \A j \in Socket, g \in Handler :
                 <<j, g>> # <<k, h>> => task'[<<j, g>>] = task[<<j, g>>]
<1>. DEFINE k == page[d].sock
<1>1. k \in Socket /\ h \in Handler /\ k # None
  BY TwoSockets, HandshakeAssumption DEF sPage, rPage, Handler
<1>2. page' = [page EXCEPT ![d] = p] /\ Send(k, h, p.num)
  BY <1>1 DEF Signal
<1>3. task' = [task EXCEPT ![<<k, h>>] = [First(h) EXCEPT !.n = p.num]]
  BY <1>2 DEF Send
<1>. QED
  BY <1>1, <1>2, <1>3 DEF TypeOK, GatewayTypeOK

LEMMA OfferStep ==
    ASSUME TypeOK, Calm, TwoPages, Phased, NEW d \in Device, OfferReady(d)
    PROVE  Phased'
<1>. DEFINE p == [page[d] EXCEPT !.pc = "offered", !.state = "NEGOTIATING"]
            k == sPage.sock
            t == [First("offer") EXCEPT !.n = p.num]
<1>1. d = Sender /\ Offering /\ Two
  BY OnlyOffering DEF OfferReady
<1>2. /\ Device = {Sender, Receiver} /\ Receiver # Sender /\ Sender \in Device
      /\ k \in Socket /\ rPage.sock \in Socket /\ k # rPage.sock
  BY <1>1, TwoSockets
<1>3. page[d] \in Page
  BY DEF TypeOK
<1>4. p \in Page /\ p.sock = k /\ p.pc = "offered" /\ p.num = sPage.num /\ p.with = sPage.with
  BY <1>1, <1>3 DEF Page, WebRtcState, sPage
<1>5. Signal(d, "offer", p) /\ UNCHANGED <<inbox, conn, room>>
  BY DEF OfferReady, linksKept, keysKept
<1>. HIDE DEF p
<1>6. /\ page'[Sender] = p /\ page'[Receiver] = page[Receiver] /\ task'[<<k, "offer">>] = t
      /\ \A j \in Socket, g \in Handler :
            <<j, g>> # <<k, "offer">> => task'[<<j, g>>] = task[<<j, g>>]
  BY <1>1, <1>2, <1>4, <1>5, SignalFrame DEF sPage
<1>7. t.at = "read" /\ t.to = "NEGOTIATING" /\ t.n = p.num
  BY DEF First, Idle
<1>. HIDE DEF t
<1>8. BothIn'
  <2>1. \A j \in Socket : Joins(j)' = Joins(j)
    BY <1>6 DEF Joins, Handler
  <2>. QED
    BY <1>1, <1>5, <2>1 DEF Offering, BothIn, Two, Rests
<1>9. sPage'.sock = k /\ rPage' = rPage /\ toSender' = toSender /\ toReceiver' = toReceiver
  BY <1>4, <1>5, <1>6 DEF sPage, rPage, toSender, toReceiver
<1>10. SignalsOnly({<<sPage.sock, "offer">>})'
  BY <1>1, <1>6, <1>9 DEF SignalsOnly, Offering, Handler
<1>11. Given' /\ Untold' /\ Only(toReceiver, Joint)'
  BY <1>1, <1>4, <1>6, <1>9 DEF Offering, Given, Untold, Only, Early, Joint, sPage
<1>12. Offered'
  BY <1>1, <1>4, <1>5, <1>6, <1>7, <1>8, <1>9, <1>10, <1>11 DEF Offering, Offered
<1>. QED
  BY <1>12 DEF Phased

LEMMA AnswerStep ==
    ASSUME TypeOK, Calm, TwoPages, Phased, NEW d \in Device, AnswerReady(d)
    PROVE  Phased'
<1>. DEFINE p == [page[d] EXCEPT !.pc = "stable", !.state = "CONNECTED"]
            k == rPage.sock
            t == [First("answer") EXCEPT !.n = p.num]
<1>1. d = Receiver /\ Applying /\ Two
  BY OnlyOffering DEF AnswerReady
<1>2. /\ Device = {Sender, Receiver} /\ Receiver # Sender /\ Receiver \in Device
      /\ k \in Socket /\ sPage.sock \in Socket /\ k # sPage.sock
  BY <1>1, TwoSockets
<1>3. page[d] \in Page
  BY DEF TypeOK
<1>4. p \in Page /\ p.sock = k /\ p.pc = "stable" /\ p.state = "CONNECTED"
  BY <1>1, <1>3 DEF Page, WebRtcState, rPage
<1>5. Signal(d, "answer", p) /\ UNCHANGED <<inbox, conn, room>>
  BY DEF AnswerReady, linksKept, keysKept
<1>. HIDE DEF p
<1>6. /\ page'[Receiver] = p /\ page'[Sender] = page[Sender] /\ task'[<<k, "answer">>] = t
      /\ \A j \in Socket, g \in Handler :
            <<j, g>> # <<k, "answer">> => task'[<<j, g>>] = task[<<j, g>>]
  BY <1>1, <1>2, <1>4, <1>5, SignalFrame DEF rPage
<1>7. t.at = "read" /\ t.to = "CONNECTED"
  BY DEF First, Idle
<1>. HIDE DEF t
<1>8. BothIn'
  <2>1. \A j \in Socket : Joins(j)' = Joins(j)
    BY <1>6 DEF Joins, Handler
  <2>. QED
    BY <1>1, <1>5, <2>1 DEF Applying, BothIn, Two, Rests
<1>9. rPage'.sock = k /\ sPage' = sPage /\ toSender' = toSender /\ toReceiver' = toReceiver
  BY <1>4, <1>5, <1>6 DEF sPage, rPage, toSender, toReceiver
<1>10. SignalsOnly({<<rPage.sock, "answer">>})'
  BY <1>1, <1>6, <1>9 DEF SignalsOnly, Applying, Handler
<1>11. Given' /\ Only(toReceiver, {"ERROR"})'
  BY <1>1, <1>9 DEF Applying, Given, Only, Early
<1>12. rPage'.pc = "stable" /\ rPage'.state = "CONNECTED"
  BY <1>4, <1>6 DEF rPage
<1>13. Answered'
  BY <1>1, <1>5, <1>6, <1>7, <1>8, <1>9, <1>10, <1>11, <1>12 DEF Applying, Answered
<1>. QED
  BY <1>13 DEF Phased

(* A socket connects only before both are in.                                      *)
LEMMA ConnectStep ==
    ASSUME TypeOK, Calm, TwoPages, Phased, NEW d \in Device, NEW k \in Socket, Connect(d, k)
    PROVE  Phased'
<1>. DEFINE t == [First("join") EXCEPT !.n = 0]
            p == [[page[d] EXCEPT !.sock = k] EXCEPT !.held = NoneHeld]
<1>1. /\ page[d] \in Page /\ page[d].sock = None /\ k \notin opened
      /\ UNCHANGED <<room, inbox, conn, pair>>
  BY DEF Connect, TypeOK, keysKept
<1>2. ~Two
  BY <1>1, TwoSockets, HandshakeAssumption DEF sPage, rPage
<1>3. Opening
  BY <1>2 DEF Phased, Joining, BothIn, Announced, Offering, Offered, Told, Applying,
              Answered, Connected
<1>4. task' = [task EXCEPT ![<<k, "join">>] = t]
  BY JoinsFirst DEF Calm
<1>5. t.at = "validate"
  BY DEF First, Idle
<1>6. page' = [page EXCEPT ![d] = p]
  BY DEF Connect
<1>7. p.pc = page[d].pc /\ p.state = page[d].state /\ p.offer = page[d].offer
  BY <1>1 DEF Page
<1>. HIDE DEF t, p
<1>8. NothingBegan'
  <2>1. \A e \in Device : ~Began(page'[e])
    BY <1>3, <1>6, <1>7 DEF Opening, NothingBegan, Began, TypeOK
  <2>2. \A j \in Socket, h \in {"offer", "answer"} : task'[<<j, h>>] = task[<<j, h>>]
    BY <1>4 DEF TypeOK, GatewayTypeOK, Handler
  <2>. QED
    BY <1>1, <1>3, <2>1, <2>2 DEF Opening, NothingBegan, SignalsOnly, Only, Early, Began
<1>9. Joins(k)' = t /\ \A j \in Socket \ {k} : Joins(j)' = Joins(j)
  BY <1>4 DEF Joins, TypeOK, GatewayTypeOK, Handler
<1>10. k \notin room /\ room \subseteq Socket
  BY <1>1 DEF Calm, OneSocketEach, TypeOK, GatewayTypeOK
<1>11. ASSUME NEW j \in Socket
       PROVE  /\ Joins(j)'.at \in {"save", "read"} => Joins(j)'.to \in {"WAITING", "JOINED"}
              /\ Joins(j)'.at = "write" => Joins(j)'.to = "JOINED"
              /\ CameSecond(Joins(j)') => \A i \in room \ {j} : Rests(Joins(i)')
  <2>1. CASE j = k
    BY <1>5, <1>9, <2>1 DEF CameSecond
  <2>2. CASE j # k
    <3>1. Joins(j)' = Joins(j)
      BY <1>9, <2>2
    <3>2. \A i \in room : Joins(i)' = Joins(i)
      BY <1>9, <1>10
    <3>. QED
      BY <1>3, <3>1, <3>2 DEF Opening
  <2>. QED
    BY <2>1, <2>2
<1>12. pair.sender # None => \E j \in room : Rests(Joins(j)')
  BY <1>3, <1>9, <1>10 DEF Opening
<1>13. Opening'
  BY <1>1, <1>3, <1>8, <1>11, <1>12 DEF Opening, CameSecond, Rests
<1>. QED
  BY <1>13 DEF Phased

(* The steps of the gateway                                                   *)

LEMMA ErrorAdds ==
    ASSUME TypeOK, NEW k, ToOne(k, <<Says("ERROR")>>), NEW j \in Socket
    PROVE  \E u \in Seq(Message) :
              /\ Only(u, {"ERROR"})
              /\ inbox'[j] = IF j \in live \cap linked THEN inbox[j] \o u ELSE <<>>
<1>1. <<Says("ERROR")>> \in Seq(Message) /\ Only(<<Says("ERROR")>>, {"ERROR"})
  BY SaysTypes DEF Event, Only, Says
<1>2. <<>> \in Seq(Message) /\ Only(<<>>, {"ERROR"})
  BY DEF Only
<1>3. inbox'[j] = IF j \in live \cap linked
                  THEN inbox[j] \o (IF j = k THEN <<Says("ERROR")>> ELSE <<>>) ELSE <<>>
  BY DEF ToOne, Post
<1>. QED
  BY <1>1, <1>2, <1>3

LEMMA ErrorsAllowed ==
    ASSUME NEW s \in Seq(Message), NEW u \in Seq(Message), Only(u, {"ERROR"})
    PROVE  /\ \A types : "ERROR" \in types /\ Only(s, types) => Only(s \o u, types)
           /\ \A x, before, after :
                 "ERROR" \in after /\ Holds(s, x, before, after)
                    => Holds(s \o u, x, before, after)
<1>1. ASSUME NEW types, "ERROR" \in types PROVE Only(u, types)
  BY <1>1 DEF Only
<1>2. ASSUME NEW types, "ERROR" \in types, Only(s, types) PROVE Only(s \o u, types)
  BY <1>1, <1>2, OnlyLonger
<1>3. ASSUME NEW x, NEW before, NEW after, "ERROR" \in after, Holds(s, x, before, after)
      PROVE  Holds(s \o u, x, before, after)
  BY <1>1, <1>3, HoldsLonger
<1>. QED
  BY <1>2, <1>3

(* A join that came first is refused once the second one went on.                    *)
LEMMA RefusedStep ==
    ASSUME TypeOK, Calm, TwoPages, Phased, ~Opening, NEW k \in Socket,
           Rests(Joins(k)), Refuse(k, "join"), UNCHANGED <<page, conn, room>>
    PROVE  Phased'
<1>1. Two
  BY DEF Phased, Joining, BothIn, Announced, Offering, Offered, Told, Applying,
         Answered, Connected
<1>2. /\ sPage.sock \in Socket /\ rPage.sock \in Socket
      /\ sPage.sock \in live \cap linked /\ rPage.sock \in live \cap linked
  BY <1>1, TwoSockets
<1>3. task' = [task EXCEPT ![<<k, "join">>] = Idle] /\ ToOne(k, <<Says("ERROR")>>)
  BY DEF Refuse, End
<1>4. /\ \A j \in Socket : Joins(j)' = IF j = k THEN Idle ELSE Joins(j)
      /\ \A j \in Socket, h \in {"offer", "answer"} : task'[<<j, h>>] = task[<<j, h>>]
  BY <1>3 DEF Joins, TypeOK, GatewayTypeOK, Handler
<1>5. Rests(Idle)
  BY DEF Rests, Idle
<1>6. sPage' = sPage /\ rPage' = rPage /\ Two'
  BY <1>1 DEF sPage, rPage, Two
<1>7. /\ BothIn => BothIn'
      /\ SignalsOnly({}) => SignalsOnly({})'
      /\ SignalsOnly({<<sPage.sock, "offer">>}) => SignalsOnly({<<sPage.sock, "offer">>})'
      /\ SignalsOnly({<<rPage.sock, "answer">>}) => SignalsOnly({<<rPage.sock, "answer">>})'
  BY <1>4, <1>5, <1>6 DEF BothIn, SignalsOnly, Rests
<1>8. ASSUME NEW j \in Socket, j \in live \cap linked
      PROVE  /\ \A types : "ERROR" \in types /\ Only(inbox[j], types) => Only(inbox'[j], types)
             /\ \A x, before, after :
                   "ERROR" \in after /\ Holds(inbox[j], x, before, after)
                      => Holds(inbox'[j], x, before, after)
  <2>1. PICK u \in Seq(Message) : Only(u, {"ERROR"}) /\ inbox'[j] = inbox[j] \o u
    BY <1>3, <1>8, ErrorAdds
  <2>2. inbox[j] \in Seq(Message)
    BY DEF TypeOK, GatewayTypeOK
  <2>. QED
    BY <2>1, <2>2, ErrorsAllowed
<1>9. /\ \A types : "ERROR" \in types /\ Only(toSender, types) => Only(toSender', types)
      /\ \A types : "ERROR" \in types /\ Only(toReceiver, types) => Only(toReceiver', types)
      /\ \A x, before, after : "ERROR" \in after /\ Holds(toSender, x, before, after)
            => Holds(toSender', x, before, after)
      /\ \A x, before, after : "ERROR" \in after /\ Holds(toReceiver, x, before, after)
            => Holds(toReceiver', x, before, after)
  BY <1>2, <1>6, <1>8 DEF toSender, toReceiver, sPage, rPage
<1>10. "ERROR" \in Early /\ "ERROR" \in Joint /\ "ERROR" \in Late /\ "ERROR" \in {"ERROR"}
  BY DEF Early, Joint, Late
<1>11. /\ Given => Given'
       /\ Untold => Untold'
       /\ Began(sPage)' <=> Began(sPage)
  BY <1>6, <1>9, <1>10 DEF Given, Untold, Began, Only, Early
<1>12. CASE Joining
  <2>1. PICK i \in room : /\ Joins(i).at \in {"read", "write"} /\ Joins(i).to = "PAIRING"
                          /\ \A j \in Socket \ {i} : Rests(Joins(j))
    BY <1>12 DEF Joining
  <2>2. i # k
    BY <2>1 DEF Rests
  <2>3. i \in Socket
    BY DEF TypeOK, GatewayTypeOK
  <2>4. /\ Joins(i)'.at \in {"read", "write"} /\ Joins(i)'.to = "PAIRING"
        /\ \A j \in Socket \ {i} : Rests(Joins(j)')
    BY <1>4, <1>5, <2>1, <2>2, <2>3
  <2>5. \A j \in Socket : Only(inbox'[j], Early)
    <3>. SUFFICES ASSUME NEW j \in Socket PROVE Only(inbox'[j], Early)
      OBVIOUS
    <3>1. CASE j \in live \cap linked
      BY <1>8, <1>10, <1>12, <3>1 DEF Joining, NothingBegan
    <3>2. CASE j \notin live \cap linked
      <4>1. inbox'[j] = <<>>
        BY <1>3, <3>2, ErrorAdds
      <4>. QED
        BY <4>1 DEF Only
    <3>. QED
      BY <3>1, <3>2
  <2>6. NothingBegan'
    BY <1>7, <1>12, <2>5 DEF Joining, NothingBegan, Began, Only, Early
  <2>7. Joining'
    BY <1>6, <1>12, <2>4, <2>6 DEF Joining, Rests
  <2>. QED
    BY <2>7 DEF Phased
<1>13. CASE Announced
  <2>1. Holds(toSender', "PEER_JOINED", Early, Early) /\ Only(toReceiver', Joint)
    BY <1>9, <1>10, <1>13 DEF Announced
  <2>2. Announced'
    BY <1>7, <1>11, <1>13, <2>1 DEF Announced, Holds, Only, Early, Joint
  <2>. QED
    BY <2>2 DEF Phased
<1>14. CASE Offering
  <2>1. Only(toSender', Early) /\ Only(toReceiver', Joint)
    BY <1>9, <1>10, <1>14 DEF Offering
  <2>2. Offering'
    BY <1>6, <1>7, <1>11, <1>14, <2>1 DEF Offering, Only, Early, Joint
  <2>. QED
    BY <2>2 DEF Phased
<1>15. CASE Offered
  <2>1. Only(toReceiver', Joint)
    BY <1>9, <1>10, <1>15 DEF Offered
  <2>2. task'[<<sPage.sock, "offer">>] = task[<<sPage.sock, "offer">>]
    BY <1>2, <1>4
  <2>3. Offered'
    BY <1>6, <1>7, <1>11, <1>15, <2>1, <2>2 DEF Offered, Only, Joint
  <2>. QED
    BY <2>3 DEF Phased
<1>16. CASE Told
  <2>1. Holds(toReceiver', "OFFER_RECEIVED", Joint, {"ERROR"})
    BY <1>9, <1>10, <1>16 DEF Told
  <2>2. Told'
    BY <1>7, <1>11, <1>16, <2>1 DEF Told, Holds, Joint
  <2>. QED
    BY <2>2 DEF Phased
<1>17. CASE Applying
  <2>1. Only(toReceiver', {"ERROR"})
    BY <1>9, <1>10, <1>17 DEF Applying
  <2>2. Applying'
    BY <1>6, <1>7, <1>11, <1>17, <2>1 DEF Applying, Only
  <2>. QED
    BY <2>2 DEF Phased
<1>18. CASE Answered
  <2>1. Only(toReceiver', {"ERROR"})
    BY <1>9, <1>10, <1>18 DEF Answered
  <2>2. task'[<<rPage.sock, "answer">>] = task[<<rPage.sock, "answer">>]
    BY <1>2, <1>4
  <2>3. Answered'
    BY <1>6, <1>7, <1>11, <1>18, <2>1, <2>2 DEF Answered, Only
  <2>. QED
    BY <2>3 DEF Phased
<1>19. CASE Connected
  <2>1. /\ Only(toReceiver', Late)
        /\ \/ /\ sPage.pc = "offered" /\ sPage.with = 0
              /\ Holds(toSender', "ANSWER_RECEIVED", Early, Late)
           \/ sPage.pc = "stable" /\ sPage.state = "CONNECTED" /\ Only(toSender', Late)
    BY <1>9, <1>10, <1>19 DEF Connected
  <2>2. Connected'
    BY <1>6, <1>7, <1>19, <2>1 DEF Connected, Holds, Only, Early, Late
  <2>. QED
    BY <2>2 DEF Phased
<1>. QED
  BY <1>12, <1>13, <1>14, <1>15, <1>16, <1>17, <1>18, <1>19 DEF Phased

LEMMA ErrorIsEarly ==
    ASSUME TypeOK, NothingBegan, NEW k, ToOne(k, <<Says("ERROR")>>)
    PROVE  \A j \in Socket : Only(inbox'[j], Early)
<1>. SUFFICES ASSUME NEW j \in Socket PROVE Only(inbox'[j], Early)
  OBVIOUS
<1>1. PICK u \in Seq(Message) :
         /\ Only(u, {"ERROR"})
         /\ inbox'[j] = IF j \in live \cap linked THEN inbox[j] \o u ELSE <<>>
  BY ErrorAdds
<1>2. inbox[j] \in Seq(Message) /\ Only(inbox[j], Early) /\ "ERROR" \in Early
  BY DEF TypeOK, GatewayTypeOK, NothingBegan, Early
<1>3. Only(inbox[j] \o u, Early)
  BY <1>1, <1>2, ErrorsAllowed
<1>4. Only(<<>>, Early)
  BY DEF Only
<1>. QED
  BY <1>1, <1>3, <1>4

(* A join that still has something to do is the only one that can come second.         *)
LEMMA OnlySecond ==
    ASSUME TypeOK, Calm, TwoPages, Opening, NEW k \in Socket, ~Rests(Joins(k)),
           NEW j \in Socket, j # k
    PROVE  ~CameSecond(Joins(j))
<1>. SUFFICES ASSUME CameSecond(Joins(j)) PROVE FALSE
  OBVIOUS
<1>1. Fits(j, "join", Joins(j)) /\ Fits(k, "join", Joins(k))
  BY DEF Calm, TasksFit, Joins, Handler
<1>2. Two /\ k \in opened
  BY <1>1 DEF Fits, CameSecond, Rests
<1>3. k \in room
  BY <1>2, TwoSockets
<1>. QED
  BY <1>3 DEF Opening

LEMMA OpeningGoesOn ==
    ASSUME TypeOK, Calm, TwoPages, Opening, NEW k \in Socket, ~Rests(Joins(k)), NEW t,
           task' = [task EXCEPT ![<<k, "join">>] = t], UNCHANGED <<page, conn>>,
           \A j \in Socket : Only(inbox'[j], Early),
           room \subseteq room', room' \subseteq Socket,
           t.at \in {"save", "read"} => t.to \in {"WAITING", "JOINED"},
           t.at = "write" => t.to = "JOINED",
           CameSecond(t) => \A i \in room' \ {k} : Rests(Joins(i)),
           pair'.sender # None => \/ k \in room' /\ Rests(t)
                                  \/ \E i \in room : Rests(Joins(i))
    PROVE  Phased'
<1>1. Joins(k)' = t /\ \A j \in Socket \ {k} : Joins(j)' = Joins(j)
  BY DEF Joins, TypeOK, GatewayTypeOK, Handler
<1>2. ASSUME NEW j \in Socket
      PROVE  /\ Joins(j)'.at \in {"save", "read"} => Joins(j)'.to \in {"WAITING", "JOINED"}
             /\ Joins(j)'.at = "write" => Joins(j)'.to = "JOINED"
             /\ CameSecond(Joins(j)') => \A i \in room' \ {j} : Rests(Joins(i)')
  <2>1. CASE j = k
    BY <1>1, <2>1
  <2>2. CASE j # k
    <3>1. Joins(j)' = Joins(j) /\ ~CameSecond(Joins(j))
      BY <1>1, <2>2, OnlySecond
    <3>. QED
      BY <3>1 DEF Opening
  <2>. QED
    BY <2>1, <2>2
<1>3. pair'.sender # None => \E j \in room' : Rests(Joins(j)')
  <2>1. ASSUME NEW i \in room, Rests(Joins(i)) PROVE \E j \in room' : Rests(Joins(j)')
    <3>1. i # k /\ i \in Socket
      BY <2>1
    <3>2. Joins(i)' = Joins(i)
      BY <1>1, <3>1
    <3>. QED
      BY <2>1, <3>2
  <2>. QED
    BY <1>1, <2>1
<1>4. \A j \in Socket, h \in {"offer", "answer"} : task'[<<j, h>>] = task[<<j, h>>]
  BY DEF TypeOK, GatewayTypeOK, Handler
<1>5. NothingBegan'
  BY <1>4 DEF Opening, NothingBegan, SignalsOnly, Only, Early, Began
<1>6. Opening'
  BY <1>2, <1>3, <1>5 DEF Opening, CameSecond, Rests
<1>. QED
  BY <1>6 DEF Phased

(* The first join is told that the session was created.                             *)
LEMMA FirstCreated ==
    ASSUME TypeOK, Calm, TwoPages, Opening, NEW k \in Socket,
           Joins(k).at = "read", Joins(k).to = "WAITING", ReadState(k, "join"),
           page' = page
    PROVE  Phased'
<1>. DEFINE created == IF k \in live THEN <<Says("SESSION_CREATED")>> ELSE <<>>
            E(j) == (IF "WAITING" = "PAIRING" /\ j \in room THEN <<Says("PEER_JOINED")>> ELSE <<>>)
                        \o (IF j = k THEN created ELSE <<>>)
<1>1. conn = "WAITING" /\ Done(k, "join", "WAITING") /\ UNCHANGED <<conn, room, pair>>
  BY DEF ReadState, Opening, Joins, linksKept, keysKept
<1>2. Post(E) /\ End(k, "join")
  BY <1>1 DEF Done
<1>3. /\ <<>> \in Seq(Message) /\ Only(<<>>, Early)
      /\ <<Says("SESSION_CREATED")>> \in Seq(Message) /\ Only(<<Says("SESSION_CREATED")>>, Early)
  BY SaysTypes DEF Event, Only, Says, Early
<1>4. ASSUME NEW j \in Socket PROVE Only(inbox'[j], Early)
  <2>. DEFINE e == IF j = k THEN created ELSE <<>>
  <2>1. e \in Seq(Message) /\ Only(e, Early) /\ <<>> \o e = e
    BY <1>3
  <2>2. E(j) = e
    <3>. HIDE DEF created
    <3>1. E(j) = <<>> \o e
      OBVIOUS
    <3>. QED
      BY <2>1, <3>1
  <2>3. inbox'[j] = IF j \in live \cap linked THEN inbox[j] \o E(j) ELSE <<>>
    <3>. HIDE DEF E
    <3>. QED
      BY <1>2 DEF Post
  <2>. HIDE DEF e, E
  <2>4. inbox[j] \in Seq(Message) /\ Only(inbox[j], Early)
    BY DEF Opening, NothingBegan, TypeOK, GatewayTypeOK
  <2>5. Only(inbox[j] \o e, Early)
    BY <2>1, <2>4, OnlyLonger
  <2>. QED
    BY <1>3, <2>2, <2>3, <2>5
<1>5. task' = [task EXCEPT ![<<k, "join">>] = Idle]
  BY <1>2 DEF End
<1>6. Joins(k)' = Idle /\ \A j \in Socket \ {k} : Joins(j)' = Joins(j)
  BY <1>5 DEF Joins, TypeOK, GatewayTypeOK, Handler
<1>7. Idle.at = "idle" /\ Rests(Idle) /\ ~CameSecond(Idle)
  BY DEF Idle, Rests, CameSecond
<1>8. ASSUME NEW j \in Socket
      PROVE  /\ Joins(j)'.at \in {"save", "read"} => Joins(j)'.to \in {"WAITING", "JOINED"}
             /\ Joins(j)'.at = "write" => Joins(j)'.to = "JOINED"
             /\ CameSecond(Joins(j)') => \A i \in room' \ {j} : Rests(Joins(i)')
  <2>1. CASE j = k
    BY <1>6, <1>7, <2>1
  <2>2. CASE j # k
    <3>1. Joins(j)' = Joins(j)
      BY <1>6, <2>2
    <3>2. ASSUME NEW i \in room, Rests(Joins(i)) PROVE Rests(Joins(i)')
      BY <1>6, <1>7, <3>2 DEF TypeOK, GatewayTypeOK
    <3>. QED
      BY <1>1, <3>1, <3>2 DEF Opening
  <2>. QED
    BY <2>1, <2>2
<1>9. pair'.sender # None => \E j \in room' : Rests(Joins(j)')
  <2>1. ASSUME NEW i \in room, Rests(Joins(i)) PROVE Rests(Joins(i)')
    BY <1>6, <1>7, <2>1 DEF TypeOK, GatewayTypeOK
  <2>. QED
    BY <1>1, <2>1 DEF Opening
<1>10. \A j \in Socket, h \in {"offer", "answer"} : task'[<<j, h>>] = task[<<j, h>>]
  BY <1>5 DEF TypeOK, GatewayTypeOK, Handler
<1>11. NothingBegan'
  BY <1>4, <1>10 DEF Opening, NothingBegan, SignalsOnly, Only, Early, Began
<1>12. Opening'
  BY <1>1, <1>8, <1>9, <1>11 DEF Opening, CameSecond, Rests
<1>. QED
  BY <1>12 DEF Phased

(* The second join writes JOINED.                                               *)
LEMMA SecondJoins ==
    ASSUME TypeOK, Calm, TwoPages, Opening, NEW k \in Socket, WriteState(k, "join"),
           page' = page
    PROVE  Phased'
<1>. DEFINE u == [Joins(k) EXCEPT !.at = "read", !.to = "PAIRING"]
<1>1. Joins(k).at = "write" /\ Joins(k).to = "JOINED" /\ Joins(k) \in Task
  BY DEF WriteState, At, Opening, Joins, TypeOK, GatewayTypeOK, Handler
<1>2. conn' = "JOINED" /\ Done(k, "join", "JOINED") /\ UNCHANGED <<room, pair>>
  BY <1>1 DEF WriteState, Joins, linksKept
<1>3. task' = [task EXCEPT ![<<k, "join">>] = u] /\ inbox' = inbox
  BY <1>2 DEF Done, Transition, Joins
<1>4. u.at = "read" /\ u.to = "PAIRING"
  BY <1>1 DEF Task
<1>. HIDE DEF u
<1>5. Joins(k)' = u /\ \A j \in Socket \ {k} : Joins(j)' = Joins(j)
  BY <1>3 DEF Joins, TypeOK, GatewayTypeOK, Handler
<1>6. CameSecond(Joins(k)) /\ \A j \in Socket : Fits(j, "join", Joins(j))
  BY <1>1 DEF CameSecond, Calm, TasksFit, Joins, Handler
<1>7. Two /\ k \in room
  BY <1>1, <1>6 DEF Fits
<1>8. ASSUME NEW j \in Socket \ {k} PROVE Rests(Joins(j))
  <2>1. CASE j \in room
    BY <1>6, <1>8, <2>1 DEF Opening
  <2>2. CASE j \notin room
    <3>1. j \notin opened
      BY <1>7, <2>2, TwoSockets
    <3>. QED
      BY <1>6, <3>1 DEF Fits, Rests
  <2>. QED
    BY <2>1, <2>2
<1>9. \A j \in Socket, h \in {"offer", "answer"} : task'[<<j, h>>] = task[<<j, h>>]
  BY <1>3 DEF TypeOK, GatewayTypeOK, Handler
<1>10. NothingBegan'
  BY <1>3, <1>9 DEF Opening, NothingBegan, SignalsOnly, Only, Early, Began
<1>11. /\ Joins(k)'.at \in {"read", "write"} /\ Joins(k)'.to = "PAIRING"
       /\ \A j \in Socket \ {k} : Rests(Joins(j)')
  BY <1>4, <1>5, <1>8
<1>12. Joining'
  BY <1>2, <1>7, <1>10, <1>11 DEF Joining, Two, Rests
<1>. QED
  BY <1>12 DEF Phased

LEMMA OnlyJoins ==
    ASSUME TypeOK, Calm, NothingBegan, NEW k \in Socket, NEW h \in Handler, h # "join"
    PROVE  task[<<k, h>>].at = "idle"
<1>1. Fits(k, h, task[<<k, h>>])
  BY DEF Calm, TasksFit
<1>. QED
  BY <1>1 DEF Fits, Handler, NothingBegan, SignalsOnly

LEMMA OpeningStep ==
    ASSUME TypeOK, Calm, TwoPages, Opening, NEW k \in Socket, GatewayStep(k),
           UNCHANGED <<page, opened>>
    PROVE  Phased'
<1>. DEFINE t == Joins(k)
<1>1. /\ "join" \in Handler /\ t \in Task /\ t = task[<<k, "join">>]
      /\ Fits(k, "join", t) /\ room \subseteq Socket
      /\ room \subseteq opened /\ live = opened /\ linked = opened
  BY DEF Handler, TypeOK, GatewayTypeOK, Calm, TasksFit, OneSocketEach, Joins
<1>2. NothingBegan /\ conn = "WAITING"
  BY DEF Opening
<1>3. \A j \in Socket : Only(inbox[j], Early)
  BY <1>2 DEF NothingBegan
<1>4. ~Rests(t) /\ pair' = pair =>
         (pair'.sender # None => \E i \in room : Rests(Joins(i)))
  BY DEF Opening
<1>5. CASE Enter(k)
  <2>1. /\ t.at = "validate" /\ ~Rests(t) /\ k \in opened
        /\ UNCHANGED <<conn, pair>>
    BY <1>1, <1>5 DEF Enter, At, Fits, Rests, keysKept
  <2>2. CASE room' = room \cup {k} /\ Goto(k, "join", "pair") /\ UNCHANGED inbox
    <3>. DEFINE u == [t EXCEPT !.at = "pair"]
    <3>1. u.at = "pair"
      BY <1>1 DEF Task
    <3>2. task' = [task EXCEPT ![<<k, "join">>] = u]
      BY <1>1, <2>2 DEF Goto
    <3>. HIDE DEF u
    <3>3. ~CameSecond(u)
      BY <3>1 DEF CameSecond
    <3>. QED
      BY <1>1, <1>3, <1>4, <2>1, <2>2, <3>1, <3>2, <3>3, OpeningGoesOn
  <2>3. CASE ToOne(k, <<Says("ERROR")>>) /\ End(k, "join") /\ UNCHANGED room
    <3>1. task' = [task EXCEPT ![<<k, "join">>] = Idle]
      BY <2>3 DEF End
    <3>2. Idle.at = "idle" /\ ~CameSecond(Idle)
      BY DEF Idle, CameSecond
    <3>3. \A j \in Socket : Only(inbox'[j], Early)
      BY <1>2, <2>3, ErrorIsEarly
    <3>. QED
      BY <1>1, <1>4, <2>1, <2>3, <3>1, <3>2, <3>3, OpeningGoesOn
  <2>4. \/ room' = room \cup {k} /\ Goto(k, "join", "pair") /\ UNCHANGED inbox
        \/ ToOne(k, <<Says("ERROR")>>) /\ End(k, "join") /\ UNCHANGED room
    <3>1. k \in linked
      BY <1>1, <2>1
    <3>. QED
      BY <1>5, <3>1, Zenon DEF Enter
  <2>. QED
    BY <2>2, <2>3, <2>4
<1>6. CASE GetPair(k)
  <2>. DEFINE u == [t EXCEPT !.at = "merge", !.seen = pair]
  <2>1. /\ t.at = "pair" /\ ~Rests(t) /\ k \in room /\ UNCHANGED <<conn, pair, inbox, room>>
    BY <1>1, <1>6 DEF GetPair, At, Fits, Rests, keysKept, linksKept
  <2>2. u.at = "merge" /\ u.seen = pair
    BY <1>1 DEF Task
  <2>3. task' = [task EXCEPT ![<<k, "join">>] = u]
    BY <1>1, <1>6 DEF GetPair
  <2>. HIDE DEF u
  <2>4. ASSUME CameSecond(u), NEW i \in room \ {k} PROVE Rests(Joins(i))
    <3>1. PICK j \in room : Rests(Joins(j))
      BY <2>2, <2>4 DEF CameSecond, Opening
    <3>2. j # k /\ Two
      BY <2>1, <3>1 DEF Two
    <3>3. i = j
      BY <2>1, <3>2, TwoSockets
    <3>. QED
      BY <3>1, <3>3
  <2>. QED
    BY <1>1, <1>3, <1>4, <2>1, <2>2, <2>3, <2>4, OpeningGoesOn
<1>7. CASE MergePair(k)
  <2>. DEFINE p == WithPeer(pair, IsFirst(k), k)
              s == IF IsFirst(k) THEN "WAITING" ELSE "JOINED"
              u == [t EXCEPT !.at = "save", !.seen = p, !.to = s]
  <2>1. /\ t.at = "merge" /\ ~Rests(t) /\ k \in room /\ UNCHANGED <<conn, pair, inbox, room>>
    BY <1>1, <1>7 DEF MergePair, At, Fits, Rests, keysKept, linksKept
  <2>2. u.at = "save" /\ u.to = s
    BY <1>1 DEF Task
  <2>3. task' = [task EXCEPT ![<<k, "join">>] = u]
    BY <1>1, <1>7 DEF MergePair
  <2>4. s \in {"WAITING", "JOINED"} /\ (s # "WAITING" => CameSecond(t))
    BY <1>1, <2>1 DEF IsFirst, CameSecond
  <2>. HIDE DEF u, s
  <2>5. ASSUME CameSecond(u), NEW i \in room \ {k} PROVE Rests(Joins(i))
    BY <2>2, <2>4, <2>5 DEF CameSecond, Opening
  <2>. QED
    BY <1>1, <1>3, <1>4, <2>1, <2>2, <2>3, <2>4, <2>5, OpeningGoesOn
<1>8. CASE SavePair(k)
  <2>. DEFINE u == [t EXCEPT !.at = "read"]
  <2>1. /\ t.at = "save" /\ ~Rests(t) /\ k \in room /\ UNCHANGED <<conn, inbox, room>>
        /\ t.to \in {"WAITING", "JOINED"}
    BY <1>1, <1>8 DEF SavePair, At, Fits, Rests, linksKept, Opening
  <2>2. u.at = "read" /\ u.to = t.to
    BY <1>1 DEF Task
  <2>3. task' = [task EXCEPT ![<<k, "join">>] = u]
    BY <1>1, <1>8 DEF SavePair, Goto
  <2>. HIDE DEF u
  <2>4. t.to # "WAITING" => CameSecond(t)
    BY <2>1 DEF CameSecond
  <2>5. ASSUME CameSecond(u), NEW i \in room \ {k} PROVE Rests(Joins(i))
    BY <2>2, <2>4, <2>5 DEF CameSecond, Opening
  <2>6. Rests(u) \/ \E i \in room : Rests(Joins(i))
    <3>1. CASE t.to = "WAITING"
      BY <2>2, <3>1 DEF Rests
    <3>2. CASE t.to # "WAITING"
      <4>1. Two
        BY <1>1, <2>4, <3>2 DEF Fits, CameSecond
      <4>2. PICK i \in room : i # k
        BY <4>1 DEF Two
      <4>. QED
        BY <2>4, <3>2, <4>2 DEF Opening
    <3>. QED
      BY <3>1, <3>2
  <2>. QED
    BY <1>1, <1>3, <2>1, <2>2, <2>3, <2>5, <2>6, OpeningGoesOn
<1>9. CASE ReadState(k, "join")
  <2>1. t.at = "read" /\ t.to \in {"WAITING", "JOINED"} /\ UNCHANGED <<conn, room, pair>>
    BY <1>1, <1>9 DEF ReadState, At, Opening, linksKept, keysKept
  <2>2. CASE t.to = "JOINED"
    <3>. DEFINE u == [t EXCEPT !.at = "write"]
    <3>1. Permits("WAITING", "JOINED")
      BY DEF Permits, ValidNext, WebRtcState
    <3>2. Goto(k, "join", "write") /\ UNCHANGED inbox
      BY <1>1, <1>2, <1>9, <2>2, <3>1 DEF ReadState
    <3>3. u.at = "write" /\ u.to = "JOINED"
      BY <1>1, <2>2 DEF Task
    <3>4. task' = [task EXCEPT ![<<k, "join">>] = u]
      BY <1>1, <3>2 DEF Goto
    <3>. HIDE DEF u
    <3>5. CameSecond(t) /\ ~Rests(t)
      BY <2>1, <2>2 DEF CameSecond, Rests
    <3>6. \A i \in room \ {k} : Rests(Joins(i))
      BY <3>5 DEF Opening
    <3>. QED
      BY <1>1, <1>3, <1>4, <2>1, <3>2, <3>3, <3>4, <3>5, <3>6, OpeningGoesOn
  <2>. QED
    BY <1>9, <2>1, <2>2, FirstCreated
<1>10. CASE WriteState(k, "join")
  BY <1>10, SecondJoins
<1>11. ASSUME NEW h \in Handler, ReadState(k, h) \/ WriteState(k, h), h # "join" PROVE FALSE
  BY <1>2, <1>11, OnlyJoins DEF ReadState, WriteState, At
<1>12. CASE Leave(k) \/ Offline(k)
  BY <1>2, <1>12, OnlyJoins DEF Leave, Offline, At, Handler
<1>13. CASE Detect(k)
  BY <1>1, <1>13 DEF Detect
<1>. QED
  BY <1>5, <1>6, <1>7, <1>8, <1>9, <1>10, <1>11, <1>12, <1>13 DEF GatewayStep

(* PAIRING is written: both pages are told that the other one joined.                 *)
LEMMA BothTold ==
    ASSUME TypeOK, Calm, TwoPages, Joining, NEW k \in Socket, Joins(k).to = "PAIRING",
           \A j \in Socket \ {k} : Rests(Joins(j)), WriteState(k, "join"), page' = page
    PROVE  Phased'
<1>. DEFINE created == IF k \in live THEN <<Says("SESSION_CREATED")>> ELSE <<>>
            e(j) == IF j = k THEN created ELSE <<>>
            E(j) == (IF "PAIRING" = "PAIRING" /\ j \in room THEN <<Says("PEER_JOINED")>> ELSE <<>>)
                        \o (IF j = k THEN created ELSE <<>>)
<1>1. Two /\ NothingBegan
  BY DEF Joining
<1>2. /\ Receiver \in Device /\ Receiver # Sender /\ Sender \in Device
      /\ sPage.sock \in Socket /\ rPage.sock \in Socket
      /\ room = {sPage.sock, rPage.sock} /\ live = room /\ linked = room
  BY <1>1, TwoSockets, HandshakeAssumption
<1>3. conn' = "PAIRING" /\ Done(k, "join", "PAIRING") /\ UNCHANGED room
  BY DEF WriteState, Joins, linksKept
<1>4. Post(E) /\ End(k, "join")
  BY <1>3 DEF Done
<1>5. /\ <<>> \in Seq(Message) /\ Only(<<>>, Early)
      /\ <<Says("SESSION_CREATED")>> \in Seq(Message) /\ Only(<<Says("SESSION_CREATED")>>, Early)
      /\ Says("PEER_JOINED") \in Message /\ Says("PEER_JOINED").type = "PEER_JOINED"
  BY SaysTypes DEF Event, Only, Says, Early
<1>6. ASSUME NEW j \in room
      PROVE  /\ Holds(inbox'[j], "PEER_JOINED", Early, Early)
             /\ Only(inbox'[j], Joint)
  <2>1. e(j) \in Seq(Message) /\ Only(e(j), Early)
    BY <1>5
  <2>2. inbox'[j] = inbox[j] \o E(j)
    <3>1. j \in Socket /\ j \in live \cap linked
      BY <1>2, <1>6
    <3>. HIDE DEF E
    <3>. QED
      BY <1>4, <3>1 DEF Post
  <2>3. E(j) = <<Says("PEER_JOINED")>> \o e(j)
    BY <1>6
  <2>. HIDE DEF e, E
  <2>4. inbox[j] \in Seq(Message) /\ Only(inbox[j], Early)
    BY <1>1, <1>2, <1>6 DEF NothingBegan, TypeOK, GatewayTypeOK
  <2>5. Holds(inbox'[j], "PEER_JOINED", Early, Early)
    BY <1>5, <2>1, <2>2, <2>3, <2>4, HoldsNew
  <2>6. /\ <<Says("PEER_JOINED")>> \in Seq(Message) /\ Only(<<Says("PEER_JOINED")>>, Joint)
    BY <1>5 DEF Only, Joint
  <2>7. Only(inbox[j], Joint) /\ Only(e(j), Joint)
    BY <2>1, <2>4, OnlyWider DEF Early, Joint
  <2>8. <<Says("PEER_JOINED")>> \o e(j) \in Seq(Message)
    BY <2>1, <2>6
  <2>9. Only(<<Says("PEER_JOINED")>> \o e(j), Joint)
    BY <2>1, <2>6, <2>7, OnlyLonger
  <2>10. Only(inbox[j] \o (<<Says("PEER_JOINED")>> \o e(j)), Joint)
    BY <2>4, <2>7, <2>8, <2>9, OnlyLonger
  <2>. QED
    BY <2>2, <2>3, <2>5, <2>10
<1>7. task' = [task EXCEPT ![<<k, "join">>] = Idle] /\ Idle.at = "idle"
  BY <1>4 DEF End, Idle
<1>8. /\ \A j \in Socket : Joins(j)' = IF j = k THEN Idle ELSE Joins(j)
      /\ \A j \in Socket, h \in {"offer", "answer"} : task'[<<j, h>>] = task[<<j, h>>]
  BY <1>7 DEF Joins, TypeOK, GatewayTypeOK, Handler
<1>9. BothIn'
  BY <1>1, <1>3, <1>7, <1>8 DEF BothIn, Two, Rests
<1>10. SignalsOnly({})'
  BY <1>1, <1>8 DEF NothingBegan, SignalsOnly
<1>11. /\ sPage' = sPage /\ rPage' = rPage /\ ~Began(sPage) /\ Untold
       /\ toSender' = inbox'[sPage.sock] /\ toReceiver' = inbox'[rPage.sock]
  BY <1>1, <1>2 DEF NothingBegan, Began, Untold, sPage, rPage, toSender, toReceiver
<1>12. Holds(toSender', "PEER_JOINED", Early, Early) /\ Only(toReceiver', Joint)
  BY <1>2, <1>6, <1>11
<1>13. Announced'
  BY <1>3, <1>9, <1>10, <1>11, <1>12
     DEF Announced, Untold, Began, Only, Holds, Early, Joint
<1>. QED
  BY <1>13 DEF Phased

LEMMA NoJoinLeft ==
    ASSUME NEW k, Joins(k).at \in {"idle", "read", "write"}
    PROVE  ~Enter(k) /\ ~GetPair(k) /\ ~MergePair(k) /\ ~SavePair(k)
BY DEF Enter, GetPair, MergePair, SavePair, At, Joins

LEMMA FirstRefused ==
    ASSUME TypeOK, Calm, TwoPages, Phased, ~Opening, NEW k \in Socket, Rests(Joins(k)),
           ReadState(k, "join") \/ WriteState(k, "join"), page' = page
    PROVE  Phased'
<1>1. ReadState(k, "join") /\ Joins(k).to = "WAITING"
  BY DEF ReadState, WriteState, At, Rests, Joins
<1>2. conn \in {"JOINED", "PAIRING", "NEGOTIATING", "CONNECTED"}
  BY DEF Phased, Joining, Announced, Offering, Offered, Told, Applying, Answered, Connected
<1>3. conn # "WAITING" /\ ~Permits(conn, "WAITING")
  BY <1>2 DEF Permits, ValidNext, WebRtcState
<1>4. Refuse(k, "join") /\ UNCHANGED <<conn, room>>
  BY <1>1, <1>3 DEF ReadState, Joins, linksKept, keysKept
<1>. QED
  BY <1>4, RefusedStep

LEMMA JoiningStep ==
    ASSUME TypeOK, Calm, TwoPages, Joining, NEW k \in Socket, GatewayStep(k),
           UNCHANGED <<page, opened>>
    PROVE  Phased'
<1>1. PICK i \in room : /\ Joins(i).at \in {"read", "write"} /\ Joins(i).to = "PAIRING"
                        /\ \A j \in Socket \ {i} : Rests(Joins(j))
  BY DEF Joining
<1>2. i \in Socket /\ NothingBegan /\ conn = "JOINED" /\ Two
  BY DEF Joining, TypeOK, GatewayTypeOK
<1>3. ~Enter(k) /\ ~GetPair(k) /\ ~MergePair(k) /\ ~SavePair(k)
  BY <1>1, NoJoinLeft DEF Rests
<1>4. ASSUME NEW h \in Handler, ReadState(k, h) \/ WriteState(k, h), h # "join" PROVE FALSE
  BY <1>2, <1>4, OnlyJoins DEF ReadState, WriteState, At
<1>5. ~Leave(k) /\ ~Offline(k)
  BY <1>2, OnlyJoins DEF Leave, Offline, At, Handler
<1>6. ~Detect(k)
  BY DEF Detect, Calm, OneSocketEach
<1>7. CASE k # i /\ (ReadState(k, "join") \/ WriteState(k, "join"))
  <2>1. Rests(Joins(k)) /\ ~Opening /\ Phased
    BY <1>1, <1>2, <1>7 DEF Opening, Phased
  <2>. QED
    BY <1>7, <2>1, FirstRefused
<1>8. CASE k = i /\ ReadState(k, "join")
  <2>. DEFINE u == [Joins(k) EXCEPT !.at = "write"]
  <2>1. Permits("JOINED", "PAIRING")
    BY DEF Permits, ValidNext, WebRtcState
  <2>2. Goto(k, "join", "write") /\ UNCHANGED <<inbox, conn, room>>
    BY <1>1, <1>2, <1>8, <2>1 DEF ReadState, Joins, linksKept, keysKept
  <2>3. Joins(k) \in Task
    BY DEF Joins, TypeOK, GatewayTypeOK, Handler
  <2>4. u.at = "write" /\ u.to = "PAIRING" /\ task' = [task EXCEPT ![<<k, "join">>] = u]
    BY <1>1, <1>8, <2>2, <2>3 DEF Task, Goto, Joins
  <2>. HIDE DEF u
  <2>5. /\ Joins(k)' = u /\ \A j \in Socket \ {k} : Joins(j)' = Joins(j)
        /\ \A j \in Socket, h \in {"offer", "answer"} : task'[<<j, h>>] = task[<<j, h>>]
    BY <2>4 DEF Joins, TypeOK, GatewayTypeOK, Handler
  <2>6. NothingBegan'
    BY <1>2, <2>2, <2>5 DEF NothingBegan, SignalsOnly, Only, Early, Began
  <2>7. /\ Joins(k)'.at \in {"read", "write"} /\ Joins(k)'.to = "PAIRING"
        /\ \A j \in Socket \ {k} : Rests(Joins(j)')
    BY <1>1, <1>8, <2>4, <2>5
  <2>8. Joining'
    BY <1>1, <1>2, <1>8, <2>2, <2>6, <2>7 DEF Joining, Two, Rests
  <2>. QED
    BY <2>8 DEF Phased
<1>9. CASE k = i /\ WriteState(k, "join")
  BY <1>1, <1>9, BothTold
<1>. QED
  BY <1>3, <1>4, <1>5, <1>6, <1>7, <1>8, <1>9 DEF GatewayStep

(* NEGOTIATING is written: the offer goes to the receiver.                            *)
LEMMA OfferPassed ==
    ASSUME TypeOK, Calm, TwoPages, Offered, NEW k \in Socket, k = sPage.sock,
           ReadState(k, "offer") \/ WriteState(k, "offer"), page' = page
    PROVE  Phased'
<1>. DEFINE t == task[<<k, "offer">>]
            m == [type |-> "OFFER_RECEIVED", n |-> t.n]
            r == rPage.sock
<1>1. /\ conn = "PAIRING" /\ BothIn /\ Two /\ SignalsOnly({<<k, "offer">>}) /\ Given /\ Untold
      /\ t.at \in {"read", "write"} /\ t.to = "NEGOTIATING" /\ t.n # 0
      /\ Only(toReceiver, Joint)
  BY DEF Offered, BothIn
<1>2. /\ r \in Socket /\ k # r /\ room = {k, r} /\ live = room /\ linked = room
  BY <1>1, TwoSockets
<1>3. t \in Task /\ "offer" \in Handler /\ toSender = inbox[k] /\ toReceiver = inbox[r]
      /\ inbox[k] \in Seq(Message) /\ inbox[r] \in Seq(Message)
  BY <1>2 DEF TypeOK, GatewayTypeOK, Handler, toSender, toReceiver
<1>4. /\ sPage' = sPage /\ rPage' = rPage
      /\ toSender' = inbox'[k] /\ toReceiver' = inbox'[r] /\ (Untold => Untold')
  BY DEF sPage, rPage, toSender, toReceiver, Untold
<1>5. CASE ReadState(k, "offer")
  <2>. DEFINE u == [t EXCEPT !.at = "write"]
  <2>1. Permits("PAIRING", "NEGOTIATING")
    BY DEF Permits, ValidNext, WebRtcState
  <2>2. Goto(k, "offer", "write") /\ UNCHANGED <<inbox, conn, room>>
    BY <1>1, <1>5, <2>1 DEF ReadState, linksKept, keysKept
  <2>3. u.at = "write" /\ u.to = "NEGOTIATING" /\ u.n # 0
        /\ task' = [task EXCEPT ![<<k, "offer">>] = u]
    BY <1>1, <1>3, <2>2 DEF Task, Goto
  <2>. HIDE DEF u
  <2>4. /\ task'[<<k, "offer">>] = u
        /\ \A j \in Socket, h \in Handler :
              <<j, h>> # <<k, "offer">> => task'[<<j, h>>] = task[<<j, h>>]
    BY <1>3, <2>3 DEF TypeOK, GatewayTypeOK
  <2>5. \A j \in Socket : Joins(j)' = Joins(j)
    BY <2>4 DEF Joins, Handler
  <2>6. BothIn'
    BY <1>1, <2>2, <2>5 DEF BothIn, Two, Rests
  <2>7. SignalsOnly({<<sPage.sock, "offer">>})'
    <3>1. sPage'.sock = k
      BY <1>4
    <3>2. \A j \in Socket, h \in {"offer", "answer"} :
             task'[<<j, h>>].at # "idle" => <<j, h>> \in {<<k, "offer">>}
      <4>. SUFFICES ASSUME NEW j \in Socket, NEW h \in {"offer", "answer"},
                           task'[<<j, h>>].at # "idle", <<j, h>> # <<k, "offer">>
                    PROVE  FALSE
        OBVIOUS
      <4>1. task[<<j, h>>].at # "idle"
        BY <2>4 DEF Handler
      <4>. QED
        BY <1>1, <4>1 DEF SignalsOnly
    <3>. QED
      BY <3>1, <3>2 DEF SignalsOnly
  <2>8. Given' /\ Only(toReceiver, Joint)'
    BY <1>1, <1>4, <2>2 DEF Given, Only, Early, Joint, toSender, toReceiver
  <2>9. Offered'
    BY <1>1, <1>4, <2>2, <2>3, <2>4, <2>6, <2>7, <2>8 DEF Offered
  <2>. QED
    BY <2>9 DEF Phased
<1>6. CASE WriteState(k, "offer")
  <2>1. conn' = "NEGOTIATING" /\ Done(k, "offer", "NEGOTIATING") /\ UNCHANGED room
    BY <1>1, <1>6 DEF WriteState, linksKept
  <2>2. ToOthers(k, <<m>>) /\ End(k, "offer")
    BY <2>1 DEF Done
  <2>3. task' = [task EXCEPT ![<<k, "offer">>] = Idle] /\ Idle.at = "idle"
    BY <2>2 DEF End, Idle
  <2>4. /\ \A j \in Socket : Joins(j)' = Joins(j)
        /\ SignalsOnly({})'
    BY <1>1, <1>3, <2>3 DEF Joins, SignalsOnly, TypeOK, GatewayTypeOK, Handler
  <2>5. BothIn'
    BY <1>1, <2>1, <2>4 DEF BothIn, Two, Rests
  <2>6. m \in Message /\ m.type = "OFFER_RECEIVED" /\ m.n = t.n /\ <<>> \in Seq(Message)
        /\ Only(<<>>, {"ERROR"})
    BY <1>3 DEF Message, Event, Task, Only
  <2>. HIDE DEF m
  <2>7. inbox'[k] = inbox[k] \o <<>> /\ inbox'[r] = inbox[r] \o <<m>>
    BY <1>2, <2>2 DEF ToOthers, Post
  <2>8. inbox'[k] = inbox[k] /\ inbox'[r] = inbox[r] \o (<<m>> \o <<>>)
    BY <1>3, <2>6, <2>7
  <2>9. Holds(inbox'[r], "OFFER_RECEIVED", Joint, {"ERROR"})
    BY <1>1, <1>3, <2>6, <2>8, HoldsNew
  <2>10. Given'
    BY <1>1, <1>3, <1>4, <2>8 DEF Given, Only, Early
  <2>11. Told'
    BY <1>1, <1>4, <2>1, <2>4, <2>5, <2>9, <2>10 DEF Told, Holds, Joint
  <2>. QED
    BY <2>11 DEF Phased
<1>. QED
  BY <1>5, <1>6

(* CONNECTED is written: the answer goes to the sender, and both pages are told.          *)
LEMMA AnswerPassed ==
    ASSUME TypeOK, Calm, TwoPages, Answered, NEW k \in Socket, k = rPage.sock,
           ReadState(k, "answer") \/ WriteState(k, "answer"), page' = page
    PROVE  Phased'
<1>. DEFINE t == task[<<k, "answer">>]
            m == [type |-> "ANSWER_RECEIVED", n |-> t.n]
            c == Says("PEER_CONNECTED")
            s == sPage.sock
            E(j) == IF j \notin room THEN <<>>
                    ELSE (IF j = k THEN <<>> ELSE <<m>>) \o <<c>>
<1>1. /\ conn = "NEGOTIATING" /\ BothIn /\ Two /\ SignalsOnly({<<k, "answer">>}) /\ Given
      /\ t.at \in {"read", "write"} /\ t.to = "CONNECTED"
      /\ rPage.pc = "stable" /\ rPage.state = "CONNECTED" /\ Only(toReceiver, {"ERROR"})
  BY DEF Answered, BothIn
<1>2. /\ s \in Socket /\ k # s /\ room = {s, k} /\ live = room /\ linked = room
  BY <1>1, TwoSockets
<1>3. t \in Task /\ "answer" \in Handler /\ toSender = inbox[s] /\ toReceiver = inbox[k]
      /\ inbox[k] \in Seq(Message) /\ inbox[s] \in Seq(Message)
  BY <1>2 DEF TypeOK, GatewayTypeOK, Handler, toSender, toReceiver
<1>4. /\ sPage' = sPage /\ rPage' = rPage
      /\ toSender' = inbox'[s] /\ toReceiver' = inbox'[k]
  BY DEF sPage, rPage, toSender, toReceiver
<1>5. CASE ReadState(k, "answer")
  <2>. DEFINE u == [t EXCEPT !.at = "write"]
  <2>1. Permits("NEGOTIATING", "CONNECTED")
    BY DEF Permits, ValidNext, WebRtcState
  <2>2. Goto(k, "answer", "write") /\ UNCHANGED <<inbox, conn, room>>
    BY <1>1, <1>5, <2>1 DEF ReadState, linksKept, keysKept
  <2>3. u.at = "write" /\ u.to = "CONNECTED" /\ task' = [task EXCEPT ![<<k, "answer">>] = u]
    BY <1>1, <1>3, <2>2 DEF Task, Goto
  <2>. HIDE DEF u
  <2>4. /\ task'[<<k, "answer">>] = u
        /\ \A j \in Socket, h \in Handler :
              <<j, h>> # <<k, "answer">> => task'[<<j, h>>] = task[<<j, h>>]
    BY <1>3, <2>3 DEF TypeOK, GatewayTypeOK
  <2>5. \A j \in Socket : Joins(j)' = Joins(j)
    BY <2>4 DEF Joins, Handler
  <2>6. BothIn'
    BY <1>1, <2>2, <2>5 DEF BothIn, Two, Rests
  <2>7. SignalsOnly({<<rPage.sock, "answer">>})'
    <3>1. rPage'.sock = k
      BY <1>4
    <3>2. \A j \in Socket, h \in {"offer", "answer"} :
             task'[<<j, h>>].at # "idle" => <<j, h>> \in {<<k, "answer">>}
      <4>. SUFFICES ASSUME NEW j \in Socket, NEW h \in {"offer", "answer"},
                           task'[<<j, h>>].at # "idle", <<j, h>> # <<k, "answer">>
                    PROVE  FALSE
        OBVIOUS
      <4>1. task[<<j, h>>].at # "idle"
        BY <2>4 DEF Handler
      <4>. QED
        BY <1>1, <4>1 DEF SignalsOnly
    <3>. QED
      BY <3>1, <3>2 DEF SignalsOnly
  <2>8. Given' /\ Only(toReceiver, {"ERROR"})'
    BY <1>1, <1>4, <2>2 DEF Given, Only, Early, toSender, toReceiver
  <2>9. Answered'
    BY <1>1, <1>4, <2>2, <2>3, <2>4, <2>6, <2>7, <2>8 DEF Answered
  <2>. QED
    BY <2>9 DEF Phased
<1>6. CASE WriteState(k, "answer")
  <2>1. conn' = "CONNECTED" /\ Done(k, "answer", "CONNECTED") /\ UNCHANGED room
    BY <1>1, <1>6 DEF WriteState, linksKept
  <2>2. Post(E) /\ End(k, "answer")
    BY <2>1 DEF Done
  <2>3. task' = [task EXCEPT ![<<k, "answer">>] = Idle] /\ Idle.at = "idle"
    BY <2>2 DEF End, Idle
  <2>4. /\ \A j \in Socket : Joins(j)' = Joins(j)
        /\ SignalsOnly({})'
    BY <1>1, <1>3, <2>3 DEF Joins, SignalsOnly, TypeOK, GatewayTypeOK, Handler
  <2>5. BothIn'
    BY <1>1, <2>1, <2>4 DEF BothIn, Two, Rests
  <2>6. m \in Message /\ m.type = "ANSWER_RECEIVED"
    BY <1>3 DEF Message, Event, Task
  <2>7. c \in Message /\ <<c>> \in Seq(Message) /\ Only(<<c>>, Late)
    BY SaysTypes DEF Event, Only, Says, Late
  <2>8. inbox'[s] = inbox[s] \o E(s) /\ inbox'[k] = inbox[k] \o E(k)
    <3>. HIDE DEF E
    <3>. QED
      BY <1>2, <2>2 DEF Post
  <2>9. E(s) = <<m>> \o <<c>> /\ E(k) = <<>> \o <<c>>
    <3>. HIDE DEF m, c
    <3>. QED
      BY <1>2
  <2>. HIDE DEF m, c, E
  <2>10. E(k) = <<c>>
    BY <2>7, <2>9
  <2>11. Holds(inbox'[s], "ANSWER_RECEIVED", Early, Late)
    <3>1. Only(inbox[s], Early)
      BY <1>1, <1>3 DEF Given
    <3>. QED
      BY <1>3, <2>6, <2>7, <2>8, <2>9, <3>1, HoldsNew
  <2>12. Only(inbox'[k], Late)
    <3>1. Only(inbox[k], Late)
      BY <1>1, <1>3, OnlyWider DEF Late
    <3>. QED
      BY <1>3, <2>7, <2>8, <2>10, <3>1, OnlyLonger
  <2>13. sPage.pc = "offered" /\ sPage.with = 0
    BY <1>1 DEF Given
  <2>14. Connected'
    BY <1>1, <1>4, <2>1, <2>4, <2>5, <2>11, <2>12, <2>13
       DEF Connected, Holds, Only, Early, Late
  <2>. QED
    BY <2>14 DEF Phased
<1>. QED
  BY <1>5, <1>6

LEMMA LaterStep ==
    ASSUME TypeOK, Calm, TwoPages, Phased, ~Opening, ~Joining, NEW k \in Socket,
           GatewayStep(k), UNCHANGED <<page, opened>>
    PROVE  Phased'
<1>1. BothIn /\ "join" \in Handler
  BY DEF Phased, Announced, Offering, Offered, Told, Applying, Answered, Connected, Handler
<1>2. Rests(Joins(k))
  BY <1>1 DEF BothIn
<1>3. ~Enter(k) /\ ~GetPair(k) /\ ~MergePair(k) /\ ~SavePair(k)
  BY <1>2, NoJoinLeft DEF Rests
<1>4. ASSUME NEW h \in {"leave", "disconnect"} PROVE task[<<k, h>>].at = "idle"
  <2>1. Fits(k, h, task[<<k, h>>])
    BY DEF Calm, TasksFit, Handler
  <2>. QED
    BY <2>1 DEF Fits
<1>5. ~Leave(k) /\ ~Offline(k)
  BY <1>4 DEF Leave, Offline, At
<1>6. ~Detect(k)
  BY DEF Detect, Calm, OneSocketEach
<1>7. CASE ReadState(k, "join") \/ WriteState(k, "join")
  BY <1>2, <1>7, FirstRefused
<1>8. ASSUME NEW h \in {"offer", "answer"}, ReadState(k, h) \/ WriteState(k, h) PROVE Phased'
  <2>1. task[<<k, h>>].at # "idle"
    BY <1>8 DEF ReadState, WriteState, At
  <2>2. SignalsOnly({}) \/ Offered \/ Answered
    BY DEF Phased, Announced, Offering, Told, Applying, Connected
  <2>3. CASE SignalsOnly({})
    BY <2>1, <2>3 DEF SignalsOnly
  <2>4. CASE Offered
    <3>1. k = sPage.sock /\ h = "offer"
      BY <2>1, <2>4 DEF Offered, SignalsOnly
    <3>. QED
      BY <1>8, <2>4, <3>1, OfferPassed
  <2>5. CASE Answered
    <3>1. k = rPage.sock /\ h = "answer"
      BY <2>1, <2>5 DEF Answered, SignalsOnly
    <3>. QED
      BY <1>8, <2>5, <3>1, AnswerPassed
  <2>. QED
    BY <2>2, <2>3, <2>4, <2>5
<1>9. ASSUME NEW h \in {"leave", "disconnect"}, ReadState(k, h) \/ WriteState(k, h)
      PROVE  FALSE
  BY <1>4, <1>9 DEF ReadState, WriteState, At
<1>. QED
  BY <1>3, <1>5, <1>6, <1>7, <1>8, <1>9 DEF GatewayStep, Handler

-------------------------------------------------------------------------------
PhasedUntilFault == faults = 0 => Phased

LEMMA PhasedStart == Init => Opening
BY DEF Init, GatewayInit, FreshPage, Idle, NoPair, Opening, NothingBegan, SignalsOnly, Only,
       Began, Joins, CameSecond, Handler

LEMMA PhasedKept ==
    TwoPages /\ TypeOK /\ UntilFault /\ PhasedUntilFault /\ [Next]_vars => PhasedUntilFault'
<1>. SUFFICES ASSUME TwoPages, TypeOK, UntilFault, PhasedUntilFault, [Next]_vars, faults' = 0
              PROVE  Phased'
  BY DEF PhasedUntilFault
<1>1. Calm /\ Phased /\ ~Disturbance
  BY CalmGoesOn, FaultsOnlyGrow, NoDisturbance DEF PhasedUntilFault
<1>2. ASSUME NEW k \in Socket, GatewayStep(k), UNCHANGED <<page, opened>> PROVE Phased'
  BY <1>1, <1>2, OpeningStep, JoiningStep, LaterStep
<1>3. ASSUME NEW d \in Device, Handle(d) PROVE Phased'
  <2>1. CASE Opening \/ Joining
    BY <1>1, <1>3, <2>1, HandleEarly
  <2>2. CASE ~Opening /\ ~Joining
    <3>1. Two
      BY <1>1, <2>2 DEF Phased, BothIn, Announced, Offering, Offered, Told, Applying,
                        Answered, Connected
    <3>2. d = Sender \/ d = Receiver
      BY <1>1, <3>1, TwoSockets
    <3>. QED
      BY <1>1, <1>3, <2>2, <3>1, <3>2, SenderHandles, ReceiverHandles
  <2>. QED
    BY <2>1, <2>2
<1>4. ASSUME NEW d \in Device, OfferReady(d) \/ AnswerReady(d) PROVE Phased'
  BY <1>1, <1>4, OfferStep, AnswerStep
<1>5. ASSUME NEW d \in Device, NEW k \in Socket, Connect(d, k) PROVE Phased'
  BY <1>1, <1>5, ConnectStep
<1>6. CASE UNCHANGED vars
  <2>0. UNCHANGED <<room, conn, pair, task, inbox, page>>
    BY <1>6 DEF vars, gatewayVars
  <2>1. ASSUME Opening PROVE Opening'
    <3>1. NothingBegan'
      BY <2>0, <2>1 DEF Opening, NothingBegan, SignalsOnly, Only, Early, Began
    <3>2. \A k : Joins(k)' = Joins(k)
      BY <2>0 DEF Joins
    <3>3. \A k \in Socket :
             /\ Joins(k)'.at \in {"save", "read"} => Joins(k)'.to \in {"WAITING", "JOINED"}
             /\ Joins(k)'.at = "write" => Joins(k)'.to = "JOINED"
             /\ CameSecond(Joins(k)') => \A j \in room \ {k} : Rests(Joins(j)')
      BY <2>1, <3>2 DEF Opening
    <3>4. pair.sender # None => \E j \in room : Rests(Joins(j)')
      BY <2>1, <3>2 DEF Opening
    <3>. QED
      BY <2>0, <2>1, <3>1, <3>3, <3>4 DEF Opening, CameSecond, Rests
  <2>. USE <2>0 DEF Only, Holds, Early, Joint, Late, sPage, rPage, toSender, toReceiver,
                    Joins, Rests, Two, BothIn, SignalsOnly, Began, NothingBegan, Untold, Given
  <2>2. (Joining => Joining') /\ (Announced => Announced') /\ (Offering => Offering')
    BY DEF Joining, Announced, Offering
  <2>3. (Offered => Offered') /\ (Told => Told') /\ (Applying => Applying')
    BY DEF Offered, Told, Applying
  <2>4. (Answered => Answered') /\ (Connected => Connected')
    BY DEF Answered, Connected
  <2>. QED
    BY <1>1, <2>1, <2>2, <2>3, <2>4 DEF Phased
<1>. QED
  BY <1>1, <1>2, <1>3, <1>4, <1>5, <1>6 DEF Next, Progress

LEMMA RestsPaired ==
    TwoPages /\ TypeOK /\ UntilFault /\ PhasedUntilFault => PairedAtRest
<1>. SUFFICES ASSUME TwoPages, TypeOK, Calm, Phased, Resting, conn # "WAITING"
              PROVE  /\ conn = "CONNECTED"
                     /\ \A d \in Device : page[d].pc = "stable" /\ page[d].state = "CONNECTED"
  BY DEF PairedAtRest, UntilFault, PhasedUntilFault
<1>1. \A k \in Socket : Joins(k).at = "idle" /\ task[<<k, "offer">>].at = "idle"
                        /\ task[<<k, "answer">>].at = "idle" /\ inbox[k] = <<>>
  BY DEF Resting, Joins, Handler
<1>2. ~Opening /\ ~Joining
  BY <1>1 DEF Opening, Joining, TypeOK, GatewayTypeOK
<1>3. Two
  BY <1>2 DEF Phased, BothIn, Announced, Offering, Offered, Told, Applying, Answered,
              Connected
<1>4. /\ Device = {Sender, Receiver} /\ sPage.sock \in Socket /\ rPage.sock \in Socket
  BY <1>3, TwoSockets
<1>5. toSender = <<>> /\ toReceiver = <<>>
  BY <1>1, <1>4 DEF toSender, toReceiver
<1>6. \A x, b, a : ~Holds(<<>>, x, b, a)
  BY DEF Holds
<1>7. ~Announced /\ ~Told
  BY <1>5, <1>6 DEF Announced, Told
<1>8. ~Offering /\ ~Applying
  BY <1>4 DEF Offering, Applying, Resting, sPage, rPage
<1>9. ~Offered /\ ~Answered
  BY <1>1, <1>4 DEF Offered, Answered
<1>10. Connected
  BY <1>2, <1>7, <1>8, <1>9 DEF Phased
<1>. QED
  BY <1>4, <1>5, <1>6, <1>10 DEF Connected, sPage, rPage

(* Of two pages, while nothing goes wrong: when all handlers have ended, all events are    *)
(* handled and the second join was counted, both pages and the gateway are CONNECTED,     *)
(* each page with a connection that is described on both sides (gateway, 65-183;          *)
(* use-webrtc-session, 51-135).                                                 *)
THEOREM PairsAtRest == TwoPages => (Spec => []PairedAtRest)
<1>. SUFFICES ASSUME TwoPages PROVE Spec => []PairedAtRest
  OBVIOUS
<1>1. Init => TypeOK /\ UntilFault /\ PhasedUntilFault
  BY TypesStart, CalmStart, PhasedStart DEF UntilFault, PhasedUntilFault, Phased
<1>2. TwoPages /\ PhasedUntilFault /\ TypeOK /\ UntilFault /\ [Next]_vars => PhasedUntilFault'
  BY PhasedKept
<1>3. TypeOK /\ UntilFault /\ PhasedUntilFault => PairedAtRest
  BY RestsPaired
<1>. QED
  BY <1>1, <1>2, <1>3, CalmKept, TypesKept, PTL DEF Spec
-------------------------------------------------------------------------------
(* The turns of Handshaking                                                   *)

(* Where each phase has brought the gateway and the two pages.                       *)
Reached(c, s, r) == conn = c /\ sPage.pc = s /\ rPage.pc = r

Turns ==
    /\ Opening   => Reached("WAITING", "none", "none")
    /\ Joining   => Reached("JOINED", "none", "none")
    /\ Announced => Reached("PAIRING", "none", "none")
    /\ Offering  => Reached("PAIRING", "offering", "none")
    /\ Offered   => Reached("PAIRING", "offered", "none")
    /\ Told      => Reached("NEGOTIATING", "offered", "none")
    /\ Applying  => Reached("NEGOTIATING", "offered", "applying")
    /\ Answered  => Reached("NEGOTIATING", "offered", "stable")
    /\ Connected => \/ Reached("CONNECTED", "offered", "stable")
                    \/ Reached("CONNECTED", "stable", "stable")

LEMMA PhaseTurns == TwoPages => Turns
<1>. SUFFICES ASSUME TwoPages PROVE Turns
  OBVIOUS
<1>1. Sender \in Device /\ Receiver \in Device
  BY DEF TwoPages, Receiver
<1>2. NothingBegan => sPage.pc = "none" /\ rPage.pc = "none"
  BY <1>1 DEF NothingBegan, Began, sPage, rPage
<1>3. ~Began(sPage) => sPage.pc = "none"
  BY DEF Began
<1>. QED
  BY <1>2, <1>3 DEF Turns, Reached, Opening, Joining, Announced, Offering, Offered, Told,
                    Applying, Answered, Connected, Untold, Given

LEMMA NextTurns == (TwoPages => Turns)'
BY PhaseTurns, PTL

(* Who may write the connection state, and what.                                   *)
LEMMA WritesInTurn ==
    ASSUME TypeOK, Calm, Phased, NEW k \in Socket, NEW h \in Handler, WriteState(k, h)
    PROVE  \/ Opening /\ conn' = "JOINED"
           \/ Joining /\ conn' = "PAIRING"
           \/ Offered /\ conn' = "NEGOTIATING"
           \/ Answered /\ conn' = "CONNECTED"
<1>1. task[<<k, h>>].at = "write" /\ conn' = task[<<k, h>>].to
  BY DEF WriteState, At
<1>2. h \in {"join", "offer", "answer"}
  <2>1. Fits(k, h, task[<<k, h>>])
    BY DEF Calm, TasksFit
  <2>. QED
    BY <1>1, <2>1 DEF Fits, Handler
<1>3. CASE h = "join"
  <2>1. Joins(k).at = "write" /\ conn' = Joins(k).to
    BY <1>1, <1>3 DEF Joins
  <2>2. Joins(k).at = "write" => ~BothIn
    BY DEF BothIn, Rests
  <2>3. Opening \/ Joining
    BY <2>1, <2>2 DEF Phased, Announced, Offering, Offered, Told, Applying, Answered, Connected
  <2>4. Opening => conn' = "JOINED"
    BY <2>1 DEF Opening
  <2>5. Joining => conn' = "PAIRING"
    BY <2>1 DEF Joining, Rests
  <2>. QED
    BY <2>3, <2>4, <2>5
<1>4. CASE h \in {"offer", "answer"}
  <2>1. task[<<k, h>>].at # "idle"
    BY <1>1
  <2>2. ~SignalsOnly({})
    BY <1>4, <2>1 DEF SignalsOnly
  <2>3. Offered \/ Answered
    BY <2>2 DEF Phased, Opening, Joining, NothingBegan, Announced, Offering, Told, Applying,
                Connected
  <2>4. Offered => conn' = "NEGOTIATING"
    BY <1>1, <1>4, <2>1 DEF Offered, SignalsOnly
  <2>5. Answered => conn' = "CONNECTED"
    BY <1>1, <1>4, <2>1 DEF Answered, SignalsOnly
  <2>. QED
    BY <2>3, <2>4, <2>5
<1>. QED
  BY <1>2, <1>3, <1>4

(* What an event does to the connection of a page.                                 *)
LEMMA HandledPc ==
    ASSUME TypeOK, NEW d \in Device, Handle(d)
    PROVE  LET b == page[d].pc  a == page'[d].pc IN
           \/ a = b
           \/ b = "none" /\ d = Sender /\ a = "offering"
           \/ b = "none" /\ d # Sender /\ a = "applying"
           \/ b \in {"offered", "applying"} /\ d = Sender /\ a = "stable"
           \/ /\ b = "offering" /\ d = Sender
              /\ inbox[page[d].sock] # <<>>
              /\ Head(inbox[page[d].sock]).type = "ANSWER_RECEIVED"
<1>. DEFINE m == Head(inbox[page[d].sock])
            q == After(d, page[d], m)
<1>1. /\ page[d] \in Page /\ m \in Message /\ q \in Page /\ page'[d] = Effects(d, q)
      /\ inbox[page[d].sock] # <<>>
  BY HandleFrame
<1>2. \/ q.pc = page[d].pc
      \/ /\ m.type = "ANSWER_RECEIVED" /\ d = Sender /\ page[d].pc # "none"
         /\ page[d].pc = "offering" \/ q.pc = "stable"
  <2>1. CASE m.type # "ANSWER_RECEIVED"
    BY <1>1, <2>1 DEF After, Page, Message, Event
  <2>2. CASE m.type = "ANSWER_RECEIVED"
    <3>1. q = [GiveAnswer(d, page[d], m.n) EXCEPT !.state = "CONNECTED"]
      BY <2>2 DEF After
    <3>2. q.pc = GiveAnswer(d, page[d], m.n).pc
      BY <1>1, <3>1 DEF GiveAnswer, Page
    <3>. QED
      BY <1>1, <2>2, <3>2 DEF GiveAnswer, TakesAnswer, Page
  <2>. QED
    BY <2>1, <2>2
<1>. HIDE DEF q
<1>3. \/ page'[d].pc = q.pc
      \/ q.pc = "none" /\ d = Sender /\ page'[d].pc = "offering"
      \/ q.pc = "none" /\ d # Sender /\ page'[d].pc = "applying"
  <2>1. \A n \in Nat : NewPc(q, n) \in Page
    BY <1>1, NewConnection
  <2>2. q.num + 1 \in Nat /\ q.offer \in Nat
    BY <1>1 DEF Page
  <2>3. \A p \in Page : [p EXCEPT !.pc = "offering"].pc = "offering"
                        /\ [p EXCEPT !.pc = "applying"].pc = "applying"
    BY DEF Page
  <2>. QED
    BY <1>1, <2>1, <2>2, <2>3 DEF Effects, WantsPc
<1>. QED
  BY <1>1, <1>2, <1>3 DEF Page

LEMMA SignalPc ==
    ASSUME TypeOK, NEW d \in Device, NEW h, NEW p \in Page, Signal(d, h, p)
    PROVE  page'[d].pc = p.pc /\ \A e \in Device \ {d} : page'[e] = page[e]
BY DEF Signal, TypeOK, Page

LEMMA TurnTaken ==
    ASSUME TypeOK, Calm, TwoPages, Phased, Phased', Progress, faults = 0, faults' = 0
    PROVE  [H!HNext]_(H!hvars)
<1>t. Turns /\ Turns'
  <2>1. Turns /\ (TwoPages => Turns')
    BY PhaseTurns, NextTurns DEF TwoPages
  <2>. QED
    BY <2>1
<1>0. /\ Sender \in Device /\ Receiver \in Device /\ Sender # Receiver
      /\ Device = {Sender, Receiver}
  BY DEF TwoPages, Receiver
<1>. DEFINE c == conn  s == page[Sender].pc  r == page[Receiver].pc
<1>. SUFFICES \/ H!GatewayTurn \/ H!OffererTurn \/ H!AnswererTurn
              \/ c' = c /\ s' = s /\ r' = r
  BY DEF H!HNext, H!Calmly, H!hvars
<1>1. ASSUME NEW k \in Socket, GatewayStep(k), UNCHANGED <<page, opened>>
      PROVE  H!GatewayTurn \/ (c' = c /\ s' = s /\ r' = r)
  <2>1. CASE \E h \in Handler : WriteState(k, h)
    <3>1. PICK h \in Handler : WriteState(k, h)
      BY <2>1
    <3>2. \/ Opening /\ conn' = "JOINED"
          \/ Joining /\ conn' = "PAIRING"
          \/ Offered /\ conn' = "NEGOTIATING"
          \/ Answered /\ conn' = "CONNECTED"
      BY <3>1, WritesInTurn
    <3>. QED
      BY <1>1, <3>2 DEF H!GatewayTurn, H!Turn, Opening, Joining, Offered, Answered, Given,
                        sPage, rPage
  <2>2. CASE ~\E h \in Handler : WriteState(k, h)
    <3>1. conn' = conn
      BY <1>1, <2>2 DEF GatewayStep, ReadState, Enter, GetPair, MergePair, SavePair, Leave,
                        Offline, Detect, keysKept
    <3>. QED
      BY <1>1, <3>1
  <2>. QED
    BY <2>1, <2>2
<1>2. ASSUME NEW d \in Device, Handle(d)
      PROVE  H!OffererTurn \/ H!AnswererTurn \/ (c' = c /\ s' = s /\ r' = r)
  <2>1. conn' = conn /\ \A e \in Device \ {d} : page'[e] = page[e]
    BY <1>2, HandleFrame
  <2>2. CASE d = Sender
    <3>1. r' = r
      BY <1>0, <2>1, <2>2
    <3>2. ~ /\ s = "offering" /\ inbox[page[d].sock] # <<>>
            /\ Head(inbox[page[d].sock]).type = "ANSWER_RECEIVED"
      <4>1. s = "offering" => Only(toSender, Early)
        BY <1>t DEF Turns, Reached, Phased, Offering, sPage
      <4>2. toSender = inbox[page[d].sock] /\ toSender \in Seq(Message)
        BY <1>2, <2>2, HandleFrame DEF toSender, sPage
      <4>. QED
        BY <4>1, <4>2 DEF Only, Early
    <3>3. \/ s' = s
          \/ s = "none" /\ s' = "offering"
          \/ s \in {"offered", "applying"} /\ s' = "stable"
      BY <1>2, <2>2, <3>2, HandledPc
    <3>4. (s = "none" /\ s' = "offering") => c = "PAIRING"
      BY <1>t, <2>1 DEF Turns, Reached, Phased, sPage
    <3>5. s # "applying" /\ ((s = "offered" /\ s' = "stable") => c = "CONNECTED")
      BY <1>t, <2>1 DEF Turns, Reached, Phased, sPage
    <3>. QED
      BY <2>1, <3>1, <3>3, <3>4, <3>5 DEF H!OffererTurn
  <2>3. CASE d = Receiver
    <3>1. s' = s
      BY <1>0, <2>1, <2>3
    <3>2. r' = r \/ (r = "none" /\ r' = "applying")
      BY <1>0, <1>2, <2>3, HandledPc
    <3>3. r' = "applying" => c = "NEGOTIATING"
      BY <1>t, <2>1 DEF Turns, Reached, Phased, rPage
    <3>. QED
      BY <2>1, <3>1, <3>2, <3>3 DEF H!AnswererTurn
  <2>. QED
    BY <1>0, <2>2, <2>3
<1>3. ASSUME NEW d \in Device, OfferReady(d) PROVE H!OffererTurn
  <2>. DEFINE p == [page[d] EXCEPT !.pc = "offered", !.state = "NEGOTIATING"]
  <2>1. d = Sender /\ Offering /\ page[d] \in Page
    BY <1>3, OnlyOffering DEF OfferReady, TypeOK
  <2>2. p \in Page /\ p.pc = "offered"
    BY <2>1 DEF Page, WebRtcState
  <2>3. page'[d].pc = "offered" /\ \A e \in Device \ {d} : page'[e] = page[e]
    BY <1>3, <2>2, SignalPc DEF OfferReady
  <2>4. c = "PAIRING" /\ s = "offering" /\ c' = c
    BY <1>3, <1>t, <2>1 DEF Turns, Reached, sPage, OfferReady, keysKept
  <2>. QED
    BY <1>0, <2>1, <2>3, <2>4 DEF H!OffererTurn
<1>4. ASSUME NEW d \in Device, AnswerReady(d) PROVE H!AnswererTurn
  <2>. DEFINE p == [page[d] EXCEPT !.pc = "stable", !.state = "CONNECTED"]
  <2>1. d = Receiver /\ Applying /\ page[d] \in Page
    BY <1>4, OnlyOffering DEF AnswerReady, TypeOK
  <2>2. p \in Page /\ p.pc = "stable"
    BY <2>1 DEF Page, WebRtcState
  <2>3. page'[d].pc = "stable" /\ \A e \in Device \ {d} : page'[e] = page[e]
    BY <1>4, <2>2, SignalPc DEF AnswerReady
  <2>4. c = "NEGOTIATING" /\ r = "applying" /\ c' = c
    BY <1>4, <1>t, <2>1 DEF Turns, Reached, rPage, AnswerReady, keysKept
  <2>. QED
    BY <1>0, <2>1, <2>3, <2>4 DEF H!AnswererTurn
<1>5. ASSUME NEW d \in Device, NEW k \in Socket, Connect(d, k)
      PROVE  c' = c /\ s' = s /\ r' = r
  <2>1. page' = [page EXCEPT ![d] = [[page[d] EXCEPT !.sock = k] EXCEPT !.held = NoneHeld]]
    BY <1>5 DEF Connect
  <2>2. \A e \in Device : page[e] \in Page
    BY DEF TypeOK
  <2>3. \A e \in Device : page'[e].pc = page[e].pc
    BY <2>1, <2>2 DEF TypeOK, Page
  <2>. QED
    BY <1>0, <1>5, <2>3 DEF Connect, keysKept
<1>. QED
  BY <1>1, <1>2, <1>3, <1>4, <1>5 DEF Progress

(* Of two pages, until something goes wrong: the gateway and the pages take each turn   *)
(* of the handshake once, in the order of Handshaking, and none goes back (gateway,     *)
(* 65-183; signaling.service.ts, 60; use-webrtc-session, 51-135).                  *)
THEOREM TakesTurns == TwoPages => (Spec => ImplementsHandshaking)
<1>. SUFFICES ASSUME TwoPages PROVE Spec => ImplementsHandshaking
  OBVIOUS
<1>1. Init => TypeOK /\ UntilFault /\ PhasedUntilFault
  BY TypesStart, CalmStart, PhasedStart DEF UntilFault, PhasedUntilFault, Phased
<1>2. TwoPages /\ PhasedUntilFault /\ TypeOK /\ UntilFault /\ [Next]_vars => PhasedUntilFault'
  BY PhasedKept
<1>3. Init => H!HInit
  <2>1. Sender \in Device /\ Receiver \in Device
    BY DEF TwoPages, Receiver
  <2>. QED
    BY <2>1 DEF Init, GatewayInit, FreshPage, H!HInit
<1>4. /\ TypeOK /\ UntilFault /\ PhasedUntilFault /\ PhasedUntilFault' /\ [Next]_vars
      => [H!HNext]_(H!hvars)
  <2>. SUFFICES ASSUME TypeOK, UntilFault, PhasedUntilFault, PhasedUntilFault', [Next]_vars
                PROVE  [H!HNext]_(H!hvars)
    OBVIOUS
  <2>1. CASE faults' # 0
    BY <2>1 DEF H!HNext
  <2>2. CASE faults' = 0
    <3>1. faults = 0 /\ ~Disturbance
      BY <2>2, FaultsOnlyGrow, NoDisturbance
    <3>2. CASE UNCHANGED vars
      BY <3>2 DEF vars, gatewayVars, H!hvars
    <3>3. CASE Progress
      BY <2>2, <3>1, <3>3, TurnTaken DEF UntilFault, PhasedUntilFault
    <3>. QED
      BY <3>1, <3>2, <3>3 DEF Next
  <2>. QED
    BY <2>1, <2>2
<1>. QED
  BY <1>1, <1>2, <1>3, <1>4, CalmKept, TypesKept, PTL
     DEF Spec, ImplementsHandshaking, H!HSpec
===============================================================================
