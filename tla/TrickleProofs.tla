---------------------------- MODULE TrickleProofs ----------------------------
(***************************************************************************)
(* Candidates and the renders they cause leave the handshake alone.  The        *)
(* argument: every action of a page that sets its store runs the effects, so      *)
(* that no render finds an effect with something to do.  And while nothing goes     *)
(* wrong no candidate is lost: by Calm of the handshake a page that has a           *)
(* connection is not alone in the room.                                        *)
(***************************************************************************)
EXTENDS Trickle, HandshakeProofs

Settled(d, p) ==
    p.pc # "none" \/ IF d = Sender THEN p.state # "PAIRING" ELSE p.offer = 0

AllSettled == \A d \in Device : Settled(d, page[d])

(* A render with nothing new does nothing (use-webrtc-session, 60 and 91).            *)
LEMMA EffectsOfSettled ==
    ASSUME NEW d, NEW p \in Page, Settled(d, p)
    PROVE  Effects(d, p) = p
BY DEF Settled, Effects, WantsPc

LEMMA EffectsSettle ==
    ASSUME NEW d, NEW p \in Page
    PROVE  Settled(d, Effects(d, p))
<1>1. CASE WantsPc(p) /\ d = Sender /\ p.state = "PAIRING"
  <2>1. Effects(d, p).pc = "offering"
    BY <1>1 DEF Effects, NewPc, Page
  <2>. QED
    BY <2>1 DEF Settled
<1>2. CASE WantsPc(p) /\ d # Sender /\ p.offer # 0
  <2>1. Effects(d, p).pc = "applying"
    BY <1>2 DEF Effects, NewPc, Page
  <2>. QED
    BY <2>1 DEF Settled
<1>3. CASE ~(WantsPc(p) /\ d = Sender /\ p.state = "PAIRING")
           /\ ~(WantsPc(p) /\ d # Sender /\ p.offer # 0)
  <2>1. Effects(d, p) = p
    BY <1>3 DEF Effects
  <2>. QED
    BY <1>3, <2>1 DEF Settled, WantsPc
<1>. QED
  BY <1>1, <1>2, <1>3

LEMMA SettledStart == Init => AllSettled
BY DEF Init, AllSettled, Settled, FreshPage

(* Only the page of one device changes, and to a settled one.                      *)
LEMMA OnePage ==
    ASSUME TypeOK, AllSettled, NEW d \in Device, NEW p, Settled(d, p),
           page' = [page EXCEPT ![d] = p]
    PROVE  AllSettled'
BY DEF AllSettled, TypeOK, Settled

LEMMA HandleSettles ==
    ASSUME TypeOK, AllSettled, NEW d \in Device, Handle(d)
    PROVE  AllSettled'
<1>. DEFINE k == page[d].sock
            m == Head(inbox[k])
            p == After(d, page[d], m)
<1>1. page[d] \in Page /\ k \in Socket
  BY DEF TypeOK, Page, Handle
<1>2. m \in Message
  BY <1>1 DEF Handle, TypeOK, GatewayTypeOK
<1>3. p \in Page
  BY <1>1, <1>2, MessageTypes
<1>4. page' = [page EXCEPT ![d] = Effects(d, p)]
  BY DEF Handle
<1>. HIDE DEF p
<1>5. Settled(d, Effects(d, p))
  BY <1>3, EffectsSettle
<1>. QED
  BY <1>4, <1>5, OnePage

LEMMA SignalSettles ==
    ASSUME TypeOK, AllSettled, NEW d \in Device, NEW h, NEW p \in Page,
           p.pc # "none", Signal(d, h, p)
    PROVE  AllSettled'
<1>. DEFINE q == [p EXCEPT !.held[h] = p.num]
<1>1. q.pc = p.pc
  BY DEF Page
<1>2. page' = [page EXCEPT ![d] = p] \/ page' = [page EXCEPT ![d] = q]
  BY DEF Signal
<1>3. Settled(d, p) /\ Settled(d, q)
  <2>. HIDE DEF q
  <2>. QED
    BY <1>1 DEF Settled
<1>. HIDE DEF q
<1>. QED
  BY <1>2, <1>3, OnePage

LEMMA SettledKept ==
    ASSUME TypeOK, AllSettled, [Next]_vars
    PROVE  AllSettled'
<1>1. CASE UNCHANGED page
  BY <1>1 DEF AllSettled
<1>2. ASSUME NEW d \in Device, OfferReady(d) PROVE AllSettled'
  <2>1. page[d] \in Page
    BY DEF TypeOK
  <2>. DEFINE p == [page[d] EXCEPT !.pc = "offered", !.state = "NEGOTIATING"]
  <2>2. p \in Page /\ p.pc = "offered"
    BY <2>1 DEF Page, WebRtcState
  <2>3. \E h : Signal(d, h, p)
    BY <1>2 DEF OfferReady
  <2>. HIDE DEF p
  <2>. QED
    BY <2>2, <2>3, SignalSettles
<1>3. ASSUME NEW d \in Device, AnswerReady(d) PROVE AllSettled'
  <2>1. page[d] \in Page
    BY DEF TypeOK
  <2>. DEFINE p == [page[d] EXCEPT !.pc = "stable", !.state = "CONNECTED"]
  <2>2. p \in Page /\ p.pc = "stable"
    BY <2>1 DEF Page, WebRtcState
  <2>3. \E h : Signal(d, h, p)
    BY <1>3 DEF AnswerReady
  <2>. HIDE DEF p
  <2>. QED
    BY <2>2, <2>3, SignalSettles
<1>4. ASSUME NEW d \in Device, NEW k \in Socket, Connect(d, k) PROVE AllSettled'
  <2>1. page[d] \in Page /\ Settled(d, page[d])
    BY DEF TypeOK, AllSettled
  <2>. DEFINE p == [[page[d] EXCEPT !.sock = k] EXCEPT !.held = NoneHeld]
  <2>2. page' = [page EXCEPT ![d] = p]
    BY <1>4 DEF Connect, TypeOK
  <2>3. p.pc = page[d].pc /\ p.state = page[d].state /\ p.offer = page[d].offer
    BY <2>1 DEF Page
  <2>. HIDE DEF p
  <2>4. Settled(d, p)
    BY <2>1, <2>3 DEF Settled
  <2>. QED
    BY <2>2, <2>4, OnePage
<1>5. ASSUME NEW d \in Device, PcFails(d) PROVE AllSettled'
  <2>. DEFINE p == [page[d] EXCEPT !.pc = "none"]
  <2>1. p \in Page
    BY DEF TypeOK, Page
  <2>2. page' = [page EXCEPT ![d] = Effects(d, p)]
    BY <1>5 DEF PcFails
  <2>. HIDE DEF p
  <2>. QED
    BY <2>1, <2>2, EffectsSettle, OnePage
<1>6. ASSUME NEW d \in Device, Drop(d) PROVE AllSettled'
  <2>1. page[d] \in Page /\ Settled(d, page[d])
    BY DEF TypeOK, AllSettled
  <2>. DEFINE p == [page[d] EXCEPT !.sock = None]
  <2>2. page' = [page EXCEPT ![d] = p]
    BY <1>6 DEF Drop
  <2>3. p.pc = page[d].pc /\ p.state = page[d].state /\ p.offer = page[d].offer
    BY <2>1 DEF Page
  <2>. HIDE DEF p
  <2>4. Settled(d, p)
    BY <2>1, <2>3 DEF Settled
  <2>. QED
    BY <2>2, <2>4, OnePage
<1>7. ASSUME NEW d \in Device, Quit(d) PROVE AllSettled'
  <2>. DEFINE p == [FreshPage EXCEPT !.open = FALSE]
  <2>1. page' = [page EXCEPT ![d] = p]
    BY <1>7 DEF Quit
  <2>2. p.state = "WAITING" /\ p.offer = 0
    BY DEF FreshPage
  <2>. HIDE DEF p
  <2>3. Settled(d, p)
    BY <2>2 DEF Settled
  <2>. QED
    BY <2>1, <2>3, OnePage
<1>. QED
  BY <1>1, <1>2, <1>3, <1>4, <1>5, <1>6, <1>7, HandleSettles
     DEF Next, Progress, Disturbance, vars

-------------------------------------------------------------------------------
(* Every step is a step of the handshake, or leaves it as it is.                    *)
LEMMA StepMaps ==
    ASSUME TypeOK, AllSettled, [TNext]_tvars
    PROVE  [Next]_vars
<1>1. CASE UNCHANGED tvars
  BY <1>1 DEF tvars
<1>2. \A d \in Device : Effects(d, page[d]) = page[d]
  BY EffectsOfSettled DEF AllSettled, TypeOK
<1>3. ASSUME NEW d \in Device, page' = [page EXCEPT ![d] = Effects(d, @)]
      PROVE  page' = page
  BY <1>2, <1>3 DEF TypeOK
<1>4. ASSUME NEW d \in Device, NEW w \in wire, Arrive(d, w) PROVE UNCHANGED vars
  BY <1>3, <1>4 DEF Arrive, vars
<1>5. ASSUME NEW d \in Device, Rerender(d) PROVE UNCHANGED vars
  BY <1>3, <1>5 DEF Rerender, vars
<1>6. CASE TProgress
  <2>1. ASSUME NEW k \in Socket, TGateway(k) PROVE [Next]_vars
    BY <2>1 DEF TGateway, Next, Progress
  <2>2. ASSUME NEW w \in wire, Forward(w) PROVE [Next]_vars
    BY <2>2 DEF Forward
  <2>3. ASSUME NEW d \in Device, THandle(d) \/ TOfferReady(d) \/ TAnswerReady(d)
        PROVE  [Next]_vars
    BY <2>3 DEF THandle, TOfferReady, TAnswerReady, Next, Progress
  <2>4. ASSUME NEW d \in Device, NEW k \in Socket, TConnect(d, k) PROVE [Next]_vars
    BY <2>4 DEF TConnect, Next, Progress
  <2>5. ASSUME NEW d \in Device, Applied(d) PROVE [Next]_vars
    BY <2>5 DEF Applied
  <2>. QED
    BY <1>4, <1>6, <2>1, <2>2, <2>3, <2>4, <2>5 DEF TProgress
<1>7. CASE TDisturbance
  <2>1. ASSUME NEW k \in Socket, NEW h \in Handler, TFail(k, h) PROVE [Next]_vars
    BY <2>1 DEF TFail, Next, Disturbance
  <2>2. ASSUME NEW d \in Device, TPcFails(d) \/ TDrop(d) \/ TQuit(d) PROVE [Next]_vars
    BY <2>2 DEF TPcFails, TDrop, TQuit, Next, Disturbance
  <2>. QED
    BY <1>7, <2>1, <2>2 DEF TDisturbance
<1>8. ASSUME NEW d \in Device, Gather(d) PROVE [Next]_vars
  BY <1>8 DEF Gather
<1>. QED
  BY <1>1, <1>5, <1>6, <1>7, <1>8 DEF TNext

(* Candidates only add to the handshake, for any number of sockets, faults and         *)
(* candidates (ImplementsHandshake).                                            *)
THEOREM AddsToHandshake == TSpec => ImplementsHandshake
<1>1. TInit => Init /\ TypeOK /\ AllSettled
  BY TypesStart, SettledStart DEF TInit
<1>2. TypeOK /\ AllSettled /\ [TNext]_tvars => [Next]_vars /\ TypeOK' /\ AllSettled'
  BY StepMaps, TypesKept, SettledKept
<1>. QED
  BY <1>1, <1>2, PTL DEF TSpec, Spec, ImplementsHandshake

(* So what holds of the handshake holds with candidates: undisturbed, no connection is   *)
(* made or offered to an empty room (gateway, 71-114), and no event replaces one        *)
(* (use-webrtc-session, 61 and 92).                                             *)
THEOREM HandshakeHolds == TSpec => []OffersMeet /\ KeptByMessages
BY AddsToHandshake, MeetsBeforeOffering, ConnectionsKept, PTL DEF ImplementsHandshake

(* And of two pages: undisturbed, they and the gateway take their turns in order and    *)
(* rest connected, however candidates and renders come between (use-webrtc-session,    *)
(* 51-140).                                                                     *)
THEOREM TurnsHold == TwoPages => (TSpec => []PairedAtRest /\ ImplementsHandshaking)
<1>. SUFFICES ASSUME TwoPages PROVE TSpec => []PairedAtRest /\ ImplementsHandshaking
  OBVIOUS
<1>1. (Spec => []PairedAtRest) /\ (Spec => ImplementsHandshaking)
  BY PairsAtRest, TakesTurns
<1>. QED
  BY <1>1, AddsToHandshake, PTL DEF ImplementsHandshake
-------------------------------------------------------------------------------
(* The candidates keep their types.  That there are finitely many is what bounds     *)
(* the number of the next one.                                                  *)
TInv == TTypeOK /\ IsFiniteSet(made)

CandidatesOK ==
    /\ described \subseteq Device
    /\ made \subseteq Candidate /\ IsFiniteSet(made)
    /\ wire \subseteq OnWire
    /\ stored \in [Device -> SUBSET Candidate]
    /\ added \in [Device -> SUBSET Candidate]

LEMMA RenderTypes ==
    ASSUME TTypeOK, NEW d \in Device, NEW kept \in SUBSET Candidate, Render(d, kept)
    PROVE  /\ stored' \in [Device -> SUBSET Candidate]
           /\ added' \in [Device -> SUBSET Candidate]
BY DEF Render, TTypeOK

LEMMA KeptTypes ==
    ASSUME TTypeOK, NEW d \in Device, Kept(d)
    PROVE  /\ stored' \in [Device -> SUBSET Candidate]
           /\ added' \in [Device -> SUBSET Candidate]
<1>1. stored[d] \in SUBSET Candidate
  BY DEF TTypeOK
<1>. QED
  BY <1>1, RenderTypes DEF Kept

LEMMA GatherTypes ==
    ASSUME TInv, NEW d \in Device, Gather(d)
    PROVE  CandidatesOK'
<1>. DEFINE mine == {c \in made : c.from = d /\ c.num = page[d].num}
            c == [from |-> d, num |-> page[d].num, i |-> Cardinality(mine) + 1]
            w == Emitted(c, page[d].sock)
<1>1. IsFiniteSet(mine)
  BY FS_Subset DEF TInv
<1>2. Cardinality(mine) \in Nat
  BY <1>1, FS_CardinalityType
<1>3. page[d].num \in Nat /\ page[d].sock \in Socket \cup {None}
  BY DEF TInv, TTypeOK, TypeOK, Page
<1>4. Cardinality(mine) < MaxCandidates
  BY DEF Gather
<1>. HIDE DEF mine
<1>5. c \in Candidate
  BY <1>2, <1>3, <1>4, TrickleAssumption DEF Candidate
<1>6. made' = made \cup {c} /\ wire' = wire \cup {w}
  BY DEF Gather, mine
<1>. HIDE DEF c
<1>7. w \in OnWire
  BY <1>3, <1>5 DEF Emitted, OnWire
<1>. HIDE DEF w
<1>8. IsFiniteSet(made')
  BY <1>6, FS_AddElement DEF TInv
<1>. QED
  BY <1>5, <1>6, <1>7, <1>8 DEF Gather, TInv, TTypeOK, CandidatesOK

(* What is on its way stays so, or goes on from one socket to another.               *)
LEMMA WireTypes ==
    ASSUME NEW w \in OnWire, NEW k \in Socket, NEW at \in {"up", "down"}
    PROVE  [w EXCEPT !.at = at, !.sock = k] \in OnWire
<1>. DEFINE u == [w EXCEPT !.at = at]
<1>1. w \in [c: Candidate, at: {"held", "up", "down"}, sock: Socket \cup {None}]
  BY DEF OnWire
<1>2. u \in [c: Candidate, at: {at}, sock: Socket \cup {None}]
  BY <1>1
<1>. HIDE DEF u
<1>3. [u EXCEPT !.sock = k] \in [c: Candidate, at: {at}, sock: Socket]
  BY <1>2
<1>4. [u EXCEPT !.sock = k] \in OnWire
  BY <1>3 DEF OnWire
<1>. QED
  BY <1>4 DEF u

LEMMA CandidatesKept ==
    ASSUME TInv, [TNext]_tvars
    PROVE  CandidatesOK'
<1>. USE DEF TInv
<1>1. CASE UNCHANGED tvars
  BY <1>1 DEF tvars, candidateVars, TTypeOK, CandidatesOK
<1>2. ASSUME NEW k \in Socket, TGateway(k) PROVE CandidatesOK'
  BY <1>2 DEF TGateway, TTypeOK, CandidatesOK
<1>3. ASSUME NEW w \in wire, Forward(w) PROVE CandidatesOK'
  <2>1. w \in OnWire
    BY DEF TTypeOK
  <2>2. Others(w) \subseteq Socket
    BY DEF Others, TTypeOK, TypeOK, GatewayTypeOK
  <2>3. ASSUME NEW j \in Others(w) PROVE [w EXCEPT !.at = "down", !.sock = j] \in OnWire
    BY <2>1, <2>2, WireTypes, Zenon
  <2>4. wire' \subseteq OnWire
    BY <1>3, <2>3 DEF Forward, TTypeOK
  <2>. QED
    BY <1>3, <2>4 DEF Forward, TTypeOK, CandidatesOK
<1>4. ASSUME NEW d \in Device, NEW w \in wire, Arrive(d, w) PROVE CandidatesOK'
  <2>1. w.c \in Candidate
    BY DEF TTypeOK, OnWire
  <2>2. stored[d] \cup {w.c} \in SUBSET Candidate
    BY <2>1 DEF TTypeOK
  <2>3. Render(d, stored[d] \cup {w.c})
    BY <1>4 DEF Arrive
  <2>. QED
    BY <1>4, <2>2, <2>3, RenderTypes DEF Arrive, TTypeOK, CandidatesOK
<1>5. ASSUME NEW d \in Device, Applied(d) PROVE CandidatesOK'
  BY <1>5 DEF Applied, TTypeOK, CandidatesOK
<1>6. ASSUME NEW d \in Device, Rerender(d) PROVE CandidatesOK'
  BY <1>6, KeptTypes DEF Rerender, TTypeOK, CandidatesOK
<1>7. ASSUME NEW d \in Device, THandle(d) \/ TOfferReady(d) \/ TAnswerReady(d)
      PROVE  CandidatesOK'
  <2>1. Kept(d) /\ UNCHANGED <<made, wire>> /\ described' \subseteq described
    BY <1>7 DEF THandle, TOfferReady, TAnswerReady
  <2>. QED
    BY <2>1, KeptTypes DEF TTypeOK, CandidatesOK
<1>8. ASSUME NEW d \in Device, NEW k \in Socket, TConnect(d, k) PROVE CandidatesOK'
  <2>1. ASSUME NEW w \in wire
        PROVE  w \in OnWire /\ [w EXCEPT !.at = "up", !.sock = k] \in OnWire
    <3>1. w \in OnWire
      BY DEF TTypeOK
    <3>. QED
      BY <3>1, WireTypes, Zenon
  <2>2. wire' \subseteq OnWire
    BY <1>8, <2>1 DEF TConnect
  <2>. QED
    BY <1>8, <2>2, KeptTypes DEF TConnect, TTypeOK, CandidatesOK
<1>9. ASSUME NEW d \in Device, TPcFails(d) \/ TDrop(d) PROVE CandidatesOK'
  <2>1. Kept(d) /\ UNCHANGED made /\ wire' \subseteq wire /\ described' \subseteq described
    BY <1>9 DEF TPcFails, TDrop, Without
  <2>. QED
    BY <2>1, KeptTypes DEF TTypeOK, CandidatesOK
<1>10. ASSUME NEW d \in Device, TQuit(d) PROVE CandidatesOK'
  BY <1>10 DEF TQuit, Without, TTypeOK, CandidatesOK
<1>11. ASSUME NEW k \in Socket, NEW h \in Handler, TFail(k, h) PROVE CandidatesOK'
  BY <1>11 DEF TFail, candidateVars, TTypeOK, CandidatesOK
<1>. QED
  BY <1>1, <1>2, <1>3, <1>4, <1>5, <1>6, <1>7, <1>8, <1>9, <1>10, <1>11, GatherTypes
     DEF TNext, TProgress, TDisturbance

(* Candidates, the connections they are for and the places they are at keep their     *)
(* types (TTypeOK), for any number of devices, sockets, faults and candidates.        *)
THEOREM CandidatesTyped == TSpec => []TTypeOK
<1>1. TInit => TInv /\ AllSettled
  BY TypesStart, SettledStart, FS_EmptySet DEF TInit, TInv, TTypeOK
<1>2. TInv /\ AllSettled /\ [TNext]_tvars => TInv' /\ AllSettled'
  <2>. SUFFICES ASSUME TInv, AllSettled, [TNext]_tvars PROVE TInv' /\ AllSettled'
    OBVIOUS
  <2>2. TypeOK
    BY DEF TInv, TTypeOK
  <2>3. [Next]_vars
    BY <2>2, StepMaps
  <2>4. TypeOK' /\ AllSettled'
    BY <2>2, <2>3, TypesKept, SettledKept
  <2>5. CandidatesOK'
    BY CandidatesKept
  <2>. QED
    BY <2>4, <2>5 DEF TInv, TTypeOK, CandidatesOK
<1>3. TInv => TTypeOK
  BY DEF TInv
<1>. QED
  BY <1>1, <1>2, <1>3, PTL DEF TSpec
-------------------------------------------------------------------------------
(* Until the first fault a candidate on its way comes from a socket that met the       *)
(* other one, or goes to that one; so whoever forwards it finds a receiver.           *)
WireFits(w) ==
    /\ w.at # "held"
    /\ w.at = "up"   => w.sock = page[w.c.from].sock /\ Meets(w.sock)
    /\ w.at = "down" => w.sock \in opened /\ DeviceOf[w.sock] # w.c.from

Safe(c) == \/ \E w \in wire : w.c = c
           \/ \E d \in Device \ {c.from} : c \in stored[d] \cup added[d]

Carried == (\A w \in wire : WireFits(w)) /\ (\A c \in made : Safe(c))
CarriedUntilFault == faults = 0 => Carried

(* What fits its place goes on fitting it.                                        *)
LEMMA FitsStill ==
    ASSUME TTypeOK, Calm, Calm', room \subseteq room', opened \subseteq opened',
           NEW w \in wire, WireFits(w)
    PROVE  WireFits(w)'
<1>1. w.c.from \in Device
  BY DEF TTypeOK, OnWire, Candidate
<1>2. CASE w.at = "up"
  <2>1. w.sock \in opened /\ Meets(w.sock)'
    BY <1>2, MeetingsStay DEF WireFits, Meets, Calm, OneSocketEach
  <2>2. page[w.c.from].sock = w.sock /\ w.sock # None
    BY <1>2, <2>1, HandshakeAssumption DEF WireFits, TTypeOK, TypeOK
  <2>3. DeviceOf[w.sock] = w.c.from
    BY <1>1, <2>2 DEF Calm, OneSocketEach
  <2>4. page'[w.c.from].sock = w.sock
    BY <2>1, <2>3 DEF Calm, OneSocketEach
  <2>. QED
    BY <1>2, <2>1, <2>4 DEF WireFits
<1>3. CASE w.at # "up"
  BY <1>3 DEF WireFits
<1>. QED
  BY <1>2, <1>3

(* A render gives what is in the store to the connection, or leaves it there.          *)
LEMMA RenderCarries ==
    ASSUME TTypeOK, NEW d \in Device, NEW kept \in SUBSET Candidate,
           stored[d] \subseteq kept, Render(d, kept)
    PROVE  /\ \A e \in Device : stored[e] \cup added[e] \subseteq stored'[e] \cup added'[e]
           /\ kept \subseteq stored'[d] \cup added'[d]
BY DEF Render, TTypeOK

LEMMA KeptCarries ==
    ASSUME TTypeOK, NEW d \in Device, Kept(d)
    PROVE  \A e \in Device : stored[e] \cup added[e] \subseteq stored'[e] \cup added'[e]
<1>1. stored[d] \in SUBSET Candidate
  BY DEF TTypeOK
<1>. QED
  BY <1>1, RenderCarries DEF Kept

LEMMA ForwardCarries ==
    ASSUME TTypeOK, Calm, Carried, NEW w \in wire, Forward(w)
    PROVE  Carried'
<1>1. w.at = "up" /\ w.sock = page[w.c.from].sock /\ Meets(w.sock)
  BY DEF Forward, Carried, WireFits
<1>2. w \in OnWire /\ w.c.from \in Device
  BY DEF TTypeOK, OnWire, Candidate
<1>3. Others(w) = room \ {w.sock} /\ Others(w) # {}
  BY <1>1 DEF Others, Calm, OneSocketEach, Meets, Two
<1>. DEFINE Sent(j) == [w EXCEPT !.at = "down", !.sock = j]
<1>4. ASSUME NEW j PROVE Sent(j).c = w.c /\ Sent(j).at = "down" /\ Sent(j).sock = j
  BY <1>2 DEF OnWire
<1>. HIDE DEF Sent
<1>5. wire' = (wire \ {w}) \cup {Sent(j) : j \in Others(w)} /\ UNCHANGED <<vars, made, stored, added>>
  BY DEF Forward, Sent
<1>6. ASSUME NEW j \in Others(w) PROVE WireFits(Sent(j))
  <2>1. j \in opened /\ j # w.sock
    BY <1>3 DEF Calm, OneSocketEach
  <2>2. page[DeviceOf[j]].sock = j
    BY <2>1 DEF Calm, OneSocketEach
  <2>. QED
    BY <1>1, <1>4, <2>1, <2>2 DEF WireFits
<1>7. \A u \in wire' : WireFits(u)'
  BY <1>5, <1>6 DEF Carried, WireFits, vars, gatewayVars, Meets, Two
<1>8. ASSUME NEW c \in made' PROVE Safe(c)'
  <2>1. Safe(c) /\ c \in made
    BY <1>5 DEF Carried
  <2>2. CASE w.c = c
    BY <1>3, <1>4, <1>5, <2>2 DEF Safe
  <2>3. CASE w.c # c
    BY <1>5, <2>1, <2>3 DEF Safe
  <2>. QED
    BY <2>2, <2>3
<1>. QED
  BY <1>7, <1>8 DEF Carried

LEMMA ArriveCarries ==
    ASSUME TTypeOK, Calm, Carried, NEW d \in Device, NEW w \in wire, Arrive(d, w), UNCHANGED vars
    PROVE  Carried'
<1>1. w.at = "down" /\ w.sock = page[d].sock /\ WireFits(w) /\ w.c \in Candidate
  BY DEF Arrive, Carried, TTypeOK, OnWire
<1>2. d # w.c.from
  <2>1. w.sock \in opened /\ w.sock # None
    BY <1>1, HandshakeAssumption DEF WireFits, TTypeOK, TypeOK
  <2>. QED
    BY <1>1, <2>1 DEF WireFits, Calm, OneSocketEach
<1>3. wire' = wire \ {w} /\ made' = made
  BY DEF Arrive
<1>4. /\ \A e \in Device : stored[e] \cup added[e] \subseteq stored'[e] \cup added'[e]
      /\ w.c \in stored'[d] \cup added'[d]
  <2>1. stored[d] \cup {w.c} \in SUBSET Candidate
    BY <1>1 DEF TTypeOK
  <2>2. Render(d, stored[d] \cup {w.c})
    BY DEF Arrive
  <2>. QED
    BY <2>1, <2>2, RenderCarries
<1>5. \A u \in wire' : WireFits(u)'
  BY <1>3 DEF Carried, WireFits, vars, gatewayVars, Meets, Two
<1>6. ASSUME NEW c \in made' PROVE Safe(c)'
  <2>1. Safe(c)
    BY <1>3 DEF Carried
  <2>2. CASE w.c = c
    BY <1>2, <1>4, <2>2 DEF Safe
  <2>3. CASE w.c # c
    BY <1>3, <1>4, <2>1, <2>3 DEF Safe
  <2>. QED
    BY <2>2, <2>3
<1>. QED
  BY <1>5, <1>6 DEF Carried

LEMMA GatherCarries ==
    ASSUME TInv, Calm, Carried, NEW d \in Device, Gather(d)
    PROVE  Carried'
<1>. DEFINE c == [from |-> d, num |-> page[d].num,
                  i |-> Cardinality({u \in made : u.from = d /\ u.num = page[d].num}) + 1]
            w == Emitted(c, page[d].sock)
<1>1. /\ made' = made \cup {c} /\ wire' = wire \cup {w}
      /\ UNCHANGED <<vars, stored, added>> /\ page[d].pc # "none"
  BY DEF Gather
<1>2. Meets(page[d].sock)
  BY <1>1 DEF Calm, PagesFit, Began
<1>3. page[d].sock # None
  BY <1>2, HandshakeAssumption DEF Meets, TInv, TTypeOK, TypeOK, GatewayTypeOK
<1>4. c.from = d
  OBVIOUS
<1>. HIDE DEF c
<1>5. w.c = c /\ w.at = "up" /\ w.sock = page[d].sock
  BY <1>3 DEF Emitted
<1>. HIDE DEF w
<1>6. WireFits(w)
  BY <1>2, <1>4, <1>5 DEF WireFits
<1>7. \A u \in wire' : WireFits(u)'
  BY <1>1, <1>6 DEF Carried, WireFits, vars, gatewayVars, Meets, Two
<1>8. ASSUME NEW b \in made' PROVE Safe(b)'
  BY <1>1, <1>5 DEF Carried, Safe
<1>. QED
  BY <1>7, <1>8 DEF Carried

(* A step that leaves the wire alone, and at most renders.                          *)
LEMMA QuietCarries ==
    ASSUME TTypeOK, Calm, Calm', room \subseteq room', opened \subseteq opened', Carried,
           UNCHANGED <<wire, made>>,
           \A e \in Device : stored[e] \cup added[e] \subseteq stored'[e] \cup added'[e]
    PROVE  Carried'
<1>1. \A u \in wire' : WireFits(u)'
  BY FitsStill DEF Carried
<1>2. \A c \in made' : Safe(c)'
  BY DEF Carried, Safe
<1>. QED
  BY <1>1, <1>2 DEF Carried

LEMMA CarriedKept ==
    ASSUME TInv, AllSettled, UntilFault, CarriedUntilFault, [TNext]_tvars
    PROVE  CarriedUntilFault'
<1>. SUFFICES ASSUME faults' = 0 PROVE Carried'
  BY DEF CarriedUntilFault
<1>0. TTypeOK /\ TypeOK /\ [Next]_vars
  BY StepMaps DEF TInv, TTypeOK
<1>1. Calm /\ Calm' /\ room \subseteq room' /\ opened \subseteq opened'
  BY <1>0, CalmGoesOn
<1>2. faults = 0
  BY <1>0, FaultsOnlyGrow
<1>3. Carried
  BY <1>2 DEF CarriedUntilFault
<1>4. CASE UNCHANGED tvars
  BY <1>0, <1>1, <1>3, <1>4, QuietCarries DEF tvars, candidateVars
<1>5. ASSUME NEW k \in Socket, TGateway(k) PROVE Carried'
  <2>1. PICK lost \in SUBSET {w \in wire : w.at = "up" /\ w.sock = k /\ k \notin linked'} :
           wire' = wire \ lost
    BY <1>5 DEF TGateway
  <2>2. \A w \in wire : w.at = "up" => w.sock \in linked'
    BY <1>1, <1>3 DEF Carried, WireFits, Meets, Calm, OneSocketEach
  <2>3. wire' = wire
    BY <2>1, <2>2
  <2>. QED
    BY <1>0, <1>1, <1>3, <1>5, <2>3, QuietCarries DEF TGateway
<1>6. ASSUME NEW d \in Device, NEW w \in wire, Arrive(d, w) PROVE Carried'
  <2>1. Effects(d, page[d]) = page[d]
    BY <1>0, EffectsOfSettled DEF AllSettled, TypeOK
  <2>2. UNCHANGED vars
    BY <1>0, <1>6, <2>1 DEF Arrive, vars, TypeOK
  <2>. QED
    BY <1>0, <1>1, <1>3, <1>6, <2>2, ArriveCarries
<1>7. ASSUME NEW d \in Device, Applied(d) PROVE Carried'
  BY <1>0, <1>1, <1>3, <1>7, QuietCarries DEF Applied
<1>8. ASSUME NEW d \in Device, Rerender(d) \/ THandle(d) \/ TOfferReady(d) \/ TAnswerReady(d)
      PROVE  Carried'
  <2>1. Kept(d) /\ UNCHANGED <<wire, made>>
    BY <1>8 DEF Rerender, THandle, TOfferReady, TAnswerReady
  <2>. QED
    BY <1>0, <1>1, <1>3, <2>1, KeptCarries, QuietCarries
<1>9. ASSUME NEW d \in Device, NEW k \in Socket, TConnect(d, k) PROVE Carried'
  <2>1. \A w \in wire : w.at # "held"
    BY <1>3 DEF Carried, WireFits
  <2>2. wire' = {IF w.at = "held" /\ w.c.from = d
                 THEN [w EXCEPT !.at = "up", !.sock = k] ELSE w : w \in wire}
    BY <1>9 DEF TConnect
  <2>3. wire' = wire
    BY <2>1, <2>2
  <2>4. Kept(d) /\ made' = made
    BY <1>9 DEF TConnect
  <2>. QED
    BY <1>0, <1>1, <1>3, <2>3, <2>4, KeptCarries, QuietCarries
<1>10. ~TDisturbance
  BY <1>0, <1>2, NoDisturbance DEF TDisturbance, Disturbance, TFail, TPcFails, TDrop, TQuit
<1>. QED
  BY <1>0, <1>1, <1>3, <1>4, <1>5, <1>6, <1>7, <1>8, <1>9, <1>10, ForwardCarries, GatherCarries
     DEF TNext, TProgress

(* While nothing goes wrong no candidate is lost, for any number of devices, sockets     *)
(* and candidates: a connection is made only by a page whose socket met the other one,   *)
(* so the gateway finds somebody to forward to (NoneLost).                          *)
THEOREM CandidatesCarried == TSpec => []NoneLost
<1>1. TInit => TInv /\ AllSettled /\ UntilFault /\ CarriedUntilFault
  BY TypesStart, SettledStart, CalmStart, FS_EmptySet
     DEF TInit, TInv, TTypeOK, UntilFault, CarriedUntilFault, Carried
<1>2. TInv /\ AllSettled /\ UntilFault /\ CarriedUntilFault /\ [TNext]_tvars
        => TInv' /\ AllSettled' /\ UntilFault' /\ CarriedUntilFault'
  <2>. SUFFICES ASSUME TInv, AllSettled, UntilFault, CarriedUntilFault, [TNext]_tvars
                PROVE  TInv' /\ AllSettled' /\ UntilFault' /\ CarriedUntilFault'
    OBVIOUS
  <2>1. TypeOK /\ [Next]_vars
    BY StepMaps DEF TInv, TTypeOK
  <2>2. TypeOK' /\ AllSettled' /\ UntilFault'
    BY <2>1, TypesKept, SettledKept, CalmKept
  <2>3. TInv'
    BY <2>2, CandidatesKept DEF TInv, TTypeOK, CandidatesOK
  <2>. QED
    BY <2>2, <2>3, CarriedKept
<1>3. CarriedUntilFault => NoneLost
  BY DEF CarriedUntilFault, Carried, NoneLost, Safe
<1>. QED
  BY <1>1, <1>2, <1>3, PTL DEF TSpec

-------------------------------------------------------------------------------
(* A receiver that says it is connected has a remote description, and has given its  *)
(* connection every candidate that came so far.                                  *)
TakenWhenConnected ==
    \A d \in Device \ {Sender} :
        page[d].pc = "stable" => d \in described /\ stored[d] = {}

(* No event and no render makes the receiver's connection stable: the answer does.    *)
LEMMA EffectsNotStable ==
    ASSUME NEW d \in Device, NEW p \in Page, Effects(d, p).pc = "stable"
    PROVE  p.pc = "stable"
BY DEF Effects, NewPc, WantsPc, Page

LEMMA TakenByRender ==
    ASSUME TTypeOK, TakenWhenConnected, NEW d \in Device, NEW kept, Render(d, kept),
           \A e \in Device \ {d} : page'[e].pc = page[e].pc,
           described \ {d} \subseteq described',
           d # Sender /\ page'[d].pc = "stable" => d \in described'
    PROVE  TakenWhenConnected'
<1>. SUFFICES ASSUME NEW e \in Device \ {Sender}, page'[e].pc = "stable"
              PROVE  e \in described' /\ stored'[e] = {}
  BY DEF TakenWhenConnected
<1>1. stored \in [Device -> SUBSET Candidate]
  BY DEF TTypeOK
<1>2. CASE e = d
  BY <1>1, <1>2 DEF Render
<1>3. CASE e # d
  <2>1. e \in described /\ stored[e] = {}
    BY <1>3 DEF TakenWhenConnected
  <2>. QED
    BY <1>1, <1>3, <2>1 DEF Render
<1>. QED
  BY <1>2, <1>3

LEMMA TakenStays ==
    ASSUME TakenWhenConnected, UNCHANGED stored, described \subseteq described',
           \A d \in Device \ {Sender} : page'[d].pc = "stable" => page[d].pc = "stable"
    PROVE  TakenWhenConnected'
BY DEF TakenWhenConnected

LEMMA TakenKept ==
    ASSUME TTypeOK, TakenWhenConnected, [TNext]_tvars
    PROVE  TakenWhenConnected'
<1>0. TypeOK /\ \A d \in Device : page[d] \in Page
  BY DEF TTypeOK, TypeOK
<1>1. CASE UNCHANGED tvars
  BY <1>1 DEF tvars, vars, candidateVars, TakenWhenConnected
<1>2. ASSUME UNCHANGED <<page, described, stored>> PROVE TakenWhenConnected'
  BY <1>2 DEF TakenWhenConnected
<1>3. ASSUME NEW k \in Socket, TGateway(k) \/ \E h \in Handler : TFail(k, h)
      PROVE  TakenWhenConnected'
  BY <1>2, <1>3 DEF TGateway, TFail, candidateVars
<1>4. ASSUME (\E w \in wire : Forward(w)) \/ (\E d \in Device : Gather(d))
      PROVE  TakenWhenConnected'
  BY <1>2, <1>4 DEF Forward, Gather, vars
<1>5. ASSUME NEW d \in Device, Applied(d) PROVE TakenWhenConnected'
  BY <1>5, TakenStays DEF Applied, vars
<1>6. ASSUME NEW d \in Device, NEW kept, Render(d, kept), UNCHANGED described,
             page' = [page EXCEPT ![d] = Effects(d, @)]
      PROVE  TakenWhenConnected'
  <2>1. page'[d] = Effects(d, page[d]) /\ \A e \in Device \ {d} : page'[e] = page[e]
    BY <1>0, <1>6 DEF TypeOK
  <2>2. d # Sender /\ page'[d].pc = "stable" => d \in described'
    BY <1>0, <1>6, <2>1, EffectsNotStable DEF TakenWhenConnected
  <2>. QED
    BY <1>6, <2>1, <2>2, TakenByRender
<1>7. ASSUME NEW d \in Device, NEW w \in wire, Arrive(d, w) PROVE TakenWhenConnected'
  BY <1>6, <1>7 DEF Arrive
<1>8. ASSUME NEW d \in Device, Rerender(d) PROVE TakenWhenConnected'
  BY <1>6, <1>8 DEF Rerender, Kept
<1>9. ASSUME NEW d \in Device, THandle(d) PROVE TakenWhenConnected'
  <2>1. /\ Render(d, stored[d]) /\ Handle(d)
        /\ described' = IF page'[d].pc = "none" THEN described \ {d} ELSE described
    BY <1>9 DEF THandle, Kept
  <2>2. \A e \in Device \ {d} : page'[e] = page[e]
    BY <1>0, <2>1 DEF Handle, TypeOK
  <2>3. d # Sender /\ page'[d].pc = "stable" => page[d].pc = "stable"
    BY <1>0, <2>1, HandledPc
  <2>4. d # Sender /\ page'[d].pc = "stable" => d \in described'
    BY <2>1, <2>3 DEF TakenWhenConnected
  <2>. QED
    BY <2>1, <2>2, <2>4, TakenByRender
<1>10. ASSUME NEW d \in Device, TOfferReady(d) PROVE TakenWhenConnected'
  <2>. DEFINE p == [page[d] EXCEPT !.pc = "offered", !.state = "NEGOTIATING"]
  <2>1. Render(d, stored[d]) /\ UNCHANGED described /\ Signal(d, "offer", p)
    BY <1>10 DEF TOfferReady, OfferReady, Kept
  <2>2. p \in Page /\ p.pc = "offered"
    BY <1>0 DEF Page, WebRtcState
  <2>3. page'[d].pc = "offered" /\ \A e \in Device \ {d} : page'[e] = page[e]
    BY <1>0, <2>1, <2>2, SignalPc
  <2>. QED
    BY <2>1, <2>3, TakenByRender
<1>11. ASSUME NEW d \in Device, TAnswerReady(d) PROVE TakenWhenConnected'
  <2>. DEFINE p == [page[d] EXCEPT !.pc = "stable", !.state = "CONNECTED"]
  <2>1. /\ Render(d, stored[d]) /\ UNCHANGED described /\ d \in described
        /\ Signal(d, "answer", p)
    BY <1>11 DEF TAnswerReady, AnswerReady, Kept
  <2>2. p \in Page
    BY <1>0 DEF Page, WebRtcState
  <2>3. \A e \in Device \ {d} : page'[e] = page[e]
    BY <1>0, <2>1, <2>2, SignalPc
  <2>. QED
    BY <2>1, <2>3, TakenByRender
<1>12. ASSUME NEW d \in Device, (\E k \in Socket : TConnect(d, k)) \/ TDrop(d)
       PROVE  TakenWhenConnected'
  <2>1. Render(d, stored[d]) /\ UNCHANGED described
    BY <1>12 DEF TConnect, TDrop, Kept
  <2>2. \A e \in Device : page'[e].pc = page[e].pc
    <3>1. page \in [Device -> Page] /\ page[d] \in Page
      BY <1>0 DEF TypeOK
    <3>2. ASSUME NEW k \in Socket, Connect(d, k)
          PROVE  \A e \in Device : page'[e].pc = page[e].pc
      <4>1. page' = [page EXCEPT ![d] = [[page[d] EXCEPT !.sock = k] EXCEPT !.held = NoneHeld]]
        BY <3>2 DEF Connect
      <4>. QED
        BY <3>1, <4>1 DEF Page
    <3>3. CASE Drop(d)
      <4>1. page' = [page EXCEPT ![d] = [page[d] EXCEPT !.sock = None]]
        BY <3>3 DEF Drop
      <4>. QED
        BY <3>1, <4>1 DEF Page
    <3>. QED
      BY <1>12, <3>2, <3>3 DEF TConnect, TDrop
  <2>3. d # Sender /\ page'[d].pc = "stable" => d \in described'
    BY <2>1, <2>2 DEF TakenWhenConnected
  <2>. QED
    BY <2>1, <2>2, <2>3, TakenByRender
<1>13. ASSUME NEW d \in Device, TPcFails(d) PROVE TakenWhenConnected'
  <2>. DEFINE p == [page[d] EXCEPT !.pc = "none"]
  <2>1. /\ Render(d, stored[d]) /\ described' = described \ {d}
        /\ page' = [page EXCEPT ![d] = Effects(d, p)]
    BY <1>13 DEF TPcFails, PcFails, Without, Kept
  <2>2. p \in Page /\ p.pc = "none"
    BY <1>0 DEF Page
  <2>. HIDE DEF p
  <2>3. page'[d] = Effects(d, p) /\ \A e \in Device \ {d} : page'[e] = page[e]
    BY <1>0, <2>1 DEF TypeOK
  <2>4. page'[d].pc # "stable"
    BY <2>2, <2>3, EffectsNotStable
  <2>. QED
    BY <2>1, <2>3, <2>4, TakenByRender
<1>14. ASSUME NEW d \in Device, TQuit(d) PROVE TakenWhenConnected'
  <2>1. /\ page'[d].pc = "none" /\ \A e \in Device \ {d} : page'[e] = page[e]
        /\ described' = described \ {d}
        /\ \A e \in Device \ {d} : stored'[e] = stored[e]
    BY <1>0, <1>14 DEF TQuit, Quit, Without, FreshPage, TypeOK, TTypeOK
  <2>. QED
    BY <2>1 DEF TakenWhenConnected
<1>. QED
  BY <1>1, <1>3, <1>4, <1>5, <1>7, <1>8, <1>9, <1>10, <1>11, <1>12, <1>13, <1>14
     DEF TNext, TProgress, TDisturbance

(* Whatever overtakes what, and whatever fails: a receiver whose connection is stable  *)
(* keeps no candidate back (use-webrtc-session, 130-140; use-signaling, 133).        *)
THEOREM ReceiverTakesAll == TSpec => []TakenWhenConnected
<1>1. TInit => TakenWhenConnected
  BY DEF TInit, Init, FreshPage, TakenWhenConnected
<1>. QED
  BY <1>1, TakenKept, CandidatesTyped, PTL DEF TSpec
===============================================================================
