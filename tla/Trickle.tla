------------------------------- MODULE Trickle -------------------------------
(***************************************************************************)
(* The ICE candidates of the two connections, beside the handshake.  The     *)
(* gateway forwards a candidate at once, while offer and answer wait for      *)
(* Redis, so candidates overtake the description they belong to.  The page    *)
(* keeps them in its store until its connection has a remote description, and  *)
(* looks at them only when it renders.                                       *)
(*                                                                          *)
(* Every step of Handshake is a step here, joined with what it does to the     *)
(* candidates; setting a remote description, which Handshake has in one step    *)
(* with what follows it, ends in a step of its own.  Between candidates and    *)
(* other events no order is kept.                                            *)
(***************************************************************************)
EXTENDS Handshake

CONSTANT MaxCandidates       \* bound: candidates of one connection

ASSUME TrickleAssumption == MaxCandidates \in Nat

VARIABLES
    described,   \* devices whose connection has a remote description
    made,        \* candidates made so far
    wire,        \* candidates on their way
    stored,      \* stored[d]: iceCandidates of the store of d's page
    added        \* added[d]: candidates d's connections were given

candidateVars == <<described, made, wire, stored, added>>
tvars == <<vars, candidateVars>>

Candidate == [from: Device, num: Nat, i: 1..MaxCandidates]

(* held: by the socket client, until it is connected again.  up: sent on sock.  *)
(* down: emitted to sock.                                                      *)
OnWire == [c: Candidate, at: {"held"}, sock: {None}]
              \cup [c: Candidate, at: {"up", "down"}, sock: Socket]

TTypeOK ==
    /\ TypeOK
    /\ described \subseteq Device
    /\ made \subseteq Candidate
    /\ wire \subseteq OnWire
    /\ stored \in [Device -> SUBSET Candidate]
    /\ added \in [Device -> SUBSET Candidate]

TInit ==
    /\ Init
    /\ described = {} /\ made = {} /\ wire = {}
    /\ stored = [d \in Device |-> {}]
    /\ added = [d \in Device |-> {}]

-------------------------------------------------------------------------------
(* The page of d rendered: if its connection is described, the candidates in     *)
(* the store are given to it and taken from the store.                          *)
RenderBlindly(d, kept) ==                \* mutant: cleared with nobody to give them to
    /\ stored' = [stored EXCEPT ![d] = {}]
    /\ added' = [added EXCEPT ![d] = IF d \in described' THEN @ \cup kept ELSE @]

Render(d, kept) ==
    IF d \in described'
    THEN /\ added' = [added EXCEPT ![d] = @ \cup kept]
         /\ stored' = [stored EXCEPT ![d] = {}]
    ELSE /\ stored' = [stored EXCEPT ![d] = kept]
         /\ UNCHANGED added

KeptUnseen(d) == UNCHANGED <<stored, added>>    \* mutant: runs only when a candidate came
Kept(d)    == Render(d, stored[d])
Without(d) == described' = described \ {d}

(* The socket client keeps what is emitted while it is not connected.              *)
Emitted(c, k) == [c |-> c, at |-> IF k = None THEN "held" ELSE "up", sock |-> k]

(* onicecandidate: gathering follows setLocalDescription, which at the receiver   *)
(* follows the offer.                                                          *)
Gather(d) ==
    LET mine == {c \in made : c.from = d /\ c.num = page[d].num}
        c == [from |-> d, num |-> page[d].num, i |-> Cardinality(mine) + 1]
    IN
    /\ page[d].pc # "none"
    /\ d = Sender \/ d \in described
    /\ Cardinality(mine) < MaxCandidates
    /\ made' = made \cup {c}
    /\ wire' = wire \cup {Emitted(c, page[d].sock)}
    /\ UNCHANGED <<vars, described, stored, added>>

(* handleIceCandidate: to the others in the room, as it is now.                  *)
Others(w) == (room \ {w.sock}) \cap live \cap linked

Forward(w) ==
    /\ w \in wire /\ w.at = "up" /\ w.sock \in linked
    /\ wire' = (wire \ {w}) \cup {[w EXCEPT !.at = "down", !.sock = j] : j \in Others(w)}
    /\ UNCHANGED <<vars, described, made, stored, added>>

(* ICE_CANDIDATE_RECEIVED: the store is set, the page renders, and the effects of  *)
(* Handshake run as well.                                                       *)
Arrive(d, w) ==
    /\ w \in wire /\ w.at = "down" /\ w.sock = page[d].sock
    /\ wire' = wire \ {w}
    /\ page' = [page EXCEPT ![d] = Effects(d, @)]
    /\ UNCHANGED <<gatewayVars, opened, described, made>>
    /\ Render(d, stored[d] \cup {w.c})

(* setRemoteDescription is done.  Nothing renders.                              *)
Applied(d) ==
    /\ page[d].pc = (IF d = Sender THEN "stable" ELSE "applying")
    /\ d \notin described
    /\ described' = described \cup {d}
    /\ UNCHANGED <<vars, made, wire, stored, added>>

(* A render with another cause: the connection's state, the polled session.       *)
Rerender(d) ==
    /\ d \in described /\ stored[d] # {}
    /\ page' = [page EXCEPT ![d] = Effects(d, @)]
    /\ UNCHANGED <<gatewayVars, opened, described, made, wire>>
    /\ Kept(d)

-------------------------------------------------------------------------------
(* The steps of Handshake                                                       *)

THandle(d) ==
    /\ Handle(d)
    /\ described' = IF page'[d].pc = "none" THEN described \ {d} ELSE described
    /\ Kept(d)
    /\ UNCHANGED <<made, wire>>

TOfferReady(d) == OfferReady(d) /\ UNCHANGED <<described, made, wire>> /\ Kept(d)

(* sendAnswer sets the state in the store, and so renders.                       *)
TAnswerReady(d) ==
    d \in described /\ AnswerReady(d) /\ UNCHANGED <<described, made, wire>> /\ Kept(d)

TConnect(d, k) ==
    /\ Connect(d, k)
    /\ wire' = {IF w.at = "held" /\ w.c.from = d
                THEN [w EXCEPT !.at = "up", !.sock = k] ELSE w : w \in wire}
    /\ UNCHANGED <<described, made>>
    /\ Kept(d)

(* What was emitted to a socket that is gone is lost; what the page had sent may    *)
(* be, once the server notices.                                                 *)
Unread(d) == {w \in wire : w.at = "down" /\ w.sock = page[d].sock}

TDrop(d) ==
    /\ Drop(d)
    /\ wire' = wire \ Unread(d)
    /\ UNCHANGED <<described, made>>
    /\ Kept(d)

TQuit(d) ==
    /\ Quit(d)
    /\ wire' = wire \ (Unread(d) \cup {w \in wire : w.at = "held" /\ w.c.from = d})
    /\ stored' = [stored EXCEPT ![d] = {}]
    /\ Without(d)
    /\ UNCHANGED <<made, added>>

(* cleanup leaves the candidates in the store.                                   *)
TPcFails(d) == PcFails(d) /\ Without(d) /\ UNCHANGED <<made, wire>> /\ Kept(d)

TGateway(k) ==
    /\ GatewayStep(k)
    /\ \E lost \in SUBSET {w \in wire : w.at = "up" /\ w.sock = k /\ k \notin linked'} :
          wire' = wire \ lost
    /\ UNCHANGED <<page, opened, described, made, stored, added>>

TFail(k, h) == Fail(k, h) /\ UNCHANGED <<page, opened, candidateVars>>

-------------------------------------------------------------------------------
TProgress ==
    \/ \E k \in Socket : TGateway(k)
    \/ \E w \in wire : Forward(w)
    \/ \E d \in Device :
          \/ THandle(d) \/ TOfferReady(d) \/ TAnswerReady(d) \/ Applied(d)
          \/ \E k \in Socket : TConnect(d, k)
          \/ \E w \in wire : Arrive(d, w)

TDisturbance ==
    \/ \E k \in Socket, h \in Handler : TFail(k, h)
    \/ \E d \in Device : TPcFails(d) \/ TDrop(d) \/ TQuit(d)

TNext == TProgress \/ TDisturbance \/ \E d \in Device : Gather(d) \/ Rerender(d)

TSpec == TInit /\ [][TNext]_tvars

(* As in Handshake.  Nothing makes a browser find a candidate, or a page render    *)
(* for a reason that is not in the handshake.                                   *)
TFairSpec == TSpec /\ WF_tvars(TProgress)

-------------------------------------------------------------------------------
(* ImplementsHandshake: candidates only add to the handshake.  In particular the   *)
(* renders they cause, which run the effects of useWebRtcSession again, never make,  *)
(* answer or replace a connection (use-webrtc-session, 59 and 90).               *)
ImplementsHandshake == Spec

(* NoneLost: while nothing goes wrong, a candidate is on its way, or in the other   *)
(* page's store, or was given to its connection, however early it overtook the     *)
(* offer or the answer (gateway, 186; use-webrtc-session, 130-140).              *)
NoneLost ==
    faults = 0 => \A c \in made :
        \/ \E w \in wire : w.c = c
        \/ \E d \in Device \ {c.from} : c \in stored[d] \cup added[d]

(* ReceiverProcesses: candidates that came to the receiver before the offer, or      *)
(* while it was applied, do not stay in the store, although no candidate may come    *)
(* any more: what the answer sets renders the page (use-signaling, 133), and the     *)
(* effect depends on the signaling object, which is new then (use-webrtc-session,    *)
(* 140).  Of the sender the code does not keep it: PEER_CONNECTED renders before     *)
(* setRemoteDescription of the answer is done, and nothing need render after.        *)
ReceiverProcesses ==
    \A d \in Device \ {Sender} : stored[d] # {} ~> stored[d] = {} \/ faults > 0
===============================================================================
