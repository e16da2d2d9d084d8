-------------------------- MODULE SessionPagesProofs --------------------------
(***************************************************************************)
(* What a page holds of a session is true of the session, and does not go back.  *)
(* The argument: the two ends of a session never change and its status leaves     *)
(* WAITING once; so an answer may be late but is never wrong, for the tab it is     *)
(* meant for.  That an old answer does not follow a newer one needs more: a query    *)
(* has one request under way, and whoever joins a session never saw it waiting.     *)
(***************************************************************************)
EXTENDS SessionPages, TLAPS

Server ==
    /\ \A s \in open : owner[s] # None /\ guest[s] = None
    /\ \A s \in Session : guest[s] # None => owner[s] # None /\ guest[s] # owner[s]

(* What an answered call knows.                                                 *)
CallTold(x) ==
    /\ x.step # "free" => x.tab \in Tab
    /\ x.step = "sent" /\ x.kind = "join" => x.session \in Session
    /\ x.step = "ok" =>
          /\ x.session \in Session
          /\ x.kind = "create" => owner[x.session] = DeviceOf[x.tab]
          /\ x.kind = "join" => guest[x.session] = DeviceOf[x.tab]

(* What the store of tab t knows.                                                *)
HeldTold(t, x) ==
    /\ x.held # "EXPIRED"
    /\ x.session # None /\ x.held = "WAITING" => owner[x.session] = DeviceOf[t]
    /\ x.session # None /\ x.held = "JOINED" => guest[x.session] = DeviceOf[t]

(* What a poll of tab t, and the cache it fills, know.                             *)
Has(t, s) == DeviceOf[t] \in {owner[s], guest[s]}

Told(t, s, answer) ==
    /\ answer # None => Has(t, s) /\ answer \in {"WAITING", StatusOf(s)}
    /\ answer = "WAITING" => owner[s] = DeviceOf[t]

AllTold ==
    /\ \A c \in Call : CallTold(call[c])
    /\ \A t \in Tab : HeldTold(t, tab[t])
    /\ \A p \in polls : Has(p.tab, p.session) /\ Told(p.tab, p.session, p.answer)
    /\ \A t \in Tab, s \in Session : Told(t, s, cache[t][s])

InOrder ==
    /\ \A p, q \in polls : p.tab = q.tab /\ p.session = q.session => p = q
    /\ \A p \in polls :
          p.answer = "WAITING" => cache[p.tab][p.session] \in {None, "WAITING"}

IInv == TypeOK /\ Server /\ AllTold /\ InOrder

-------------------------------------------------------------------------------
(* Types                                                                      *)

LEMMA SetStatusTypes ==
    ASSUME NEW x \in TabState, NEW ui \in {"idle", "creating", "joining", "ready", "error"}
    PROVE  /\ SetStatus(x, ui) \in TabState
           /\ SetStatus(x, ui).session = x.session /\ SetStatus(x, ui).held = x.held
BY DEF SetStatus, TabState

LEMMA SetErrorTypes ==
    ASSUME NEW x \in TabState, NEW e \in BOOLEAN
    PROVE  /\ SetError(x, e) \in TabState
           /\ SetError(x, e).session = x.session /\ SetError(x, e).held = x.held
<1>1. SetError(x, e) = [[x EXCEPT !.error = e] EXCEPT !.ui = IF e THEN "error" ELSE "idle"]
  BY DEF SetError
<1>2. [x EXCEPT !.error = e] \in TabState
  BY DEF TabState
<1>. QED
  BY <1>1, <1>2 DEF TabState

LEMMA SetSessionTypes ==
    ASSUME NEW x \in TabState, NEW s \in Session \cup {None}, NEW st \in Status
    PROVE  /\ SetSession(x, s, st) \in TabState
           /\ SetSession(x, s, st).session = s /\ SetSession(x, s, st).held = st
BY DEF SetSession, TabState, Status

LEMMA FreshTypes ==
    ASSUME NEW at \in {"home", "send", "receive"}
    PROVE  /\ FreshStore(at) \in TabState
           /\ FreshStore(at).session = None /\ FreshStore(at).held = "WAITING"
BY DEF FreshStore, TabState, Status

(* The three operations on calls that have an answer.                              *)
LEMMA ServedTypes ==
    ASSUME NEW c \in Call, call \in [Call -> CallState], NEW s \in Session,
           NEW step \in {"ok", "error"}, Served(c, step, s)
    PROVE  /\ call' \in [Call -> CallState]
           /\ call'[c].tab = call[c].tab /\ call'[c].kind = call[c].kind
           /\ call'[c].session = s /\ call'[c].step = step
           /\ \A x \in Call : x # c => call'[x] = call[x]
<1>. DEFINE u == [call[c] EXCEPT !.step = step]
            v == [u EXCEPT !.session = s]
<1>1. call[c] \in CallState
  OBVIOUS
<1>2. u \in CallState
  BY <1>1 DEF CallState
<1>3. v \in CallState
  BY <1>2 DEF CallState
<1>4. /\ v.tab = call[c].tab /\ v.kind = call[c].kind
      /\ v.session = s /\ v.step = step
  BY <1>1 DEF CallState
<1>5. call' = [call EXCEPT ![c] = v]
  BY DEF Served
<1>. HIDE DEF u, v
<1>. QED
  BY <1>3, <1>4, <1>5

-------------------------------------------------------------------------------
(* The service                                                                *)

(* Whatever the pages do, the service keeps what it promises.                       *)
LEMMA ServiceSteps ==
    ASSUME IInv, [Next]_vars
    PROVE  [PNext]_pvars
<1>. USE DEF pvars, serverKept
<1>1. CASE UNCHANGED vars
  BY <1>1 DEF vars
<1>2. ASSUME NEW c \in Call, ServeCreate(c) PROVE PNext
  <2>1. call[c].tab \in Tab
    BY <1>2 DEF ServeCreate, IInv, AllTold, CallTold
  <2>2. DeviceOf[call[c].tab] \in Device
    BY <2>1, SessionPagesAssumption
  <2>. QED
    BY <1>2, <2>2 DEF ServeCreate, PNext
<1>3. ASSUME NEW c \in Call, ServeJoin(c) PROVE PNext
  <2>1. call[c].tab \in Tab /\ call[c].session \in Session
    BY <1>3 DEF ServeJoin, IInv, AllTold, CallTold
  <2>2. DeviceOf[call[c].tab] \in Device
    BY <2>1, SessionPagesAssumption
  <2>. QED
    BY <1>3, <2>1, <2>2 DEF ServeJoin, PNext
<1>4. ASSUME NEW s \in Session, Expire(s) PROVE PNext
  BY <1>4 DEF Expire, PNext, Withdraw
<1>5. ASSUME NEW t \in Tab, NEW c \in Call, NEW kind, NEW s, Request(t, c, kind, s)
      PROVE  UNCHANGED pvars
  BY <1>5 DEF Request
<1>6. ASSUME NEW c \in Call, RefuseJoin(c) \/ LoseCall(c) \/ Answered(c)
      PROVE  UNCHANGED pvars
  BY <1>6 DEF RefuseJoin, LoseCall, Answered
<1>7. ASSUME NEW t, NEW s, StartPoll(t, s) \/ Forget(t, s) PROVE UNCHANGED pvars
  BY <1>7 DEF StartPoll, Forget
<1>8. ASSUME NEW p \in polls, ServePoll(p) \/ PollAnswered(p) \/ PollFailed(p)
      PROVE  UNCHANGED pvars
  BY <1>8 DEF ServePoll, PollAnswered, PollFailed
<1>9. ASSUME NEW t, NEW at, GoTo(t, at) \/ Reset(t, at) PROVE UNCHANGED pvars
  BY <1>9 DEF GoTo, Reset
<1>. QED
  BY <1>1, <1>2, <1>3, <1>4, <1>5, <1>6, <1>7, <1>8, <1>9 DEF Next

ServerTypes ==
    /\ open \subseteq Session
    /\ owner \in [Session -> Device \cup {None}]
    /\ guest \in [Session -> Device \cup {None}]

LEMMA ServerKept ==
    ASSUME ServerTypes, Server, [PNext]_pvars
    PROVE  ServerTypes' /\ Server'
<1>. USE SessionPagesAssumption DEF ServerTypes, Server
<1>1. CASE UNCHANGED pvars
  BY <1>1 DEF pvars
<1>2. ASSUME NEW s \in Session, NEW d \in Device, Offer(s, d)
      PROVE  ServerTypes' /\ Server'
  BY <1>2 DEF Offer
<1>3. ASSUME NEW s \in Session, NEW d \in Device, Take(s, d)
      PROVE  ServerTypes' /\ Server'
  BY <1>3 DEF Take
<1>4. CASE Withdraw
  BY <1>4 DEF Withdraw
<1>. QED
  BY <1>1, <1>2, <1>3, <1>4 DEF PNext

(* An end that is known stays, and so does a status that is not WAITING.             *)
LEMMA Lasts ==
    ASSUME ServerTypes, Server, [PNext]_pvars, NEW s \in Session
    PROVE  /\ owner[s] # None => owner'[s] = owner[s]
           /\ guest[s] # None => guest'[s] = guest[s]
           /\ owner[s] # None /\ StatusOf(s) # "WAITING" => StatusOf(s)' = StatusOf(s)
<1>. USE SessionPagesAssumption DEF ServerTypes, Server, StatusOf
<1>1. CASE UNCHANGED pvars
  BY <1>1 DEF pvars
<1>2. ASSUME NEW x \in Session, NEW d \in Device, Offer(x, d)
      PROVE  /\ owner[s] # None => owner'[s] = owner[s] /\ (s \in open' <=> s \in open)
             /\ guest' = guest
  BY <1>2 DEF Offer
<1>3. ASSUME NEW x \in Session, NEW d \in Device, Take(x, d)
      PROVE  /\ owner' = owner
             /\ guest[s] # None => guest'[s] = guest[s]
             /\ s \notin open => s \notin open' /\ guest'[s] = guest[s]
  BY <1>3 DEF Take
<1>4. CASE Withdraw
  BY <1>4 DEF Withdraw
<1>5. CASE \E x \in Session, d \in Device : Offer(x, d)
  BY <1>2, <1>5
<1>6. CASE \E x \in Session, d \in Device : Take(x, d)
  BY <1>3, <1>6
<1>. QED
  BY <1>1, <1>4, <1>5, <1>6 DEF PNext

(* So what was true when it was told is true.                                      *)
LEMMA ToldLasts ==
    ASSUME ServerTypes, Server, [PNext]_pvars, NEW t \in Tab, NEW s \in Session
    PROVE  /\ Has(t, s) => Has(t, s)'
           /\ Has(t, s) => owner[s] # None /\ owner'[s] = owner[s]
           /\ \A a \in Status \cup {None} : Told(t, s, a) => Told(t, s, a)'
           /\ owner[s] = DeviceOf[t] => owner'[s] = DeviceOf[t]
           /\ guest[s] = DeviceOf[t] => guest'[s] = DeviceOf[t]
<1>1. DeviceOf[t] # None
  BY SessionPagesAssumption
<1>2. Has(t, s) => owner[s] # None
  BY <1>1 DEF Has, Server
<1>3. Has(t, s) => Has(t, s)'
  BY <1>1, Lasts DEF Has
<1>4. ASSUME NEW a \in Status \cup {None}, Told(t, s, a) PROVE Told(t, s, a)'
  <2>1. a # None => Has(t, s)' /\ owner[s] # None
    BY <1>2, <1>3, <1>4 DEF Told
  <2>2. a # None /\ a # "WAITING" => a = StatusOf(s)'
    BY <2>1, <1>4, Lasts DEF Told
  <2>3. a = "WAITING" => owner'[s] = DeviceOf[t]
    BY <1>1, <1>4, Lasts DEF Told
  <2>. QED
    BY <2>1, <2>2, <2>3 DEF Told
<1>. QED
  BY <1>1, <1>2, <1>3, <1>4, Lasts

-------------------------------------------------------------------------------
(* The tabs                                                                   *)

LEMMA StartInv == Init => IInv
<1>. SUFFICES ASSUME Init PROVE IInv
  OBVIOUS
<1>. USE SessionPagesAssumption DEF Init, PInit
<1>1. \A t \in Tab : tab[t] \in TabState /\ tab[t].session = None /\ tab[t].held = "WAITING"
  BY FreshTypes
<1>2. \A c \in Call : call[c] \in CallState /\ call[c].step = "free"
  BY DEF CallState
<1>3. TypeOK
  BY <1>1, <1>2 DEF TypeOK
<1>4. Server /\ InOrder
  BY DEF Server, InOrder
<1>5. AllTold
  BY <1>1, <1>2 DEF AllTold, CallTold, HeldTold, Told
<1>. QED
  BY <1>3, <1>4, <1>5 DEF IInv

(* What a store holds stays true, whatever the others do.                            *)
LEMMA HeldLasts ==
    ASSUME ServerTypes, Server, [PNext]_pvars,
           NEW t \in Tab, NEW x \in TabState, HeldTold(t, x)
    PROVE  HeldTold(t, x)'
<1>1. x.session # None => x.session \in Session
  BY DEF TabState
<1>. QED
  BY <1>1, ToldLasts DEF HeldTold

(* What a tab may become.                                                        *)
LEMMA TabSteps ==
    ASSUME IInv, [Next]_vars, NEW t \in Tab
    PROVE  tab'[t] \in TabState /\ HeldTold(t, tab[t])'
<1>1. ServerTypes /\ Server /\ [PNext]_pvars
  BY ServiceSteps DEF IInv, TypeOK, ServerTypes
<1>2. tab \in [Tab -> TabState] /\ tab[t] \in TabState /\ HeldTold(t, tab[t])
  BY DEF IInv, TypeOK, AllTold
<1>3. ASSUME NEW x \in TabState, tab'[t] = x, HeldTold(t, x)
      PROVE  tab'[t] \in TabState /\ HeldTold(t, tab[t])'
  BY <1>1, <1>3, HeldLasts
<1>4. CASE tab'[t] = tab[t]
  BY <1>2, <1>3, <1>4
<1>5. ASSUME NEW c \in Call, NEW kind \in {"create", "join"}, NEW s, Request(t, c, kind, s)
      PROVE  tab'[t] \in TabState /\ HeldTold(t, tab[t])'
  <2>. DEFINE y == SetStatus(tab[t], Busy[kind])
              x == SetError(y, FALSE)
  <2>1. Busy[kind] \in {"creating", "joining"}
    BY DEF Busy
  <2>2. y \in TabState /\ y.session = tab[t].session /\ y.held = tab[t].held
    BY <1>2, <2>1, SetStatusTypes
  <2>3. tab'[t] = x
    BY <1>2, <1>5 DEF Request
  <2>. HIDE DEF y
  <2>4. x \in TabState /\ x.session = tab[t].session /\ x.held = tab[t].held
    BY <2>2, SetErrorTypes
  <2>. HIDE DEF x
  <2>5. HeldTold(t, x)
    BY <1>2, <2>4 DEF HeldTold
  <2>. QED
    BY <1>3, <2>3, <2>4, <2>5
<1>6. ASSUME NEW c \in Call, Answered(c), call[c].tab = t
      PROVE  tab'[t] \in TabState /\ HeldTold(t, tab[t])'
  <2>. DEFINE status == IF call[c].kind = "create" THEN "WAITING" ELSE "JOINED"
              y == SetSession(tab[t], call[c].session, status)
              x == SetStatus(y, "ready")
              z == SetError(tab[t], TRUE)
  <2>1. call[c] \in CallState /\ CallTold(call[c])
    BY DEF IInv, TypeOK, AllTold
  <2>2. status \in Status /\ call[c].session \in Session \cup {None}
    BY <2>1 DEF Status, CallState
  <2>3. y \in TabState /\ y.session = call[c].session /\ y.held = status
    BY <1>2, <2>2, SetSessionTypes
  <2>4. tab'[t] = IF Succeeds(c) THEN x ELSE z
    BY <1>2, <1>6 DEF Answered
  <2>. HIDE DEF y
  <2>5. x \in TabState /\ x.session = call[c].session /\ x.held = status
    BY <2>3, SetStatusTypes
  <2>6. z \in TabState /\ z.session = tab[t].session /\ z.held = tab[t].held
    BY <1>2, SetErrorTypes
  <2>. HIDE DEF x, z
  <2>7. Succeeds(c) => HeldTold(t, x)
    BY <1>6, <2>1, <2>5 DEF HeldTold, Succeeds, CallTold, CallState
  <2>8. HeldTold(t, z)
    BY <1>2, <2>6 DEF HeldTold
  <2>. QED
    BY <1>3, <2>4, <2>5, <2>6, <2>7, <2>8
<1>7. ASSUME NEW at \in {"home", "send", "receive"}, GoTo(t, at)
      PROVE  tab'[t] \in TabState /\ HeldTold(t, tab[t])'
  <2>. DEFINE x == [tab[t] EXCEPT !.at = at]
  <2>1. x \in TabState /\ x.session = tab[t].session /\ x.held = tab[t].held
    BY <1>2 DEF TabState
  <2>2. tab'[t] = x
    BY <1>2, <1>7 DEF GoTo
  <2>. HIDE DEF x
  <2>3. HeldTold(t, x)
    BY <1>2, <2>1 DEF HeldTold
  <2>. QED
    BY <1>3, <2>1, <2>2, <2>3
<1>8. ASSUME NEW at \in {"home", "send", "receive"}, Reset(t, at)
      PROVE  tab'[t] \in TabState /\ HeldTold(t, tab[t])'
  <2>1. tab'[t] = FreshStore(at)
    BY <1>2, <1>8 DEF Reset
  <2>2. HeldTold(t, FreshStore(at))
    BY FreshTypes DEF HeldTold
  <2>. QED
    BY <1>3, <2>1, <2>2, FreshTypes
<1>. DEFINE Good == tab'[t] \in TabState /\ HeldTold(t, tab[t])'
<1>. HIDE DEF Good
<1>9. ASSUME NEW u \in Tab, NEW c \in Call, NEW kind \in {"create", "join"}, NEW s,
             Request(u, c, kind, s)
      PROVE  Good
  <2>1. u # t => tab'[t] = tab[t]
    BY <1>2, <1>9 DEF Request
  <2>. QED
    BY <1>4, <1>5, <1>9, <2>1 DEF Good
<1>10. ASSUME NEW u \in Tab, NEW at \in {"home", "send", "receive"},
              GoTo(u, at) \/ Reset(u, at)
       PROVE  Good
  <2>1. u # t => tab'[t] = tab[t]
    BY <1>2, <1>10 DEF GoTo, Reset
  <2>. QED
    BY <1>4, <1>7, <1>8, <1>10, <2>1 DEF Good
<1>11. ASSUME NEW c \in Call, Answered(c) PROVE Good
  <2>1. call[c].tab # t => tab'[t] = tab[t]
    BY <1>2, <1>11 DEF Answered
  <2>. QED
    BY <1>4, <1>6, <1>11, <2>1 DEF Good
<1>12. ASSUME NEW c \in Call,
              ServeCreate(c) \/ ServeJoin(c) \/ RefuseJoin(c) \/ LoseCall(c)
       PROVE  Good
  BY <1>4, <1>12 DEF ServeCreate, ServeJoin, RefuseJoin, LoseCall, Good
<1>13. ASSUME NEW s, NEW u, StartPoll(u, s) \/ Forget(u, s) \/ Expire(s) PROVE Good
  BY <1>4, <1>13 DEF StartPoll, Forget, Expire, Good
<1>14. ASSUME NEW p \in polls, ServePoll(p) \/ PollAnswered(p) \/ PollFailed(p) PROVE Good
  BY <1>4, <1>14 DEF ServePoll, PollAnswered, PollFailed, Good
<1>15. CASE UNCHANGED vars
  BY <1>4, <1>15 DEF vars, Good
<1>16. ASSUME NEW u \in Tab, NEW c \in Call,
              Request(u, c, "create", None) \/ \E s \in Session : Request(u, c, "join", s)
       PROVE  Good
  BY <1>9, <1>16
<1>17. CASE \E p \in polls : ServePoll(p) \/ PollAnswered(p) \/ PollFailed(p)
  BY <1>14, <1>17 DEF Good
<1>18. CASE \E c \in Call : ServeCreate(c) \/ ServeJoin(c) \/ RefuseJoin(c)
                              \/ LoseCall(c) \/ Answered(c)
  BY <1>11, <1>12, <1>18 DEF Good
<1>19. CASE \E s \in Session : Expire(s)
  BY <1>13, <1>19 DEF Good
<1>20. CASE \E u \in Tab, s \in Session : StartPoll(u, s) \/ Forget(u, s)
  BY <1>13, <1>20 DEF Good
<1>21. CASE \E u \in Tab, at \in {"home", "send", "receive"} : GoTo(u, at) \/ Reset(u, at)
  BY <1>10, <1>21 DEF Good
<1>. QED
  BY <1>15, <1>16, <1>17, <1>18, <1>19, <1>20, <1>21 DEF Next, Good

-------------------------------------------------------------------------------
(* The calls                                                                  *)

LEMMA CallLasts ==
    ASSUME ServerTypes, Server, [PNext]_pvars, NEW x \in CallState, CallTold(x)
    PROVE  CallTold(x)'
BY ToldLasts DEF CallTold, CallState

CallsKept == call' \in [Call -> CallState] /\ \A c \in Call : CallTold(call[c])'

LEMMA OneCall ==
    ASSUME IInv, [Next]_vars, NEW c \in Call, NEW x \in CallState, CallTold(x)',
           call' = [call EXCEPT ![c] = x]
    PROVE  CallsKept
<1>1. ServerTypes /\ Server /\ [PNext]_pvars
  BY ServiceSteps DEF IInv, TypeOK, ServerTypes
<1>2. \A y \in Call : call[y] \in CallState /\ CallTold(call[y])
  BY DEF IInv, TypeOK, AllTold
<1>3. ASSUME NEW y \in Call, y # c PROVE CallTold(call[y])'
  <2>1. CallTold(call[y]) /\ call[y] \in CallState /\ call'[y] = call[y]
    BY <1>2, <1>3 DEF IInv, TypeOK
  <2>2. PICK z \in CallState : z = call[y] /\ z = call'[y] /\ CallTold(z)
    BY <2>1
  <2>3. CallTold(z)'
    BY <1>1, <2>2, CallLasts
  <2>. QED
    BY <2>2, <2>3 DEF CallTold
<1>4. CallTold(call[c])'
  <2>1. call'[c] = x
    BY DEF IInv, TypeOK
  <2>. QED
    BY <2>1 DEF CallTold
<1>. QED
  BY <1>2, <1>3, <1>4 DEF CallsKept, IInv, TypeOK

LEMMA CallsSame ==
    ASSUME IInv, [Next]_vars, call' = call
    PROVE  CallsKept
<1>1. ServerTypes /\ Server /\ [PNext]_pvars
  BY ServiceSteps DEF IInv, TypeOK, ServerTypes
<1>2. \A y \in Call : call[y] \in CallState /\ CallTold(call[y])
  BY DEF IInv, TypeOK, AllTold
<1>3. ASSUME NEW y \in Call PROVE CallTold(call[y])'
  <2>1. PICK z \in CallState : z = call[y] /\ z = call'[y] /\ CallTold(z)
    BY <1>2
  <2>2. CallTold(z)'
    BY <1>1, <2>1, CallLasts
  <2>. QED
    BY <2>1, <2>2 DEF CallTold
<1>. QED
  BY <1>2, <1>3 DEF CallsKept, IInv, TypeOK

LEMMA CallSteps ==
    ASSUME IInv, [Next]_vars
    PROVE  CallsKept
<1>1. ServerTypes /\ Server /\ [PNext]_pvars
  BY ServiceSteps DEF IInv, TypeOK, ServerTypes
<1>2. \A c \in Call : call[c] \in CallState /\ CallTold(call[c])
  BY DEF IInv, TypeOK, AllTold
<1>3. ASSUME NEW t \in Tab, NEW c \in Call, NEW kind \in {"create", "join"},
             NEW s \in Session \cup {None}, kind = "join" => s \in Session,
             Request(t, c, kind, s)
      PROVE  CallsKept
  <2>. DEFINE x == [tab |-> t, kind |-> kind, session |-> s, step |-> "sent"]
  <2>1. x \in CallState
    BY DEF CallState
  <2>2. CallTold(x)'
    BY <1>3 DEF CallTold
  <2>3. call' = [call EXCEPT ![c] = x]
    BY <1>3 DEF Request
  <2>. HIDE DEF x
  <2>. QED
    BY <2>1, <2>2, <2>3, OneCall
<1>4. ASSUME NEW c \in Call, ServeCreate(c) PROVE CallsKept
  <2>1. PICK s \in Session : Offer(s, DeviceOf[call[c].tab]) /\ Served(c, "ok", s)
    BY <1>4 DEF ServeCreate
  <2>2. call'[c] \in CallState /\ call' = [call EXCEPT ![c] = call'[c]]
    BY <2>1, ServedTypes DEF IInv, TypeOK
  <2>3. /\ call'[c].tab = call[c].tab /\ call'[c].kind = "create"
        /\ call'[c].session = s /\ call'[c].step = "ok"
    BY <1>4, <2>1, ServedTypes DEF ServeCreate, IInv, TypeOK
  <2>4. call[c].tab \in Tab
    BY <1>2, <1>4 DEF ServeCreate, CallTold
  <2>5. owner'[s] = DeviceOf[call[c].tab]
    BY <2>1 DEF Offer, IInv, TypeOK
  <2>6. PICK x \in CallState : x = call'[c]
    BY <2>2
  <2>7. CallTold(x)'
    BY <2>3, <2>4, <2>5, <2>6 DEF CallTold
  <2>. QED
    BY <2>2, <2>6, <2>7, OneCall
<1>5. ASSUME NEW c \in Call, ServeJoin(c) PROVE CallsKept
  <2>. DEFINE s == call[c].session
  <2>1. s \in Session /\ Take(s, DeviceOf[call[c].tab]) /\ Served(c, "ok", s)
    BY <1>2, <1>5 DEF ServeJoin, CallTold
  <2>. HIDE DEF s
  <2>2. call'[c] \in CallState /\ call' = [call EXCEPT ![c] = call'[c]]
    BY <2>1, ServedTypes DEF IInv, TypeOK
  <2>3. /\ call'[c].tab = call[c].tab /\ call'[c].kind = "join"
        /\ call'[c].session = s /\ call'[c].step = "ok"
    BY <1>5, <2>1, ServedTypes DEF ServeJoin, IInv, TypeOK
  <2>4. call[c].tab \in Tab
    BY <1>2, <1>5 DEF ServeJoin, CallTold
  <2>5. guest'[s] = DeviceOf[call[c].tab]
    BY <2>1 DEF Take, IInv, TypeOK
  <2>6. PICK x \in CallState : x = call'[c]
    BY <2>2
  <2>7. CallTold(x)'
    BY <2>1, <2>3, <2>4, <2>5, <2>6 DEF CallTold
  <2>. QED
    BY <2>2, <2>6, <2>7, OneCall
<1>6. ASSUME NEW c \in Call, RefuseJoin(c) PROVE CallsKept
  <2>. DEFINE s == call[c].session
  <2>1. s \in Session /\ Served(c, "error", s) /\ call[c].tab \in Tab
    BY <1>2, <1>6 DEF RefuseJoin, CallTold
  <2>. HIDE DEF s
  <2>2. call'[c] \in CallState /\ call' = [call EXCEPT ![c] = call'[c]]
    BY <2>1, ServedTypes DEF IInv, TypeOK
  <2>3. call'[c].tab \in Tab /\ call'[c].step = "error"
    BY <2>1, ServedTypes DEF IInv, TypeOK
  <2>4. PICK x \in CallState : x = call'[c]
    BY <2>2
  <2>5. CallTold(x)'
    BY <2>3, <2>4 DEF CallTold
  <2>. QED
    BY <2>2, <2>4, <2>5, OneCall
<1>7. ASSUME NEW c \in Call, NEW step \in {"error", "done"}, call[c].step # "free",
             call' = [call EXCEPT ![c].step = step]
      PROVE  CallsKept
  <2>. DEFINE x == [call[c] EXCEPT !.step = step]
  <2>1. x \in CallState /\ x.tab = call[c].tab /\ x.step = step
    BY <1>2 DEF CallState
  <2>2. call' = [call EXCEPT ![c] = x]
    BY <1>7
  <2>3. call[c].tab \in Tab
    BY <1>2, <1>7 DEF CallTold
  <2>. HIDE DEF x
  <2>4. PICK z \in CallState : z = x
    BY <2>1
  <2>5. CallTold(z)'
    BY <2>1, <2>3, <2>4 DEF CallTold
  <2>. QED
    BY <2>2, <2>4, <2>5, OneCall
<1>8. ASSUME NEW c \in Call, LoseCall(c) \/ Answered(c) PROVE CallsKept
  BY <1>7, <1>8 DEF LoseCall, Answered
<1>9. ASSUME UNCHANGED call PROVE CallsKept
  BY <1>9, CallsSame
<1>10. CASE \E t \in Tab, c \in Call :
              Request(t, c, "create", None) \/ \E s \in Session : Request(t, c, "join", s)
  BY <1>3, <1>10
<1>11. CASE \E c \in Call : ServeCreate(c) \/ ServeJoin(c) \/ RefuseJoin(c)
                              \/ LoseCall(c) \/ Answered(c)
  BY <1>4, <1>5, <1>6, <1>8, <1>11
<1>12. CASE \/ UNCHANGED vars
            \/ \E s \in Session : Expire(s)
            \/ \E t \in Tab, s \in Session : StartPoll(t, s) \/ Forget(t, s)
            \/ \E p \in polls : ServePoll(p) \/ PollAnswered(p) \/ PollFailed(p)
            \/ \E t \in Tab, at \in {"home", "send", "receive"} : GoTo(t, at) \/ Reset(t, at)
  BY <1>9, <1>12
     DEF vars, Expire, StartPoll, Forget, ServePoll, PollAnswered, PollFailed, GoTo, Reset
<1>. QED
  BY <1>10, <1>11, <1>12 DEF Next

-------------------------------------------------------------------------------
(* The polls and the cache                                                     *)

LEMMA AnswersLast ==
    ASSUME IInv, [Next]_vars
    PROVE  /\ \A p \in polls : /\ p.tab \in Tab /\ p.session \in Session
                              /\ p.answer \in Status \cup {None}
                              /\ Has(p.tab, p.session)'
                              /\ Told(p.tab, p.session, p.answer)'
           /\ \A t \in Tab, s \in Session : \A a \in {cache[t][s]} : Told(t, s, a)'
<1>1. ServerTypes /\ Server /\ [PNext]_pvars
  BY ServiceSteps DEF IInv, TypeOK, ServerTypes
<1>2. ASSUME NEW p \in polls
      PROVE  /\ p.tab \in Tab /\ p.session \in Session
             /\ p.answer \in Status \cup {None}
             /\ Has(p.tab, p.session) /\ Told(p.tab, p.session, p.answer)
  BY DEF IInv, TypeOK, Poll, AllTold
<1>3. ASSUME NEW t \in Tab, NEW s \in Session
      PROVE  Told(t, s, cache[t][s]) /\ cache[t][s] \in Status \cup {None}
  BY DEF IInv, TypeOK, AllTold
<1>. QED
  BY <1>1, <1>2, <1>3, ToldLasts

PollsKept ==
    /\ polls' \subseteq Poll
    /\ \A p \in polls' : Has(p.tab, p.session)' /\ Told(p.tab, p.session, p.answer)'
CacheKept ==
    /\ cache' \in [Tab -> [Session -> Status \cup {None}]]
    /\ \A t \in Tab, s \in Session : Told(t, s, cache[t][s])'

LEMMA FewerPolls ==
    ASSUME IInv, [Next]_vars, polls' \subseteq polls
    PROVE  PollsKept
BY AnswersLast DEF PollsKept, IInv, TypeOK

LEMMA CacheSame ==
    ASSUME IInv, [Next]_vars, cache' = cache
    PROVE  CacheKept
<1>1. \A t \in Tab, s \in Session : cache'[t][s] \in {cache[t][s]}
  OBVIOUS
<1>2. ASSUME NEW t \in Tab, NEW s \in Session PROVE Told(t, s, cache[t][s])'
  BY <1>1, AnswersLast DEF Told
<1>. QED
  BY <1>2 DEF CacheKept, IInv, TypeOK

(* What the cache of tab t for session s becomes.                                   *)
LEMMA OneAnswer ==
    ASSUME IInv, [Next]_vars, NEW t \in Tab, NEW s \in Session,
           NEW a \in Status \cup {None}, Told(t, s, a)',
           cache' = [cache EXCEPT ![t][s] = a]
    PROVE  CacheKept
<1>1. cache' \in [Tab -> [Session -> Status \cup {None}]]
  BY DEF IInv, TypeOK
<1>2. cache'[t][s] = a
  BY DEF IInv, TypeOK
<1>3. ASSUME NEW u \in Tab, NEW x \in Session, ~(u = t /\ x = s)
      PROVE  cache'[u][x] = cache[u][x]
  BY <1>3 DEF IInv, TypeOK
<1>4. ASSUME NEW u \in Tab, NEW x \in Session PROVE Told(u, x, cache[u][x])'
  <2>1. CASE u = t /\ x = s
    BY <1>2, <2>1 DEF Told
  <2>2. CASE ~(u = t /\ x = s)
    BY <1>3, <2>2, AnswersLast DEF Told
  <2>. QED
    BY <2>1, <2>2
<1>. QED
  BY <1>1, <1>4 DEF CacheKept

LEMMA PollSteps ==
    ASSUME IInv, [Next]_vars
    PROVE  PollsKept /\ CacheKept /\ InOrder'
<1>1. ServerTypes /\ Server /\ [PNext]_pvars
  BY ServiceSteps DEF IInv, TypeOK, ServerTypes
<1>2. InOrder
  BY DEF IInv
<1>3. ASSUME polls' \subseteq polls, cache' = cache
      PROVE  PollsKept /\ CacheKept /\ InOrder'
  BY <1>2, <1>3, FewerPolls, CacheSame DEF InOrder
<1>4. ASSUME NEW t \in Tab, NEW s \in Session, StartPoll(t, s)
      PROVE  PollsKept /\ CacheKept /\ InOrder'
  <2>. DEFINE p == [tab |-> t, session |-> s, answer |-> None]
  <2>1. tab[t] \in TabState /\ tab[t].session = s /\ HeldTold(t, tab[t])
    BY <1>4 DEF StartPoll, Watching, IInv, TypeOK, AllTold
  <2>2. Has(t, s)
    BY <2>1, SessionPagesAssumption DEF HeldTold, Has, TabState, Status
  <2>3. Has(t, s)'
    BY <1>1, <2>2, ToldLasts
  <2>4. p \in Poll /\ p.tab = t /\ p.session = s /\ p.answer = None
    BY DEF Poll
  <2>5. polls' = polls \cup {p} /\ cache' = cache
    BY <1>4 DEF StartPoll
  <2>6. \A q \in polls : ~(q.tab = t /\ q.session = s)
    BY <1>4 DEF StartPoll, PollsOf
  <2>. HIDE DEF p
  <2>7. Told(t, s, None)'
    BY SessionPagesAssumption DEF Told
  <2>8. PollsKept
    BY <2>3, <2>4, <2>5, <2>7, AnswersLast DEF PollsKept, IInv, TypeOK
  <2>9. InOrder'
    BY <1>2, <2>4, <2>5, <2>6, SessionPagesAssumption DEF InOrder
  <2>. QED
    BY <2>5, <2>8, <2>9, CacheSame
<1>5. ASSUME NEW p \in polls, ServePoll(p)
      PROVE  PollsKept /\ CacheKept /\ InOrder'
  <2>. DEFINE t == p.tab
              s == p.session
  <2>1. p \in Poll /\ t \in Tab /\ s \in Session /\ Has(t, s)
    BY DEF IInv, TypeOK, Poll, AllTold
  <2>2. StatusOf(s) \in Status
    BY DEF StatusOf, Status
  <2>. DEFINE r == [p EXCEPT !.answer = StatusOf(s)]
  <2>3. r \in Poll /\ r.tab = t /\ r.session = s /\ r.answer = StatusOf(s)
    BY <2>1, <2>2 DEF Poll
  <2>4. PICK q \in Poll : q = r
    BY <2>3
  <2>5. q.tab = t /\ q.session = s /\ q.answer = StatusOf(s)
    BY <2>3, <2>4
  <2>6. polls' = (polls \ {p}) \cup {q} /\ cache' = cache
    BY <1>5, <2>4 DEF ServePoll
  <2>. HIDE DEF r
  <2>7. StatusOf(s) = "WAITING" => guest[s] = None
    BY <1>1, <2>1 DEF StatusOf, Server
  <2>8. Told(t, s, StatusOf(s))
    BY <2>1, <2>7, SessionPagesAssumption DEF Told, Has
  <2>9. \A a \in {StatusOf(s)} : Told(t, s, a)'
    BY <1>1, <2>1, <2>2, <2>8, ToldLasts
  <2>10. Has(t, s)'
    BY <1>1, <2>1, ToldLasts
  <2>11. Told(t, s, cache[t][s]) /\ cache[t][s] \in Status \cup {None}
    BY <2>1 DEF IInv, TypeOK, AllTold
  <2>12. StatusOf(s) = "WAITING" => cache[t][s] \in {None, "WAITING"}
    BY <2>11 DEF Told, Status
  <2>13. Told(q.tab, q.session, q.answer)' /\ Has(q.tab, q.session)'
    BY <2>5, <2>9, <2>10 DEF Told, Has
  <2>14. PollsKept
    BY <2>6, <2>13, AnswersLast DEF PollsKept, IInv, TypeOK
  <2>15. InOrder'
    BY <1>2, <2>5, <2>6, <2>12 DEF InOrder
  <2>. QED
    BY <2>6, <2>14, <2>15, CacheSame
<1>6. ASSUME NEW p \in polls, PollAnswered(p)
      PROVE  PollsKept /\ CacheKept /\ InOrder'
  <2>1. /\ p.tab \in Tab /\ p.session \in Session /\ p.answer \in Status \cup {None}
        /\ Told(p.tab, p.session, p.answer)'
    BY AnswersLast
  <2>2. polls' = polls \ {p} /\ cache' = [cache EXCEPT ![p.tab][p.session] = p.answer]
    BY <1>6 DEF PollAnswered
  <2>3. PollsKept
    BY <2>2, FewerPolls
  <2>4. CacheKept
    BY <2>1, <2>2, OneAnswer
  <2>5. ASSUME NEW q \in polls'
        PROVE  cache'[q.tab][q.session] = cache[q.tab][q.session]
    <3>1. q \in Poll /\ ~(q.tab = p.tab /\ q.session = p.session)
      BY <1>2, <2>2, <2>5 DEF InOrder, IInv, TypeOK
    <3>. QED
      BY <2>2, <3>1 DEF IInv, TypeOK, Poll
  <2>6. InOrder'
    BY <1>2, <2>2, <2>5 DEF InOrder
  <2>. QED
    BY <2>3, <2>4, <2>6
<1>7. ASSUME NEW t \in Tab, NEW s \in Session, Forget(t, s)
      PROVE  PollsKept /\ CacheKept /\ InOrder'
  <2>1. polls' = polls /\ cache' = [cache EXCEPT ![t][s] = None]
    BY <1>7 DEF Forget
  <2>2. Told(t, s, None)'
    BY SessionPagesAssumption DEF Told
  <2>3. CacheKept
    BY <2>1, <2>2, OneAnswer
  <2>4. ASSUME NEW q \in polls
        PROVE  cache'[q.tab][q.session] \in {None, cache[q.tab][q.session]}
    BY <2>1 DEF IInv, TypeOK, Poll
  <2>5. InOrder'
    BY <1>2, <2>1, <2>4 DEF InOrder
  <2>. QED
    BY <2>1, <2>3, <2>5, FewerPolls
<1>8. ASSUME NEW p \in polls, PollFailed(p)
      PROVE  PollsKept /\ CacheKept /\ InOrder'
  BY <1>3, <1>8 DEF PollFailed, DataKept
<1>9. CASE \E t \in Tab, s \in Session : StartPoll(t, s) \/ Forget(t, s)
  BY <1>4, <1>7, <1>9
<1>10. CASE \E p \in polls : ServePoll(p) \/ PollAnswered(p) \/ PollFailed(p)
  BY <1>5, <1>6, <1>8, <1>10
<1>11. CASE \/ UNCHANGED vars
            \/ \E t \in Tab, c \in Call :
                  Request(t, c, "create", None) \/ \E s \in Session : Request(t, c, "join", s)
            \/ \E c \in Call : ServeCreate(c) \/ ServeJoin(c) \/ RefuseJoin(c)
                                \/ LoseCall(c) \/ Answered(c)
            \/ \E s \in Session : Expire(s)
            \/ \E t \in Tab, at \in {"home", "send", "receive"} : GoTo(t, at) \/ Reset(t, at)
  BY <1>3, <1>11
     DEF vars, Request, ServeCreate, ServeJoin, RefuseJoin, LoseCall, Answered, Expire, GoTo, Reset
<1>. QED
  BY <1>9, <1>10, <1>11 DEF Next

-------------------------------------------------------------------------------
(* The inductive invariant and what follows from it                                *)

LEMMA Shape ==
    ASSUME IInv, [Next]_vars
    PROVE  tab' = [t \in Tab |-> tab'[t]] /\ faults' \in 0..MaxFaults
<1>1. tab = [t \in Tab |-> tab[t]] /\ faults \in 0..MaxFaults
  BY DEF IInv, TypeOK
<1>2. ASSUME NEW t \in Tab, NEW x, tab' = [tab EXCEPT ![t] = x]
      PROVE  tab' = [u \in Tab |-> tab'[u]]
  BY <1>1, <1>2
<1>3. ASSUME NEW t \in Tab, NEW c, NEW kind, NEW s, Request(t, c, kind, s)
      PROVE  tab' = [u \in Tab |-> tab'[u]] /\ faults' = faults
  BY <1>2, <1>3 DEF Request
<1>4. ASSUME NEW c \in Call, Answered(c)
      PROVE  tab' = [u \in Tab |-> tab'[u]] /\ faults' = faults
  <2>1. call[c].tab \in Tab
    BY <1>4 DEF Answered, IInv, AllTold, CallTold
  <2>. QED
    BY <1>2, <1>4, <2>1 DEF Answered
<1>5. ASSUME NEW t \in Tab, NEW at, GoTo(t, at) \/ Reset(t, at)
      PROVE  tab' = [u \in Tab |-> tab'[u]] /\ faults' = faults
  BY <1>1, <1>5 DEF GoTo, Reset
<1>6. ASSUME NEW c \in Call, LoseCall(c)
      PROVE  tab' = [u \in Tab |-> tab'[u]] /\ faults' \in 0..MaxFaults
  BY <1>1, <1>6, SessionPagesAssumption DEF LoseCall
<1>7. ASSUME NEW c \in Call, ServeCreate(c) \/ ServeJoin(c) \/ RefuseJoin(c)
      PROVE  tab' = [u \in Tab |-> tab'[u]] /\ faults' = faults
  BY <1>1, <1>7 DEF ServeCreate, ServeJoin, RefuseJoin
<1>8. CASE \/ UNCHANGED vars
           \/ \E s \in Session : Expire(s)
           \/ \E t \in Tab, s \in Session : StartPoll(t, s) \/ Forget(t, s)
           \/ \E p \in polls : ServePoll(p) \/ PollAnswered(p) \/ PollFailed(p)
  BY <1>1, <1>8 DEF vars, Expire, StartPoll, Forget, ServePoll, PollAnswered, PollFailed
<1>9. CASE \/ \E t \in Tab, c \in Call :
                 Request(t, c, "create", None) \/ \E s \in Session : Request(t, c, "join", s)
           \/ \E c \in Call : ServeCreate(c) \/ ServeJoin(c) \/ RefuseJoin(c)
                               \/ LoseCall(c) \/ Answered(c)
           \/ \E t \in Tab, at \in {"home", "send", "receive"} : GoTo(t, at) \/ Reset(t, at)
  BY <1>1, <1>3, <1>4, <1>5, <1>6, <1>7, <1>9
<1>. QED
  BY <1>8, <1>9 DEF Next

LEMMA InvKept == IInv /\ [Next]_vars => IInv'
<1>. SUFFICES ASSUME IInv, [Next]_vars PROVE IInv'
  OBVIOUS
<1>1. ServerTypes /\ Server /\ [PNext]_pvars
  BY ServiceSteps DEF IInv, TypeOK, ServerTypes
<1>2. ServerTypes' /\ Server'
  BY <1>1, ServerKept
<1>3. \A t \in Tab : tab'[t] \in TabState /\ HeldTold(t, tab[t])'
  BY TabSteps
<1>4. tab' \in [Tab -> TabState] /\ faults' \in 0..MaxFaults
  BY <1>3, Shape
<1>5. CallsKept /\ PollsKept /\ CacheKept /\ InOrder'
  BY CallSteps, PollSteps
<1>6. TypeOK'
  BY <1>2, <1>4, <1>5
     DEF TypeOK, ServerTypes, CallsKept, PollsKept, CacheKept
<1>7. AllTold'
  BY <1>3, <1>5 DEF AllTold, CallsKept, PollsKept, CacheKept
<1>. QED
  BY <1>2, <1>5, <1>6, <1>7 DEF IInv

(* The inductive invariant: what every call, store, poll and cache entry knows of its  *)
(* session, and in which order a query's answers come.                             *)
THEOREM Inductive == Spec => []IInv
BY StartInv, InvKept, PTL DEF Spec

(* Tabs, calls, polls and the cache keep their types, for any number of them.          *)
THEOREM TypeCorrect == Spec => []TypeOK
<1>1. IInv => TypeOK
  BY DEF IInv
<1>. QED
  BY <1>1, Inductive, PTL

LEMMA Held == IInv => HeldIsOurs
BY DEF IInv, TypeOK, AllTold, HeldTold, HeldIsOurs, TabState, Status

(* A session in a store is one in which the tab's device has the part its answer said   *)
(* (HeldIsOurs), however many tabs share a device and whatever calls are lost          *)
(* (use-session, 23-46 and 56-78).                                               *)
THEOREM StoresAreTrue == Spec => []HeldIsOurs
BY Held, Inductive, PTL

LEMMA Behind == IInv => NeverAhead
<1>. SUFFICES ASSUME IInv, NEW t \in Tab, tab[t].session # None
              PROVE  LiveStatus(t) \in {"WAITING", StatusOf(tab[t].session)}
  BY DEF NeverAhead
<1>. DEFINE s == tab[t].session
<1>1. tab[t] \in TabState /\ s \in Session /\ HeldTold(t, tab[t])
  BY DEF IInv, TypeOK, AllTold, TabState
<1>2. Told(t, s, cache[t][s])
  BY <1>1 DEF IInv, AllTold
<1>3. tab[t].held \in {"WAITING", "JOINED"}
  BY <1>1 DEF HeldTold, TabState, Status
<1>4. tab[t].held = "JOINED" => StatusOf(s) = "JOINED"
  BY <1>1, SessionPagesAssumption DEF HeldTold, StatusOf, IInv, Server
<1>5. ReceiveStatus(t) \in {"WAITING", StatusOf(s)}
  BY <1>3, <1>4 DEF ReceiveStatus
<1>6. SendStatus(t) \in {"WAITING", StatusOf(s)}
  BY <1>2, <1>3, <1>4 DEF SendStatus, Cached, Told
<1>. QED
  BY <1>5, <1>6 DEF LiveStatus

(* A page that shows its session as joined or expired shows what happened to it         *)
(* (NeverAhead).                                                                *)
THEOREM ShowsWhatHappened == Spec => []NeverAhead
BY Behind, Inductive, PTL

(* One step: a status that is not WAITING is the session's, which stays; and neither     *)
(* the cache nor the store returns to WAITING.                                     *)
LEMMA NotBack ==
    ASSUME IInv, IInv', [Next]_vars, NEW t \in Tab,
           tab[t].session # None, LiveStatus(t) # "WAITING",
           tab'[t].at = tab[t].at, tab'[t].session = tab[t].session
    PROVE  LiveStatus(t)' # "WAITING"
<1>1. PICK s \in Session : s = tab[t].session /\ s = tab'[t].session
  BY DEF IInv, TypeOK, TabState
<1>2. /\ tab[t] \in TabState /\ HeldTold(t, tab[t]) /\ Told(t, s, cache[t][s])
      /\ tab'[t] \in TabState /\ HeldTold(t, tab[t])' /\ Told(t, s, cache[t][s])'
  BY DEF IInv, TypeOK, AllTold
<1>3. ServerTypes /\ Server /\ [PNext]_pvars
  BY ServiceSteps DEF IInv, TypeOK, ServerTypes
<1>4. tab[t].held \in {"WAITING", "JOINED"} /\ tab'[t].held \in {"WAITING", "JOINED"}
  BY <1>2 DEF HeldTold, TabState, Status
(* The store: a joined session is not the tab's own.                               *)
<1>5. ASSUME guest[s] = DeviceOf[t] PROVE owner'[s] # DeviceOf[t]
  BY <1>3, <1>5, Lasts, SessionPagesAssumption DEF Server
<1>6. tab[t].held # "WAITING" => guest[s] = DeviceOf[t]
  BY <1>1, <1>2, <1>4, SessionPagesAssumption DEF HeldTold
<1>7. tab[t].held # "WAITING" => tab'[t].held # "WAITING"
  BY <1>1, <1>2, <1>5, <1>6, SessionPagesAssumption DEF HeldTold
(* The cache: no answer that would take it back is under way.                        *)
<1>8. ASSUME tab[t].at = "send", cache[t][s] \notin {None, "WAITING"}
      PROVE  cache'[t][s] \notin {None, "WAITING"}
  <2>1. Watching(t, s)
    BY <1>1, <1>8 DEF Watching
  <2>2. ASSUME NEW p \in polls, PollAnswered(p) PROVE cache'[t][s] \notin {None, "WAITING"}
    <3>1. p \in Poll /\ p.answer # None
      BY <2>2 DEF PollAnswered, IInv, TypeOK
    <3>2. cache' = [cache EXCEPT ![p.tab][p.session] = p.answer]
      BY <2>2 DEF PollAnswered
    <3>3. CASE p.tab = t /\ p.session = s
      BY <1>8, <3>1, <3>2, <3>3 DEF IInv, InOrder, TypeOK
    <3>4. CASE ~(p.tab = t /\ p.session = s)
      BY <1>8, <3>1, <3>2, <3>4 DEF IInv, TypeOK, Poll
    <3>. QED
      BY <3>3, <3>4
  <2>3. ASSUME NEW u \in Tab, NEW x \in Session, Forget(u, x)
        PROVE  cache'[t][s] = cache[t][s]
    BY <2>1, <2>3 DEF Forget, IInv, TypeOK
  <2>4. ASSUME NEW p \in polls, PollFailed(p) PROVE cache' = cache
    BY <2>4 DEF PollFailed, DataKept
  <2>5. CASE \/ \E u \in Tab, x \in Session : StartPoll(u, x) \/ Forget(u, x)
             \/ \E p \in polls : ServePoll(p) \/ PollAnswered(p) \/ PollFailed(p)
    BY <1>8, <2>2, <2>3, <2>4, <2>5 DEF StartPoll, ServePoll
  <2>6. CASE cache' = cache
    BY <1>8, <2>6
  <2>. QED
    BY <2>5, <2>6 DEF Next, vars, Request, ServeCreate, ServeJoin, RefuseJoin, LoseCall,
                      Answered, Expire, GoTo, Reset
<1>9. CASE tab[t].at # "send"
  BY <1>7, <1>9 DEF LiveStatus, ReceiveStatus
<1>10. CASE tab[t].at = "send" /\ cache[t][s] \notin {None, "WAITING"}
  BY <1>1, <1>8, <1>10 DEF LiveStatus, SendStatus, Cached
<1>11. CASE tab[t].at = "send" /\ cache[t][s] \in {None, "WAITING"}
  <2>1. cache[t][s] = None /\ tab[t].held # "WAITING"
    BY <1>1, <1>11 DEF LiveStatus, SendStatus, Cached
  <2>2. cache'[t][s] # "WAITING"
    BY <1>2, <1>5, <1>6, <2>1, SessionPagesAssumption DEF Told
  <2>. QED
    BY <1>1, <1>7, <1>11, <2>1, <2>2 DEF LiveStatus, SendStatus, Cached
<1>. QED
  BY <1>9, <1>10, <1>11

(* A page that stays with a session and has shown it taken or expired never shows it     *)
(* waiting again (NeverBackOnOffer), however late answers come (send page, 124).       *)
THEOREM StaysTaken == Spec => NeverBackOnOffer
<1>1. IInv /\ IInv' /\ [Next]_vars =>
          [ \A t \in Tab :
              /\ tab[t].session # None /\ LiveStatus(t) # "WAITING"
              /\ tab'[t].at = tab[t].at /\ tab'[t].session = tab[t].session
              => LiveStatus(t)' # "WAITING" ]_vars
  BY NotBack
<1>. QED
  BY <1>1, Inductive, PTL DEF Spec, NeverBackOnOffer
===============================================================================
