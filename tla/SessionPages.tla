----------------------------- MODULE SessionPages -----------------------------
(***************************************************************************)
(* The send and receive pages as clients of the session service: the calls    *)
(* that create and join a session, whose answers come late or not at all, the   *)
(* store that outlives the page, and the polls that keep the status on the       *)
(* screen up to date.                                                        *)
(*                                                                          *)
(* The service is what it promises, Pairing, which SessionService implements.   *)
(* The store and the query cache belong to the tab: leaving a page with the       *)
(* browser's back keeps both.  A code stands for the session it was made for.      *)
(***************************************************************************)
EXTENDS Pairing, Naturals

CONSTANTS
    Tab, DeviceOf,     \* DeviceOf[t]: the device, by its fingerprint, of tab t
    PagesOf,           \* bound: PagesOf[t]: the pages t is used for
    Call,              \* bound: calls that create or join
    MaxFaults          \* bound: calls without a good answer

ASSUME SessionPagesAssumption ==
    /\ DeviceOf \in [Tab -> Device]
    /\ PagesOf \in [Tab -> SUBSET {"send", "receive"}]
    /\ None \notin Session \cup Device \cup {"WAITING", "JOINED", "EXPIRED"}
    /\ MaxFaults \in Nat

VARIABLES
    tab,         \* tab[t]: the page t is at, and its session store
    call,        \* call[c]: a request to create or to join
    polls,       \* GET /sessions/:id under way
    cache,       \* cache[t][s]: status in the last answer for s, None for none
    faults

vars == <<pvars, tab, call, polls, cache, faults>>
serverKept == UNCHANGED pvars

Status == {"WAITING", "JOINED", "EXPIRED"}

(* session and held: currentSession and its status.  ui: status of the store.    *)
TabState == [at: {"home", "send", "receive"}, session: Session \cup {None},
             held: Status, ui: {"idle", "creating", "joining", "ready", "error"},
             error: BOOLEAN]

(* free: not made.  sent: on its way.  ok, error: answered.  done: settled.       *)
CallState == [tab: Tab \cup {None}, kind: {"create", "join"},
              session: Session \cup {None}, step: {"free", "sent", "ok", "error", "done"}]

Poll == [tab: Tab, session: Session, answer: Status \cup {None}]

TypeOK ==
    /\ open \subseteq Session
    /\ owner \in [Session -> Device \cup {None}]
    /\ guest \in [Session -> Device \cup {None}]
    /\ tab \in [Tab -> TabState]
    /\ call \in [Call -> CallState]
    /\ polls \subseteq Poll
    /\ cache \in [Tab -> [Session -> Status \cup {None}]]
    /\ faults \in 0..MaxFaults

-------------------------------------------------------------------------------
(* The store                                                                  *)
UnsetStore(at) == [at |-> at, session |-> None, held |-> "WAITING",
                   ui |-> None, error |-> FALSE]   \* mutant: reset leaves no status
FreshStore(at) == [at |-> at, session |-> None, held |-> "WAITING",
                   ui |-> "idle", error |-> FALSE]

SetStatus(x, ui) == [x EXCEPT !.ui = ui]
SetError(x, e)   == [x EXCEPT !.error = e, !.ui = IF e THEN "error" ELSE "idle"]
SetSession(x, s, status) == [x EXCEPT !.session = s, !.held = status]

Init ==
    /\ PInit
    /\ tab = [t \in Tab |-> FreshStore("home")]
    /\ call = [c \in Call |->
                 [tab |-> None, kind |-> "create", session |-> None, step |-> "free"]]
    /\ polls = {} /\ faults = 0
    /\ cache = [t \in Tab |-> [s \in Session |-> None]]

-------------------------------------------------------------------------------
(* The calls.  The button is off while the store is creating or joining; but      *)
(* clearing the error, next, puts the store back to idle.                        *)
Busy   == [create |-> "creating", join |-> "joining"]
PageOf == [create |-> "send", join |-> "receive"]

Request(t, c, kind, s) ==
    /\ call[c].step = "free"
    /\ tab[t].at = PageOf[kind] /\ tab[t].session = None
    /\ tab[t].ui # Busy[kind]
    /\ tab' = [tab EXCEPT ![t] = SetError(SetStatus(@, Busy[kind]), FALSE)]
    /\ call' = [call EXCEPT ![c] =
                  [tab |-> t, kind |-> kind, session |-> s, step |-> "sent"]]
    /\ UNCHANGED <<polls, cache, faults>> /\ serverKept

(* What createSession and joinSession of the service come to.                    *)
Served(c, step, s) == call' = [call EXCEPT ![c].step = step, ![c].session = s]

ServeCreate(c) ==
    /\ call[c].step = "sent" /\ call[c].kind = "create"
    /\ \E s \in Session : Offer(s, DeviceOf[call[c].tab]) /\ Served(c, "ok", s)
    /\ UNCHANGED <<tab, polls, cache, faults>>

ServeJoin(c) ==
    LET s == call[c].session IN
    /\ call[c].step = "sent" /\ call[c].kind = "join"
    /\ Take(s, DeviceOf[call[c].tab])
    /\ Served(c, "ok", s)
    /\ UNCHANGED <<tab, polls, cache, faults>>

RefuseJoin(c) ==
    LET s == call[c].session IN
    /\ call[c].step = "sent" /\ call[c].kind = "join"
    /\ s \notin open \/ DeviceOf[call[c].tab] = owner[s]
    /\ Served(c, "error", s)
    /\ UNCHANGED <<tab, polls, cache, faults>> /\ serverKept

(* The request or its answer is lost, or the service fails before or after it      *)
(* did what was asked.                                                        *)
LoseCall(c) ==
    /\ call[c].step \in {"sent", "ok"}
    /\ faults < MaxFaults /\ faults' = faults + 1
    /\ call' = [call EXCEPT ![c].step = "error"]
    /\ UNCHANGED <<tab, polls, cache>> /\ serverKept

(* The awaits of createSession and joinSession go on, whatever page the tab is at. *)
SucceedsAlways(c) == TRUE           \* mutant: response.ok is not looked at
Succeeds(c) == call[c].step = "ok"

Answered(c) ==
    LET t == call[c].tab
        status == IF call[c].kind = "create" THEN "WAITING" ELSE "JOINED" IN
    /\ call[c].step \in {"ok", "error"}
    /\ tab' = [tab EXCEPT ![t] =
                 IF Succeeds(c)
                 THEN SetStatus(SetSession(@, call[c].session, status), "ready")
                 ELSE SetError(@, TRUE)]
    /\ call' = [call EXCEPT ![c].step = "done"]
    /\ UNCHANGED <<polls, cache, faults>> /\ serverKept

-------------------------------------------------------------------------------
(* The job of the service                                                       *)
Expire(s) ==
    /\ s \in open /\ open' = open \ {s}
    /\ UNCHANGED <<owner, guest, tab, call, polls, cache, faults>>

StatusOf(s) ==
    IF s \in open THEN "WAITING" ELSE IF guest[s] # None THEN "JOINED" ELSE "EXPIRED"

(* useSessionStatus: one query under way for a session, again every 3 seconds.     *)
Watching(t, s) == tab[t].at # "home" /\ tab[t].session = s

OnceEnough(t, s) == cache[t][s] = None      \* mutant: staleTime, and no interval
DueAgain(t, s) == TRUE

PollsOf(t, s) == {p \in polls : p.tab = t /\ p.session = s}

StartPoll(t, s) ==
    /\ Watching(t, s) /\ DueAgain(t, s)
    /\ PollsOf(t, s) = {}
    /\ polls' = polls \cup {[tab |-> t, session |-> s, answer |-> None]}
    /\ UNCHANGED <<tab, call, cache, faults>> /\ serverKept

ServePoll(p) ==
    /\ p \in polls /\ p.answer = None
    /\ polls' = (polls \ {p}) \cup {[p EXCEPT !.answer = StatusOf(p.session)]}
    /\ UNCHANGED <<tab, call, cache, faults>> /\ serverKept

PollAnswered(p) ==
    /\ p \in polls /\ p.answer # None
    /\ cache' = [cache EXCEPT ![p.tab][p.session] = p.answer]
    /\ polls' = polls \ {p}
    /\ UNCHANGED <<tab, call, faults>> /\ serverKept

(* Every retry failed; a request that is lost might as well have been served         *)
(* before.  The query keeps its last data.                                      *)
DataDropped(t, s) == cache' = [cache EXCEPT ![t][s] = None]    \* mutant: it does not
DataKept(t, s)    == UNCHANGED cache

PollFailed(p) ==
    /\ p \in polls /\ p.answer # None
    /\ polls' = polls \ {p}
    /\ DataKept(p.tab, p.session)
    /\ UNCHANGED <<tab, call, faults>> /\ serverKept

(* A query nobody looks at is forgotten after five minutes.                       *)
Forget(t, s) ==
    /\ ~Watching(t, s)
    /\ cache' = [cache EXCEPT ![t][s] = None]
    /\ UNCHANGED <<tab, call, polls, faults>> /\ serverKept

-------------------------------------------------------------------------------
(* The user goes to a page, goes back, or leaves it by the link or a button, which  *)
(* reset the store and tell the service nothing.                                  *)
GoTo(t, at) ==
    /\ IF tab[t].at = "home" THEN at \in PagesOf[t] ELSE at = "home"
    /\ tab' = [tab EXCEPT ![t].at = at]
    /\ UNCHANGED <<call, polls, cache, faults>> /\ serverKept

Reset(t, at) ==
    /\ tab[t].at # "home"
    /\ at = "home" \/ (at = tab[t].at /\ tab[t].session # None)
    /\ tab' = [tab EXCEPT ![t] = FreshStore(at)]
    /\ UNCHANGED <<call, polls, cache, faults>> /\ serverKept

Next ==
    \/ \E t \in Tab, c \in Call :
          Request(t, c, "create", None) \/ \E s \in Session : Request(t, c, "join", s)
    \/ \E c \in Call :
          ServeCreate(c) \/ ServeJoin(c) \/ RefuseJoin(c) \/ LoseCall(c) \/ Answered(c)
    \/ \E s \in Session : Expire(s)
    \/ \E t \in Tab, s \in Session : StartPoll(t, s) \/ Forget(t, s)
    \/ \E p \in polls : ServePoll(p) \/ PollAnswered(p) \/ PollFailed(p)
    \/ \E t \in Tab, at \in {"home", "send", "receive"} : GoTo(t, at) \/ Reset(t, at)

Spec == Init /\ [][Next]_vars

(* The tab is in the foreground, so its interval runs; requests may fail, but not    *)
(* all of them.  Nothing makes a user act or a call get its answer.               *)
FairSpec ==
    /\ Spec
    /\ \A t \in Tab, s \in Session :
          /\ WF_vars(StartPoll(t, s) \/ \E p \in PollsOf(t, s) : ServePoll(p))
          /\ SF_vars(\E p \in PollsOf(t, s) : PollAnswered(p))

-------------------------------------------------------------------------------
(* What is on the screen: the send page prefers the polled status; the receive      *)
(* page looks for it where the service does not put it, and shows the held one.     *)
CachedAny(t, s) ==                          \* mutant: the key is "session" alone
    LET known == {cache[t][x] : x \in Session} \ {None}
    IN  IF known = {} THEN None ELSE CHOOSE st \in known : TRUE
Cached(t, s) == cache[t][s]

SendStatus(t) ==
    IF Cached(t, tab[t].session) # None THEN Cached(t, tab[t].session) ELSE tab[t].held

ReceiveStatus(t) == tab[t].held

LiveStatus(t) == IF tab[t].at = "send" THEN SendStatus(t) ELSE ReceiveStatus(t)

(* HeldIsOurs: whatever calls were refused, lost or answered late, twice clicked or   *)
(* answered on another page, a session in a store is one in which the tab's device  *)
(* has the part its answer said (use-session, 23-46 and 56-78).                   *)
HeldIsOurs ==
    \A t \in Tab : tab[t].session # None =>
        IF tab[t].held = "WAITING"
        THEN DeviceOf[t] = owner[tab[t].session]
        ELSE DeviceOf[t] = guest[tab[t].session]

(* NeverAhead: a page that shows a session as joined or expired shows what happened  *)
(* to this session, not to an earlier one of the tab (use-session, 95-103).        *)
NeverAhead ==
    \A t \in Tab : tab[t].session # None =>
        LiveStatus(t) \in {"WAITING", StatusOf(tab[t].session)}

(* NeverBackOnOffer: polls are answered late or fail, but a page that stays with a    *)
(* session and has shown it taken or expired does not show it waiting again        *)
(* (send page, 124).                                                           *)
NeverBackOnOffer ==
    [][ \A t \in Tab :
          /\ tab[t].session # None /\ LiveStatus(t) # "WAITING"
          /\ tab'[t].at = tab[t].at /\ tab'[t].session = tab[t].session
          => LiveStatus(t)' # "WAITING" ]_vars

(* SenderLearns: a send page that stays with its session stops waiting once somebody  *)
(* joined, though no event of the signaling says so ("REST fallback", send page, 58). *)
SenderLearns ==
    \A t \in Tab, s \in Session :
        (tab[t].at = "send" /\ tab[t].session = s /\ guest[s] # None)
            ~> (tab[t].at # "send" \/ tab[t].session # s \/ LiveStatus(t) # "WAITING")
===============================================================================
