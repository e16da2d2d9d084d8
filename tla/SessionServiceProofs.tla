------------------------- MODULE SessionServiceProofs -------------------------
(***************************************************************************)
(* Proofs about SessionService, for any number of sessions, codes, devices   *)
(* and requests in flight.  The invariants of the rows and of the keys are    *)
(* inductive only together with what each request knows at each of its awaits *)
(* (Informed), so one invariant, IInv, carries all of them.                  *)
(***************************************************************************)
EXTENDS SessionService, Integers, TLAPS

(* A row is written whole, with the sender's device and a code, or not at all.  *)
RowsWhole ==
    \A s \in Session :
        /\ ~Exists(s) => sender[s] = None /\ receiver[s] = None /\ code[s] = None
        /\ Exists(s) => sender[s] \in Device /\ code[s] \in Code

Creating == {"pickCode", "checkInUse", "insert", "setCode", "setSender"}
Winning  == {"extend", "consume", "setReceiver"}
Joining  == {"lookup", "findById", "findByCode", "claim", "expire", "dropExpired"} \cup Winning

(* What a request knows where it stands, however the rows moved under it.       *)
Informed(q) ==
    /\ q.at \in Creating \cup Joining \cup {"write", "dropCode", "clearSender"} =>
          q.device \in Device
    /\ q.at \in (Creating \ {"pickCode"}) \cup Joining \cup {"write", "dropCode"} =>
          q.code \in Code
    /\ q.at \in {"setCode", "setSender", "findById", "claim", "expire", "read", "write"}
                \cup Winning => q.session \in Session /\ Exists(q.session)
    /\ q.at \in {"setCode", "setSender"} =>
          code[q.session] = q.code /\ sender[q.session] = q.device
    /\ q.at = "claim" => sender[q.session] # q.device
    /\ q.at \in Winning => status[q.session] # "WAITING" /\ receiver[q.session] = q.device
    /\ q.at = "read" => q.to \in Status
    /\ q.at = "write" => q.to \in Status \ {"WAITING"}
    /\ q.at = "clearReceiver" => q.peer \in Device

AllInformed == \A r \in Request : Informed(req[r])

IInv ==
    /\ TypeOK /\ RowsWhole /\ AllInformed
    /\ WaitingUnclaimed /\ UniqueActiveCode /\ ClaimExclusive /\ KeysTruthful

-------------------------------------------------------------------------------
LEMMA IdleIsRequest == Idle \in RequestRecord /\ Idle.at = "idle"
  BY SessionAssumption DEF Idle, RequestRecord, Point

(* What a step of a request does to the requests: its own record goes on to     *)
(* another point, or is idle again, and the others stay.                      *)
OnlyMoves(r) ==
    /\ req' \in [Request -> RequestRecord]
    /\ \A q \in Request \ {r} : req'[q] = req[q]

SameFields(r) ==
    /\ req'[r].session = req[r].session /\ req'[r].code = req[r].code
    /\ req'[r].device = req[r].device /\ req'[r].peer = req[r].peer
    /\ req'[r].to = req[r].to

LEMMA GotoMoves ==
  ASSUME req \in [Request -> RequestRecord], NEW r \in Request, NEW p \in Point, Goto(r, p)
  PROVE  OnlyMoves(r) /\ SameFields(r) /\ req'[r].at = p
<1>1. LET q == [req[r] EXCEPT !.at = p] IN
      /\ q \in RequestRecord
      /\ q.at = p /\ q.session = req[r].session /\ q.code = req[r].code
      /\ q.device = req[r].device /\ q.peer = req[r].peer /\ q.to = req[r].to
  BY DEF RequestRecord
<1>2. req' = [req EXCEPT ![r] = [req[r] EXCEPT !.at = p]]
  BY DEF Goto
<1> QED
  BY <1>1, <1>2 DEF OnlyMoves, SameFields

LEMMA ReplyMoves ==
  ASSUME req \in [Request -> RequestRecord], NEW r \in Request, Reply(r)
  PROVE  OnlyMoves(r) /\ req'[r].at = "idle"
  BY IdleIsRequest DEF Reply, OnlyMoves

LEMMA RetryMoves ==
  ASSUME req \in [Request -> RequestRecord], NEW r \in Request, Retry(r)
  PROVE  /\ OnlyMoves(r)
         /\ \/ req'[r].at = "idle"
            \/ req'[r].at = "pickCode" /\ req'[r].device = req[r].device
<1>1. CASE Reply(r)
  BY <1>1, ReplyMoves
<1>2. CASE ~Reply(r)
  <2> DEFINE q == [req[r] EXCEPT !.at = "pickCode", !.tries = req[r].tries + 1]
  <2>1. req[r].tries + 1 < MaxAttempts /\ req' = [req EXCEPT ![r] = q]
    BY <1>2 DEF Retry
  <2>2. req[r].tries + 1 \in 0..MaxAttempts
    BY <2>1, SessionAssumption DEF RequestRecord
  <2>3. q \in RequestRecord /\ q.at = "pickCode" /\ q.device = req[r].device
    BY <2>2 DEF RequestRecord, Point
  <2> QED
    BY <2>1, <2>3 DEF OnlyMoves
<1> QED
  BY <1>1, <1>2

(* findById and findByCode hand the row to the same checks.                   *)
LEMMA AdmitMoves ==
  ASSUME req \in [Request -> RequestRecord], NEW r \in Request, NEW s \in Session, Admit(r, s)
  PROVE  /\ OnlyMoves(r)
         /\ \/ req'[r].at = "idle"
            \/ /\ status[s] = "WAITING"
               /\ req'[r].at \in {"expire", "claim"}
               /\ req'[r].at = "claim" => sender[s] # req[r].device
               /\ req'[r].session = s
               /\ req'[r].code = req[r].code /\ req'[r].device = req[r].device
<1>1. CASE Reply(r)
  BY <1>1, ReplyMoves
<1>2. CASE ~Reply(r)
  <2>1. ASSUME NEW p \in {"expire", "claim"}
        PROVE  LET q == [req[r] EXCEPT !.at = p, !.session = s] IN
               /\ q \in RequestRecord
               /\ q.at = p /\ q.session = s
               /\ q.code = req[r].code /\ q.device = req[r].device
    <3>1. p \in Point
      BY DEF Point
    <3> QED
      BY <3>1 DEF RequestRecord
  <2>2. /\ status[s] = "WAITING"
        /\ \E p \in {"expire", "claim"} :
              /\ req' = [req EXCEPT ![r] = [req[r] EXCEPT !.at = p, !.session = s]]
              /\ p = "claim" => sender[s] # req[r].device
    BY <1>2 DEF Admit, OwnSession
  <2> QED
    BY <2>1, <2>2 DEF OnlyMoves
<1> QED
  BY <1>1, <1>2

-------------------------------------------------------------------------------
(* Rows only grow: what a request has learnt of a row stays true.               *)
RowsGrow ==
    \A s \in Session : Exists(s) =>
        /\ status'[s] # "NONE" /\ code'[s] = code[s] /\ sender'[s] = sender[s]
        /\ status[s] # "WAITING" => status'[s] # "WAITING" /\ receiver'[s] = receiver[s]

LEMMA StaysInformed ==
  ASSUME NEW q \in RequestRecord, Informed(q), RowsGrow
  PROVE  Informed(q)'
<1>1. CASE q.session \in Session /\ Exists(q.session)
  BY <1>1 DEF Informed, RowsGrow, Exists
<1>2. CASE ~(q.session \in Session /\ Exists(q.session))
  BY <1>2 DEF Informed, Winning
<1> QED
  BY <1>1, <1>2

(* A step that leaves the rows alone only has to account for the request that   *)
(* takes it and for the keys.                                                 *)
LEMMA RowsKept ==
  ASSUME IInv, NEW r \in Request, UNCHANGED row, OnlyMoves(r),
         overdue' \subseteq Session,
         codeKey' \in [Code -> Session \cup {None}],
         deviceKey' \in [Device -> Session \cup {None}],
         KeysTruthful', Informed(req'[r]),
         req'[r].at \in Winning =>
            req[r].at \in Winning /\ req'[r].session = req[r].session
  PROVE  IInv'
<1>1. UNCHANGED <<status, code, sender, receiver>>
  BY DEF row
<1>2. TypeOK'
  BY <1>1 DEF IInv, TypeOK, OnlyMoves
<1>3. RowsWhole' /\ WaitingUnclaimed' /\ UniqueActiveCode'
  BY <1>1 DEF IInv, RowsWhole, WaitingUnclaimed, UniqueActiveCode, Exists, IsActive
<1>4. AllInformed'
  BY <1>1 DEF IInv, AllInformed, Informed, OnlyMoves, Exists
<1>5. ClaimExclusive'
  <2>1. \A q \in Request, s \in Session : Won(q, s)' => Won(q, s)
    BY DEF Won, OnlyMoves, Winning
  <2> QED
    BY <1>1, <1>4, <2>1 DEF IInv, ClaimExclusive, AllInformed, Informed, Won, Winning
<1> QED
  BY <1>2, <1>3, <1>4, <1>5 DEF IInv

LEMMA ReadOnlyKept ==
  ASSUME IInv, NEW r \in Request, readOnly, OnlyMoves(r),
         Informed(req'[r]), req'[r].at \notin Winning
  PROVE  IInv'
<1>1. UNCHANGED row /\ UNCHANGED <<overdue, codeKey, deviceKey>>
  BY DEF readOnly
<1>2. KeysTruthful'
  BY <1>1 DEF IInv, KeysTruthful, row, Exists
<1> QED
  BY <1>1, <1>2, RowsKept DEF IInv, TypeOK

(* An update writes a status other than WAITING to a row that is there.         *)
LEMMA StatusWritten ==
  ASSUME IInv, NEW r \in Request, NEW s \in Session, NEW v \in Status \ {"WAITING"},
         Exists(s), SetStatus(s, v), UNCHANGED <<code, sender, receiver, overdue>>,
         rowsOnly, v \in Terminal \/ IndexAllows(s, code[s]),
         OnlyMoves(r), Informed(req[r])', req'[r].at \notin Winning
  PROVE  IInv'
<1>1. status' = [status EXCEPT ![s] = v] /\ UNCHANGED <<codeKey, deviceKey>>
  BY DEF SetStatus, rowsOnly
<1>2. TypeOK'
  BY <1>1 DEF IInv, TypeOK, OnlyMoves
<1>3. v # "NONE"
  BY DEF Status, Active, Terminal
<1>4. RowsWhole' /\ WaitingUnclaimed' /\ RowsGrow
  BY <1>1, <1>3 DEF IInv, TypeOK, RowsWhole, WaitingUnclaimed, Exists, RowsGrow
<1>5. AllInformed'
  BY <1>4, StaysInformed DEF IInv, TypeOK, AllInformed, OnlyMoves
<1>6. UniqueActiveCode'
  BY <1>1 DEF IInv, TypeOK, UniqueActiveCode, IndexAllows, IsActive, Active, Terminal
<1>7. ClaimExclusive'
  <2>1. \A q \in Request, t \in Session : Won(q, t)' => Won(q, t)
    BY DEF Won, OnlyMoves, Winning
  <2>2. \A q \in Request, t \in Session : Won(q, t)' => req'[q] = req[q]
    BY DEF Won, OnlyMoves, Winning
  <2> QED
    BY <2>1, <2>2 DEF IInv, ClaimExclusive
<1>8. KeysTruthful'
  BY <1>1, <1>4 DEF IInv, TypeOK, KeysTruthful, Exists, RowsGrow
<1> QED
  BY <1>2, <1>4, <1>5, <1>6, <1>7, <1>8 DEF IInv

-------------------------------------------------------------------------------
(* One lemma for the actions of each of the three handlers and for the rest.    *)
LEMMA ArriveKeeps ==
  ASSUME IInv, NEW r \in Request, Arrive(r)
  PROVE  IInv'
<1> USE SessionAssumption
<1>0. req \in [Request -> RequestRecord]
  BY DEF IInv, TypeOK
<1>1. ASSUME NEW d \in Device, Create(r, d) PROVE IInv'
  <2> DEFINE q == [Idle EXCEPT !.at = "pickCode", !.device = d]
  <2>1. q \in RequestRecord /\ q.at = "pickCode" /\ q.device = d
    BY IdleIsRequest DEF RequestRecord, Point
  <2>2. OnlyMoves(r) /\ req'[r] = q /\ readOnly
    BY <1>0, <1>1, <2>1 DEF Create, OnlyMoves
  <2> HIDE DEF q
  <2>3. Informed(q)
    BY <2>1 DEF Informed, Creating, Joining, Winning
  <2> QED
    BY <2>1, <2>2, <2>3, ReadOnlyKept DEF Winning
<1>2. ASSUME NEW c \in Code, NEW d \in Device, Join(r, c, d) PROVE IInv'
  <2> DEFINE q == [Idle EXCEPT !.at = "lookup", !.code = c, !.device = d]
  <2>1. q \in RequestRecord /\ q.at = "lookup" /\ q.code = c /\ q.device = d
    BY IdleIsRequest DEF RequestRecord, Point
  <2>2. OnlyMoves(r) /\ req'[r] = q /\ readOnly
    BY <1>0, <1>2, <2>1 DEF Join, OnlyMoves
  <2> HIDE DEF q
  <2>3. Informed(q)
    BY <2>1 DEF Informed, Creating, Joining, Winning
  <2> QED
    BY <2>1, <2>2, <2>3, ReadOnlyKept DEF Winning
<1>3. ASSUME NEW s \in Session, NEW to \in Asked, Update(r, s, to) PROVE IInv'
  <2> DEFINE q == [Idle EXCEPT !.at = "read", !.session = s, !.to = to]
  <2>1. q \in RequestRecord /\ q.at = "read" /\ q.session = s /\ q.to = to /\ to \in Status
    BY IdleIsRequest DEF RequestRecord, Point
  <2>2. OnlyMoves(r) /\ req'[r] = q /\ readOnly /\ Exists(s)
    BY <1>0, <1>3, <2>1 DEF Update, OnlyMoves
  <2> HIDE DEF q
  <2>3. Informed(q)
    BY <2>1, <2>2 DEF Informed, Creating, Joining, Winning
  <2> QED
    BY <2>1, <2>2, <2>3, ReadOnlyKept DEF Winning
<1> QED
  BY <1>1, <1>2, <1>3 DEF Arrive

LEMMA CreateKeeps ==
  ASSUME IInv, NEW r \in Request, CreateStep(r)
  PROVE  IInv'
<1> USE SessionAssumption DEF At
<1>0. req \in [Request -> RequestRecord] /\ Informed(req[r])
  BY DEF IInv, TypeOK, AllInformed
<1>1. ASSUME NEW c \in Code, PickCode(r, c) PROVE IInv'
  <2>1. req[r].device \in Device /\ readOnly
    BY <1>0, <1>1 DEF PickCode, Informed, Creating
  <2>2. CASE Retry(r)
    BY <1>0, <2>1, <2>2, RetryMoves, ReadOnlyKept DEF Informed, Creating, Joining, Winning
  <2>3. CASE req' = [req EXCEPT ![r] = [@ EXCEPT !.at = "checkInUse", !.code = c]]
    <3> DEFINE q == [req[r] EXCEPT !.at = "checkInUse", !.code = c]
    <3>1. /\ q \in RequestRecord /\ q.at = "checkInUse" /\ q.code = c
          /\ q.device = req[r].device
      BY <1>0 DEF RequestRecord, Point
    <3>2. OnlyMoves(r) /\ req'[r] = q
      BY <1>0, <2>3, <3>1 DEF OnlyMoves
    <3> HIDE DEF q
    <3> QED
      BY <2>1, <3>1, <3>2, ReadOnlyKept DEF Informed, Creating, Joining, Winning
  <2> QED
    BY <1>1, <2>2, <2>3 DEF PickCode
<1>2. CASE CheckInUse(r)
  <2>1. req[r].device \in Device /\ req[r].code \in Code /\ readOnly
    BY <1>0, <1>2 DEF CheckInUse, Informed, Creating
  <2>2. CASE Retry(r)
    BY <1>0, <2>1, <2>2, RetryMoves, ReadOnlyKept DEF Informed, Creating, Joining, Winning
  <2>3. CASE Goto(r, "insert")
    <3>1. OnlyMoves(r) /\ SameFields(r) /\ req'[r].at = "insert"
      BY <1>0, <2>3, GotoMoves DEF Point
    <3> QED
      BY <2>1, <3>1, ReadOnlyKept DEF SameFields, Informed, Creating, Joining, Winning
  <2> QED
    BY <1>2, <2>2, <2>3 DEF CheckInUse
<1>3. ASSUME NEW s \in Session, Insert(r, s), IndexAllows(s, req[r].code) PROVE IInv'
  <2> DEFINE c == req[r].code
             d == req[r].device
             q == [req[r] EXCEPT !.at = "setCode", !.session = s]
  <2>1. c \in Code /\ d \in Device /\ ~Exists(s)
    BY <1>0, <1>3 DEF Insert, Informed, Creating
  <2>2. /\ q \in RequestRecord /\ q.at = "setCode" /\ q.session = s
        /\ q.code = c /\ q.device = d
    BY <1>0 DEF RequestRecord, Point
  <2>3. /\ status' = [status EXCEPT ![s] = "WAITING"]
        /\ code' = [code EXCEPT ![s] = c]
        /\ sender' = [sender EXCEPT ![s] = d]
        /\ UNCHANGED <<receiver, overdue, codeKey, deviceKey>>
    BY <1>3 DEF Insert, SetStatus, rowsOnly
  <2>4. OnlyMoves(r) /\ req'[r] = q
    BY <1>0, <1>3, <2>2 DEF Insert, OnlyMoves
  <2> HIDE DEF c, d, q
  <2>5. TypeOK'
    BY <2>1, <2>3, <2>4 DEF IInv, TypeOK, OnlyMoves, Status, Active
  <2>6. RowsGrow /\ RowsWhole' /\ WaitingUnclaimed'
    BY <2>1, <2>3 DEF IInv, TypeOK, RowsGrow, RowsWhole, WaitingUnclaimed, Exists
  <2>7. Informed(req[r])'
    BY <2>1, <2>2, <2>3, <2>4
       DEF IInv, TypeOK, Informed, Creating, Joining, Winning, Exists
  <2>8. AllInformed'
    BY <2>4, <2>6, <2>7, StaysInformed DEF IInv, TypeOK, AllInformed, OnlyMoves
  <2>9. UniqueActiveCode'
    BY <1>3, <2>3 DEF IInv, TypeOK, UniqueActiveCode, IndexAllows, IsActive, c
  <2>10. ClaimExclusive'
    BY <2>2, <2>3, <2>4 DEF IInv, ClaimExclusive, Won, OnlyMoves, Winning
  <2>11. KeysTruthful'
    <3>1. ASSUME NEW e \in Code, codeKey'[e] # None
          PROVE  status'[codeKey'[e]] # "NONE" /\ code'[codeKey'[e]] = e
      BY <2>1, <2>3, <3>1 DEF IInv, TypeOK, KeysTruthful, Exists
    <3>2. ASSUME NEW e \in Device, deviceKey'[e] # None
          PROVE  e \in {sender'[deviceKey'[e]], receiver'[deviceKey'[e]]}
      BY <2>1, <2>3, <3>2 DEF IInv, TypeOK, KeysTruthful, RowsWhole
    <3> QED
      BY <3>1, <3>2 DEF KeysTruthful, Exists
  <2> QED
    BY <2>5, <2>6, <2>8, <2>9, <2>10, <2>11 DEF IInv
<1>4. ASSUME NEW s \in Session, Insert(r, s), ~IndexAllows(s, req[r].code) PROVE IInv'
  <2>1. Reply(r) /\ readOnly
    BY <1>4 DEF Insert, readOnly, row, rowsOnly
  <2> QED
    BY <1>0, <2>1, ReplyMoves, ReadOnlyKept DEF Informed, Creating, Joining, Winning
<1>5. CASE NoMoreIds(r)
  BY <1>0, <1>5, ReplyMoves, ReadOnlyKept DEF NoMoreIds, Informed, Creating, Joining, Winning
<1>6. CASE SetCode(r)
  <2> DEFINE s == req[r].session
             c == req[r].code
  <2>1. /\ c \in Code /\ req[r].device \in Device /\ s \in Session /\ Exists(s)
        /\ code[s] = c /\ sender[s] = req[r].device
    BY <1>0, <1>6 DEF SetCode, Informed, Creating
  <2>2. OnlyMoves(r) /\ SameFields(r) /\ req'[r].at = "setSender"
    BY <1>0, <1>6, GotoMoves DEF SetCode, Point
  <2>3. /\ codeKey' = [codeKey EXCEPT ![c] = s]
        /\ UNCHANGED row /\ UNCHANGED <<overdue, deviceKey>>
    BY <1>6 DEF SetCode, SetCodeKey
  <2>4. Informed(req'[r])
    BY <2>1, <2>2 DEF SameFields, Informed, Creating, Joining, Winning
  <2>5. KeysTruthful'
    BY <2>1, <2>3 DEF IInv, TypeOK, KeysTruthful, row, Exists
  <2> QED
    BY <2>1, <2>2, <2>3, <2>4, <2>5, RowsKept DEF IInv, TypeOK, Winning
<1>7. CASE SetSender(r)
  <2> DEFINE s == req[r].session
             d == req[r].device
  <2>1. d \in Device /\ s \in Session /\ sender[s] = d
    BY <1>0, <1>7 DEF SetSender, Informed, Creating
  <2>2. OnlyMoves(r) /\ req'[r].at = "idle"
    BY <1>0, <1>7, ReplyMoves DEF SetSender
  <2>3. /\ deviceKey' = [deviceKey EXCEPT ![d] = s]
        /\ UNCHANGED row /\ UNCHANGED <<overdue, codeKey>>
    BY <1>7 DEF SetSender, SetDeviceKey
  <2>4. Informed(req'[r])
    BY <2>2 DEF Informed, Creating, Joining, Winning
  <2>5. KeysTruthful'
    BY <2>1, <2>3 DEF IInv, TypeOK, KeysTruthful, row, Exists
  <2> QED
    BY <2>1, <2>2, <2>3, <2>4, <2>5, RowsKept DEF IInv, TypeOK, Winning
<1> QED
  BY <1>1, <1>2, <1>3, <1>4, <1>5, <1>6, <1>7 DEF CreateStep

LEMMA ClaimKeeps ==
  ASSUME IInv, NEW r \in Request, Claim(r)
  PROVE  IInv'
<1> USE SessionAssumption DEF At
<1> DEFINE s == req[r].session
           d == req[r].device
<1>0. req \in [Request -> RequestRecord] /\ Informed(req[r])
  BY DEF IInv, TypeOK, AllInformed
<1>1. /\ s \in Session /\ Exists(s) /\ sender[s] # d
      /\ d \in Device /\ req[r].code \in Code
  BY <1>0 DEF Claim, Informed, Joining
<1>2. CASE Claimable(s)
  <2>1. /\ status[s] = "WAITING"
        /\ status' = [status EXCEPT ![s] = "JOINED"]
        /\ receiver' = [receiver EXCEPT ![s] = d]
        /\ UNCHANGED <<code, sender, overdue, codeKey, deviceKey>>
        /\ Goto(r, "extend")
    BY <1>2 DEF Claim, Claimable, SetStatus, rowsOnly
  <2>2. OnlyMoves(r) /\ SameFields(r) /\ req'[r].at = "extend"
    BY <1>0, <2>1, GotoMoves DEF Point
  <2> HIDE DEF s, d
  <2>3. req'[r].session = s /\ req'[r].device = d /\ req'[r].code = req[r].code
    BY <2>2 DEF SameFields, s, d
  <2>4. TypeOK'
    BY <1>1, <2>1, <2>2 DEF IInv, TypeOK, OnlyMoves, Status, Active
  <2>5. RowsGrow /\ RowsWhole' /\ WaitingUnclaimed'
    BY <1>1, <2>1 DEF IInv, TypeOK, RowsGrow, RowsWhole, WaitingUnclaimed, Exists
  <2>6. Informed(req[r])'
    BY <1>1, <2>1, <2>2, <2>3 DEF IInv, TypeOK, Informed, Creating, Joining, Winning, Exists
  <2>7. AllInformed'
    BY <2>2, <2>5, <2>6, StaysInformed DEF IInv, TypeOK, AllInformed, OnlyMoves
  <2>8. UniqueActiveCode'
    BY <2>1 DEF IInv, TypeOK, UniqueActiveCode, IsActive, Active
  <2>9. ClaimExclusive'
    <3>1. ASSUME NEW q \in Request \ {r}, NEW t \in Session, Won(q, t)'
          PROVE  Won(q, t) /\ t # s
      <4>1. Won(q, t)
        BY <2>2, <3>1 DEF Won, OnlyMoves
      <4>2. status[t] # "WAITING"
        BY <4>1 DEF IInv, AllInformed, Informed, Won, Winning
      <4> QED
        BY <2>1, <4>1, <4>2
    <3>2. ASSUME NEW t \in Session, Won(r, t)' PROVE t = s
      BY <2>3, <3>2 DEF Won
    <3>3. \A q \in Request : \A t \in Session : Won(q, t)' => receiver'[t] = req'[q].device
      BY <2>7 DEF AllInformed, Informed, Won, Winning
    <3>4. \A q, u \in Request : \A t \in Session : Won(q, t)' /\ Won(u, t)' => q = u
      BY <3>1, <3>2 DEF IInv, ClaimExclusive
    <3> QED
      BY <3>3, <3>4 DEF ClaimExclusive
  <2>10. KeysTruthful'
    <3>1. ASSUME NEW e \in Code, codeKey'[e] # None
          PROVE  status'[codeKey'[e]] # "NONE" /\ code'[codeKey'[e]] = e
      BY <2>1, <3>1 DEF IInv, TypeOK, KeysTruthful, Exists
    <3>2. ASSUME NEW e \in Device, deviceKey'[e] # None
          PROVE  e \in {sender'[deviceKey'[e]], receiver'[deviceKey'[e]]}
      <4>1. e # None /\ receiver[s] = None
        BY <1>1, <2>1 DEF IInv, WaitingUnclaimed
      <4> QED
        BY <1>1, <2>1, <3>2, <4>1 DEF IInv, TypeOK, KeysTruthful
    <3> QED
      BY <3>1, <3>2 DEF KeysTruthful, Exists
  <2> QED
    BY <2>4, <2>5, <2>7, <2>8, <2>9, <2>10 DEF IInv
<1>3. CASE ~Claimable(s)
  <2>1. Reply(r) /\ readOnly
    BY <1>3 DEF Claim, readOnly, row, rowsOnly
  <2> QED
    BY <1>0, <2>1, ReplyMoves, ReadOnlyKept DEF Informed, Creating, Joining, Winning
<1> QED
  BY <1>2, <1>3

(* Deleting a key, or naming in it a session the device is in, keeps the keys    *)
(* truthful.                                                                  *)
LEMMA CodeKeyDropped ==
  ASSUME IInv, NEW c \in Code, SetCodeKey(c, None), UNCHANGED row, UNCHANGED deviceKey
  PROVE  KeysTruthful' /\ codeKey' \in [Code -> Session \cup {None}]
  BY DEF IInv, TypeOK, KeysTruthful, SetCodeKey, row, Exists

LEMMA DeviceKeySet ==
  ASSUME IInv, NEW d \in Device, NEW s \in Session \cup {None}, SetDeviceKey(d, s),
         s # None => d \in {sender[s], receiver[s]}, UNCHANGED row, UNCHANGED codeKey
  PROVE  KeysTruthful' /\ deviceKey' \in [Device -> Session \cup {None}]
  BY DEF IInv, TypeOK, KeysTruthful, SetDeviceKey, row, Exists

LEMMA JoinKeeps ==
  ASSUME IInv, NEW r \in Request, JoinStep(r)
  PROVE  IInv'
<1> USE SessionAssumption DEF At
<1> DEFINE s == req[r].session
<1>0. req \in [Request -> RequestRecord] /\ Informed(req[r]) /\ TypeOK
  BY DEF IInv, TypeOK, AllInformed
<1>1. CASE Lookup(r)
  <2> DEFINE c == req[r].code
  <2>1. c \in Code /\ req[r].device \in Device /\ readOnly
    BY <1>0, <1>1 DEF Lookup, Informed, Joining
  <2>2. CASE Goto(r, "findByCode")
    <3>1. OnlyMoves(r) /\ SameFields(r) /\ req'[r].at = "findByCode"
      BY <1>0, <2>2, GotoMoves DEF Point
    <3> QED
      BY <2>1, <3>1, ReadOnlyKept DEF SameFields, Informed, Creating, Joining, Winning
  <2>3. CASE ~Goto(r, "findByCode")
    <3> DEFINE t == codeKey[c]
               q == [req[r] EXCEPT !.at = "findById", !.session = t]
    <3>1. t # None /\ req' = [req EXCEPT ![r] = q]
      BY <1>1, <2>3 DEF Lookup
    <3>2. t \in Session /\ Exists(t)
      BY <2>1, <3>1 DEF IInv, TypeOK, KeysTruthful
    <3>3. /\ q \in RequestRecord /\ q.at = "findById" /\ q.session = t
          /\ q.code = c /\ q.device = req[r].device
      BY <1>0, <3>2 DEF RequestRecord, Point
    <3>4. OnlyMoves(r) /\ req'[r] = q
      BY <1>0, <3>1, <3>3 DEF OnlyMoves
    <3> HIDE DEF q, t
    <3>5. Informed(q)
      BY <2>1, <3>2, <3>3 DEF Informed, Creating, Joining, Winning
    <3> QED
      BY <2>1, <3>3, <3>4, <3>5, ReadOnlyKept DEF Winning
  <2> QED
    BY <2>2, <2>3
<1>2. ASSUME NEW t \in Session, Admit(r, t), readOnly,
             req[r].code \in Code, req[r].device \in Device
      PROVE  IInv'
  <2>1. status[t] = "WAITING" => Exists(t)
    BY DEF Exists
  <2> QED
    BY <1>0, <1>2, <2>1, AdmitMoves, ReadOnlyKept DEF Informed, Creating, Joining, Winning
<1>3. CASE FindById(r)
  <2>1. s \in Session /\ req[r].code \in Code /\ req[r].device \in Device
    BY <1>0, <1>3 DEF FindById, Informed, Joining
  <2> QED
    BY <1>2, <1>3, <2>1 DEF FindById
<1>4. CASE FindByCode(r)
  <2>1. req[r].code \in Code /\ req[r].device \in Device /\ readOnly
    BY <1>0, <1>4 DEF FindByCode, Informed, Joining
  <2>2. CASE Reply(r)
    BY <1>0, <2>1, <2>2, ReplyMoves, ReadOnlyKept DEF Informed, Creating, Joining, Winning
  <2> QED
    BY <1>2, <1>4, <2>1, <2>2 DEF FindByCode
<1>5. CASE Claim(r)
  BY <1>5, ClaimKeeps
<1>6. CASE Extend(r)
  <2>1. Informed(req[r]) /\ req[r].at = "extend" /\ UNCHANGED row
        /\ UNCHANGED <<codeKey, deviceKey>> /\ overdue' \subseteq Session
    BY <1>0, <1>6 DEF Extend, rowsOnly, TypeOK
  <2>2. OnlyMoves(r) /\ SameFields(r) /\ req'[r].at = "consume"
    BY <1>0, <1>6, GotoMoves DEF Extend, Point
  <2>3. Informed(req'[r])
    BY <2>1, <2>2 DEF SameFields, Informed, Creating, Joining, Winning
  <2>4. KeysTruthful'
    BY <2>1 DEF IInv, KeysTruthful, row, Exists
  <2> QED
    BY <1>0, <2>1, <2>2, <2>3, <2>4, RowsKept DEF TypeOK, SameFields, Winning
<1>7. CASE Consume(r)
  <2>1. /\ req[r].at = "consume" /\ req[r].code \in Code
        /\ UNCHANGED row /\ UNCHANGED <<overdue, deviceKey>>
        /\ SetCodeKey(req[r].code, None)
    BY <1>0, <1>7 DEF Consume, Informed, Joining, Winning
  <2>2. OnlyMoves(r) /\ SameFields(r) /\ req'[r].at = "setReceiver"
    BY <1>0, <1>7, GotoMoves DEF Consume, Point
  <2>3. Informed(req'[r])
    BY <1>0, <2>1, <2>2 DEF SameFields, Informed, Creating, Joining, Winning
  <2> QED
    BY <1>0, <2>1, <2>2, <2>3, CodeKeyDropped, RowsKept DEF TypeOK, SameFields, Winning
<1>8. CASE SetReceiver(r)
  <2>1. /\ s \in Session /\ req[r].device \in Device /\ receiver[s] = req[r].device
        /\ UNCHANGED row /\ UNCHANGED <<overdue, codeKey>>
        /\ SetDeviceKey(req[r].device, s)
    BY <1>0, <1>8 DEF SetReceiver, Informed, Joining, Winning
  <2>2. OnlyMoves(r) /\ req'[r].at = "idle"
    BY <1>0, <1>8, ReplyMoves DEF SetReceiver
  <2>3. Informed(req'[r])
    BY <2>2 DEF Informed, Creating, Joining, Winning
  <2> QED
    BY <1>0, <2>1, <2>2, <2>3, DeviceKeySet, RowsKept DEF TypeOK, Winning
<1>9. CASE Expire(r)
  <2>1. s \in Session /\ Exists(s) /\ req[r].code \in Code /\ req[r].device \in Device
    BY <1>0, <1>9 DEF Expire, Informed, Joining
  <2>2. /\ SetStatus(s, "EXPIRED") /\ UNCHANGED <<code, sender, receiver, overdue>>
        /\ rowsOnly /\ "EXPIRED" \in Terminal /\ "EXPIRED" \in Status \ {"WAITING"}
    BY <1>9 DEF Expire, Status, Terminal
  <2>3. OnlyMoves(r) /\ SameFields(r) /\ req'[r].at = "dropExpired"
    BY <1>0, <1>9, GotoMoves DEF Expire, Point
  <2>4. Informed(req[r])'
    BY <2>1, <2>3 DEF SameFields, Informed, Creating, Joining, Winning
  <2> QED
    BY <2>1, <2>2, <2>3, <2>4, StatusWritten DEF Winning
<1>10. CASE DropExpired(r)
  <2>1. /\ req[r].code \in Code /\ UNCHANGED row /\ UNCHANGED <<overdue, deviceKey>>
        /\ SetCodeKey(req[r].code, None)
    BY <1>0, <1>10 DEF DropExpired, Informed, Joining
  <2>2. OnlyMoves(r) /\ req'[r].at = "idle"
    BY <1>0, <1>10, ReplyMoves DEF DropExpired
  <2>3. Informed(req'[r])
    BY <2>2 DEF Informed, Creating, Joining, Winning
  <2> QED
    BY <1>0, <2>1, <2>2, <2>3, CodeKeyDropped, RowsKept DEF TypeOK, Winning
<1> QED
  BY <1>1, <1>3, <1>4, <1>5, <1>6, <1>7, <1>8, <1>9, <1>10 DEF JoinStep

LEMMA UpdateKeeps ==
  ASSUME IInv, NEW r \in Request, UpdateStep(r)
  PROVE  IInv'
<1> USE SessionAssumption DEF At
<1> DEFINE s == req[r].session
           v == req[r].to
<1>0. req \in [Request -> RequestRecord] /\ Informed(req[r]) /\ TypeOK
  BY DEF IInv, TypeOK, AllInformed
<1>1. CASE Read(r)
  <2>1. s \in Session /\ Exists(s) /\ v \in Status /\ readOnly
    BY <1>0, <1>1 DEF Read, Informed
  <2>2. CASE Reply(r)
    BY <1>0, <2>1, <2>2, ReplyMoves, ReadOnlyKept DEF Informed, Creating, Joining, Winning
  <2>3. CASE ~Reply(r)
    <3> DEFINE q == [req[r] EXCEPT !.at = "write", !.code = code[s], !.device = sender[s],
                                   !.peer = receiver[s]]
    <3>1. IsValidTransition(status[s], v) /\ req' = [req EXCEPT ![r] = q]
      BY <1>1, <2>3 DEF Read
    <3>2. v # "WAITING"
      BY <2>1, <3>1 DEF IInv, TypeOK, Exists, IsValidTransition, ValidNext, Status, Active, Terminal
    <3>3. code[s] \in Code /\ sender[s] \in Device /\ receiver[s] \in Device \cup {None}
      BY <2>1 DEF IInv, TypeOK, RowsWhole
    <3>4. /\ q \in RequestRecord /\ q.at = "write" /\ q.session = s /\ q.to = v
          /\ q.code = code[s] /\ q.device = sender[s]
      <4>1. req[r] \in RequestRecord
        BY <1>0
      <4>2. "write" \in Point
        BY DEF Point
      <4> QED
        BY <4>1, <4>2, <3>3 DEF RequestRecord
    <3>5. OnlyMoves(r) /\ req'[r] = q
      BY <1>0, <3>1, <3>4 DEF OnlyMoves
    <3> HIDE DEF q, s, v
    <3>6. Informed(q)
      BY <2>1, <3>2, <3>3, <3>4 DEF Informed, Creating, Joining, Winning
    <3> QED
      BY <2>1, <3>4, <3>5, <3>6, ReadOnlyKept DEF Winning
  <2> QED
    BY <2>2, <2>3
<1>2. CASE Write(r)
  <2>1. /\ s \in Session /\ Exists(s) /\ v \in Status \ {"WAITING"}
        /\ req[r].code \in Code /\ req[r].device \in Device
    BY <1>0, <1>2 DEF Write, Informed
  <2>2. /\ UNCHANGED <<code, sender, receiver, overdue>> /\ rowsOnly
    BY <1>2 DEF Write
  <2>3. CASE Goto(r, "dropCode")
    <3>1. OnlyMoves(r) /\ SameFields(r) /\ req'[r].at = "dropCode"
      BY <1>0, <2>3, GotoMoves DEF Point
    <3>2. req'[r].at # "idle"
      BY <3>1
    <3>3. ~Reply(r)
      BY <1>0, <3>2, ReplyMoves
    <3>4. SetStatus(s, v) /\ (v \in Terminal \/ IndexAllows(s, code[s]))
      BY <1>2, <3>3 DEF Write
    <3>5. Informed(req[r])'
      BY <2>1, <3>1 DEF SameFields, Informed, Creating, Joining, Winning
    <3> QED
      BY <2>1, <2>2, <3>1, <3>4, <3>5, StatusWritten DEF Winning
  <2>4. CASE Reply(r)
    <3>1. OnlyMoves(r) /\ req'[r].at = "idle"
      BY <1>0, <2>4, ReplyMoves
    <3>2. Informed(req[r])' /\ Informed(req'[r])
      BY <3>1 DEF Informed, Creating, Joining, Winning
    <3>3. CASE UNCHANGED status
      BY <2>2, <3>1, <3>2, <3>3, ReadOnlyKept DEF readOnly, row, rowsOnly, Winning
    <3>4. CASE SetStatus(s, v) /\ (v \in Terminal \/ IndexAllows(s, code[s]))
      BY <2>1, <2>2, <3>1, <3>2, <3>4, StatusWritten DEF Winning
    <3> QED
      BY <1>2, <3>3, <3>4 DEF Write
  <2> QED
    BY <1>2, <2>3, <2>4 DEF Write
<1>3. CASE DropCode(r)
  <2>1. /\ req[r].code \in Code /\ req[r].device \in Device
        /\ UNCHANGED row /\ UNCHANGED <<overdue, deviceKey>>
        /\ SetCodeKey(req[r].code, None)
    BY <1>0, <1>3 DEF DropCode, Informed
  <2>2. OnlyMoves(r) /\ SameFields(r) /\ req'[r].at = "clearSender"
    BY <1>0, <1>3, GotoMoves DEF DropCode, Point
  <2>3. Informed(req'[r])
    BY <2>1, <2>2 DEF SameFields, Informed, Creating, Joining, Winning
  <2> QED
    BY <1>0, <2>1, <2>2, <2>3, CodeKeyDropped, RowsKept DEF TypeOK, Winning
<1>4. CASE ClearSender(r)
  <2>1. /\ req[r].device \in Device /\ UNCHANGED row /\ UNCHANGED <<overdue, codeKey>>
        /\ SetDeviceKey(req[r].device, None)
    BY <1>0, <1>4 DEF ClearSender, Informed
  <2>2. OnlyMoves(r) /\ (req'[r].at = "idle" \/ (req'[r].at = "clearReceiver" /\ SameFields(r)
                                                /\ req[r].peer # None))
    BY <1>0, <1>4, GotoMoves, ReplyMoves DEF ClearSender, Point
  <2>3. req[r].peer \in Device \cup {None}
    BY <1>0 DEF RequestRecord
  <2>4. Informed(req'[r])
    BY <2>2, <2>3 DEF SameFields, Informed, Creating, Joining, Winning
  <2> QED
    BY <1>0, <2>1, <2>2, <2>4, DeviceKeySet, RowsKept DEF TypeOK, Winning
<1>5. CASE ClearReceiver(r)
  <2>1. /\ req[r].peer \in Device /\ UNCHANGED row /\ UNCHANGED <<overdue, codeKey>>
        /\ SetDeviceKey(req[r].peer, None)
    BY <1>0, <1>5 DEF ClearReceiver, Informed
  <2>2. OnlyMoves(r) /\ req'[r].at = "idle"
    BY <1>0, <1>5, ReplyMoves DEF ClearReceiver
  <2>3. Informed(req'[r])
    BY <2>2 DEF Informed, Creating, Joining, Winning
  <2> QED
    BY <1>0, <2>1, <2>2, <2>3, DeviceKeySet, RowsKept DEF TypeOK, Winning
<1> QED
  BY <1>1, <1>2, <1>3, <1>4, <1>5 DEF UpdateStep

LEMMA FailKeeps ==
  ASSUME IInv, NEW r \in Request, Fail(r)
  PROVE  IInv'
<1>1. req \in [Request -> RequestRecord]
  BY DEF IInv, TypeOK
<1> QED
  BY <1>1, ReplyMoves, ReadOnlyKept DEF Fail, Informed, Creating, Joining, Winning

(* Time, the cron job and Redis take no request's step.                        *)
LEMMA ClockKeeps ==
  ASSUME IInv, NEW s \in Session, TimePasses(s)
  PROVE  IInv'
  BY DEF TimePasses, rowsOnly, row, IInv, TypeOK, RowsWhole, AllInformed, Informed,
         WaitingUnclaimed, UniqueActiveCode, ClaimExclusive, Won, KeysTruthful, Exists, IsActive

LEMMA RedisKeeps ==
  ASSUME IInv, RedisDrops
  PROVE  IInv'
<1>1. UNCHANGED <<status, code, sender, receiver, overdue, req>>
  BY DEF RedisDrops, row
<1>2. /\ KeysTruthful' /\ codeKey' \in [Code -> Session \cup {None}]
      /\ deviceKey' \in [Device -> Session \cup {None}]
  <2>1. CASE \E c \in Code : SetCodeKey(c, None) /\ UNCHANGED deviceKey
    BY <1>1, <2>1, CodeKeyDropped DEF IInv, TypeOK, row
  <2>2. CASE \E d \in Device : SetDeviceKey(d, None) /\ UNCHANGED codeKey
    BY <1>1, <2>2, DeviceKeySet DEF IInv, TypeOK, row
  <2> QED
    BY <2>1, <2>2 DEF RedisDrops
<1> QED
  BY <1>1, <1>2 DEF IInv, TypeOK, RowsWhole, AllInformed, Informed,
         WaitingUnclaimed, UniqueActiveCode, ClaimExclusive, Won, Exists, IsActive

LEMMA CronKeeps ==
  ASSUME IInv, ExpireStale
  PROVE  IInv'
<1>1. /\ status' = [s \in Session |-> IF s \in Stale THEN "EXPIRED" ELSE status[s]]
      /\ \A s \in Stale : s \in Session /\ status[s] = "WAITING"
      /\ UNCHANGED <<code, sender, receiver, overdue, req, codeKey, deviceKey>>
  BY DEF ExpireStale, Stale, rowsOnly, IInv, TypeOK
<1>2. TypeOK'
  BY <1>1 DEF IInv, TypeOK, Status, Terminal
<1>3. RowsGrow /\ RowsWhole' /\ WaitingUnclaimed'
  BY <1>1 DEF IInv, TypeOK, RowsGrow, RowsWhole, WaitingUnclaimed, Exists
<1>4. AllInformed'
  BY <1>1, <1>3, StaysInformed DEF IInv, TypeOK, AllInformed
<1>5. UniqueActiveCode'
  BY <1>1 DEF IInv, TypeOK, UniqueActiveCode, IsActive, Active
<1>6. ClaimExclusive' /\ KeysTruthful'
  BY <1>1, <1>3 DEF IInv, TypeOK, ClaimExclusive, Won, KeysTruthful, Exists, RowsGrow
<1> QED
  BY <1>2, <1>3, <1>4, <1>5, <1>6 DEF IInv

-------------------------------------------------------------------------------
(* The initial state.                                                         *)
LEMMA InitIInv == Init => IInv
<1> SUFFICES ASSUME Init PROVE IInv
  OBVIOUS
<1> USE SessionAssumption DEF Init
<1>1. \A r \in Request : req[r] = Idle /\ req[r].at = "idle"
  BY IdleIsRequest
<1>2. TypeOK
  BY IdleIsRequest DEF TypeOK
<1>3. RowsWhole /\ WaitingUnclaimed /\ UniqueActiveCode
  BY DEF RowsWhole, WaitingUnclaimed, UniqueActiveCode, Exists, IsActive, Active
<1>4. AllInformed
  BY <1>1 DEF AllInformed, Informed, Creating, Joining, Winning
<1>5. ClaimExclusive
  BY <1>1 DEF ClaimExclusive, Won
<1>6. KeysTruthful
  BY DEF KeysTruthful
<1> QED
  BY <1>2, <1>3, <1>4, <1>5, <1>6 DEF IInv

(* Every step.                                                                *)
LEMMA NextIInv == IInv /\ [Next]_vars => IInv'
<1> SUFFICES ASSUME IInv, [Next]_vars PROVE IInv'
  OBVIOUS
<1>1. CASE UNCHANGED vars
  BY <1>1 DEF vars, row, IInv, TypeOK, RowsWhole, AllInformed, Informed, WaitingUnclaimed,
              UniqueActiveCode, ClaimExclusive, Won, KeysTruthful, Exists, IsActive
<1>2. CASE Next
  BY <1>2, ArriveKeeps, CreateKeeps, JoinKeeps, UpdateKeeps, FailKeeps, ClockKeeps,
     CronKeeps, RedisKeeps DEF Next
<1> QED
  BY <1>1, <1>2

(* The invariant that carries the rest: rows are whole, and whatever a request   *)
(* has learnt at one await is still true at the next one.                      *)
THEOREM Inductive == Spec => []IInv
  BY InitIInv, NextIInv, PTL DEF Spec

(* Every variable keeps its type: in particular no late write of a request puts  *)
(* anything but a session under a key, or anything but a status in a row.       *)
THEOREM TypeCorrect == Spec => []TypeOK
<1>1. IInv => TypeOK
  BY DEF IInv
<1> QED
  BY <1>1, Inductive, PTL

(* A code names at most one active session, although generateUniqueCode looks    *)
(* in one round trip and the insert writes in another, and updateStatus writes   *)
(* without looking: what holds it is the partial index of migration 003.        *)
THEOREM CodesUnique == Spec => []UniqueActiveCode
<1>1. IInv => UniqueActiveCode
  BY DEF IInv
<1> QED
  BY <1>1, Inductive, PTL

(* However many devices type the same code at once, one joinSession at most      *)
(* comes back with the session, and its row names that device.                 *)
THEOREM ClaimsExclusive == Spec => []ClaimExclusive
<1>1. IInv => ClaimExclusive
  BY DEF IInv
<1> QED
  BY <1>1, Inductive, PTL

(* No interleaving of updates, expiries and joins puts a session with a receiver *)
(* back on offer (the unconditional UPDATEs at session.service.ts:154, 264).     *)
THEOREM OffersUnclaimed == Spec => []WaitingUnclaimed
<1>1. IInv => WaitingUnclaimed
  BY DEF IInv
<1> QED
  BY <1>1, Inductive, PTL

(* A Redis key, whenever it was written and whatever was lost since, names a     *)
(* session with that code, or of that device (cache.service.ts).               *)
THEOREM KeysAreTruthful == Spec => []KeysTruthful
<1>1. IInv => KeysTruthful
  BY DEF IInv
<1> QED
  BY <1>1, Inductive, PTL

-------------------------------------------------------------------------------
(* The pairing: an insert offers, a claim takes, all else withdraws at most.    *)
Open == {s \in Session : status[s] = "WAITING"}

LEMMA Withdrawn ==
  ASSUME UNCHANGED <<sender, receiver>>,
         \A s \in Session : status'[s] = "WAITING" => status[s] = "WAITING"
  PROVE  P!Withdraw
  BY DEF P!Withdraw

LEMMA InsertOffers ==
  ASSUME IInv, NEW r \in Request, NEW s \in Session, Insert(r, s)
  PROVE  P!PNext
<1> USE DEF At
<1>0. req[r].device \in Device /\ ~Exists(s)
  BY DEF Insert, IInv, AllInformed, Informed, Creating
<1>1. CASE IndexAllows(s, req[r].code) /\ SetStatus(s, "WAITING")
           /\ sender' = [sender EXCEPT ![s] = req[r].device]
  <2>1. sender[s] = None /\ UNCHANGED receiver
    BY <1>0 DEF Insert, IInv, RowsWhole
  <2>2. Open' = Open \cup {s}
    BY <1>1 DEF SetStatus, IInv, TypeOK, Open
  <2>3. P!Offer(s, req[r].device)
    BY <1>1, <2>1, <2>2 DEF P!Offer, Open
  <2> QED
    BY <1>0, <2>3 DEF P!PNext, P!Offer
<1>2. CASE UNCHANGED <<status, sender>>
  <2>1. P!Withdraw
    BY <1>2, Withdrawn DEF Insert
  <2> QED
    BY <2>1 DEF P!PNext
<1> QED
  BY <1>1, <1>2 DEF Insert

LEMMA ClaimTakes ==
  ASSUME IInv, NEW r \in Request, Claim(r)
  PROVE  P!PNext
<1> USE DEF At
<1> DEFINE s == req[r].session
           d == req[r].device
<1>0. s \in Session /\ d \in Device /\ sender[s] # d
  BY DEF Claim, IInv, AllInformed, Informed, Joining
<1>1. CASE Claimable(s)
  <2>1. /\ status[s] = "WAITING" /\ status' = [status EXCEPT ![s] = "JOINED"]
        /\ receiver' = [receiver EXCEPT ![s] = d] /\ UNCHANGED sender
    BY <1>1 DEF Claim, Claimable, SetStatus
  <2> HIDE DEF s, d
  <2>2. Open' = Open \ {s} /\ s \in Open
    BY <1>0, <2>1 DEF IInv, TypeOK, Open
  <2>3. P!Take(s, d)
    BY <1>0, <2>1, <2>2 DEF P!Take, Open
  <2> QED
    BY <1>0, <2>3 DEF P!PNext, P!Take
<1>2. CASE ~Claimable(s)
  <2>1. P!Withdraw
    BY <1>2, Withdrawn DEF Claim
  <2> QED
    BY <2>1 DEF P!PNext
<1> QED
  BY <1>1, <1>2

LEMMA StepPairs == IInv /\ [Next]_vars => [P!PNext]_(P!pvars)
<1> SUFFICES ASSUME IInv, [Next]_vars PROVE P!PNext \/ UNCHANGED P!pvars
  OBVIOUS
<1>0. P!Withdraw => P!PNext
  BY DEF P!PNext
<1>1. UNCHANGED row => P!PNext
  BY <1>0, Withdrawn DEF row
<1>2. ASSUME NEW r \in Request, Write(r) PROVE P!PNext
  <2>1. req[r].to # "WAITING" /\ UNCHANGED <<sender, receiver>>
    BY <1>2 DEF Write, IInv, AllInformed, Informed, At
  <2>2. UNCHANGED status \/ SetStatus(req[r].session, req[r].to)
    BY <1>2 DEF Write
  <2>3. \A s \in Session : status'[s] = "WAITING" => status[s] = "WAITING"
    BY <2>1, <2>2 DEF SetStatus, IInv, TypeOK
  <2> QED
    BY <1>0, <2>1, <2>3, Withdrawn
<1>3. ASSUME NEW r \in Request, Expire(r) PROVE P!PNext
  <2>1. \A s \in Session : status'[s] = "WAITING" => status[s] = "WAITING"
    BY <1>3 DEF Expire, SetStatus, IInv, TypeOK
  <2> QED
    BY <1>0, <1>3, <2>1, Withdrawn DEF Expire
<1>4. CASE ExpireStale
  <2>1. \A s \in Session : status'[s] = "WAITING" => status[s] = "WAITING"
    BY <1>4 DEF ExpireStale
  <2> QED
    BY <1>0, <1>4, <2>1, Withdrawn DEF ExpireStale
<1>5. ASSUME NEW r \in Request, CreateStep(r) PROVE P!PNext
  <2>1. CASE \E s \in Session : Insert(r, s)
    BY <2>1, InsertOffers
  <2>2. CASE ~\E s \in Session : Insert(r, s)
    BY <1>1, <1>5, <2>2 DEF CreateStep, PickCode, CheckInUse, NoMoreIds, SetCode, SetSender, readOnly
  <2> QED
    BY <2>1, <2>2
<1>6. ASSUME NEW r \in Request, JoinStep(r) PROVE P!PNext
  BY <1>1, <1>3, <1>6, ClaimTakes
     DEF JoinStep, Lookup, FindById, FindByCode, Extend, Consume, SetReceiver, DropExpired, readOnly
<1>7. ASSUME NEW r \in Request, UpdateStep(r) PROVE P!PNext
  BY <1>1, <1>2, <1>7 DEF UpdateStep, Read, DropCode, ClearSender, ClearReceiver, readOnly
<1>8. ASSUME NEW r \in Request, Arrive(r) \/ Fail(r) PROVE P!PNext
  BY <1>1, <1>8 DEF Arrive, Create, Join, Update, Fail, readOnly
<1>9. ASSUME NEW s \in Session, TimePasses(s) PROVE P!PNext
  BY <1>1, <1>9 DEF TimePasses
<1>10. CASE RedisDrops
  BY <1>1, <1>10 DEF RedisDrops
<1>11. CASE UNCHANGED vars
  BY <1>1, <1>11 DEF vars
<1> QED
  BY <1>4, <1>5, <1>6, <1>7, <1>8, <1>9, <1>10, <1>11 DEF Next

(* The service is a Pairing: whatever requests interleave and fail, a session    *)
(* is offered once, taken at most once, and its two ends never change           *)
(* (session.service.ts createSession, joinSession, updateStatus).              *)
THEOREM Pairs == Spec => ImplementsPairing
<1>1. Init => P!PInit
  BY DEF Init, P!PInit
<1> QED
  BY <1>1, StepPairs, Inductive, PTL DEF Spec, ImplementsPairing, P!PSpec

-------------------------------------------------------------------------------
(* How long a request can take: the round trips it has before it at each await. *)
RoundsAt(p) ==
    CASE p \in {"setSender", "setReceiver", "dropExpired", "clearReceiver"} -> 1
      [] p \in {"setCode", "consume", "expire", "clearSender", "checkInUse"} -> 2
      [] p \in {"insert", "extend", "dropCode", "pickCode"} -> 3
      [] p \in {"claim", "write"} -> 4
      [] p \in {"findById", "findByCode", "read"} -> 5
      [] p = "lookup" -> 6
      [] OTHER -> 0

(* Looking for a code, two more for each attempt that is left.                   *)
Attempting == {"pickCode", "checkInUse"}
RoundsLeft(q) ==
    RoundsAt(q.at) + (IF q.at \in Attempting THEN 2 * (MaxAttempts - q.tries) ELSE 0)

MaxRounds == 2 * MaxAttempts + 4

TriesLeft == \A r \in Request : req[r].at \in Attempting => req[r].tries < MaxAttempts

(* Each step of a request takes one of them, those of the others none.            *)
RequestsShorten ==
    [][ \A r \in Request : ~At(r, "idle") =>
          req'[r] = req[r] \/ RoundsLeft(req'[r]) < RoundsLeft(req[r]) ]_vars

(* What a step of request r does: it goes on with fewer round trips before it.      *)
Shortens(r) ==
    /\ \A q \in Request \ {r} : req'[q] = req[q]
    /\ RoundsLeft(req'[r]) < RoundsLeft(req[r])
    /\ req'[r].at \in Attempting => req'[r].tries < MaxAttempts

Types == req \in [Request -> RequestRecord]

LEMMA RoundsType ==
  ASSUME NEW q \in RequestRecord
  PROVE  RoundsLeft(q) \in 0..MaxRounds
<1>1. RoundsAt(q.at) \in 0..6
  BY DEF RoundsAt
<1>2. q.at \in Attempting => RoundsAt(q.at) \in 0..3
  BY DEF RoundsAt, Attempting
<1>3. q.tries \in 0..MaxAttempts /\ MaxAttempts \in Nat \ {0}
  BY SessionAssumption DEF RequestRecord
<1> QED
  BY <1>1, <1>2, <1>3 DEF RoundsLeft, MaxRounds

(* A request that is not idle and not looking for a code, by where it stands.     *)
LEMMA RoundsElsewhere ==
  ASSUME NEW q, q.at \notin Attempting
  PROVE  RoundsLeft(q) = RoundsAt(q.at) + 0
  BY DEF RoundsLeft

LEMMA IdleShortens ==
  ASSUME Types, NEW r \in Request, ~At(r, "idle"), Reply(r)
  PROVE  Shortens(r)
<1>1. req[r] \in RequestRecord /\ req[r].at \in Point \ {"idle"}
  BY DEF Types, RequestRecord, At
<1>2. RoundsAt(req[r].at) \in 1..6
  BY <1>1 DEF RoundsAt, Point
<1>3. RoundsLeft(req[r]) >= 1
  <2>1. req[r].tries \in 0..MaxAttempts /\ MaxAttempts \in Nat
    BY <1>1, SessionAssumption DEF RequestRecord
  <2> QED
    BY <1>2, <2>1 DEF RoundsLeft
<1>4. RoundsLeft(req[r]) \in Int
  BY <1>1, RoundsType, SessionAssumption DEF MaxRounds
<1>5. req' = [req EXCEPT ![r] = Idle] /\ Idle.at = "idle"
  BY IdleIsRequest DEF Reply
<1>6. RoundsLeft(Idle) = 0
  BY <1>5 DEF RoundsLeft, RoundsAt, Attempting
<1> QED
  BY <1>3, <1>4, <1>5, <1>6 DEF Shortens, Attempting, Types

LEMMA MoveShortens ==
  ASSUME Types, NEW r \in Request, NEW q, req' = [req EXCEPT ![r] = q],
         q.at \notin Attempting, RoundsAt(q.at) < RoundsAt(req[r].at),
         RoundsAt(q.at) \in Nat, RoundsAt(req[r].at) \in Nat,
         req[r].at \notin Attempting
  PROVE  Shortens(r)
  BY RoundsElsewhere DEF Shortens, Types

LEMMA GotoShortens ==
  ASSUME Types, NEW r \in Request, NEW p, Goto(r, p),
         p \notin Attempting, RoundsAt(p) < RoundsAt(req[r].at),
         RoundsAt(p) \in Nat, RoundsAt(req[r].at) \in Nat,
         req[r].at \notin Attempting
  PROVE  Shortens(r)
<1> DEFINE q == [req[r] EXCEPT !.at = p]
<1>1. q.at = p
  BY DEF Types, RequestRecord
<1>2. req' = [req EXCEPT ![r] = q]
  BY DEF Goto
<1> HIDE DEF q
<1> QED
  BY <1>1, <1>2, MoveShortens

LEMMA RetryShortens ==
  ASSUME Types, NEW r \in Request, req[r].at \in Attempting, Retry(r)
  PROVE  Shortens(r)
<1>1. CASE Reply(r)
  BY <1>1, IdleShortens DEF At, Attempting
<1>2. CASE ~Reply(r)
  <2> DEFINE q == [req[r] EXCEPT !.at = "pickCode", !.tries = req[r].tries + 1]
  <2>1. req[r].tries + 1 < MaxAttempts /\ req' = [req EXCEPT ![r] = q]
    BY <1>2 DEF Retry
  <2>2. req[r].tries \in Nat /\ MaxAttempts \in Nat
    BY SessionAssumption DEF Types, RequestRecord
  <2>3. q.at = "pickCode" /\ q.tries = req[r].tries + 1
    BY DEF Types, RequestRecord
  <2> HIDE DEF q
  <2>4. RoundsLeft(q) = 3 + 2 * (MaxAttempts - (req[r].tries + 1))
    BY <2>3 DEF RoundsLeft, RoundsAt, Attempting
  <2>5. RoundsLeft(req[r]) >= 2 + 2 * (MaxAttempts - req[r].tries)
    BY <2>2 DEF RoundsLeft, RoundsAt, Attempting
  <2>6. RoundsLeft(q) < RoundsLeft(req[r])
    <3>1. RoundsLeft(req[r]) \in Int
      BY RoundsType, SessionAssumption DEF Types, MaxRounds
    <3> QED
      BY <2>2, <2>4, <2>5, <3>1
  <2>7. req'[r] = q /\ \A u \in Request \ {r} : req'[u] = req[u]
    BY <2>1 DEF Types
  <2> QED
    BY <2>1, <2>2, <2>3, <2>6, <2>7 DEF Shortens
<1> QED
  BY <1>1, <1>2

LEMMA CreateShortens ==
  ASSUME Types, TriesLeft, NEW r \in Request, CreateStep(r)
  PROVE  Shortens(r)
<1> USE DEF At
<1>0. req[r].at \in Attempting => req[r].tries \in Nat /\ req[r].tries < MaxAttempts
  BY SessionAssumption DEF Types, RequestRecord, TriesLeft
<1>1. ASSUME NEW c \in Code, PickCode(r, c) PROVE Shortens(r)
  <2>1. CASE Retry(r)
    BY <1>1, <2>1, RetryShortens DEF PickCode, Attempting
  <2>2. CASE req' = [req EXCEPT ![r] = [@ EXCEPT !.at = "checkInUse", !.code = c]]
    <3> DEFINE q == [[req[r] EXCEPT !.at = "checkInUse"] EXCEPT !.code = c]
    <3>1. q.at = "checkInUse" /\ q.tries = req[r].tries
      BY DEF Types, RequestRecord
    <3>2. req' = [req EXCEPT ![r] = q]
      BY <2>2
    <3> HIDE DEF q
    <3>3. RoundsLeft(q) = 2 + 2 * (MaxAttempts - req[r].tries)
      BY <3>1 DEF RoundsLeft, RoundsAt, Attempting
    <3>4. RoundsLeft(req[r]) = 3 + 2 * (MaxAttempts - req[r].tries)
      BY <1>1 DEF PickCode, RoundsLeft, RoundsAt, Attempting
    <3>5. RoundsLeft(q) < RoundsLeft(req[r]) /\ q.tries < MaxAttempts
      BY <1>0, <1>1, <3>1, <3>3, <3>4, SessionAssumption DEF PickCode, Attempting
    <3> QED
      BY <3>2, <3>5 DEF Shortens, Types
  <2> QED
    BY <1>1, <2>1, <2>2 DEF PickCode
<1>2. CASE CheckInUse(r)
  <2>1. CASE Retry(r)
    BY <1>2, <2>1, RetryShortens DEF CheckInUse, Attempting
  <2>2. CASE Goto(r, "insert")
    <3> DEFINE q == [req[r] EXCEPT !.at = "insert"]
    <3>1. q.at = "insert" /\ req' = [req EXCEPT ![r] = q]
      BY <2>2 DEF Types, RequestRecord, Goto
    <3> HIDE DEF q
    <3>2. RoundsLeft(q) = 3
      BY <3>1 DEF RoundsLeft, RoundsAt, Attempting
    <3>3. RoundsLeft(req[r]) = 2 + 2 * (MaxAttempts - req[r].tries)
      BY <1>2 DEF CheckInUse, RoundsLeft, RoundsAt, Attempting
    <3>4. RoundsLeft(q) < RoundsLeft(req[r])
      BY <1>0, <1>2, <3>2, <3>3, SessionAssumption DEF CheckInUse, Attempting
    <3> QED
      BY <3>1, <3>4 DEF Shortens, Types, Attempting
  <2> QED
    BY <1>2, <2>1, <2>2 DEF CheckInUse
<1>3. ASSUME NEW s \in Session, Insert(r, s) PROVE Shortens(r)
  <2>1. CASE Reply(r)
    BY <1>3, <2>1, IdleShortens DEF Insert
  <2>2. CASE req' = [req EXCEPT ![r] = [@ EXCEPT !.at = "setCode", !.session = s]]
    <3> DEFINE q == [[req[r] EXCEPT !.at = "setCode"] EXCEPT !.session = s]
    <3>1. q.at = "setCode" /\ req' = [req EXCEPT ![r] = q]
      BY <2>2 DEF Types, RequestRecord
    <3> HIDE DEF q
    <3>2. RoundsAt(q.at) = 2 /\ RoundsAt(req[r].at) = 3
          /\ q.at \notin Attempting /\ req[r].at \notin Attempting
      BY <1>3, <3>1 DEF Insert, RoundsAt, Attempting
    <3>3. /\ RoundsAt(q.at) < RoundsAt(req[r].at)
          /\ RoundsAt(q.at) \in Nat /\ RoundsAt(req[r].at) \in Nat
      BY <3>2
    <3> QED
      BY <3>1, <3>2, <3>3, MoveShortens
  <2> QED
    BY <1>3, <2>1, <2>2 DEF Insert
<1>4. CASE NoMoreIds(r)
  BY <1>4, IdleShortens DEF NoMoreIds
<1>5. CASE SetCode(r)
  BY <1>5, GotoShortens DEF SetCode, RoundsAt, Attempting
<1>6. CASE SetSender(r)
  BY <1>6, IdleShortens DEF SetSender
<1> QED
  BY <1>1, <1>2, <1>3, <1>4, <1>5, <1>6 DEF CreateStep

LEMMA JoinShortens ==
  ASSUME Types, NEW r \in Request, JoinStep(r)
  PROVE  Shortens(r)
<1> USE DEF At
<1>1. ASSUME NEW p \in {"findById", "claim", "expire"}, NEW s,
             req' = [req EXCEPT ![r] = [@ EXCEPT !.at = p, !.session = s]],
             RoundsAt(p) < RoundsAt(req[r].at), RoundsAt(req[r].at) \in Nat,
             req[r].at \notin Attempting
      PROVE  Shortens(r)
  <2> DEFINE q == [[req[r] EXCEPT !.at = p] EXCEPT !.session = s]
  <2>1. q.at = p /\ req' = [req EXCEPT ![r] = q]
    BY <1>1 DEF Types, RequestRecord
  <2> HIDE DEF q
  <2>2. RoundsAt(p) \in Nat /\ p \notin Attempting
    BY <1>1 DEF RoundsAt, Attempting
  <2> QED
    BY <1>1, <2>1, <2>2, MoveShortens
<1>2. CASE Lookup(r)
  <2>1. /\ RoundsAt("findById") < RoundsAt(req[r].at) /\ RoundsAt(req[r].at) \in Nat
        /\ req[r].at \notin Attempting
    BY <1>2 DEF Lookup, RoundsAt, Attempting
  <2>2. CASE Goto(r, "findByCode")
    BY <1>2, <2>2, GotoShortens DEF Lookup, RoundsAt, Attempting
  <2>3. CASE ~Goto(r, "findByCode")
    BY <1>1, <1>2, <2>1, <2>3 DEF Lookup
  <2> QED
    BY <2>2, <2>3
<1>3. ASSUME NEW s, Admit(r, s), req[r].at \in {"findById", "findByCode"} PROVE Shortens(r)
  <2>1. /\ RoundsAt("claim") < RoundsAt(req[r].at) /\ RoundsAt("expire") < RoundsAt(req[r].at)
        /\ RoundsAt(req[r].at) \in Nat /\ req[r].at \notin Attempting
    BY <1>3 DEF RoundsAt, Attempting
  <2>2. CASE Reply(r)
    BY <1>3, <2>2, IdleShortens
  <2>3. CASE ~Reply(r)
    BY <1>1, <1>3, <2>1, <2>3 DEF Admit
  <2> QED
    BY <2>2, <2>3
<1>4. CASE FindById(r) \/ FindByCode(r)
  BY <1>3, <1>4, IdleShortens DEF FindById, FindByCode
<1>5. CASE Claim(r)
  BY <1>5, GotoShortens, IdleShortens DEF Claim, RoundsAt, Attempting
<1>6. CASE Extend(r) \/ Consume(r)
  BY <1>6, GotoShortens DEF Extend, Consume, RoundsAt, Attempting
<1>7. CASE Expire(r)
  BY <1>7, GotoShortens DEF Expire, RoundsAt, Attempting
<1>8. CASE SetReceiver(r) \/ DropExpired(r)
  BY <1>8, IdleShortens DEF SetReceiver, DropExpired
<1> QED
  BY <1>2, <1>4, <1>5, <1>6, <1>7, <1>8 DEF JoinStep

LEMMA UpdateShortens ==
  ASSUME Types, NEW r \in Request, UpdateStep(r)
  PROVE  Shortens(r)
<1> USE DEF At
<1>1. CASE Read(r)
  <2>1. CASE Reply(r)
    BY <1>1, <2>1, IdleShortens DEF Read
  <2>2. CASE ~Reply(r)
    <3> DEFINE s == req[r].session
               q == [[[[req[r] EXCEPT !.at = "write"] EXCEPT !.code = code[s]]
                         EXCEPT !.device = sender[s]] EXCEPT !.peer = receiver[s]]
    <3>1. q.at = "write"
      BY DEF Types, RequestRecord
    <3>2. req' = [req EXCEPT ![r] = q]
      BY <1>1, <2>2 DEF Read
    <3> HIDE DEF q
    <3>3. RoundsAt(q.at) = 4 /\ RoundsAt(req[r].at) = 5
          /\ q.at \notin Attempting /\ req[r].at \notin Attempting
      BY <1>1, <3>1 DEF Read, RoundsAt, Attempting
    <3>4. /\ RoundsAt(q.at) < RoundsAt(req[r].at)
          /\ RoundsAt(q.at) \in Nat /\ RoundsAt(req[r].at) \in Nat
      BY <3>3
    <3> QED
      BY <3>2, <3>3, <3>4, MoveShortens
  <2> QED
    BY <2>1, <2>2
<1>2. CASE Write(r)
  BY <1>2, GotoShortens, IdleShortens DEF Write, RoundsAt, Attempting
<1>3. CASE DropCode(r)
  BY <1>3, GotoShortens DEF DropCode, RoundsAt, Attempting
<1>4. CASE ClearSender(r)
  BY <1>4, GotoShortens, IdleShortens DEF ClearSender, RoundsAt, Attempting
<1>5. CASE ClearReceiver(r)
  BY <1>5, IdleShortens DEF ClearReceiver
<1> QED
  BY <1>1, <1>2, <1>3, <1>4, <1>5 DEF UpdateStep

(* A request that arrives has a slot to itself and all its attempts.                *)
LEMMA ArriveStarts ==
  ASSUME Types, NEW r \in Request, Arrive(r)
  PROVE  /\ At(r, "idle") /\ \A q \in Request \ {r} : req'[q] = req[q]
         /\ req'[r].at \in Attempting => req'[r].tries < MaxAttempts
<1>1. ASSUME NEW d \in Device, Create(r, d)
      PROVE  req'[r].tries < MaxAttempts
  BY <1>1, SessionAssumption DEF Create, Idle, Types
<1>2. ASSUME NEW c \in Code, NEW d \in Device, Join(r, c, d)
      PROVE  req'[r].at = "lookup"
  BY <1>2 DEF Join, Idle, Types
<1>3. ASSUME NEW s \in Session, NEW to \in Asked, Update(r, s, to)
      PROVE  req'[r].at = "read"
  BY <1>3 DEF Update, Idle, Types
<1>4. At(r, "idle") /\ \A q \in Request \ {r} : req'[q] = req[q]
  BY DEF Arrive, Create, Join, Update, Types
<1> QED
  BY <1>1, <1>2, <1>3, <1>4 DEF Arrive, Attempting

LEMMA StepShortens ==
  ASSUME Types, TriesLeft, [Next]_vars
  PROVE  /\ TriesLeft'
         /\ \A r \in Request : ~At(r, "idle") =>
               req'[r] = req[r] \/ RoundsLeft(req'[r]) < RoundsLeft(req[r])
<1> DEFINE Shorter == \A r \in Request : ~At(r, "idle") =>
               req'[r] = req[r] \/ RoundsLeft(req'[r]) < RoundsLeft(req[r])
<1>1. CASE req' = req
  BY <1>1 DEF TriesLeft
<1>2. ASSUME NEW r \in Request, Shortens(r) PROVE TriesLeft' /\ Shorter
  BY <1>2 DEF Shortens, TriesLeft
<1>3. ASSUME NEW r \in Request, Arrive(r) PROVE TriesLeft' /\ Shorter
  BY <1>3, ArriveStarts DEF TriesLeft
<1>4. ASSUME NEW r \in Request, CreateStep(r) \/ JoinStep(r) \/ UpdateStep(r)
      PROVE  TriesLeft' /\ Shorter
  BY <1>2, <1>4, CreateShortens, JoinShortens, UpdateShortens
<1>5. ASSUME NEW r \in Request, Fail(r) PROVE TriesLeft' /\ Shorter
  BY <1>2, <1>5, IdleShortens DEF Fail
<1>6. CASE (\E s \in Session : TimePasses(s)) \/ ExpireStale \/ RedisDrops \/ UNCHANGED vars
  BY <1>1, <1>6 DEF TimePasses, ExpireStale, RedisDrops, vars
<1> HIDE DEF Shorter
<1> QED
  BY <1>3, <1>4, <1>5, <1>6 DEF Next, Shorter

(* Every request ends within 2 * MaxAttempts + 4 of its round trips, however the others   *)
(* interleave with it, what they took from it and what they make it retry                *)
(* (session.service, 46-336 and 386-412).  That each round trip comes back                *)
(* is the fairness of RequestsEnd.                                              *)
THEOREM RequestsAreShort ==
    Spec => [](\A r \in Request : RoundsLeft(req[r]) \in 0..MaxRounds) /\ RequestsShorten
<1>1. Init => Types /\ TriesLeft
  BY IdleIsRequest DEF Init, Types, TriesLeft, Attempting
<1>2. TypeOK => Types
  BY DEF TypeOK, Types
<1>3. Types /\ TriesLeft /\ [Next]_vars => TriesLeft'
  BY StepShortens
<1>4. Types /\ TriesLeft /\ [Next]_vars =>
        [ \A r \in Request : ~At(r, "idle") =>
            req'[r] = req[r] \/ RoundsLeft(req'[r]) < RoundsLeft(req[r]) ]_vars
  BY StepShortens
<1>5. Types => \A r \in Request : RoundsLeft(req[r]) \in 0..MaxRounds
  BY RoundsType DEF Types
<1> QED
  BY <1>1, <1>2, <1>3, <1>4, <1>5, TypeCorrect, PTL DEF Spec, RequestsShorten
===============================================================================
