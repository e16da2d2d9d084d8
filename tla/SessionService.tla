---------------------------- MODULE SessionService ----------------------------
(***************************************************************************)
(* The session service of the API: the rows of the sessions table, the      *)
(* Redis keys beside them, and the requests that read and write both.  One   *)
(* action is one request's run from an await to the next, so that requests   *)
(* interleave exactly at the round trips to Postgres and Redis, any of which *)
(* may fail and end the request there.  The rows change only by single       *)
(* statements, which Postgres runs atomically.                              *)
(*                                                                          *)
(* Time is abstracted to the set of sessions whose expires_at has passed.    *)
(* Devices, files and the audit log are written but never read back by these *)
(* handlers; only the device's identity is modelled.                        *)
(***************************************************************************)
EXTENDS SessionStates, Naturals

CONSTANTS
    Session,    \* ids the database may hand out; bound: sessions ever created
    Code,       \* session codes
    Device,
    Request,    \* bound: requests in flight at the same time
    Asked,      \* the statuses PATCH /sessions/:id/status is called with
    MaxAttempts,\* of generateUniqueCode (10 in the code)
    RedisLoses, \* keys may expire or be evicted
    None        \* no session, code or device

ASSUME SessionAssumption ==
    /\ Asked \subseteq Status
    /\ RedisLoses \in BOOLEAN
    /\ MaxAttempts \in Nat \ {0}
    /\ None \notin Session \cup Code \cup Device

VARIABLES
    status,     \* status[s], "NONE" until the row is inserted
    code, sender, receiver,   \* the other columns of the row
    overdue,    \* sessions with expires_at < NOW()
    codeKey,    \* session:code:<c>
    deviceKey,  \* device:session:<d>
    req         \* the requests in flight

row  == <<status, code, sender, receiver>>
vars == <<row, overdue, codeKey, deviceKey, req>>

(* What a request has read and where it stands.                               *)
Idle == [at |-> "idle", session |-> None, code |-> None, device |-> None,
         peer |-> None, to |-> "NONE", tries |-> 0]

Point == {"idle",
          "pickCode", "checkInUse", "insert", "setCode", "setSender",
          "lookup", "findById", "findByCode", "claim", "extend", "consume", "setReceiver",
          "expire", "dropExpired",
          "read", "write", "dropCode", "clearSender", "clearReceiver"}

RequestRecord ==
    [at: Point, session: Session \cup {None}, code: Code \cup {None},
     device: Device \cup {None}, peer: Device \cup {None},
     to: Status \cup {"NONE"}, tries: 0..MaxAttempts]

TypeOK ==
    /\ status \in [Session -> Status \cup {"NONE"}]
    /\ code \in [Session -> Code \cup {None}]
    /\ sender \in [Session -> Device \cup {None}]
    /\ receiver \in [Session -> Device \cup {None}]
    /\ overdue \subseteq Session
    /\ codeKey \in [Code -> Session \cup {None}]
    /\ deviceKey \in [Device -> Session \cup {None}]
    /\ req \in [Request -> RequestRecord]

Init ==
    /\ status = [s \in Session |-> "NONE"]
    /\ code = [s \in Session |-> None]
    /\ sender = [s \in Session |-> None]
    /\ receiver = [s \in Session |-> None]
    /\ overdue = {}
    /\ codeKey = [c \in Code |-> None]
    /\ deviceKey = [d \in Device |-> None]
    /\ req = [r \in Request |-> Idle]

-------------------------------------------------------------------------------
At(r, p)   == req[r].at = p
Goto(r, p) == req' = [req EXCEPT ![r].at = p]
Reply(r)   == req' = [req EXCEPT ![r] = Idle]

Exists(s) == status[s] # "NONE"
IsActive(s) == status[s] \in Active
CodeInUse(c) == \E s \in Session : IsActive(s) /\ code[s] = c

(* The partial unique index idx_sessions_code_active lets s hold its code as   *)
(* an active session.                                                         *)
NoIndex(s, c) == TRUE   \* mutant: the migration without the index
IndexAllows(s, c) == ~\E t \in Session \ {s} : IsActive(t) /\ code[t] = c

SetStatus(s, v) == status' = [status EXCEPT ![s] = v]
SetCodeKey(c, s) == codeKey' = [codeKey EXCEPT ![c] = s]
SetDeviceKey(d, s) == deviceKey' = [deviceKey EXCEPT ![d] = s]

rowsOnly == UNCHANGED <<codeKey, deviceKey>>
readOnly == UNCHANGED <<row, overdue, codeKey, deviceKey>>

-------------------------------------------------------------------------------
(* createSession: the sender's device is known, the code is to be found.       *)
Create(r, d) ==
    /\ At(r, "idle")
    /\ req' = [req EXCEPT ![r] = [Idle EXCEPT !.at = "pickCode", !.device = d]]
    /\ readOnly

(* generateUniqueCode: a random code, first looked for in Redis, then in the   *)
(* table.  A clash is one more attempt, or a 409 after the last one.           *)
RetryForever(r) == req' = [req EXCEPT ![r].at = "pickCode"]   \* mutant: no last attempt
Retry(r) ==
    \/ /\ req[r].tries + 1 < MaxAttempts
       /\ req' = [req EXCEPT ![r].at = "pickCode", ![r].tries = @ + 1]
    \/ /\ req[r].tries + 1 >= MaxAttempts
       /\ Reply(r)

PickCode(r, c) ==
    /\ At(r, "pickCode")
    /\ \/ /\ codeKey[c] = None
          /\ req' = [req EXCEPT ![r] = [@ EXCEPT !.at = "checkInUse", !.code = c]]
       \/ codeKey[c] # None /\ Retry(r)
    /\ readOnly

CheckInUse(r) ==
    /\ At(r, "checkInUse")
    /\ \/ ~CodeInUse(req[r].code) /\ Goto(r, "insert")
       \/ CodeInUse(req[r].code) /\ Retry(r)
    /\ readOnly

(* INSERT: the row, or a unique violation.                                    *)
Insert(r, s) ==
    LET c == req[r].code IN
    /\ At(r, "insert")
    /\ ~Exists(s)
    /\ \/ /\ IndexAllows(s, c)
          /\ SetStatus(s, "WAITING")
          /\ code' = [code EXCEPT ![s] = c]
          /\ sender' = [sender EXCEPT ![s] = req[r].device]
          /\ req' = [req EXCEPT ![r] = [@ EXCEPT !.at = "setCode", !.session = s]]
       \/ /\ ~IndexAllows(s, c)
          /\ Reply(r)
          /\ UNCHANGED <<status, code, sender>>
    /\ UNCHANGED <<receiver, overdue>> /\ rowsOnly

(* Bound: the instance has no id left; the insert fails.                       *)
NoMoreIds(r) ==
    /\ At(r, "insert")
    /\ \A s \in Session : Exists(s)
    /\ Reply(r)
    /\ readOnly

(* Mutant: the code is kept in a field of the service, which other requests set. *)
SetCodeShared(r) ==
    /\ At(r, "setCode")
    /\ \E q \in Request : req[q].code # None /\ SetCodeKey(req[q].code, req[r].session)
    /\ Goto(r, "setSender")
    /\ UNCHANGED <<row, overdue, deviceKey>>

SetCode(r) ==
    /\ At(r, "setCode")
    /\ SetCodeKey(req[r].code, req[r].session)
    /\ Goto(r, "setSender")
    /\ UNCHANGED <<row, overdue, deviceKey>>

SetSender(r) ==
    /\ At(r, "setSender")
    /\ SetDeviceKey(req[r].device, req[r].session)
    /\ Reply(r)
    /\ UNCHANGED <<row, overdue, codeKey>>

-------------------------------------------------------------------------------
(* joinSession(code) from a device.                                           *)
Join(r, c, d) ==
    /\ At(r, "idle")
    /\ req' = [req EXCEPT ![r] =
                  [Idle EXCEPT !.at = "lookup", !.code = c, !.device = d]]
    /\ readOnly

(* findSessionByCode: Redis, then the table.                                  *)
Lookup(r) ==
    LET s == codeKey[req[r].code] IN
    /\ At(r, "lookup")
    /\ \/ s # None /\ req' = [req EXCEPT ![r] = [@ EXCEPT !.at = "findById", !.session = s]]
       \/ s = None /\ Goto(r, "findByCode")
    /\ readOnly

(* The receiver's device is the sender's.                                     *)
OwnSessionUnchecked(r, s) == FALSE   \* mutant: step 5 of joinSession left out
OwnSession(r, s) == sender[s] = req[r].device

(* What joinSession does with the row it was given: only a WAITING session     *)
(* that is not overdue and not the device's own goes on to be claimed.         *)
Admit(r, s) ==
    \/ /\ status[s] = "WAITING"
       /\ s \in overdue
       /\ req' = [req EXCEPT ![r] = [@ EXCEPT !.at = "expire", !.session = s]]
    \/ /\ status[s] = "WAITING"
       /\ s \notin overdue
       /\ ~OwnSession(r, s)
       /\ req' = [req EXCEPT ![r] = [@ EXCEPT !.at = "claim", !.session = s]]
    \/ /\ status[s] # "WAITING" \/ (s \notin overdue /\ OwnSession(r, s))
       /\ Reply(r)

FindById(r) ==
    /\ At(r, "findById")
    /\ Admit(r, req[r].session)
    /\ readOnly

FindByCode(r) ==
    /\ At(r, "findByCode")
    /\ \/ \E s \in Session : IsActive(s) /\ code[s] = req[r].code /\ Admit(r, s)
       \/ ~CodeInUse(req[r].code) /\ Reply(r)
    /\ readOnly

(* repository.joinSession: UPDATE ... WHERE status = 'WAITING'.                *)
ClaimableWhileActive(s) == IsActive(s)   \* mutant: any session not finished
Claimable(s) == status[s] = "WAITING"

(* Mutant: the UPDATE sets the receiver and forgets the status.                 *)
ClaimKeepingStatus(r) ==
    LET s == req[r].session IN
    /\ At(r, "claim")
    /\ Claimable(s)
    /\ receiver' = [receiver EXCEPT ![s] = req[r].device]
    /\ Goto(r, "extend")
    /\ UNCHANGED <<status, code, sender, overdue>> /\ rowsOnly

Claim(r) ==
    LET s == req[r].session IN
    /\ At(r, "claim")
    /\ \/ /\ Claimable(s)
          /\ SetStatus(s, "JOINED")
          /\ receiver' = [receiver EXCEPT ![s] = req[r].device]
          /\ Goto(r, "extend")
       \/ /\ ~Claimable(s)
          /\ Reply(r)
          /\ UNCHANGED <<status, receiver>>
    /\ UNCHANGED <<code, sender, overdue>> /\ rowsOnly

Extend(r) ==
    /\ At(r, "extend")
    /\ overdue' = overdue \ {req[r].session}
    /\ Goto(r, "consume")
    /\ UNCHANGED row /\ rowsOnly

Consume(r) ==
    /\ At(r, "consume")
    /\ SetCodeKey(req[r].code, None)
    /\ Goto(r, "setReceiver")
    /\ UNCHANGED <<row, overdue, deviceKey>>

SetReceiver(r) ==
    /\ At(r, "setReceiver")
    /\ SetDeviceKey(req[r].device, req[r].session)
    /\ Reply(r)
    /\ UNCHANGED <<row, overdue, codeKey>>

(* An overdue session met by a join: expired whatever it is by now.            *)
Expire(r) ==
    /\ At(r, "expire")
    /\ SetStatus(req[r].session, "EXPIRED")
    /\ Goto(r, "dropExpired")
    /\ UNCHANGED <<code, sender, receiver, overdue>> /\ rowsOnly

DropExpired(r) ==
    /\ At(r, "dropExpired")
    /\ SetCodeKey(req[r].code, None)
    /\ Reply(r)
    /\ UNCHANGED <<row, overdue, deviceKey>>

-------------------------------------------------------------------------------
(* updateStatus, from PATCH /:id/status or, with EXPIRED, POST /:id/expire.    *)
Update(r, s, to) ==
    /\ At(r, "idle")
    /\ Exists(s)
    /\ req' = [req EXCEPT ![r] = [Idle EXCEPT !.at = "read", !.session = s, !.to = to]]
    /\ readOnly

(* The row as read: the code, the devices and the verdict on the transition    *)
(* all come from this snapshot.                                               *)
Read(r) ==
    LET s == req[r].session IN
    /\ At(r, "read")
    /\ \/ /\ IsValidTransition(status[s], req[r].to)
          /\ req' = [req EXCEPT ![r] = [@ EXCEPT !.at = "write", !.code = code[s],
                                        !.device = sender[s], !.peer = receiver[s]]]
       \/ /\ ~IsValidTransition(status[s], req[r].to)
          /\ Reply(r)
    /\ readOnly

(* repository.updateStatus: UPDATE ... WHERE id = $1, whatever the status is    *)
(* now; bringing a finished session back may break the index.                  *)
Write(r) ==
    LET s == req[r].session
        v == req[r].to IN
    /\ At(r, "write")
    /\ \/ /\ v \in Terminal \/ IndexAllows(s, code[s])
          /\ SetStatus(s, v)
          /\ IF IsTerminalState(v) THEN Goto(r, "dropCode") ELSE Reply(r)
       \/ /\ v \in Active /\ ~IndexAllows(s, code[s])
          /\ Reply(r)
          /\ UNCHANGED status
    /\ UNCHANGED <<code, sender, receiver, overdue>> /\ rowsOnly

DropCode(r) ==
    /\ At(r, "dropCode")
    /\ SetCodeKey(req[r].code, None)
    /\ Goto(r, "clearSender")
    /\ UNCHANGED <<row, overdue, deviceKey>>

ClearSender(r) ==
    /\ At(r, "clearSender")
    /\ SetDeviceKey(req[r].device, None)
    /\ IF req[r].peer = None THEN Reply(r) ELSE Goto(r, "clearReceiver")
    /\ UNCHANGED <<row, overdue, codeKey>>

ClearReceiver(r) ==
    /\ At(r, "clearReceiver")
    /\ SetDeviceKey(req[r].peer, None)
    /\ Reply(r)
    /\ UNCHANGED <<row, overdue, codeKey>>

-------------------------------------------------------------------------------
(* A round trip fails, or the server stops: what was written stays.            *)
Fail(r) ==
    /\ ~At(r, "idle")
    /\ Reply(r)
    /\ readOnly

(* The cron job: expireStaleSessions.                                         *)
StaleTooSoon == {s \in Session \ overdue : status[s] = "WAITING"}   \* mutant: expires_at > NOW()
Stale == {s \in overdue : status[s] = "WAITING"}

ExpireStale ==
    /\ Stale # {}
    /\ status' = [s \in Session |-> IF s \in Stale THEN "EXPIRED" ELSE status[s]]
    /\ UNCHANGED <<code, sender, receiver, overdue, req>> /\ rowsOnly

(* expires_at passes.                                                         *)
TimePasses(s) ==
    /\ IsActive(s)
    /\ s \notin overdue
    /\ overdue' = overdue \cup {s}
    /\ UNCHANGED <<row, req>> /\ rowsOnly

(* The TTL of a key runs out, or Redis evicts it.                              *)
RedisDrops ==
    /\ RedisLoses
    /\ \/ \E c \in Code : codeKey[c] # None /\ SetCodeKey(c, None) /\ UNCHANGED deviceKey
       \/ \E d \in Device : deviceKey[d] # None /\ SetDeviceKey(d, None) /\ UNCHANGED codeKey
    /\ UNCHANGED <<row, overdue, req>>

-------------------------------------------------------------------------------
CreateStep(r) ==
    \/ \E c \in Code : PickCode(r, c)
    \/ CheckInUse(r)
    \/ \E s \in Session : Insert(r, s)
    \/ NoMoreIds(r)
    \/ SetCode(r) \/ SetSender(r)

JoinStep(r) ==
    \/ Lookup(r) \/ FindById(r) \/ FindByCode(r)
    \/ Claim(r) \/ Extend(r) \/ Consume(r) \/ SetReceiver(r)
    \/ Expire(r) \/ DropExpired(r)

UpdateStep(r) == Read(r) \/ Write(r) \/ DropCode(r) \/ ClearSender(r) \/ ClearReceiver(r)

Arrive(r) ==
    \/ \E d \in Device : Create(r, d)
    \/ \E c \in Code, d \in Device : Join(r, c, d)
    \/ \E s \in Session, to \in Asked : Update(r, s, to)

Next ==
    \/ \E r \in Request : Arrive(r) \/ CreateStep(r) \/ JoinStep(r) \/ UpdateStep(r) \/ Fail(r)
    \/ \E s \in Session : TimePasses(s)
    \/ ExpireStale
    \/ RedisDrops

Spec == Init /\ [][Next]_vars

(* Every round trip is answered, and the cron job runs again and again.        *)
Fairness ==
    /\ \A r \in Request : WF_vars(CreateStep(r) \/ JoinStep(r) \/ UpdateStep(r))
    /\ WF_vars(ExpireStale)

FairSpec == Spec /\ Fairness

-------------------------------------------------------------------------------
(* A code names at most one active session, so a receiver who types it meets    *)
(* the sender who shows it, although a create checks and inserts in different   *)
(* round trips and an update may bring a finished session back.                *)
UniqueActiveCode ==
    \A s, t \in Session : IsActive(s) /\ IsActive(t) /\ code[s] = code[t] => s = t

(* A session on offer has no receiver: none of the unconditional writes of a    *)
(* status puts a session that was taken, or over, back on offer.               *)
WaitingUnclaimed == \A s \in Session : status[s] = "WAITING" => receiver[s] = None

(* Of all the joins in flight one at most has won a session, and the row says   *)
(* it is that one (session.repository.ts:107).                                *)
Won(r, s) == req[r].at \in {"extend", "consume", "setReceiver"} /\ req[r].session = s

ClaimExclusive ==
    \A r, q \in Request : \A s \in Session :
        /\ Won(r, s) => receiver[s] = req[r].device
        /\ Won(r, s) /\ Won(q, s) => r = q

(* Redis may know less than the table but never something else: a code key      *)
(* names a session that has that code, a device key a session of that device,   *)
(* whatever the order in which the requests' late writes arrive.               *)
KeysTruthful ==
    /\ \A c \in Code : codeKey[c] # None => Exists(codeKey[c]) /\ code[codeKey[c]] = c
    /\ \A d \in Device : deviceKey[d] # None =>
          d \in {sender[deviceKey[d]], receiver[deviceKey[d]]}

(* The service implements Pairing: a session is on offer while WAITING.         *)
P == INSTANCE Pairing WITH open <- {s \in Session : status[s] = "WAITING"},
                           owner <- sender, guest <- receiver
ImplementsPairing == P!PSpec

-------------------------------------------------------------------------------
(* Every request is answered, also the create whose codes clash again and again, in  *)
(* Redis or in the table: it has MaxAttempts tries and then fails                  *)
(* (session.service.ts:389).                                                      *)
RequestsEnd == \A r \in Request : ~At(r, "idle") ~> At(r, "idle")

(* A session nobody joins in time is closed, also if nobody asks for it again.  *)
OverdueCloses ==
    \A s \in Session : (status[s] = "WAITING" /\ s \in overdue) ~> (status[s] # "WAITING")

===============================================================================
