------------------------------ MODULE Presence ------------------------------
(***************************************************************************)
(* Who a device is and whether it is online: the tabs of one browser, which  *)
(* share a fingerprint through localStorage, their signaling sockets with the *)
(* heartbeat timer, and the keys presence:device:<id> and peer:device:<id>    *)
(* that the gateway keeps in Redis under the fingerprint.                    *)
(*                                                                          *)
(* Time passes in heartbeat intervals.  The handlers are cut where another    *)
(* socket's can come between them: Redis runs the commands of the one API      *)
(* process in the order they are issued.  What a heartbeat reads first only    *)
(* fills its acknowledgement, and the rows updateLastSeen names do not exist:  *)
(* it is given a fingerprint for the id of a device.                          *)
(***************************************************************************)
EXTENDS Naturals

CONSTANTS
    Tab,
    MaxDrawn,    \* bound: fingerprints the browser draws
    MaxSockets,  \* bound: sockets its tabs open
    Ttl,         \* life of a presence key, in heartbeat intervals
    MaxFaults,   \* bound: round trips that fail
    None

ASSUME PresenceAssumption ==
    /\ MaxDrawn \in Nat /\ MaxSockets \in Nat /\ Ttl \in Nat /\ MaxFaults \in Nat
    /\ None \notin Nat

(* Fingerprints and sockets are numbered in the order they are drawn and opened: *)
(* no two are the same.                                                       *)
Fingerprint == 1..MaxDrawn
Socket      == 1..MaxSockets

(* A render that finds no fingerprint in the store draws one for its deviceInfo    *)
(* and stores it nowhere: each is another one, and all of them are Passing.        *)
Passing == 0
Unseen  == [isReady |-> FALSE, fingerprint |-> None]

VARIABLES
    storage,   \* the fingerprint in localStorage
    store,     \* the fingerprint in each tab's device store
    drawn,     \* how many fingerprints were drawn to be kept
    device,    \* what useDevice returned at the last render of each tab
    sock,      \* the socket each tab uses
    opened,    \* how many sockets were opened
    deviceId,  \* the device a socket's messages name
    linked,    \* sockets the server holds to be connected
    bound,     \* those of them whose client.data names a session and a device
    join,      \* where the join handler of each socket stands
    beat,      \* where its heartbeat stands
    beaten,    \* sockets in use whose timer is through with this interval
    acked,     \* sockets in use that were acknowledged a heartbeat
    online,    \* presence:device:<id>: the intervals it has left
    peer,      \* peer:device:<id>; its day is longer than any session
    faults

tabVars    == <<storage, store, drawn, device>>
socketVars == <<sock, opened, deviceId, linked, bound>>
taskVars   == <<join, beat, beaten, acked>>
keyVars    == <<online, peer>>
vars == <<tabVars, socketVars, taskVars, keyVars, faults>>

TypeOK ==
    /\ storage \in Fingerprint \cup {None}
    /\ store \in [Tab -> Fingerprint \cup {None}]
    /\ device \in [Tab -> [isReady: BOOLEAN, fingerprint: Fingerprint \cup {Passing, None}]]
    /\ drawn \in 0..MaxDrawn /\ opened \in 0..MaxSockets
    /\ sock \in [Tab -> Socket \cup {None}]
    /\ deviceId \in [Socket -> Fingerprint \cup {Passing, None}]
    /\ linked \subseteq Socket /\ bound \subseteq Socket
    /\ join \in [Socket -> {"idle", "validate", "peer"}]
    /\ beat \in [Socket -> {"idle", "sent"}]
    /\ beaten \subseteq Socket /\ acked \subseteq Socket
    /\ online \in [Fingerprint -> 0..Ttl \cup {None}]
    /\ peer \in [Fingerprint -> Socket \cup {None}]
    /\ faults \in 0..MaxFaults

Init ==
    /\ storage = None /\ store = [t \in Tab |-> None] /\ drawn = 0
    /\ device = [t \in Tab |-> Unseen]
    /\ sock = [t \in Tab |-> None] /\ opened = 0
    /\ deviceId = [k \in Socket |-> None]
    /\ linked = {} /\ bound = {}
    /\ join = [k \in Socket |-> "idle"] /\ beat = [k \in Socket |-> "idle"]
    /\ beaten = {} /\ acked = {}
    /\ online = [f \in Fingerprint |-> None]
    /\ peer = [f \in Fingerprint |-> None]
    /\ faults = 0

-------------------------------------------------------------------------------
(* The device store                                                           *)

Unplug(t) ==
    /\ sock' = [sock EXCEPT ![t] = None]
    /\ beaten' = beaten \ {sock[t]}
    /\ acked' = acked \ {sock[t]}
    /\ UNCHANGED <<opened, deviceId, linked, bound, join, beat, faults>>
    /\ UNCHANGED keyVars

(* useDevice at a render: isReady and deviceInfo, whose fingerprint is drawn       *)
(* there and then if the store has none.                                       *)
UseDevice(f) == [isReady |-> f # None, fingerprint |-> IF f # None THEN f ELSE Passing]
Renders(t, f) == device' = [device EXCEPT ![t] = UseDevice(f)]

(* A page is loaded, or loaded again: its store starts from localStorage, and it    *)
(* renders.                                                                    *)
Load(t) ==
    /\ store' = [store EXCEPT ![t] = storage]
    /\ Renders(t, storage)
    /\ Unplug(t)
    /\ UNCHANGED <<storage, drawn>>

Opened == {t \in Tab : device[t] # Unseen}

Render(t) ==
    /\ t \in Opened
    /\ Renders(t, store[t])
    /\ UNCHANGED <<storage, store, drawn>>
    /\ UNCHANGED socketVars /\ UNCHANGED taskVars /\ UNCHANGED keyVars
    /\ UNCHANGED faults

(* initialize, by every component that mounts, once it has rendered: a set is      *)
(* persisted, the fingerprint of the store included.                            *)
DrawsAnew(t) == TRUE                    \* mutant: the one in the store is not looked for
Draws(t) == store[t] = None

Initialize(t) ==
    /\ t \in Opened
    /\ IF Draws(t)
       THEN /\ drawn < MaxDrawn
            /\ drawn' = drawn + 1
            /\ storage' = drawn'
       ELSE storage' = store[t] /\ UNCHANGED drawn
    /\ store' = [store EXCEPT ![t] = storage']
    /\ UNCHANGED device
    /\ UNCHANGED socketVars /\ UNCHANGED taskVars /\ UNCHANGED keyVars
    /\ UNCHANGED faults

-------------------------------------------------------------------------------
(* The socket of a tab                                                        *)

(* It connects once a render found a fingerprint, for the first time or again, and  *)
(* joins at once.  Its timer, new or not, may fire only in the next interval.    *)
IsReadyAlways(t) == t \in Opened        \* mutant: isReady is not looked at
IsReady(t) == device[t].isReady

Connect(t) ==
    LET k == opened + 1 IN
    /\ IsReady(t) /\ sock[t] = None
    /\ k \in Socket
    /\ opened' = k
    /\ sock' = [sock EXCEPT ![t] = k]
    /\ deviceId' = [deviceId EXCEPT ![k] = device[t].fingerprint]
    /\ linked' = linked \cup {k}
    /\ join' = [join EXCEPT ![k] = "validate"]
    /\ beaten' \in {beaten, beaten \cup {k}}
    /\ UNCHANGED <<bound, beat, acked, faults>>
    /\ UNCHANGED tabVars /\ UNCHANGED keyVars

(* It drops, or the session is reset.                                          *)
Drop(t) ==
    /\ sock[t] # None
    /\ Unplug(t)
    /\ UNCHANGED tabVars

InUse == {k \in Socket : \E t \in Tab : sock[t] = k}

(* The timer fires once in each interval.                                      *)
Beat(k) ==
    /\ k \in InUse \ beaten
    /\ beaten' = beaten \cup {k}
    /\ beat' = [beat EXCEPT ![k] = "sent"]
    /\ UNCHANGED <<join, acked, faults>>
    /\ UNCHANGED tabVars /\ UNCHANGED socketVars /\ UNCHANGED keyVars

-------------------------------------------------------------------------------
(* The presence service, and the handlers that call it                         *)

SetOnlineBriefly(f) == online' = [online EXCEPT ![f] = 1]  \* mutant: a third of the time
SetOnline(f) == online' = [online EXCEPT ![f] = Ttl]

(* handleJoinSession up to the first key of trackOnline, unless the session or    *)
(* the room refuses.  For a socket that is gone by now it goes on all the same.  *)
Enter(k) ==
    /\ join[k] = "validate"
    /\ bound' = bound \cup ({k} \cap linked)
    /\ SetOnline(deviceId[k])
    /\ join' = [join EXCEPT ![k] = "peer"]
    /\ UNCHANGED <<sock, opened, deviceId, linked, beat, beaten, acked, peer, faults>>
    /\ UNCHANGED tabVars

Refuse(k) ==
    /\ join[k] = "validate"
    /\ join' = [join EXCEPT ![k] = "idle"]
    /\ UNCHANGED <<beat, beaten, acked, faults>>
    /\ UNCHANGED tabVars /\ UNCHANGED socketVars /\ UNCHANGED keyVars

(* The second key of trackOnline, and the end of the handler.                   *)
SetPeer(k) ==
    /\ join[k] = "peer"
    /\ peer' = [peer EXCEPT ![deviceId[k]] = k]
    /\ join' = [join EXCEPT ![k] = "idle"]
    /\ UNCHANGED <<beat, beaten, acked, online, faults>>
    /\ UNCHANGED tabVars /\ UNCHANGED socketVars

(* trackHeartbeat, whether the device was online or not.                        *)
ExtendOnline(f) ==                                   \* mutant: a key that is gone stays gone
    online' = [online EXCEPT ![f] = IF @ = None THEN None ELSE Ttl]
Extend(f) == SetOnline(f)

TrackHeartbeat(k) ==
    /\ beat[k] = "sent"
    /\ Extend(deviceId[k])
    /\ beat' = [beat EXCEPT ![k] = "idle"]
    /\ acked' = acked \cup ({k} \cap InUse)
    /\ UNCHANGED <<join, beaten, peer, faults>>
    /\ UNCHANGED tabVars /\ UNCHANGED socketVars

(* A round trip fails: its effect may be there or not, and the handler ends.    *)
Fault == faults < MaxFaults /\ faults' = faults + 1

Fail(k) ==
    /\ Fault
    /\ \/ /\ join[k] = "validate"
          /\ bound' = bound \cup ({k} \cap linked)
          /\ UNCHANGED online \/ SetOnline(deviceId[k])
          /\ join' = [join EXCEPT ![k] = "idle"]
          /\ UNCHANGED <<beat, peer>>
       \/ /\ join[k] = "peer"
          /\ peer' \in {peer, [peer EXCEPT ![deviceId[k]] = k]}
          /\ join' = [join EXCEPT ![k] = "idle"]
          /\ UNCHANGED <<bound, beat, online>>
       \/ /\ beat[k] = "sent"
          /\ UNCHANGED online \/ Extend(deviceId[k])
          /\ beat' = [beat EXCEPT ![k] = "idle"]
          /\ UNCHANGED <<bound, join, peer>>
    /\ UNCHANGED <<sock, opened, deviceId, linked, beaten, acked>>
    /\ UNCHANGED tabVars

(* The server notices that a socket is gone: what was still on its way may be     *)
(* lost, and trackOffline deletes both keys of its device if it was bound.      *)
DeleteOnline(f) == online' = [online EXCEPT ![f] = None]
DeletePeer(f)   == peer' = [peer EXCEPT ![f] = None]

Offline(f) ==
    \/ DeleteOnline(f) /\ DeletePeer(f) /\ UNCHANGED faults
    \/ /\ Fault
       /\ DeleteOnline(f) \/ UNCHANGED online
       /\ DeletePeer(f) \/ UNCHANGED peer

Detect(k) ==
    /\ k \in linked \ InUse
    /\ linked' = linked \ {k}
    /\ bound' = bound \ {k}
    /\ \/ k \in bound /\ Offline(deviceId[k])
       \/ k \notin bound /\ UNCHANGED keyVars /\ UNCHANGED faults
    /\ join' \in {join, [join EXCEPT ![k] = IF @ = "validate" THEN "idle" ELSE @]}
    /\ beat' \in {beat, [beat EXCEPT ![k] = "idle"]}
    /\ UNCHANGED <<sock, opened, deviceId, beaten, acked>>
    /\ UNCHANGED tabVars

-------------------------------------------------------------------------------
(* A key with no interval left is deleted by Redis some time in the next one.   *)
Expire(f) ==
    /\ online[f] = 0
    /\ online' = [online EXCEPT ![f] = None]
    /\ UNCHANGED <<peer, faults>>
    /\ UNCHANGED tabVars /\ UNCHANGED socketVars /\ UNCHANGED taskVars

(* An interval ends: timers are punctual, and handlers take less than one.       *)
AgedNot(n)      == n                                   \* mutant: a key without expiry
AgedPastZero(n) == IF n = None THEN None ELSE n - 1    \* mutant: zero is not the end
Aged(n)         == IF n = None \/ n = 0 THEN None ELSE n - 1

Tick ==
    /\ InUse \subseteq beaten
    /\ \A k \in Socket : join[k] = "idle" /\ beat[k] = "idle"
    /\ beaten' = {}
    /\ online' = [f \in Fingerprint |-> Aged(online[f])]
    /\ UNCHANGED <<join, beat, acked, peer, faults>>
    /\ UNCHANGED tabVars /\ UNCHANGED socketVars

Handlers(k) == Enter(k) \/ Refuse(k) \/ SetPeer(k) \/ TrackHeartbeat(k)

Next ==
    \/ \E t \in Tab : Load(t) \/ Render(t) \/ Initialize(t) \/ Connect(t) \/ Drop(t)
    \/ \E k \in Socket : Beat(k) \/ Handlers(k) \/ Fail(k) \/ Detect(k)
    \/ \E f \in Fingerprint : Expire(f)
    \/ Tick

Spec == Init /\ [][Next]_vars

(* Timers fire, the server runs its handlers and its ping timeouts, and time      *)
(* passes.  Nobody has to load a page or to connect.                            *)
FairSpec ==
    /\ Spec
    /\ WF_vars(Tick)
    /\ \A k \in Socket : WF_vars(Beat(k)) /\ WF_vars(Handlers(k)) /\ WF_vars(Detect(k))

-------------------------------------------------------------------------------
(* Remembered: "the device is remembered across refreshes" (device.store, 7-8).      *)
(* Once every open tab has the fingerprint of localStorage, it is the device's for     *)
(* good: no tab that is opened or loaded again, no component that mounts and no       *)
(* render brings another.  Two tabs first opened side by side need not agree: each     *)
(* draws one and writes it over the other's whenever one of its components mounts.      *)
Agreed == storage # None /\ \A t \in Opened : store[t] = storage

Remembered == [][Agreed => Agreed' /\ storage' = storage]_vars

(* NamesStored: what a socket's messages name is the fingerprint its tab has stored:   *)
(* none that getDeviceInfo draws at a render gets out, although deviceInfo holds one     *)
(* from the first render to the one after initialize (device.store, 103-107;           *)
(* use-signaling, 18 and 38).                                                    *)
NamesStored == \A t \in Tab : sock[t] # None => deviceId[sock[t]] = store[t]

(* NeverLapses: the key of a device in use that had a heartbeat acknowledged is   *)
(* never left to run out: deleted, perhaps, by another tab's leaving, but never   *)
(* expired, unless as many heartbeats were lost as it lives intervals, but one      *)
(* (presence.service, 46-61).                                                 *)
NeverLapses ==
    faults + 1 < Ttl => \A k \in InUse \cap acked : online[deviceId[k]] # 0

Present(f) == \E k \in InUse : deviceId[k] = f
Online(f)  == online[f] # None

(* Settles: a device that stays in use ends up online for good, whatever its       *)
(* other tabs and its earlier sockets deleted when they left, late or not.       *)
Settles == \A f \in Fingerprint : <>[]Present(f) => <>[]Online(f)

(* Fades: a device that is left alone ends up offline for good, even if its        *)
(* last heartbeat or join was handled after its disconnect.                     *)
Fades == \A f \in Fingerprint : <>[]~Present(f) => <>[]~Online(f)
===============================================================================
