---------------------------- MODULE PresenceProofs ----------------------------
(***************************************************************************)
(* Theorems about Presence, for any number of tabs, fingerprints, sockets and  *)
(* faults: it keeps its types; a browser whose tabs agree keeps its fingerprint; *)
(* a socket names the one its tab has stored; the key of a device in use never   *)
(* runs out, and is deleted only when another socket of the device left.        *)
(*                                                                          *)
(* NamesStored needs what a page may show (Shown): isReady only with the       *)
(* fingerprint of the store.  NeverLapses needs what the key has left            *)
(* (LastsLong): all of its life but an interval per fault, and one more while    *)
(* this interval's heartbeat is to come.                                      *)
(***************************************************************************)
EXTENDS Presence, TLAPS

(* The key has an interval left, whatever is set, deleted or expired            *)
Left == 0..Ttl \cup {None}

LEMMA KeyTypes ==
    ASSUME TypeOK, NEW f
    PROVE  /\ SetOnline(f) => online' \in [Fingerprint -> Left]
           /\ DeleteOnline(f) => online' \in [Fingerprint -> Left]
           /\ DeletePeer(f) => peer' \in [Fingerprint -> Socket \cup {None}]
           /\ \A k \in Socket : [peer EXCEPT ![f] = k] \in [Fingerprint -> Socket \cup {None}]
<1>1. Ttl \in Left /\ None \in Left /\ online \in [Fingerprint -> Left]
  BY PresenceAssumption DEF TypeOK, Left
<1>2. \A v \in Left : [online EXCEPT ![f] = v] \in [Fingerprint -> Left]
  <2> HIDE DEF Left
  <2> QED BY <1>1
<1>3. \A v \in Socket \cup {None} : [peer EXCEPT ![f] = v] \in [Fingerprint -> Socket \cup {None}]
  BY DEF TypeOK
<1> QED
  BY <1>1, <1>2, <1>3 DEF SetOnline, DeleteOnline, DeletePeer

LEMMA DeviceType ==
    \A f \in Fingerprint \cup {None} :
        UseDevice(f) \in [isReady: BOOLEAN, fingerprint: Fingerprint \cup {Passing, None}]
BY DEF UseDevice

LEMMA TypeStarts == Init => TypeOK
BY PresenceAssumption DEF Init, TypeOK, Unseen

LEMMA TypeKept == TypeOK /\ [Next]_vars => TypeOK'
<1> SUFFICES ASSUME TypeOK, [Next]_vars PROVE TypeOK'
  OBVIOUS
<1> USE PresenceAssumption
<1>1. ASSUME NEW t \in Tab, Load(t) \/ Render(t) PROVE TypeOK'
  <2>1. device' \in [Tab -> [isReady: BOOLEAN, fingerprint: Fingerprint \cup {Passing, None}]]
    BY <1>1, DeviceType DEF TypeOK, Load, Render, Renders
  <2> QED
    BY <1>1, <2>1 DEF TypeOK, Load, Render, Unplug, socketVars, taskVars, keyVars
<1>2. ASSUME NEW t \in Tab, Initialize(t) PROVE TypeOK'
  <2>1. drawn' \in 0..MaxDrawn /\ storage' \in Fingerprint \cup {None}
    BY <1>2 DEF TypeOK, Initialize, Fingerprint
  <2> QED
    BY <1>2, <2>1 DEF TypeOK, Initialize, socketVars, taskVars, keyVars
<1>3. ASSUME NEW t \in Tab, Connect(t) PROVE TypeOK'
  <2>1. opened + 1 \in Socket /\ opened' \in 0..MaxSockets
    BY <1>3 DEF TypeOK, Connect, Socket
  <2>2. device[t].fingerprint \in Fingerprint \cup {Passing, None}
    BY DEF TypeOK
  <2> QED
    BY <1>3, <2>1, <2>2 DEF TypeOK, Connect, tabVars, keyVars
<1>4. ASSUME NEW t \in Tab, Drop(t) PROVE TypeOK'
  BY <1>4 DEF TypeOK, Drop, Unplug, tabVars, keyVars
<1>5. ASSUME NEW k \in Socket, Beat(k) PROVE TypeOK'
  BY <1>5 DEF TypeOK, Beat, tabVars, socketVars, keyVars
<1>6. ASSUME NEW k \in Socket, Handlers(k) PROVE TypeOK'
  <2>1. CASE Enter(k)
    BY <2>1, KeyTypes DEF TypeOK, Enter, tabVars, Left
  <2>2. CASE Refuse(k)
    BY <2>2 DEF TypeOK, Refuse, tabVars, socketVars, keyVars
  <2>3. CASE SetPeer(k)
    BY <2>3, KeyTypes DEF TypeOK, SetPeer, tabVars, socketVars
  <2>4. CASE TrackHeartbeat(k)
    BY <2>4, KeyTypes DEF TypeOK, TrackHeartbeat, Extend, tabVars, socketVars, Left
  <2> QED
    BY <1>6, <2>1, <2>2, <2>3, <2>4 DEF Handlers
<1>7. ASSUME NEW k \in Socket, Fail(k) PROVE TypeOK'
  <2>1. faults' \in 0..MaxFaults
    BY <1>7 DEF TypeOK, Fail, Fault
  <2>2. online' \in [Fingerprint -> Left] /\ peer' \in [Fingerprint -> Socket \cup {None}]
    BY <1>7, KeyTypes DEF TypeOK, Fail, Extend, Left
  <2>3. /\ bound' \subseteq Socket
        /\ join' \in [Socket -> {"idle", "validate", "peer"}]
        /\ beat' \in [Socket -> {"idle", "sent"}]
    BY <1>7 DEF TypeOK, Fail
  <2> QED
    BY <1>7, <2>1, <2>2, <2>3 DEF TypeOK, Fail, tabVars, Left
<1>8. ASSUME NEW k \in Socket, Detect(k) PROVE TypeOK'
  <2>1. faults' \in 0..MaxFaults
    BY <1>8 DEF TypeOK, Detect, Offline, Fault
  <2>2. online' \in [Fingerprint -> Left] /\ peer' \in [Fingerprint -> Socket \cup {None}]
    BY <1>8, KeyTypes DEF TypeOK, Detect, Offline, keyVars, Left
  <2>3. /\ join' \in [Socket -> {"idle", "validate", "peer"}]
        /\ beat' \in [Socket -> {"idle", "sent"}]
    BY <1>8 DEF TypeOK, Detect
  <2> QED
    BY <1>8, <2>1, <2>2, <2>3 DEF TypeOK, Detect, tabVars, Left
<1>9. ASSUME NEW f \in Fingerprint, Expire(f) PROVE TypeOK'
  BY <1>9 DEF TypeOK, Expire, tabVars, socketVars, taskVars
<1>10. ASSUME Tick PROVE TypeOK'
  <2>1. \A n \in Left : Aged(n) \in Left
    BY DEF Aged, Left
  <2>2. \A f \in Fingerprint : online[f] \in Left
    BY DEF TypeOK, Left
  <2> QED
    BY <1>10, <2>1, <2>2 DEF TypeOK, Tick, tabVars, socketVars, Left
<1>11. CASE UNCHANGED vars
  BY <1>11 DEF TypeOK, vars, tabVars, socketVars, taskVars, keyVars
<1> QED
  BY <1>1, <1>2, <1>3, <1>4, <1>5, <1>6, <1>7, <1>8, <1>9, <1>10, <1>11 DEF Next

(* The tabs, the sockets, the handlers and the keys keep their types.            *)
THEOREM TypeCorrect == Spec => []TypeOK
BY TypeStarts, TypeKept, PTL DEF Spec

-------------------------------------------------------------------------------
(* Fingerprints                                                               *)

(* A page shows a fingerprint only if its store has it.                            *)
Shown == \A t \in Tab : device[t].isReady =>
            store[t] # None /\ device[t].fingerprint = store[t]

LEMMA ShownStarts == Init => Shown
BY DEF Init, Shown, Unseen

LEMMA ShownKept == TypeOK /\ Shown /\ [Next]_vars => Shown'
<1> SUFFICES ASSUME TypeOK, Shown, [Next]_vars PROVE Shown'
  OBVIOUS
<1>1. \A f : UseDevice(f).isReady => f # None /\ UseDevice(f).fingerprint = f
  BY DEF UseDevice
<1>2. ASSUME NEW t \in Tab, Load(t) PROVE Shown'
  BY <1>1, <1>2 DEF TypeOK, Load, Renders, Shown
<1>3. ASSUME NEW t \in Tab, Render(t) PROVE Shown'
  BY <1>1, <1>3 DEF TypeOK, Render, Renders, Shown
<1>4. ASSUME NEW t \in Tab, Initialize(t) PROVE Shown'
  <2>1. store[t] # None => storage' = store[t]
    BY <1>4 DEF Initialize, Draws
  <2>2. store[t] # None => store' = store
    BY <1>4, <2>1 DEF TypeOK, Initialize
  <2>3. store' = [store EXCEPT ![t] = storage'] /\ device' = device
    BY <1>4 DEF Initialize
  <2> QED
    BY <2>2, <2>3 DEF TypeOK, Shown
<1>5. CASE UNCHANGED tabVars
  BY <1>5 DEF tabVars, Shown
<1>6. (\E t \in Tab : Load(t) \/ Render(t) \/ Initialize(t)) \/ UNCHANGED tabVars
  BY DEF Next, vars, Connect, Drop, Beat, Handlers, Enter, Refuse, SetPeer, TrackHeartbeat,
         Fail, Detect, Expire, Tick
<1> QED
  BY <1>2, <1>3, <1>4, <1>5, <1>6

(* Once the open tabs agree on the fingerprint of localStorage, nothing they do          *)
(* changes it, and those opened later get it too.                                 *)
THEOREM RemembersDevice == Spec => Remembered
<1>1. TypeOK /\ [Next]_vars => (Agreed => Agreed' /\ storage' = storage)
  <2> SUFFICES ASSUME TypeOK, [Next]_vars, Agreed PROVE Agreed' /\ storage' = storage
    OBVIOUS
  <2>1. ASSUME NEW t \in Tab, Load(t) PROVE Agreed' /\ storage' = storage
    <3>1. Opened' \subseteq Opened \cup {t} /\ storage' = storage
      BY <2>1 DEF TypeOK, Load, Renders, Opened
    <3> QED
      BY <2>1, <3>1 DEF TypeOK, Load, Agreed, Opened
  <2>2. ASSUME NEW t \in Tab, Render(t) PROVE Agreed' /\ storage' = storage
    <3>1. Opened' \subseteq Opened /\ store' = store /\ storage' = storage
      BY <2>2 DEF TypeOK, Render, Renders, Opened
    <3> QED
      BY <3>1 DEF Agreed
  <2>3. ASSUME NEW t \in Tab, Initialize(t) PROVE Agreed' /\ storage' = storage
    <3>1. store[t] = storage /\ storage # None
      BY <2>3 DEF Initialize, Agreed
    <3>2. storage' = storage /\ store' = store
      BY <2>3, <3>1 DEF TypeOK, Initialize, Draws
    <3>3. Opened' = Opened
      BY <2>3 DEF Initialize, Opened
    <3> QED
      BY <3>2, <3>3 DEF Agreed
  <2>4. CASE UNCHANGED tabVars
    BY <2>4 DEF tabVars, Agreed, Opened
  <2>5. (\E t \in Tab : Load(t) \/ Render(t) \/ Initialize(t)) \/ UNCHANGED tabVars
    BY DEF Next, vars, Connect, Drop, Beat, Handlers, Enter, Refuse, SetPeer, TrackHeartbeat,
           Fail, Detect, Expire, Tick
  <2> QED
    BY <2>1, <2>2, <2>3, <2>4, <2>5
<1> QED
  BY <1>1, TypeCorrect, PTL DEF Spec, Remembered

-------------------------------------------------------------------------------
(* Presence keys                                                              *)

Through(k) == k \in beaten /\ beat[k] = "idle"

LastsLong ==
    \A k \in InUse \cap acked :
        /\ deviceId[k] \in Fingerprint
        /\ online[deviceId[k]] # None =>
              online[deviceId[k]] + faults + (IF Through(k) THEN 0 ELSE 1) >= Ttl

Numbered ==
    /\ acked \subseteq 1..opened
    /\ \A t \in Tab : sock[t] # None => sock[t] \in 1..opened
    /\ \A k \in 1..opened : deviceId[k] \in Fingerprint

LEMMA NumberedKept == TypeOK /\ Shown /\ Numbered /\ [Next]_vars => Numbered'
<1> SUFFICES ASSUME TypeOK, Shown, Numbered, [Next]_vars PROVE Numbered'
  OBVIOUS
<1>1. ASSUME NEW t \in Tab, Load(t) \/ Drop(t) PROVE Numbered'
  BY <1>1 DEF TypeOK, Load, Drop, Unplug, Numbered
<1>2. ASSUME NEW t \in Tab, Connect(t) PROVE Numbered'
  <2>1. opened \in Nat /\ opened' = opened + 1 /\ 1..opened \subseteq 1..opened'
    BY <1>2, PresenceAssumption DEF TypeOK, Connect
  <2>2. device[t].fingerprint \in Fingerprint /\ opened + 1 \in Socket
    BY <1>2 DEF TypeOK, Connect, IsReady, Shown
  <2>3. acked' \subseteq 1..opened'
    BY <1>2, <2>1 DEF Connect, Numbered
  <2>4. \A u \in Tab : sock'[u] # None => sock'[u] \in 1..opened'
    BY <1>2, <2>1 DEF TypeOK, Connect, Numbered
  <2>5. \A k \in 1..opened' : deviceId'[k] \in Fingerprint
    BY <1>2, <2>1, <2>2 DEF TypeOK, Connect, Numbered, Socket
  <2> QED
    BY <2>3, <2>4, <2>5 DEF Numbered
<1>3. ASSUME NEW k \in Socket, TrackHeartbeat(k) PROVE Numbered'
  <2>1. InUse \subseteq 1..opened
    BY PresenceAssumption DEF InUse, Numbered, Socket
  <2> QED
    BY <1>3, <2>1 DEF TrackHeartbeat, socketVars, Numbered
<1>4. CASE UNCHANGED <<acked, opened, sock, deviceId>>
  BY <1>4 DEF Numbered
<1>5. \/ \E t \in Tab : Load(t) \/ Drop(t) \/ Connect(t)
      \/ \E k \in Socket : TrackHeartbeat(k)
      \/ UNCHANGED <<acked, opened, sock, deviceId>>
  BY DEF Next, vars, Render, Initialize, Beat, Handlers, Enter, Refuse, SetPeer,
         Fail, Detect, Expire, Tick, socketVars, taskVars
<1> QED
  BY <1>1, <1>2, <1>3, <1>4, <1>5

(* A socket names its tab's fingerprint, and none drawn at a render.                  *)
THEOREM NamesOwn == Spec => []NamesStored
<1>1. Init => NamesStored
  BY DEF Init, NamesStored
<1>2. Init => Numbered
  BY PresenceAssumption DEF Init, Numbered
<1>3. TypeOK /\ Shown /\ Numbered /\ NamesStored /\ [Next]_vars => NamesStored'
  <2> SUFFICES ASSUME TypeOK, Shown, Numbered, NamesStored, [Next]_vars PROVE NamesStored'
    OBVIOUS
  <2>1. ASSUME NEW t \in Tab, Load(t) PROVE NamesStored'
    BY <2>1 DEF TypeOK, Load, Unplug, NamesStored
  <2>2. ASSUME NEW t \in Tab, Drop(t) PROVE NamesStored'
    BY <2>2 DEF TypeOK, Drop, Unplug, tabVars, NamesStored
  <2>3. ASSUME NEW t \in Tab, Connect(t) PROVE NamesStored'
    <3>1. \A u \in Tab : sock[u] # None => sock[u] # opened + 1
      BY <2>3, PresenceAssumption DEF TypeOK, Numbered
    <3>2. store' = store /\ device[t].fingerprint = store[t] /\ opened + 1 \in Socket
      BY <2>3 DEF Connect, IsReady, Shown, tabVars
    <3> QED
      BY <2>3, <3>1, <3>2 DEF TypeOK, Connect, NamesStored
  <2>4. ASSUME NEW t \in Tab, Initialize(t) PROVE NamesStored'
    <3>1. UNCHANGED <<sock, deviceId>>
      BY <2>4 DEF Initialize, socketVars
    <3>2. CASE store[t] # None
      <4>1. store' = store
        BY <2>4, <3>2 DEF TypeOK, Initialize, Draws
      <4> QED
        BY <3>1, <4>1 DEF NamesStored
    <3>3. CASE store[t] = None
      <4>1. sock[t] = None
        BY <3>3, PresenceAssumption DEF Numbered, NamesStored, Fingerprint
      <4>2. store' = [store EXCEPT ![t] = storage']
        BY <2>4 DEF Initialize
      <4> QED
        BY <3>1, <4>1, <4>2 DEF TypeOK, NamesStored
    <3> QED
      BY <3>2, <3>3
  <2>5. CASE UNCHANGED <<store, sock, deviceId>>
    BY <2>5 DEF NamesStored
  <2>6. \/ \E t \in Tab : Load(t) \/ Initialize(t) \/ Connect(t) \/ Drop(t)
        \/ UNCHANGED <<store, sock, deviceId>>
    BY DEF Next, vars, Render, Beat, Handlers, Enter, Refuse, SetPeer, TrackHeartbeat,
           Fail, Detect, Expire, Tick, tabVars, socketVars
  <2> QED
    BY <2>1, <2>2, <2>3, <2>4, <2>5, <2>6
<1> QED
  BY <1>1, <1>2, <1>3, TypeCorrect, ShownStarts, ShownKept, NumberedKept, PTL DEF Spec

(* A step that only sets, keeps or deletes keys keeps the rest, if a heartbeat     *)
(* is through only when it was or when a fault took it.                        *)
LEMMA Lasting ==
    ASSUME TypeOK, TypeOK', LastsLong,
           InUse' \cap acked' \subseteq InUse \cap acked,
           \A k \in InUse \cap acked : deviceId'[k] = deviceId[k],
           \A f \in Fingerprint : online'[f] \in {online[f], Ttl, None},
           \/ faults' = faults /\ \A k \in InUse' \cap acked' : Through(k)' => Through(k)
           \/ faults' = faults + 1
    PROVE  LastsLong'
<1> SUFFICES ASSUME NEW k \in InUse' \cap acked'
             PROVE  /\ deviceId'[k] \in Fingerprint
                    /\ online'[deviceId'[k]] # None =>
                         online'[deviceId'[k]] + faults' + (IF Through(k)' THEN 0 ELSE 1) >= Ttl
  BY DEF LastsLong
<1> DEFINE f == deviceId[k]
<1>1. f \in Fingerprint /\ deviceId'[k] = f
  BY DEF LastsLong
<1>2. online[f] # None => online[f] + faults + (IF Through(k) THEN 0 ELSE 1) >= Ttl
  BY DEF LastsLong
<1>3. Ttl \in Nat /\ faults \in Nat /\ faults' \in Nat /\ online[f] \in 0..Ttl \cup {None}
  BY <1>1, PresenceAssumption DEF TypeOK
<1>4. CASE online'[f] = Ttl
  BY <1>1, <1>3, <1>4
<1>5. CASE online'[f] = online[f] /\ online[f] # None
  <2>1. online[f] \in Nat
    BY <1>3, <1>5
  <2>2. CASE faults' = faults + 1
    BY <1>1, <1>2, <1>3, <1>5, <2>1, <2>2
  <2>3. CASE faults' = faults /\ (Through(k)' => Through(k))
    BY <1>1, <1>2, <1>3, <1>5, <2>1, <2>3
  <2> QED
    BY <2>2, <2>3
<1> QED
  BY <1>1, <1>4, <1>5

LEMMA LastsKept == TypeOK /\ Numbered /\ LastsLong /\ [Next]_vars => LastsLong'
<1> SUFFICES ASSUME TypeOK, Numbered, LastsLong, [Next]_vars PROVE LastsLong'
  OBVIOUS
<1>0. TypeOK'
  BY TypeKept
<1> DEFINE Kept == \A f \in Fingerprint : online'[f] \in {online[f], Ttl, None}
<1>1. \A f : SetOnline(f) \/ DeleteOnline(f) \/ UNCHANGED online => Kept
  BY DEF TypeOK, SetOnline, DeleteOnline
<1>2. ASSUME NEW t \in Tab, Load(t) \/ Drop(t) PROVE LastsLong'
  <2>1. Unplug(t)
    BY <1>2 DEF Load, Drop
  <2>2. InUse' \cap acked' \subseteq InUse \cap acked
    BY <2>1 DEF TypeOK, Unplug, InUse
  <2>3. \A k \in InUse' \cap acked' : Through(k)' => Through(k)
    BY <2>1 DEF Unplug, Through
  <2> QED
    BY <1>0, <1>1, <2>1, <2>2, <2>3, Lasting DEF Unplug, keyVars
<1>3. ASSUME NEW t \in Tab, Connect(t) PROVE LastsLong'
  <2>1. opened + 1 \notin acked
    BY PresenceAssumption DEF TypeOK, Numbered
  <2>2. InUse' \cap acked' \subseteq InUse \cap acked
    BY <1>3, <2>1 DEF TypeOK, Connect, InUse
  <2>3. \A k \in InUse' \cap acked' : Through(k)' => Through(k)
    BY <1>3, <2>1, <2>2 DEF Connect, Through
  <2>4. \A k \in InUse \cap acked : deviceId'[k] = deviceId[k]
    BY <1>3, <2>1 DEF TypeOK, Connect
  <2> QED
    BY <1>0, <1>1, <1>3, <2>2, <2>3, <2>4, Lasting DEF Connect, keyVars
<1>4. ASSUME NEW j \in Socket, Beat(j) PROVE LastsLong'
  <2>1. \A k \in InUse' \cap acked' : Through(k)' => Through(k)
    BY <1>4 DEF TypeOK, Beat, Through
  <2> QED
    BY <1>0, <1>1, <1>4, <2>1, Lasting DEF Beat, socketVars, keyVars, InUse
<1>5. ASSUME NEW j \in Socket, Enter(j) PROVE LastsLong'
  BY <1>0, <1>1, <1>5, Lasting DEF Enter, InUse, Through
<1>6. ASSUME NEW j \in Socket, TrackHeartbeat(j) PROVE LastsLong'
  <2>1. /\ SetOnline(deviceId[j])
        /\ UNCHANGED <<sock, deviceId, beaten, faults>>
        /\ InUse' = InUse
    BY <1>6 DEF TrackHeartbeat, Extend, socketVars, InUse
  <2> SUFFICES ASSUME NEW k \in InUse' \cap acked'
               PROVE  /\ deviceId'[k] \in Fingerprint
                      /\ online'[deviceId'[k]] # None =>
                           online'[deviceId'[k]] + faults' + (IF Through(k)' THEN 0 ELSE 1) >= Ttl
    BY DEF LastsLong
  <2>2. deviceId[k] \in Fingerprint /\ deviceId'[k] = deviceId[k]
    BY <2>1, PresenceAssumption DEF Numbered, InUse, Socket
  <2>3. Ttl \in Nat /\ faults \in Nat
    BY PresenceAssumption DEF TypeOK
  <2>4. CASE deviceId[k] = deviceId[j]
    <3>1. online'[deviceId[k]] = Ttl
      BY <2>1, <2>2, <2>4 DEF TypeOK, SetOnline
    <3> QED
      BY <2>1, <2>2, <2>3, <3>1
  <2>5. CASE deviceId[k] # deviceId[j]
    <3>1. k # j /\ k \in InUse \cap acked
      BY <1>6, <2>1, <2>5 DEF TrackHeartbeat
    <3>2. online'[deviceId[k]] = online[deviceId[k]]
      BY <2>1, <2>2, <2>5 DEF TypeOK, SetOnline
    <3>3. Through(k)' <=> Through(k)
      BY <1>6, <2>1, <3>1 DEF TypeOK, TrackHeartbeat, Through
    <3> QED
      BY <2>1, <2>2, <3>1, <3>2, <3>3 DEF LastsLong
  <2> QED
    BY <2>4, <2>5
<1>7. ASSUME NEW j \in Socket, Fail(j) PROVE LastsLong'
  <2>1. Kept
    BY <1>1, <1>7 DEF Fail, Extend
  <2>2. InUse' = InUse /\ acked' = acked /\ deviceId' = deviceId /\ faults' = faults + 1
    BY <1>7 DEF Fail, Fault, InUse
  <2> QED
    BY <1>0, <2>1, <2>2, Lasting
<1>8. ASSUME NEW j \in Socket, Detect(j) PROVE LastsLong'
  <2>1. Kept
    BY <1>1, <1>8 DEF Detect, Offline, keyVars
  <2>2. InUse' = InUse /\ acked' = acked /\ deviceId' = deviceId /\ beaten' = beaten /\ j \notin InUse
    BY <1>8 DEF Detect, InUse
  <2>3. faults' = faults \/ faults' = faults + 1
    BY <1>8 DEF Detect, Offline, Fault
  <2>4. \A k \in InUse : beat'[k] = beat[k]
    BY <1>8, <2>2 DEF TypeOK, Detect, InUse
  <2> QED
    BY <1>0, <2>1, <2>2, <2>3, <2>4, Lasting DEF Through
<1>9. ASSUME NEW f \in Fingerprint, Expire(f) PROVE LastsLong'
  <2>1. Kept
    BY <1>1, <1>9 DEF Expire, DeleteOnline
  <2> QED
    BY <1>0, <1>9, <2>1, Lasting DEF Expire, socketVars, taskVars, InUse, Through
<1>10. ASSUME Tick PROVE LastsLong'
  <2>1. InUse' = InUse /\ acked' = acked /\ deviceId' = deviceId /\ faults' = faults
    BY <1>10 DEF Tick, socketVars, InUse
  <2> SUFFICES ASSUME NEW k \in InUse \cap acked
               PROVE  /\ deviceId[k] \in Fingerprint
                      /\ online'[deviceId[k]] # None =>
                           online'[deviceId[k]] + faults + (IF Through(k)' THEN 0 ELSE 1) >= Ttl
    BY <2>1 DEF LastsLong
  <2> DEFINE n == online[deviceId[k]]
  <2>2. deviceId[k] \in Fingerprint
    BY DEF LastsLong
  <2>3. Through(k) /\ ~Through(k)'
    BY <1>10 DEF Tick, InUse, Through
  <2>4. n # None => n + faults >= Ttl /\ n \in Nat
    <3>1. n \in 0..Ttl \cup {None} /\ faults \in Nat
      BY <2>2, PresenceAssumption DEF TypeOK
    <3> QED
      BY <2>3, <3>1 DEF LastsLong
  <2>5. online'[deviceId[k]] = Aged(n)
    BY <1>10, <2>2 DEF Tick
  <2>6. Ttl \in Nat /\ faults \in Nat
    BY PresenceAssumption DEF TypeOK
  <2> QED
    BY <2>2, <2>3, <2>4, <2>5, <2>6 DEF Aged
<1>11. CASE UNCHANGED <<sock, deviceId, acked, online, faults, beaten, beat>>
  BY <1>0, <1>1, <1>11, Lasting DEF InUse, Through
<1>12. \/ \E t \in Tab : Load(t) \/ Drop(t) \/ Connect(t)
       \/ \E j \in Socket : Beat(j) \/ Enter(j) \/ TrackHeartbeat(j) \/ Fail(j) \/ Detect(j)
       \/ \E f \in Fingerprint : Expire(f)
       \/ Tick
       \/ UNCHANGED <<sock, deviceId, acked, online, faults, beaten, beat>>
  BY DEF Next, vars, Render, Initialize, Handlers, Refuse, SetPeer, socketVars, taskVars, keyVars
<1> QED
  BY <1>2, <1>3, <1>4, <1>5, <1>6, <1>7, <1>8, <1>9, <1>10, <1>11, <1>12

(* The key of a device in use that had a heartbeat acknowledged does not run out. *)
THEOREM NeverRunsOut == Spec => []NeverLapses
<1>1. Init => Numbered /\ LastsLong
  BY PresenceAssumption DEF Init, Numbered, LastsLong
<1>2. TypeOK /\ LastsLong => NeverLapses
  <2> SUFFICES ASSUME TypeOK, LastsLong, faults + 1 < Ttl, NEW k \in InUse \cap acked
               PROVE  online[deviceId[k]] # 0
    BY DEF NeverLapses
  <2>1. Ttl \in Nat /\ faults \in Nat /\ 0 # None
    BY PresenceAssumption DEF TypeOK
  <2> QED
    BY <2>1 DEF LastsLong
<1> QED
  BY <1>1, <1>2, TypeCorrect, ShownStarts, ShownKept, NumberedKept, LastsKept, PTL DEF Spec

-------------------------------------------------------------------------------
(* Who takes a device in use offline                                            *)

(* The other sockets of the device that have left, and were noticed.               *)
LeftOthers(k) == {j \in 1..opened \ (linked \cup {k}) : deviceId[j] = deviceId[k]}

(* A device in use that had a heartbeat acknowledged is online, unless another of    *)
(* its sockets has left (or as many heartbeats failed as for NeverLapses).          *)
OnlineOrOthersLeft ==
    faults + 1 < Ttl =>
        \A k \in InUse \cap acked : Online(deviceId[k]) \/ LeftOthers(k) # {}

(* The server holds no socket that was not opened.                                *)
LinkedOpened == linked \subseteq 1..opened

LEMMA LinkedKept == TypeOK /\ LinkedOpened /\ [Next]_vars => LinkedOpened'
<1> SUFFICES ASSUME TypeOK, LinkedOpened, [Next]_vars PROVE LinkedOpened'
  OBVIOUS
<1>1. ASSUME NEW t \in Tab, Connect(t) PROVE LinkedOpened'
  <2>1. opened \in Nat /\ opened' = opened + 1 /\ linked' = linked \cup {opened + 1}
    BY <1>1, PresenceAssumption DEF TypeOK, Connect
  <2> QED
    BY <2>1 DEF LinkedOpened
<1>2. CASE opened' = opened /\ linked' \subseteq linked
  BY <1>2 DEF LinkedOpened
<1>3. (\E t \in Tab : Connect(t)) \/ (opened' = opened /\ linked' \subseteq linked)
  BY DEF Next, vars, Load, Render, Unplug, Initialize, Drop, Beat, Handlers, Enter, Refuse, SetPeer,
         TrackHeartbeat, Fail, Detect, Expire, Tick, socketVars, taskVars
<1> QED
  BY <1>1, <1>2, <1>3

(* A step that deletes the key of no device in use, or of one another socket of       *)
(* which has left.                                                              *)
LEMMA StillOnline ==
    ASSUME TypeOK, TypeOK', Numbered, OnlineOrOthersLeft, faults' >= faults,
           InUse' \cap acked' \subseteq InUse \cap acked,
           1..opened \subseteq 1..opened', linked' \cap 1..opened \subseteq linked,
           \A k \in 1..opened : deviceId'[k] = deviceId[k],
           faults' + 1 < Ttl =>
              \A k \in InUse \cap acked :
                 Online(deviceId[k]) => Online(deviceId[k])' \/ LeftOthers(k)' # {}
    PROVE  OnlineOrOthersLeft'
<1> SUFFICES ASSUME faults' + 1 < Ttl, NEW k \in InUse' \cap acked'
             PROVE  Online(deviceId[k])' \/ LeftOthers(k)' # {}
  BY DEF OnlineOrOthersLeft
<1>1. faults + 1 < Ttl /\ k \in InUse \cap acked
  <2>1. faults \in Nat /\ faults' \in Nat /\ Ttl \in Nat
    BY PresenceAssumption DEF TypeOK
  <2>2. \A a, b, c \in Nat : a >= b /\ a + 1 < c => b + 1 < c
    OBVIOUS
  <2>3. faults + 1 < Ttl
    BY <2>1, <2>2
  <2>4. k \in InUse \cap acked
    OBVIOUS
  <2> QED
    BY <2>3, <2>4
<1>2. k \in 1..opened /\ deviceId'[k] = deviceId[k]
  BY <1>1 DEF Numbered
<1>3. LeftOthers(k) \subseteq LeftOthers(k)'
  BY <1>2 DEF LeftOthers
<1>4. Online(deviceId[k]) \/ LeftOthers(k) # {}
  BY <1>1 DEF OnlineOrOthersLeft
<1>5. Online(deviceId[k]) => Online(deviceId[k])' \/ LeftOthers(k)' # {}
  BY <1>1
<1> QED
  BY <1>3, <1>4, <1>5

LEMMA OnlineKept ==
    TypeOK /\ Numbered /\ LinkedOpened /\ LastsLong /\ OnlineOrOthersLeft /\ [Next]_vars
       => OnlineOrOthersLeft'
<1> SUFFICES ASSUME TypeOK, Numbered, LinkedOpened, LastsLong, OnlineOrOthersLeft,
                    [Next]_vars
             PROVE  OnlineOrOthersLeft'
  OBVIOUS
<1>0. TypeOK' /\ faults \in Nat /\ faults' \in Nat /\ Ttl \in Nat
  BY TypeKept, PresenceAssumption DEF TypeOK
<1> DEFINE Stay == /\ 1..opened \subseteq 1..opened' /\ linked' \cap 1..opened \subseteq linked
                   /\ \A k \in 1..opened : deviceId'[k] = deviceId[k]
           NoneDeleted == \A f \in Fingerprint : online'[f] = None => online[f] = None
<1>1. UNCHANGED <<opened, deviceId>> /\ linked' \subseteq linked => Stay
  OBVIOUS
<1>2. ASSUME NoneDeleted, Stay, faults' >= faults, InUse' \cap acked' \subseteq InUse \cap acked
      PROVE  OnlineOrOthersLeft'
  <2>1. ASSUME NEW k \in InUse \cap acked, Online(deviceId[k]) PROVE Online(deviceId[k])'
    <3>1. k \in 1..opened /\ deviceId[k] \in Fingerprint /\ deviceId'[k] = deviceId[k]
      BY <1>2 DEF Numbered
    <3> QED
      BY <1>2, <2>1, <3>1 DEF Online
  <2> QED
    BY <1>0, <1>2, <2>1, StillOnline
<1>3. ASSUME NEW t \in Tab, Load(t) \/ Drop(t) PROVE OnlineOrOthersLeft'
  <2>1. Unplug(t)
    BY <1>3 DEF Load, Drop
  <2>2. InUse' \cap acked' \subseteq InUse \cap acked
    BY <2>1 DEF TypeOK, Unplug, InUse
  <2> QED
    BY <1>0, <1>1, <1>2, <2>1, <2>2 DEF Unplug, keyVars
<1>4. ASSUME NEW t \in Tab, Connect(t) PROVE OnlineOrOthersLeft'
  <2>1. opened \in Nat /\ opened' = opened + 1 /\ opened + 1 \notin 1..opened
    BY <1>4, PresenceAssumption DEF TypeOK, Connect
  <2>2. opened + 1 \notin acked
    BY <2>1 DEF Numbered
  <2>3. InUse' \cap acked' \subseteq InUse \cap acked
    BY <1>4, <2>2 DEF TypeOK, Connect, InUse
  <2>4. Stay
    BY <1>4, <2>1 DEF TypeOK, Connect
  <2> QED
    BY <1>0, <1>2, <1>4, <2>3, <2>4 DEF Connect, keyVars
<1>5. ASSUME NEW j \in Socket, Enter(j) PROVE OnlineOrOthersLeft'
  <2>1. NoneDeleted /\ Stay /\ InUse' = InUse
    BY <1>1, <1>5, PresenceAssumption DEF TypeOK, Enter, SetOnline, InUse
  <2> QED
    BY <1>0, <1>2, <1>5, <2>1 DEF Enter
<1>6. ASSUME NEW j \in Socket, TrackHeartbeat(j) PROVE OnlineOrOthersLeft'
  <2>1. /\ UNCHANGED socketVars /\ faults' = faults /\ InUse' = InUse
        /\ acked' = acked \cup ({j} \cap InUse)
        /\ SetOnline(deviceId[j])
    BY <1>6 DEF TrackHeartbeat, Extend, socketVars, InUse
  <2> SUFFICES ASSUME faults + 1 < Ttl, NEW k \in InUse \cap acked'
               PROVE  Online(deviceId[k])' \/ LeftOthers(k)' # {}
    BY <2>1 DEF OnlineOrOthersLeft
  <2>2. deviceId'[k] = deviceId[k] /\ LeftOthers(k)' = LeftOthers(k)
    BY <2>1 DEF socketVars, LeftOthers
  <2>3. deviceId[k] \in Fingerprint
    BY PresenceAssumption DEF Numbered, InUse, Socket
  <2>4. CASE deviceId[k] = deviceId[j]
    <3>1. online'[deviceId[k]] = Ttl
      BY <2>1, <2>3, <2>4 DEF TypeOK, SetOnline
    <3> QED
      BY <1>0, <2>2, <3>1, PresenceAssumption DEF Online
  <2>5. CASE deviceId[k] # deviceId[j]
    <3>1. k \in InUse \cap acked
      BY <2>1, <2>5
    <3>2. online'[deviceId[k]] = online[deviceId[k]]
      BY <2>1, <2>3, <2>5 DEF TypeOK, SetOnline
    <3> QED
      BY <2>2, <3>1, <3>2 DEF OnlineOrOthersLeft, Online
  <2> QED
    BY <2>4, <2>5
<1>7. ASSUME NEW j \in Socket, Fail(j) PROVE OnlineOrOthersLeft'
  <2>1. UNCHANGED online \/ SetOnline(deviceId[j])
    BY <1>7 DEF Fail, Extend
  <2>2. NoneDeleted
    BY <2>1, PresenceAssumption DEF TypeOK, SetOnline
  <2>3. Stay /\ InUse' = InUse /\ acked' = acked /\ faults' = faults + 1
    BY <1>7, <1>1 DEF Fail, Fault, InUse
  <2> QED
    BY <1>0, <1>2, <2>2, <2>3
<1>8. ASSUME NEW j \in Socket, Detect(j) PROVE OnlineOrOthersLeft'
  <2>1. /\ UNCHANGED <<sock, opened, deviceId, acked>> /\ InUse' = InUse
        /\ linked' = linked \ {j} /\ j \notin InUse /\ j \in 1..opened
    BY <1>8 DEF Detect, InUse, LinkedOpened
  <2>2. faults' >= faults
    BY <1>0, <1>8 DEF Detect, Offline, Fault
  <2>3. online' = online \/ online' = [online EXCEPT ![deviceId[j]] = None]
    BY <1>8 DEF Detect, Offline, DeleteOnline, keyVars
  <2>4. ASSUME NEW k \in InUse \cap acked, Online(deviceId[k]), ~Online(deviceId[k])'
        PROVE  LeftOthers(k)' # {}
    <3>1. k \in 1..opened /\ deviceId[k] \in Fingerprint /\ k # j
      BY <2>1 DEF Numbered
    <3>2. deviceId[j] = deviceId[k]
      BY <2>1, <2>3, <2>4, <3>1 DEF TypeOK, Online
    <3> QED
      BY <2>1, <3>1, <3>2 DEF LeftOthers
  <2> QED
    BY <1>0, <1>1, <2>1, <2>2, <2>4, StillOnline
<1>9. ASSUME NEW f \in Fingerprint, Expire(f) PROVE OnlineOrOthersLeft'
  <2>1. /\ UNCHANGED <<sock, opened, deviceId, linked, acked, faults>> /\ InUse' = InUse
        /\ online' = [online EXCEPT ![f] = None] /\ online[f] = 0
    BY <1>9 DEF Expire, socketVars, taskVars, InUse
  <2>2. ASSUME faults + 1 < Ttl, NEW k \in InUse \cap acked, Online(deviceId[k])
        PROVE  Online(deviceId[k])'
    <3>1. deviceId[k] # f
      BY <1>0, <2>1, <2>2 DEF LastsLong, Online
    <3> QED
      BY <2>1, <2>2, <3>1 DEF LastsLong, TypeOK, Online
  <2> QED
    BY <1>0, <1>1, <2>1, <2>2, StillOnline
<1>10. ASSUME Tick PROVE OnlineOrOthersLeft'
  <2>1. /\ UNCHANGED socketVars /\ acked' = acked /\ faults' = faults /\ InUse' = InUse
        /\ online' = [f \in Fingerprint |-> Aged(online[f])]
        /\ \A k \in InUse : Through(k)
    BY <1>10 DEF Tick, socketVars, InUse, Through
  <2>2. ASSUME faults + 1 < Ttl, NEW k \in InUse \cap acked, Online(deviceId[k])
        PROVE  Online(deviceId[k])'
    <3> DEFINE n == online[deviceId[k]]
    <3>0. deviceId[k] \in Fingerprint /\ n # None
      BY <2>2 DEF LastsLong, Online
    <3>1. n + faults + 0 >= Ttl
      BY <2>1, <2>2, <3>0 DEF LastsLong
    <3>2. n \in Nat /\ None \notin Nat
      BY <3>0, PresenceAssumption DEF TypeOK
    <3>3. n >= 2
      BY <1>0, <2>2, <3>1, <3>2
    <3>4. Aged(n) = n - 1 /\ n - 1 \in Nat
      BY <3>2, <3>3 DEF Aged
    <3>5. online'[deviceId[k]] = Aged(n) /\ deviceId' = deviceId
      BY <2>1, <3>0 DEF socketVars
    <3> QED
      BY <3>2, <3>4, <3>5 DEF Online
  <2>3. Stay /\ faults' >= faults
    BY <1>0, <1>1, <2>1 DEF socketVars
  <2> QED
    BY <1>0, <2>1, <2>2, <2>3, StillOnline
<1>11. CASE UNCHANGED <<sock, opened, deviceId, linked, acked, online, faults>>
  BY <1>0, <1>1, <1>2, <1>11 DEF InUse
<1>12. \/ \E t \in Tab : Load(t) \/ Drop(t) \/ Connect(t)
       \/ \E j \in Socket : Enter(j) \/ TrackHeartbeat(j) \/ Fail(j) \/ Detect(j)
       \/ \E f \in Fingerprint : Expire(f)
       \/ Tick
       \/ UNCHANGED <<sock, opened, deviceId, linked, acked, online, faults>>
  BY DEF Next, vars, Render, Initialize, Beat, Handlers, Refuse, SetPeer, socketVars, taskVars, keyVars
<1> QED
  BY <1>3, <1>4, <1>5, <1>6, <1>7, <1>8, <1>9, <1>10, <1>11, <1>12

(* The key of a device in use is gone only when another of its sockets left before:     *)
(* trackOffline deletes under the device what another tab, or the next socket of the    *)
(* same one, still needs (presence.service, 66-74; gateway, handleDisconnect).        *)
THEOREM TakenOffByOthers == Spec => []OnlineOrOthersLeft
<1>1. Init => Numbered /\ LastsLong /\ LinkedOpened /\ OnlineOrOthersLeft
  BY PresenceAssumption DEF Init, Numbered, LastsLong, LinkedOpened, OnlineOrOthersLeft
<1> QED
  BY <1>1, TypeCorrect, ShownStarts, ShownKept, NumberedKept, LinkedKept, LastsKept, OnlineKept, PTL DEF Spec
===============================================================================
