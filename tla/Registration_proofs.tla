-------------------------- MODULE Registration_proofs --------------------------
(***************************************************************************)
(* The device side of the server, proved for every number of devices,      *)
(* addresses and phones and every bound.  First CDeviceManager by itself:  *)
(* what its operations keep true, whoever calls them.  Then the handlers,  *)
(* which use it through its operations only: the index is complete, and an *)
(* online device has a connection or a known reason for having none.  Each *)
(* proof is an induction over the steps: one lemma says what a step does   *)
(* to the invariant, one step of its proof per action.                     *)
(***************************************************************************)
EXTENDS Registration, StdMapTheorems, TLAPS

USE ExpireAssumption, MaxTokensAssumption

-----------------------------------------------------------------------------
(* Type correctness. *)

LEMMA InitTypeOK == DMInit => DMTypeOK
  BY EmptyMapTyped DEF DMInit, DMTypeOK, Scan

\* Overwriting fields of one entry of the device table.
LEMMA DeviceUpdate ==
  ASSUME NEW u \in Uuids, DMTypeOK, Known(u)
  PROVE  /\ deviceMap[u] \in DeviceInfo
         /\ \A d \in DeviceInfo :
              /\ [deviceMap EXCEPT ![u] = d] \in Maps(Uuids, DeviceInfo)
              /\ DOMAIN [deviceMap EXCEPT ![u] = d] = DOMAIN deviceMap
  <1>1. deviceMap \in Maps(Uuids, DeviceInfo) /\ u \in DOMAIN deviceMap
    BY DEF DMTypeOK, Known
  <1>2. QED
    BY <1>1, UpdateMap, MapValue

LEMMA RefreshTyped ==
  ASSUME NEW u \in Uuids, DMTypeOK, Known(u), Refresh(u)
  PROVE  deviceMap' \in Maps(Uuids, DeviceInfo)
  <1>1. [deviceMap[u] EXCEPT !.age = 0] \in DeviceInfo
    BY DeviceUpdate DEF DeviceInfo, Ages
  <1>2. deviceMap' = [deviceMap EXCEPT ![u] = [deviceMap[u] EXCEPT !.age = 0]]
    BY DEF Refresh
  <1>3. QED
    BY <1>1, <1>2, DeviceUpdate

\* What deviceOffline(id) leaves is well typed.
LEMMA DropDeviceTyped ==
  ASSUME DMTypeOK, NEW s \in Socks, DropDevice(s)
  PROVE  /\ deviceMap' \in Maps(Uuids, DeviceInfo)
         /\ idMap' \in Maps(Socks, Uuids)
         /\ lastPush' \in [Uuids -> {"none", "online", "offline"}]
  <1>1. CASE s \notin DOMAIN idMap
    BY <1>1 DEF DropDevice, DMTypeOK
  <1>2. CASE s \in DOMAIN idMap
    <2>1. idMap' \in Maps(Socks, Uuids)
      <3>1. idMap' = Erase(idMap, s)
        BY <1>2 DEF DropDevice
      <3>2. QED
        BY <3>1, EraseMap DEF DMTypeOK
    <2>2. CASE Known(idMap[s])
      <3>1. deviceMap' = Erase(deviceMap, idMap[s]) /\ Push(idMap[s], "offline")
        BY <1>2, <2>2 DEF DropDevice
      <3>2. deviceMap' \in Maps(Uuids, DeviceInfo)
        BY <3>1, EraseMap DEF DMTypeOK
      <3>3. QED
        BY <2>1, <3>1, <3>2 DEF DMTypeOK, Push
    <2>3. CASE ~ Known(idMap[s])
      BY <1>2, <2>1, <2>3 DEF DropDevice, DMTypeOK
    <2>4. QED
      BY <2>2, <2>3
  <1>3. QED
    BY <1>1, <1>2

LEMMA NextTypeOK == DMTypeOK /\ [DMNext]_dmVars => DMTypeOK'
  <1> SUFFICES ASSUME DMTypeOK, [DMNext]_dmVars PROVE DMTypeOK'
    OBVIOUS
  <1>1. ASSUME NEW u \in Uuids, NEW i \in Socks, AddDevice(u, i) PROVE DMTypeOK'
    <2>0. UNCHANGED <<idMap, lastPush, scan>>
      BY <1>1 DEF AddDevice
    <2>1. CASE Online(u)
      <3>1. UNCHANGED <<deviceMap, issued>>
        BY <1>1, <2>1 DEF AddDevice, Online
      <3>2. QED BY <2>0, <3>1 DEF DMTypeOK
    <2>2. CASE Known(u) /\ ~ Online(u)
      <3>1. Refresh(u) /\ UNCHANGED issued
        BY <1>1, <2>2 DEF AddDevice
      <3>2. QED BY <2>0, <2>2, <3>1, RefreshTyped DEF DMTypeOK
    <2>3. CASE ~ Known(u)
      <3>1. /\ issued' = issued + 1
            /\ issued + 1 \in Tokens
            /\ deviceMap' = Insert(deviceMap, u, NewDevice(i, issued + 1))
        BY <1>1, <2>3 DEF AddDevice, DMTypeOK, Tokens, Online
      <3>2. NewDevice(i, issued + 1) \in DeviceInfo
        BY <3>1 DEF NewDevice, DeviceInfo, Ages
      <3>3. deviceMap' \in Maps(Uuids, DeviceInfo)
        BY <3>1, <3>2, InsertMap DEF DMTypeOK
      <3>4. QED BY <2>0, <3>1, <3>3 DEF DMTypeOK, Tokens
    <2>4. QED BY <2>1, <2>2, <2>3 DEF Online
  <1>2. ASSUME NEW u \in Uuids, KeepAliveDevice(u) PROVE DMTypeOK'
    BY <1>2, RefreshTyped DEF KeepAliveDevice, DMTypeOK, Online
  <1>3. ASSUME NEW u \in Uuids, NEW t \in Tokens, NEW s \in Socks, DeviceOnline(u, t, s)
        PROVE DMTypeOK'
    <2>1. CASE Online(u)
      BY <1>3, <2>1, RefreshTyped DEF DeviceOnline, DMTypeOK, Online
    <2>2. CASE Known(u) /\ ~ Online(u) /\ deviceMap[u].token = t
      <3>1. /\ deviceMap' = [deviceMap EXCEPT ![u] =
                               [deviceMap[u] EXCEPT !.online = TRUE, !.id = s]]
            /\ idMap' = Insert(idMap, s, u)
            /\ Push(u, "online")
            /\ UNCHANGED <<issued, scan>>
        BY <1>3, <2>2 DEF DeviceOnline, DMTypeOK, Maps, Known
      <3>2. [deviceMap[u] EXCEPT !.online = TRUE, !.id = s] \in DeviceInfo
        BY <2>2, DeviceUpdate DEF DeviceInfo
      <3>3. deviceMap' \in Maps(Uuids, DeviceInfo)
        BY <2>2, <3>1, <3>2, DeviceUpdate
      <3>4. idMap' \in Maps(Socks, Uuids)
        BY <3>1, InsertMap DEF DMTypeOK
      <3>5. QED
        BY <3>1, <3>3, <3>4 DEF DMTypeOK, Push
    <2>3. CASE Known(u) => ~ Online(u) /\ deviceMap[u].token # t
      BY <1>3, <2>3 DEF DeviceOnline, DMTypeOK, Online
    <2>4. QED BY <1>3, <2>1, <2>2, <2>3 DEF DeviceOnline
  <1>4. ASSUME NEW u \in Uuids, NEW p \in Phones \cup {NoPhone}, BindMobile(u, p)
        PROVE DMTypeOK'
    <2>1. CASE Known(u)
      <3>1. [deviceMap[u] EXCEPT !.phone = p] \in DeviceInfo
        BY <2>1, DeviceUpdate DEF DeviceInfo
      <3>2. deviceMap' = [deviceMap EXCEPT ![u] = [deviceMap[u] EXCEPT !.phone = p]]
        BY <1>4, <2>1 DEF BindMobile, SetPhone
      <3>3. QED
        BY <1>4, <2>1, <3>1, <3>2, DeviceUpdate DEF BindMobile, SetPhone, DMTypeOK
    <2>2. CASE ~ Known(u)
      BY <1>4, <2>2 DEF BindMobile, SetPhone, DMTypeOK
    <2>3. QED BY <2>1, <2>2
  <1>5. ASSUME NEW s \in Socks, DeviceOffline(s) PROVE DMTypeOK'
    BY <1>5, DropDeviceTyped DEF DeviceOffline, DMTypeOK
  <1>6. CASE Tick
    <2>1. \A u \in DOMAIN deviceMap : deviceMap[u] \in DeviceInfo
      BY MapValue DEF DMTypeOK
    <2>2. \A u \in DOMAIN deviceMap :
            [deviceMap[u] EXCEPT !.age = IF @ > Expire THEN @ ELSE @ + 1] \in DeviceInfo
      BY <2>1 DEF DeviceInfo, Ages
    <2>3. DOMAIN deviceMap' = DOMAIN deviceMap /\ deviceMap' \in [DOMAIN deviceMap -> DeviceInfo]
      BY <1>6, <2>2 DEF Tick
    <2>4. deviceMap' \in Maps(Uuids, DeviceInfo)
      BY <2>3, MapsDef DEF DMTypeOK
    <2>5. QED BY <1>6, <2>4 DEF Tick, DMTypeOK
  <1>7. ASSUME NEW u \in Uuids, ScanCheck(u) PROVE DMTypeOK'
    <2>1. deviceMap[u].id \in Socks
      BY <1>7, DeviceUpdate DEF ScanCheck, DeviceInfo
    <2>2. QED BY <1>7, <2>1 DEF ScanCheck, DMTypeOK, Scan
  <1>8. CASE ScanOffline
    <2>1. scan.id \in Socks /\ scan' \in Scan
      BY <1>8 DEF ScanOffline, DMTypeOK, Scan
    <2>2. QED BY <1>8, <2>1, DropDeviceTyped DEF ScanOffline, DMTypeOK
  <1>9. ASSUME NEW i, ScanPost(i) PROVE DMTypeOK'
    BY <1>9 DEF ScanPost, DMTypeOK, Scan
  <1>10. CASE UNCHANGED dmVars
    BY <1>10 DEF dmVars, DMTypeOK
  <1>11. QED
    BY <1>1, <1>2, <1>3, <1>4, <1>5, <1>6, <1>7, <1>8, <1>9, <1>10
    DEF DMNext, Operation, ScanStep, UnbindMobile

\* Every map, record and counter of the device manager keeps its type.
THEOREM TypeCorrect == DMSpec => []DMTypeOK
  BY InitTypeOK, NextTypeOK, PTL DEF DMSpec

-----------------------------------------------------------------------------
(* The two maps agree.  IdMapAgrees is inductive together with the types:   *)
(* it makes the index injective, so deviceOffline(id) erases the only entry *)
(* that can name the device it removes.                                     *)

\* What deviceOffline(id) does when the maps agree: the index loses one entry,
\* the table the online device it named, and nothing else.
LEMMA DropDeviceEffect ==
  ASSUME DMTypeOK, IdMapAgrees, NEW s \in Socks, DropDevice(s)
  PROVE  \/ UNCHANGED <<deviceMap, idMap, lastPush>>
         \/ \E u \in Uuids :
              /\ s \in DOMAIN idMap /\ idMap[s] = u /\ Online(u)
              /\ deviceMap[u].id = s
              /\ DOMAIN deviceMap' = DOMAIN deviceMap \ {u}
              /\ \A v \in DOMAIN deviceMap \ {u} : deviceMap'[v] = deviceMap[v]
              /\ DOMAIN idMap' = DOMAIN idMap \ {s}
              /\ \A r \in DOMAIN idMap \ {s} : idMap'[r] = idMap[r]
              /\ Push(u, "offline")
  <1>1. CASE s \notin DOMAIN idMap
    BY <1>1 DEF DropDevice
  <1>2. CASE s \in DOMAIN idMap
    <2>1. idMap[s] \in Uuids /\ Online(idMap[s]) /\ Known(idMap[s]) /\ deviceMap[idMap[s]].id = s
      BY <1>2, MapValue DEF DMTypeOK, IdMapAgrees, Online
    <2>2. /\ idMap' = Erase(idMap, s)
          /\ deviceMap' = Erase(deviceMap, idMap[s])
          /\ Push(idMap[s], "offline")
      BY <1>2, <2>1 DEF DropDevice
    <2>3. /\ DOMAIN deviceMap' = DOMAIN deviceMap \ {idMap[s]}
          /\ \A v \in DOMAIN deviceMap \ {idMap[s]} : deviceMap'[v] = deviceMap[v]
      BY <2>2 DEF Erase, Restrict
    <2>4. /\ DOMAIN idMap' = DOMAIN idMap \ {s}
          /\ \A r \in DOMAIN idMap \ {s} : idMap'[r] = idMap[r]
      BY <2>2 DEF Erase, Restrict
    <2>5. QED
      BY <1>2, <2>1, <2>2, <2>3, <2>4
  <1>3. QED
    BY <1>1, <1>2

\* So it keeps the maps in agreement.
LEMMA DropDeviceAgrees ==
  ASSUME DMTypeOK, IdMapAgrees, NEW s \in Socks, DropDevice(s)
  PROVE  IdMapAgrees'
  <1>1. CASE UNCHANGED <<deviceMap, idMap, lastPush>>
    BY <1>1 DEF IdMapAgrees, Online, Known
  <1>2. ASSUME NEW u \in Uuids,
               s \in DOMAIN idMap, idMap[s] = u, deviceMap[u].id = s,
               DOMAIN deviceMap' = DOMAIN deviceMap \ {u},
               \A v \in DOMAIN deviceMap \ {u} : deviceMap'[v] = deviceMap[v],
               DOMAIN idMap' = DOMAIN idMap \ {s},
               \A r \in DOMAIN idMap \ {s} : idMap'[r] = idMap[r]
        PROVE  IdMapAgrees'
    BY <1>2 DEF IdMapAgrees, Online, Known
  <1>3. QED
    BY <1>1, <1>2, DropDeviceEffect

LEMMA NextIdMapAgrees == DMTypeOK /\ IdMapAgrees /\ [DMNext]_dmVars => IdMapAgrees'
  <1> SUFFICES ASSUME DMTypeOK, IdMapAgrees, [DMNext]_dmVars PROVE IdMapAgrees'
    OBVIOUS
  <1>m. deviceMap \in [DOMAIN deviceMap -> DeviceInfo]
    BY MapsDef DEF DMTypeOK
  \* Every other step leaves the index alone and keeps who is online under which id.
  <1>a. ASSUME UNCHANGED idMap,
               \A u \in DOMAIN deviceMap :
                 Online(u) => /\ Online(u)'
                              /\ deviceMap'[u].id = deviceMap[u].id
        PROVE  IdMapAgrees'
    BY <1>a DEF IdMapAgrees, Online, Known
  <1>r. ASSUME NEW u \in Uuids, Known(u), Refresh(u), UNCHANGED idMap PROVE IdMapAgrees'
    <2>1. \A v \in DOMAIN deviceMap :
            /\ v \in DOMAIN deviceMap'
            /\ deviceMap'[v].online = deviceMap[v].online
            /\ deviceMap'[v].id = deviceMap[v].id
      BY <1>r, <1>m DEF Refresh, DeviceInfo, Known
    <2>2. QED
      BY <1>a, <1>r, <2>1 DEF Online, Known
  <1>1. ASSUME NEW u \in Uuids, NEW i \in Socks, AddDevice(u, i) PROVE IdMapAgrees'
    <2>0. UNCHANGED idMap
      BY <1>1 DEF AddDevice
    <2>1. CASE Online(u)
      BY <1>1, <2>0, <2>1, <1>a DEF AddDevice, Online, Known
    <2>2. CASE Known(u) /\ ~ Online(u)
      BY <1>1, <2>0, <2>2, <1>r DEF AddDevice
    <2>3. CASE ~ Known(u)
      <3>1. /\ issued + 1 \in Tokens
            /\ deviceMap' = Insert(deviceMap, u, NewDevice(i, issued + 1))
        BY <1>1, <2>3 DEF AddDevice, DMTypeOK, Tokens, Online
      <3>2. NewDevice(i, issued + 1) \in DeviceInfo
        BY <3>1 DEF NewDevice, DeviceInfo, Ages
      <3>3. \A v \in DOMAIN deviceMap : v \in DOMAIN deviceMap' /\ deviceMap'[v] = deviceMap[v]
        BY <2>3, <3>1 DEF Insert, Known
      <3>4. QED BY <2>0, <3>3, <1>a DEF Online, Known
    <2>4. QED BY <2>1, <2>2, <2>3 DEF Online
  <1>2. ASSUME NEW u \in Uuids, KeepAliveDevice(u) PROVE IdMapAgrees'
    BY <1>2, <1>a, <1>r DEF KeepAliveDevice, Online, Known
  <1>3. ASSUME NEW u \in Uuids, NEW t \in Tokens, NEW s \in Socks, DeviceOnline(u, t, s)
        PROVE IdMapAgrees'
    <2>1. CASE Online(u)
      BY <1>3, <2>1, <1>r DEF DeviceOnline, Online
    <2>2. CASE Known(u) /\ ~ Online(u) /\ deviceMap[u].token = t
      <3>1. /\ deviceMap' = [deviceMap EXCEPT ![u].online = TRUE, ![u].id = s]
            /\ idMap' = Insert(idMap, s, u)
        BY <1>3, <2>2 DEF DeviceOnline
      <3>2. /\ DOMAIN deviceMap' = DOMAIN deviceMap
            /\ deviceMap'[u].online = TRUE /\ deviceMap'[u].id = s
            /\ \A v \in DOMAIN deviceMap \ {u} : deviceMap'[v] = deviceMap[v]
        BY <1>m, <2>2, <3>1 DEF DeviceInfo, Known
      <3>3. /\ DOMAIN idMap' = DOMAIN idMap \cup {s}
            /\ \A r \in DOMAIN idMap : idMap'[r] = idMap[r]
            /\ s \notin DOMAIN idMap => idMap'[s] = u
        BY <3>1 DEF Insert
      <3>4. \A r \in DOMAIN idMap : idMap[r] # u
        BY <2>2 DEF IdMapAgrees
      <3>5. QED
        BY <2>2, <3>2, <3>3, <3>4 DEF IdMapAgrees, Online, Known
    <2>3. CASE Known(u) => ~ Online(u) /\ deviceMap[u].token # t
      BY <1>3, <2>3, <1>a DEF DeviceOnline, Online, Known
    <2>4. QED BY <1>3, <2>1, <2>2, <2>3 DEF DeviceOnline
  <1>4. ASSUME NEW u \in Uuids, NEW p \in Phones \cup {NoPhone}, BindMobile(u, p)
        PROVE IdMapAgrees'
    <2>1. UNCHANGED idMap
      BY <1>4 DEF BindMobile
    <2>2. \A v \in DOMAIN deviceMap :
            /\ v \in DOMAIN deviceMap'
            /\ deviceMap'[v].online = deviceMap[v].online
            /\ deviceMap'[v].id = deviceMap[v].id
      BY <1>4, <1>m DEF BindMobile, SetPhone, DeviceInfo, Known
    <2>3. QED BY <1>a, <2>1, <2>2 DEF Online, Known
  <1>5. ASSUME NEW s \in Socks, DeviceOffline(s) PROVE IdMapAgrees'
    BY <1>5, DropDeviceAgrees DEF DeviceOffline
  <1>6. CASE Tick
    <2>1. \A v \in DOMAIN deviceMap :
            /\ v \in DOMAIN deviceMap'
            /\ deviceMap'[v].online = deviceMap[v].online
            /\ deviceMap'[v].id = deviceMap[v].id
      BY <1>6, <1>m DEF Tick, DeviceInfo
    <2>2. QED BY <1>a, <1>6, <2>1 DEF Tick, Online, Known
  <1>7. ASSUME NEW u \in Uuids, ScanCheck(u) PROVE IdMapAgrees'
    BY <1>7, <1>a DEF ScanCheck, Online, Known
  <1>8. CASE ScanOffline
    <2>1. scan.id \in Socks
      BY <1>8 DEF ScanOffline, DMTypeOK, Scan
    <2>2. QED BY <1>8, <2>1, DropDeviceAgrees DEF ScanOffline
  <1>9. ASSUME NEW i, ScanPost(i) PROVE IdMapAgrees'
    BY <1>9, <1>a DEF ScanPost, Online, Known
  <1>10. CASE UNCHANGED dmVars
    BY <1>10, <1>a DEF dmVars, Online, Known
  <1>11. QED
    BY <1>1, <1>2, <1>3, <1>4, <1>5, <1>6, <1>7, <1>8, <1>9, <1>10
    DEF DMNext, Operation, ScanStep, UnbindMobile

\* The index and the table agree in every reachable state.
THEOREM MapsAgree == DMSpec => []IdMapAgrees
  <1>1. DMInit => IdMapAgrees
    BY EmptyMapTyped DEF DMInit, IdMapAgrees
  <1>2. QED
    BY <1>1, NextIdMapAgrees, TypeCorrect, PTL DEF DMSpec

-----------------------------------------------------------------------------
(* What a step may do to a device: the two action properties.               *)

\* The device stays, with its token, and if it is online with its connection.
Kept(v) ==
  /\ v \in DOMAIN deviceMap'
  /\ deviceMap'[v].token = deviceMap[v].token
  /\ deviceMap[v].online => /\ deviceMap'[v].online = deviceMap[v].online
                            /\ deviceMap'[v].id = deviceMap[v].id

\* A step keeps every device, except that deviceOffline(id) may remove one, and
\* one that is online.
LEMMA StepKeepsDevices ==
  ASSUME DMTypeOK, IdMapAgrees, [DMNext]_dmVars, NEW v \in DOMAIN deviceMap
  PROVE  Kept(v) \/ (Online(v) /\ v \notin DOMAIN deviceMap')
  <1> DEFINE Goal == Kept(v) \/ (Online(v) /\ v \notin DOMAIN deviceMap')
  <1>m. deviceMap \in [DOMAIN deviceMap -> DeviceInfo]
    BY MapsDef DEF DMTypeOK
  <1>s. ASSUME UNCHANGED deviceMap PROVE Goal
    BY <1>m, <1>s DEF Kept
  <1>r. ASSUME NEW u \in Uuids, Known(u), Refresh(u) PROVE Goal
    BY <1>m, <1>r DEF Kept, Refresh, DeviceInfo, Known, Online
  <1>d. ASSUME NEW s \in Socks, DropDevice(s) PROVE Goal
    BY <1>d, <1>s, DropDeviceEffect DEF Kept, Online, Known
  <1>1. ASSUME NEW u \in Uuids, NEW i \in Socks, AddDevice(u, i) PROVE Goal
    <2>1. CASE Online(u)
      BY <1>1, <2>1, <1>s DEF AddDevice, Online
    <2>2. CASE Known(u) /\ ~ Online(u)
      BY <1>1, <2>2, <1>r DEF AddDevice
    <2>3. CASE ~ Known(u)
      BY <1>1, <2>3 DEF AddDevice, Insert, Known, Online, Kept
    <2>4. QED BY <2>1, <2>2, <2>3 DEF Online
  <1>2. ASSUME NEW u \in Uuids, KeepAliveDevice(u) PROVE Goal
    BY <1>2, <1>s, <1>r DEF KeepAliveDevice, Online
  <1>3. ASSUME NEW u \in Uuids, NEW t \in Tokens, NEW s \in Socks, DeviceOnline(u, t, s)
        PROVE Goal
    <2>1. CASE Online(u)
      BY <1>3, <2>1, <1>r DEF DeviceOnline, Online
    <2>2. CASE Known(u) /\ ~ Online(u) /\ deviceMap[u].token = t
      <3>1. deviceMap' = [deviceMap EXCEPT ![u].online = TRUE, ![u].id = s]
        BY <1>3, <2>2 DEF DeviceOnline
      <3>2. QED
        BY <1>m, <2>2, <3>1 DEF DeviceInfo, Kept, Known, Online
    <2>3. CASE Known(u) => ~ Online(u) /\ deviceMap[u].token # t
      BY <1>3, <2>3, <1>s DEF DeviceOnline, Online
    <2>4. QED BY <1>3, <2>1, <2>2, <2>3 DEF DeviceOnline
  <1>4. ASSUME NEW u \in Uuids, NEW p \in Phones \cup {NoPhone}, BindMobile(u, p)
        PROVE Goal
    BY <1>m, <1>4 DEF BindMobile, SetPhone, DeviceInfo, Kept, Known, Online
  <1>5. ASSUME NEW s \in Socks, DeviceOffline(s) PROVE Goal
    BY <1>5, <1>d DEF DeviceOffline
  <1>6. CASE Tick
    BY <1>m, <1>6 DEF Tick, DeviceInfo, Kept, Known, Online
  <1>7. ASSUME NEW u \in Uuids, ScanCheck(u) PROVE Goal
    BY <1>7, <1>s DEF ScanCheck
  <1>8. CASE ScanOffline
    <2>1. scan.id \in Socks
      BY <1>8 DEF ScanOffline, DMTypeOK, Scan
    <2>2. QED BY <1>8, <2>1, <1>d DEF ScanOffline
  <1>9. ASSUME NEW i, ScanPost(i) PROVE Goal
    BY <1>9, <1>s DEF ScanPost
  <1>10. CASE UNCHANGED dmVars
    BY <1>10, <1>s DEF dmVars
  <1>11. QED
    BY <1>1, <1>2, <1>3, <1>4, <1>5, <1>6, <1>7, <1>8, <1>9, <1>10
    DEF DMNext, Operation, ScanStep, UnbindMobile

\* A token handed out is never revoked before the device has used it.
THEOREM UnusedTokensKept == DMSpec => UnusedTokenKept
  <1>1. DMTypeOK /\ IdMapAgrees /\ [DMNext]_dmVars
          => [\A u \in DOMAIN deviceMap : Known(u)' \/ Online(u)]_dmVars
    BY StepKeepsDevices DEF Kept, Known
  <1>2. QED
    BY <1>1, TypeCorrect, MapsAgree, PTL DEF DMSpec, UnusedTokenKept

\* The session of an online device is fixed until the device is removed.
THEOREM SessionsFixed == DMSpec => SessionFixed
  <1>1. DMTypeOK /\ IdMapAgrees /\ [DMNext]_dmVars
          => [\A u \in Uuids : Online(u) /\ Online(u)' =>
                /\ deviceMap'[u].id = deviceMap[u].id
                /\ deviceMap'[u].token = deviceMap[u].token]_dmVars
    <2>1. SUFFICES ASSUME DMTypeOK, IdMapAgrees, [DMNext]_dmVars,
                          NEW u \in Uuids, Online(u), Online(u)'
                   PROVE  /\ deviceMap'[u].id = deviceMap[u].id
                          /\ deviceMap'[u].token = deviceMap[u].token
      OBVIOUS
    <2>2. u \in DOMAIN deviceMap /\ u \in DOMAIN deviceMap'
      BY <2>1 DEF Online, Known
    <2>3. QED
      BY <2>1, <2>2, StepKeepsDevices DEF Kept, Online
  <1>2. QED
    BY <1>1, TypeCorrect, MapsAgree, PTL DEF DMSpec, SessionFixed
-----------------------------------------------------------------------------
(* The owner's phone.  OwnerNotMisled is inductive given the types: whoever *)
(* is removed is told first, and being bound anew counts as being told      *)
(* nothing.                                                                 *)

\* A step that sends no push, and leaves every device online and bound as it was.
Unnoticed ==
  /\ UNCHANGED lastPush
  /\ \A v \in DOMAIN deviceMap :
       /\ v \in DOMAIN deviceMap'
       /\ deviceMap[v].online => deviceMap'[v].online
       /\ deviceMap'[v].phone = deviceMap[v].phone

LEMMA DropDeviceTells ==
  ASSUME DMTypeOK, IdMapAgrees, OwnerNotMisled, NEW s \in Socks, DropDevice(s)
  PROVE  OwnerNotMisled'
  <1>1. CASE UNCHANGED <<deviceMap, idMap, lastPush>>
    BY <1>1 DEF OwnerNotMisled, Online, Known
  <1>2. ASSUME NEW u \in Uuids, Push(u, "offline"),
               DOMAIN deviceMap' = DOMAIN deviceMap \ {u},
               \A v \in DOMAIN deviceMap \ {u} : deviceMap'[v] = deviceMap[v]
        PROVE  OwnerNotMisled'
    <2>1. lastPush'[u] # "online"
      BY <1>2 DEF Push, OwnerNotMisled, DMTypeOK
    <2>2. \A v \in Uuids \ {u} : lastPush'[v] = lastPush[v]
      BY <1>2 DEF Push, DMTypeOK
    <2>3. QED
      BY <1>2, <2>1, <2>2 DEF OwnerNotMisled, Online, Known
  <1>3. QED
    BY <1>1, <1>2, DropDeviceEffect

LEMMA NextOwnerNotMisled ==
  DMTypeOK /\ IdMapAgrees /\ OwnerNotMisled /\ [DMNext]_dmVars => OwnerNotMisled'
  <1> SUFFICES ASSUME DMTypeOK, IdMapAgrees, OwnerNotMisled, [DMNext]_dmVars
               PROVE  OwnerNotMisled'
    OBVIOUS
  <1>m. deviceMap \in [DOMAIN deviceMap -> DeviceInfo]
    BY MapsDef DEF DMTypeOK
  <1>a. ASSUME Unnoticed PROVE OwnerNotMisled'
    BY <1>a DEF Unnoticed, OwnerNotMisled, Online, Known
  <1>u. ASSUME UNCHANGED <<deviceMap, lastPush>> PROVE OwnerNotMisled'
    BY <1>u DEF OwnerNotMisled, Online, Known
  <1>r. ASSUME NEW u \in Uuids, Known(u), Refresh(u), UNCHANGED lastPush PROVE OwnerNotMisled'
    <2>1. Unnoticed
      BY <1>r, <1>m DEF Refresh, DeviceInfo, Known, Unnoticed
    <2>2. QED BY <2>1, <1>a
  <1>1. ASSUME NEW u \in Uuids, NEW i \in Socks, AddDevice(u, i) PROVE OwnerNotMisled'
    <2>0. UNCHANGED lastPush
      BY <1>1 DEF AddDevice
    <2>1. CASE Online(u)
      BY <1>1, <2>0, <2>1, <1>u DEF AddDevice, Online
    <2>2. CASE Known(u) /\ ~ Online(u)
      BY <1>1, <2>0, <2>2, <1>r DEF AddDevice
    <2>3. CASE ~ Known(u)
      <3>1. deviceMap' = Insert(deviceMap, u, NewDevice(i, issued + 1))
        BY <1>1, <2>3 DEF AddDevice, Online
      <3>2. \A v \in DOMAIN deviceMap : v \in DOMAIN deviceMap' /\ deviceMap'[v] = deviceMap[v]
        BY <2>3, <3>1 DEF Insert, Known
      <3>3. QED BY <2>0, <3>2, <1>a DEF Unnoticed
    <2>4. QED BY <2>1, <2>2, <2>3 DEF Online
  <1>2. ASSUME NEW u \in Uuids, KeepAliveDevice(u) PROVE OwnerNotMisled'
    BY <1>2, <1>u, <1>r DEF KeepAliveDevice, Online
  <1>3. ASSUME NEW u \in Uuids, NEW t \in Tokens, NEW s \in Socks, DeviceOnline(u, t, s)
        PROVE OwnerNotMisled'
    <2>1. CASE Online(u)
      BY <1>3, <2>1, <1>r DEF DeviceOnline, Online
    <2>2. CASE Known(u) /\ ~ Online(u) /\ deviceMap[u].token = t
      <3>1. /\ deviceMap' = [deviceMap EXCEPT ![u].online = TRUE, ![u].id = s]
            /\ Push(u, "online")
        BY <1>3, <2>2 DEF DeviceOnline
      <3>2. /\ DOMAIN deviceMap' = DOMAIN deviceMap
            /\ deviceMap'[u].online = TRUE /\ deviceMap'[u].phone = deviceMap[u].phone
            /\ \A v \in DOMAIN deviceMap \ {u} : deviceMap'[v] = deviceMap[v]
        BY <1>m, <2>2, <3>1 DEF DeviceInfo, Known
      <3>3. /\ \A v \in Uuids \ {u} : lastPush'[v] = lastPush[v]
            /\ deviceMap[u].phone = NoPhone => lastPush'[u] = lastPush[u]
        BY <3>1 DEF Push, DMTypeOK
      <3>4. QED
        BY <2>2, <3>2, <3>3 DEF OwnerNotMisled, Online, Known
    <2>3. CASE Known(u) => ~ Online(u) /\ deviceMap[u].token # t
      BY <1>3, <2>3, <1>u DEF DeviceOnline, Online
    <2>4. QED BY <1>3, <2>1, <2>2, <2>3 DEF DeviceOnline
  <1>4. ASSUME NEW u \in Uuids, NEW p \in Phones \cup {NoPhone}, BindMobile(u, p)
        PROVE OwnerNotMisled'
    <2>1. CASE ~ Known(u)
      BY <1>4, <2>1, <1>u DEF BindMobile, SetPhone
    <2>2. CASE Known(u)
      <3>1. /\ DOMAIN deviceMap' = DOMAIN deviceMap
            /\ deviceMap'[u].phone = p /\ deviceMap'[u].online = deviceMap[u].online
            /\ \A v \in DOMAIN deviceMap \ {u} : deviceMap'[v] = deviceMap[v]
        BY <1>4, <1>m, <2>2 DEF BindMobile, SetPhone, DeviceInfo, Known
      <3>2. /\ \A v \in Uuids \ {u} : lastPush'[v] = lastPush[v]
            /\ \/ deviceMap[u].phone = p /\ lastPush'[u] = lastPush[u]
               \/ lastPush'[u] = "none"
        BY <1>4, <2>2 DEF BindMobile, SetPhone, DMTypeOK
      <3>3. QED
        BY <2>2, <3>1, <3>2 DEF OwnerNotMisled, Online, Known
    <2>3. QED BY <2>1, <2>2
  <1>5. ASSUME NEW s \in Socks, DeviceOffline(s) PROVE OwnerNotMisled'
    BY <1>5, DropDeviceTells DEF DeviceOffline
  <1>6. CASE Tick
    BY <1>6, <1>m, <1>a DEF Tick, DeviceInfo, Unnoticed
  <1>7. ASSUME NEW u \in Uuids, ScanCheck(u) PROVE OwnerNotMisled'
    BY <1>7, <1>u DEF ScanCheck
  <1>8. CASE ScanOffline
    <2>1. scan.id \in Socks
      BY <1>8 DEF ScanOffline, DMTypeOK, Scan
    <2>2. QED BY <1>8, <2>1, DropDeviceTells DEF ScanOffline
  <1>9. ASSUME NEW i, ScanPost(i) PROVE OwnerNotMisled'
    BY <1>9, <1>u DEF ScanPost
  <1>10. CASE UNCHANGED dmVars
    BY <1>10, <1>u DEF dmVars
  <1>11. QED
    BY <1>1, <1>2, <1>3, <1>4, <1>5, <1>6, <1>7, <1>8, <1>9, <1>10
    DEF DMNext, Operation, ScanStep, UnbindMobile

\* No phone is left with a push that says online about a device that is not.
THEOREM OwnersNotMisled == DMSpec => []OwnerNotMisled
  <1>1. DMInit => OwnerNotMisled
    BY DEF DMInit, OwnerNotMisled
  <1>2. QED
    BY <1>1, NextOwnerNotMisled, TypeCorrect, MapsAgree, PTL DEF DMSpec

-----------------------------------------------------------------------------
(* Type correctness, and the refinement it needs. *)

\* What a task holds.
LEMMA TaskTyped ==
  ASSUME RegTypeOK, NEW s \in Socks
  PROVE  /\ task[s].at \in {"token", "bind", "reply"} => task[s].peer \in Uuids
         /\ task[s].at \in {"receive", "keep", "close"} => task[s].st \in SocketTime
  <1>1. task[s] \in Task
    BY DEF RegTypeOK
  <1>2. QED
    BY <1>1 DEF Task

LEMMA StepIsDMStep ==
  ASSUME RegTypeOK, [Next]_vars
  PROVE  [DMNext]_dmVars
  <1>1. ASSUME NEW s \in Socks, NEW u \in Uuids, SslConnect(s, u) \/ RegAccept(s, u)
        PROVE  [DMNext]_dmVars
    BY <1>1 DEF SslConnect, RegAccept
  <1>2. ASSUME NEW s \in Socks, RegDispatch(s) PROVE [DMNext]_dmVars
    BY <1>2 DEF RegDispatch
  <1>3. ASSUME NEW s \in Socks, SslTask(s) PROVE [DMNext]_dmVars
    <2>1. CASE SslAddDevice(s)
      BY <2>1, TaskTyped DEF SslAddDevice, DMNext, Operation
    <2>2. CASE SslBindMobile(s)
      BY <2>2, TaskTyped DEF SslBindMobile, DMNext, Operation
    <2>3. CASE SslFinish(s)
      BY <2>3 DEF SslFinish
    <2>4. QED BY <1>3, <2>1, <2>2, <2>3 DEF SslTask
  <1>4. ASSUME NEW s \in Socks, RegTask(s) PROVE [DMNext]_dmVars
    <2>1. CASE ReceiveEnd(s)
      BY <2>1 DEF ReceiveEnd, DMNext
    <2>2. CASE ReceiveError(s) \/ FinishKeep(s) \/ FinishClose(s)
      BY <2>2 DEF ReceiveError, FinishKeep, FinishClose
    <2>3. CASE HandleRegMsg(s)
      <3>1. task[s].at = "receive"
        BY <2>3 DEF HandleRegMsg, HandleRegister, HandleKeepAlive, HandleBind, HandleUnbind,
                    HandleOther, Receive
      <3>2. task[s].st.peer \in Uuids
        BY <3>1, TaskTyped DEF SocketTime
      <3>3. QED
        BY <2>3, <3>2 DEF HandleRegMsg, HandleRegister, HandleKeepAlive, HandleBind,
                          HandleUnbind, HandleOther, DMNext, Operation
    <2>4. QED BY <1>4, <2>1, <2>2, <2>3 DEF RegTask
  <1>5. CASE Scanner
    BY <1>5 DEF Scanner, ScanPostAndClose, DMNext, ScanStep
  <1>6. CASE Tick /\ UNCHANGED regVars
    BY <1>6 DEF DMNext
  <1>7. CASE UNCHANGED vars
    BY <1>7 DEF vars
  <1>8. QED
    BY <1>1, <1>2, <1>3, <1>4, <1>5, <1>6, <1>7 DEF Next

\* What a step does to the variables of this module keeps their types.
LEMMA NextRegTyped ==
  ASSUME RegTypeOK, [Next]_vars
  PROVE  /\ regMap' \in Maps(Socks, SocketTime)
         /\ task' \in [Socks -> Task]
         /\ broken' \subseteq Socks /\ reused' \subseteq Socks
  <1> DEFINE Goal == /\ regMap' \in Maps(Socks, SocketTime)
                     /\ task' \in [Socks -> Task]
                     /\ broken' \subseteq Socks /\ reused' \subseteq Socks
  <1> USE DEF RegTypeOK
  <1>n. ASSUME NEW s \in Socks, NewAddress(s) PROVE broken' \subseteq Socks /\ reused' \subseteq Socks
    BY <1>n DEF NewAddress
  <1>t. ASSUME NEW s \in Socks, NEW t \in Task, SetTask(s, t) PROVE task' \in [Socks -> Task]
    BY <1>t DEF SetTask
  <1>1. ASSUME NEW s \in Socks, NEW u \in Uuids, SslConnect(s, u) PROVE Goal
    <2>1. [at |-> "token", peer |-> u] \in Task
      BY DEF Task
    <2>2. QED BY <1>1, <1>n, <1>t, <2>1 DEF SslConnect
  <1>2. ASSUME NEW s \in Socks, NEW u \in Uuids, RegAccept(s, u) PROVE Goal
    <2>1. [peer |-> u, connected |-> FALSE] \in SocketTime
      BY DEF SocketTime
    <2>2. PICK st \in SocketTime : regMap' = Insert(regMap, s, st)
      BY <1>2, <2>1 DEF RegAccept
    <2>3. regMap' \in Maps(Socks, SocketTime)
      BY <2>2, InsertMap
    <2>4. QED BY <1>2, <1>n, <2>3 DEF RegAccept
  <1>3. ASSUME NEW s \in Socks, RegDispatch(s) PROVE Goal
    <2>1. regMap[s] \in SocketTime
      BY <1>3, MapValue DEF RegDispatch, Listed
    <2>2. [at |-> "receive", st |-> regMap[s]] \in Task
      BY <2>1 DEF Task
    <2>3. regMap' \in Maps(Socks, SocketTime)
      BY <1>3, EraseMap DEF RegDispatch
    <2>4. QED BY <1>3, <1>t, <2>2, <2>3 DEF RegDispatch
  <1>4. ASSUME NEW s \in Socks, SslTask(s) PROVE Goal
    <2>1. \A a \in {"bind", "reply"} :
            task[s].at \in {"token", "bind"} => [task[s] EXCEPT !.at = a] \in Task
      <3>1. task[s] \in Task
        OBVIOUS
      <3>2. QED BY <3>1 DEF Task
    <2>2. [at |-> "none"] \in Task
      BY DEF Task
    <2>3. CASE SslAddDevice(s)
      BY <2>1, <2>3, <1>t DEF SslAddDevice
    <2>4. CASE SslBindMobile(s)
      BY <2>1, <2>4, <1>t DEF SslBindMobile
    <2>5. CASE SslFinish(s)
      BY <2>2, <2>5, <1>t DEF SslFinish
    <2>6. QED BY <1>4, <2>3, <2>4, <2>5 DEF SslTask
  <1>5. ASSUME NEW s \in Socks, RegTask(s) PROVE Goal
    <2>1. ASSUME task[s].at = "receive"
          PROVE  /\ [task[s] EXCEPT !.at = "close", !.st.connected = FALSE] \in Task
                 /\ [task[s] EXCEPT !.at = "close"] \in Task
                 /\ [task[s] EXCEPT !.at = "keep", !.st.connected = TRUE] \in Task
      <3>1. task[s] \in Task
        OBVIOUS
      <3>2. QED BY <2>1, <3>1 DEF Task, SocketTime
    <2>2. [at |-> "none"] \in Task
      BY DEF Task
    <2>3. CASE ReceiveEnd(s)
      BY <2>1, <2>3, <1>t DEF ReceiveEnd
    <2>4. CASE ReceiveError(s)
      BY <2>1, <2>4, <1>t DEF ReceiveError
    <2>5. CASE FinishClose(s)
      BY <2>2, <2>5, <1>t DEF FinishClose
    <2>6. CASE FinishKeep(s)
      <3>1. task[s].st \in SocketTime
        BY <2>6, TaskTyped DEF FinishKeep
      <3>2. regMap' \in Maps(Socks, SocketTime)
        BY <2>6, <3>1, InsertMap DEF FinishKeep
      <3>3. QED BY <2>2, <2>6, <3>2, <1>t DEF FinishKeep
    <2>7. CASE HandleRegMsg(s)
      <3>1. Receive(s)
        BY <2>7 DEF HandleRegMsg, HandleRegister, HandleKeepAlive, HandleBind, HandleUnbind,
                    HandleOther
      <3>2. QED BY <2>1, <3>1, <1>t DEF Receive
    <2>8. QED BY <1>5, <2>3, <2>4, <2>5, <2>6, <2>7 DEF RegTask
  <1>6. CASE Scanner
    <2>1. CASE UNCHANGED regVars
      BY <2>1 DEF regVars
    <2>2. ASSUME NEW i \in Socks \cup {Garbage}, ScanPostAndClose(i) PROVE Goal
      <3>1. CASE i \in DOMAIN regMap
        <4>1. i \in Socks
          BY <3>1, MapsDef
        <4>2. regMap' = Erase(regMap, i) /\ broken' = broken \cup {i} /\ UNCHANGED <<task, reused>>
          BY <2>2, <3>1 DEF ScanPostAndClose
        <4>3. regMap' \in Maps(Socks, SocketTime)
          BY <4>2, EraseMap
        <4>4. QED BY <4>1, <4>2, <4>3
      <3>2. CASE i \notin DOMAIN regMap
        BY <2>2, <3>2 DEF ScanPostAndClose
      <3>3. QED BY <3>1, <3>2
    <2>3. QED BY <1>6, <2>1, <2>2 DEF Scanner
  <1>7. CASE UNCHANGED regVars
    BY <1>7 DEF regVars
  <1>8. QED
    BY <1>1, <1>2, <1>3, <1>4, <1>5, <1>6, <1>7 DEF Next, vars

LEMMA RegInitTyped == Init => RegTypeOK
  BY InitTypeOK, EmptyMapTyped DEF Init, RegTypeOK, Task

LEMMA RegNextTypeOK == RegTypeOK /\ [Next]_vars => RegTypeOK'
  <1> SUFFICES ASSUME RegTypeOK, [Next]_vars PROVE RegTypeOK'
    OBVIOUS
  <1>1. DMTypeOK'
    BY StepIsDMStep, NextTypeOK DEF RegTypeOK
  <1>2. QED
    BY <1>1, NextRegTyped DEF RegTypeOK

\* Connections, tasks and the device table keep their types.
THEOREM RegTypeCorrect == Spec => []RegTypeOK
  BY RegInitTyped, RegNextTypeOK, PTL DEF Spec

\* The handlers and the scan change the device manager through its operations
\* only, so that all that is proved of CDeviceManager alone holds here.
THEOREM RegistrationImplements == Spec => DMSpec
  <1>1. Init => DMInit
    BY DEF Init
  <1>2. RegTypeOK /\ [Next]_vars => [DMNext]_dmVars
    BY StepIsDMStep
  <1>3. QED
    BY <1>1, <1>2, RegTypeCorrect, PTL DEF Spec, DMSpec

-----------------------------------------------------------------------------
(* The inductive invariant.  An address the index has is that of the device *)
(* it names, as far as anyone holds it, or was reused too early; a          *)
(* connection has one holder; and an online device's connection is held by  *)
(* somebody who knows it has sent something, so that its end is reported.   *)

OneHolder == \A s \in Socks : Listed(s) => ~ Handled(s)

Fits(s) ==
  \/ s \in reused
  \/ /\ Listed(s) => regMap[s].peer = idMap[s]
     /\ task[s].at \in {"receive", "keep", "close"} => task[s].st.peer = idMap[s]
     /\ task[s].at \notin {"token", "bind", "reply"}

PeerFits == \A s \in DOMAIN idMap : Fits(s)

Indexed(u) ==
  LET s == deviceMap[u].id
  IN  s \in reused \/ (s \in DOMAIN idMap /\ idMap[s] = u)

Backed(s) ==
  \/ s \in reused \cup broken
  \/ Listed(s) /\ regMap[s].connected
  \/ task[s].at \in {"receive", "keep"} /\ task[s].st.connected

Held ==
  /\ OneHolder /\ PeerFits
  /\ \A u \in Uuids : Online(u) => Indexed(u) /\ Backed(deviceMap[u].id)

RegIInv == RegTypeOK /\ IdMapAgrees /\ Held

\* No device comes online, and the index loses at most entries of devices that
\* go offline.
Calm ==
  /\ \A v \in Uuids : Online(v)' =>
       /\ Online(v) /\ deviceMap'[v].id = deviceMap[v].id
       /\ Indexed(v) => deviceMap[v].id \in reused \cup DOMAIN idMap'
  /\ \A r \in DOMAIN idMap' : r \in DOMAIN idMap /\ idMap'[r] = idMap[r]

\* Nothing happens to connections at other addresses.
Elsewhere(s) ==
  \A r \in Socks \ {s} :
    /\ Listed(r)' <=> Listed(r)
    /\ Listed(r) => regMap'[r] = regMap[r]
    /\ task'[r] = task[r]
    /\ r \in broken' <=> r \in broken
    /\ r \in reused' <=> r \in reused

\* No online device has the address.
Unnamed(s) == \A u \in Uuids : Online(u) => deviceMap[u].id # s

\* What is known of a device's address.
LEMMA OnlineAddress ==
  ASSUME DMTypeOK, NEW u \in Uuids, Online(u)
  PROVE  deviceMap[u].id \in Socks
  <1>1. deviceMap[u] \in DeviceInfo
    BY MapValue DEF DMTypeOK, Online, Known
  <1>2. QED
    BY <1>1 DEF DeviceInfo

LEMMA IndexAddress == DMTypeOK => DOMAIN idMap \subseteq Socks
  BY MapsDef DEF DMTypeOK

\* A calm step that is about one address keeps the invariant if it does there.
LEMMA CalmStep ==
  ASSUME RegTypeOK, RegTypeOK', Held, Calm, NEW s \in Socks, Elsewhere(s),
         Listed(s)' => ~ Handled(s)',
         s \in DOMAIN idMap' => Fits(s)',
         s \in reused => s \in reused' \/ Unnamed(s)',
         Backed(s) => Backed(s)' \/ Unnamed(s)'
  PROVE  Held'
  <1>0. DMTypeOK /\ DMTypeOK'
    BY DEF RegTypeOK
  <1>1. OneHolder'
    BY DEF OneHolder, Held, Elsewhere, Handled
  <1>2. PeerFits'
    <2>1. ASSUME NEW r \in DOMAIN idMap', r # s PROVE Fits(r)'
      <3>1. r \in Socks /\ r \in DOMAIN idMap /\ idMap'[r] = idMap[r]
        BY <1>0, IndexAddress DEF Calm
      <3>2. Fits(r)
        BY <3>1 DEF Held, PeerFits
      <3>3. QED
        BY <2>1, <3>1, <3>2 DEF Fits, Elsewhere
    <2>2. QED BY <2>1 DEF PeerFits
  <1>3. ASSUME NEW u \in Uuids, Online(u)' PROVE Indexed(u)' /\ Backed(deviceMap[u].id)'
    <2>1. Online(u) /\ deviceMap'[u].id = deviceMap[u].id
      BY <1>3 DEF Calm
    <2>2. PICK r \in Socks : r = deviceMap[u].id
      BY <1>0, <2>1, OnlineAddress
    <2>3. Indexed(u) /\ Backed(r)
      BY <2>1, <2>2 DEF Held
    <2>4. r \in reused \/ (r \in DOMAIN idMap' /\ idMap'[r] = u)
      BY <1>3, <2>2, <2>3 DEF Calm, Indexed
    <2>5. r = s => ~ Unnamed(s)'
      BY <1>3, <2>1, <2>2 DEF Unnamed
    <2>6. r \in reused => r \in reused'
      BY <2>5 DEF Elsewhere
    <2>7. Indexed(u)'
      BY <2>1, <2>2, <2>4, <2>6 DEF Indexed
    <2>8. Backed(r)'
      <3>1. CASE r = s
        BY <2>3, <2>5, <3>1
      <3>2. CASE r # s
        BY <2>3, <3>2 DEF Backed, Elsewhere
      <3>3. QED BY <3>1, <3>2
    <2>9. QED BY <2>1, <2>2, <2>7, <2>8
  <1>4. QED
    BY <1>1, <1>2, <1>3 DEF Held

\* A calm step of which the connections know nothing.
LEMMA CalmStill ==
  ASSUME RegTypeOK, RegTypeOK', Held, Calm, UNCHANGED regVars
  PROVE  Held'
  <1>1. OneHolder'
    BY DEF Held, OneHolder, regVars, Listed, Handled
  <1>2. PeerFits'
    BY DEF Calm, Held, PeerFits, Fits, regVars, Listed
  <1>3. ASSUME NEW u \in Uuids, Online(u)' PROVE Indexed(u)' /\ Backed(deviceMap[u].id)'
    <2>1. /\ Online(u) /\ deviceMap'[u].id = deviceMap[u].id
          /\ Indexed(u) => deviceMap[u].id \in reused \cup DOMAIN idMap'
      BY <1>3 DEF Calm
    <2>2. Indexed(u) /\ Backed(deviceMap[u].id)
      BY <2>1 DEF Held
    <2>3. Indexed(u)'
      BY <2>1, <2>2 DEF Indexed, Calm, regVars
    <2>4. Backed(deviceMap[u].id)'
      BY <2>1, <2>2 DEF Backed, Listed, regVars
    <2>5. QED BY <2>3, <2>4
  <1>4. QED BY <1>1, <1>2, <1>3 DEF Held

-----------------------------------------------------------------------------
(* The steps of the device manager that are calm.                           *)

LEMMA SameCalm ==
  ASSUME UNCHANGED <<deviceMap, idMap>>
  PROVE  Calm
  BY DEF Calm, Online, Known, Indexed

LEMMA RefreshCalm ==
  ASSUME DMTypeOK, NEW u \in Uuids, Known(u), Refresh(u), UNCHANGED idMap
  PROVE  Calm
  <1>1. deviceMap \in [DOMAIN deviceMap -> DeviceInfo]
    BY MapsDef DEF DMTypeOK
  <1>2. QED
    BY <1>1 DEF Refresh, DeviceInfo, Known, Online, Calm, Indexed

LEMMA AddDeviceCalm ==
  ASSUME DMTypeOK, NEW u \in Uuids, NEW i \in Socks, AddDevice(u, i)
  PROVE  Calm
  <1>1. UNCHANGED idMap
    BY DEF AddDevice
  <1>2. CASE Online(u)
    BY <1>1, <1>2, SameCalm DEF AddDevice, Online
  <1>3. CASE Known(u) /\ ~ Online(u)
    BY <1>1, <1>3, RefreshCalm DEF AddDevice
  <1>4. CASE ~ Known(u)
    <2>1. deviceMap' = Insert(deviceMap, u, NewDevice(i, issued + 1))
      BY <1>4 DEF AddDevice, Online
    <2>2. /\ DOMAIN deviceMap' = DOMAIN deviceMap \cup {u}
          /\ \A v \in DOMAIN deviceMap : deviceMap'[v] = deviceMap[v]
          /\ ~ deviceMap'[u].online
      BY <1>4, <2>1 DEF Insert, Known, NewDevice
    <2>3. QED
      BY <1>1, <1>4, <2>2 DEF Calm, Online, Known, Indexed
  <1>5. QED
    BY <1>2, <1>3, <1>4 DEF Online

LEMMA KeepAliveCalm ==
  ASSUME DMTypeOK, NEW u \in Uuids, KeepAliveDevice(u)
  PROVE  Calm
  BY SameCalm, RefreshCalm DEF KeepAliveDevice, Online

LEMMA BindCalm ==
  ASSUME DMTypeOK, NEW u \in Uuids, NEW p \in Phones \cup {NoPhone}, BindMobile(u, p)
  PROVE  Calm
  <1>1. deviceMap \in [DOMAIN deviceMap -> DeviceInfo]
    BY MapsDef DEF DMTypeOK
  <1>2. QED
    BY <1>1 DEF BindMobile, SetPhone, DeviceInfo, Known, Online, Calm, Indexed

LEMMA TickCalm ==
  ASSUME DMTypeOK, Tick
  PROVE  Calm
  <1>1. deviceMap \in [DOMAIN deviceMap -> DeviceInfo]
    BY MapsDef DEF DMTypeOK
  <1>2. QED
    BY <1>1 DEF Tick, DeviceInfo, Known, Online, Calm, Indexed

\* deviceOffline(id) is calm, and whoever the index has under the address goes.
LEMMA DropCalm ==
  ASSUME DMTypeOK, IdMapAgrees, NEW s \in Socks, DropDevice(s)
  PROVE  Calm /\ s \notin DOMAIN idMap'
  <1>1. CASE s \notin DOMAIN idMap
    BY <1>1, SameCalm DEF DropDevice
  <1>2. CASE s \in DOMAIN idMap
    <2>1. idMap[s] \in Uuids /\ Online(idMap[s]) /\ Known(idMap[s])
      BY <1>2, MapValue DEF DMTypeOK, IdMapAgrees, Online
    <2>2. idMap' = Erase(idMap, s) /\ deviceMap' = Erase(deviceMap, idMap[s])
      BY <1>2, <2>1 DEF DropDevice
    <2>3. /\ DOMAIN deviceMap' = DOMAIN deviceMap \ {idMap[s]}
          /\ \A v \in DOMAIN deviceMap' : deviceMap'[v] = deviceMap[v]
          /\ DOMAIN idMap' = DOMAIN idMap \ {s}
          /\ \A r \in DOMAIN idMap' : idMap'[r] = idMap[r]
      BY <2>2 DEF Erase, Restrict
    <2>4. QED
      BY <2>3 DEF Calm, Online, Known, Indexed
  <1>3. QED
    BY <1>1, <1>2

-----------------------------------------------------------------------------
(* The steps of connections and tasks.                                      *)

\* An address the device manager still has counts as reused.
LEMMA NewAddressStep ==
  ASSUME RegTypeOK, RegTypeOK', Held, UNCHANGED dmVars, NEW s \in Socks, NewAddress(s),
         Elsewhere(s), Listed(s)' => ~ Handled(s)'
  PROVE  Held'
  <1>1. CASE Named(s)
    <2>1. s \in reused'
      BY <1>1 DEF NewAddress, RegTypeOK
    <2>2. Fits(s)' /\ Backed(s)' /\ Calm
      BY <2>1, SameCalm DEF Fits, Backed, dmVars
    <2>3. QED BY <2>1, <2>2, CalmStep
  <1>2. CASE ~ Named(s)
    <2>1. s \notin DOMAIN idMap' /\ Unnamed(s)' /\ Calm
      BY <1>2, SameCalm DEF Named, Unnamed, Online, Known, dmVars
    <2>2. QED BY <2>1, CalmStep
  <1>3. QED BY <1>1, <1>2

LEMMA SslConnectStep ==
  ASSUME RegTypeOK, RegTypeOK', Held, NEW s \in Socks, NEW u \in Uuids, SslConnect(s, u)
  PROVE  Held'
  <1>1. Elsewhere(s) /\ ~ Listed(s)'
    BY DEF SslConnect, NewAddress, SetTask, Elsewhere, Listed, RegTypeOK
  <1>2. QED
    BY <1>1, NewAddressStep DEF SslConnect

LEMMA RegAcceptStep ==
  ASSUME RegTypeOK, RegTypeOK', Held, NEW s \in Socks, NEW u \in Uuids, RegAccept(s, u)
  PROVE  Held'
  <1>1. Elsewhere(s) /\ ~ Handled(s)'
    BY DEF RegAccept, NewAddress, Elsewhere, Listed, Handled, Insert, RegTypeOK
  <1>2. QED
    BY <1>1, NewAddressStep DEF RegAccept, dmVars

\* A task that is asked for a token is at an address the index does not have.
LEMMA SslTaskStep ==
  ASSUME RegTypeOK, RegTypeOK', IdMapAgrees, Held, NEW s \in Socks, SslTask(s)
  PROVE  Held'
  <1>0. DMTypeOK
    BY DEF RegTypeOK
  <1>1. Calm
    <2>1. CASE SslAddDevice(s)
      BY <1>0, <2>1, TaskTyped, AddDeviceCalm DEF SslAddDevice
    <2>2. CASE SslBindMobile(s)
      BY <1>0, <2>2, TaskTyped, BindCalm DEF SslBindMobile
    <2>3. CASE SslFinish(s)
      BY <2>3, SameCalm DEF SslFinish, dmVars
    <2>4. QED BY <2>1, <2>2, <2>3 DEF SslTask
  <1>2. /\ task[s].at \in {"token", "bind", "reply"}
        /\ task'[s].at \in {"bind", "reply", "none"}
        /\ \A r \in Socks \ {s} : task'[r] = task[r]
        /\ UNCHANGED <<regMap, broken, reused>>
    <2>1. task[s] \in Task
      BY DEF RegTypeOK
    <2>2. QED
      BY <2>1 DEF SslTask, SslAddDevice, SslBindMobile, SslFinish, SetTask, Task, RegTypeOK
  <1>3. Elsewhere(s) /\ ~ Listed(s)'
    BY <1>2 DEF Elsewhere, Listed, Handled, Held, OneHolder
  <1>4. s \in DOMAIN idMap' => s \in reused'
    BY <1>1, <1>2 DEF Calm, Held, PeerFits, Fits
  <1>5. s \in reused => s \in reused'
    BY <1>2
  <1>6. Backed(s) => Backed(s)'
    BY <1>2, <1>3 DEF Backed, Listed
  <1>7. QED
    BY <1>1, <1>3, <1>4, <1>5, <1>6, CalmStep DEF Fits

LEMMA RegDispatchStep ==
  ASSUME RegTypeOK, RegTypeOK', Held, NEW s \in Socks, RegDispatch(s)
  PROVE  Held'
  <1>1. Calm /\ UNCHANGED <<idMap, broken, reused>>
    BY SameCalm DEF RegDispatch, dmVars
  <1>2. /\ task'[s] = [at |-> "receive", st |-> regMap[s]]
        /\ \A r \in Socks \ {s} : task'[r] = task[r]
    BY DEF RegDispatch, SetTask, RegTypeOK
  <1>3. /\ Listed(s) /\ ~ Listed(s)'
        /\ \A r \in Socks \ {s} : Listed(r)' <=> Listed(r)
        /\ \A r \in Socks \ {s} : Listed(r) => regMap'[r] = regMap[r]
    BY DEF RegDispatch, Listed, Erase, Restrict
  <1>4. Elsewhere(s)
    BY <1>1, <1>2, <1>3 DEF Elsewhere
  <1>5. s \in DOMAIN idMap' => Fits(s)'
    BY <1>1, <1>2, <1>3 DEF Held, PeerFits, Fits
  <1>6. Backed(s) => Backed(s)'
    BY <1>1, <1>2, <1>3 DEF Backed, Held, OneHolder, Handled
  <1>7. QED
    BY <1>1, <1>3, <1>4, <1>5, <1>6, CalmStep

LEMMA FinishKeepStep ==
  ASSUME RegTypeOK, RegTypeOK', Held, NEW s \in Socks, FinishKeep(s)
  PROVE  Held'
  <1>1. Calm /\ UNCHANGED <<idMap, broken, reused>>
    BY SameCalm DEF FinishKeep, dmVars
  <1>2. /\ task[s].at = "keep" /\ task'[s] = [at |-> "none"]
        /\ \A r \in Socks \ {s} : task'[r] = task[r]
    BY DEF FinishKeep, SetTask, RegTypeOK
  <1>3. ~ Listed(s)
    BY <1>2 DEF Held, OneHolder, Handled
  <1>4. /\ Listed(s)' /\ regMap'[s] = task[s].st
        /\ \A r \in Socks \ {s} : Listed(r)' <=> Listed(r)
        /\ \A r \in Socks \ {s} : Listed(r) => regMap'[r] = regMap[r]
    BY <1>3 DEF FinishKeep, Listed, Insert
  <1>5. Elsewhere(s)
    BY <1>1, <1>2, <1>4 DEF Elsewhere
  <1>6. s \in DOMAIN idMap' => Fits(s)'
    BY <1>1, <1>2, <1>4 DEF Held, PeerFits, Fits
  <1>7. Backed(s) => Backed(s)'
    BY <1>1, <1>2, <1>3, <1>4 DEF Backed
  <1>8. ~ Handled(s)'
    BY <1>2 DEF Handled
  <1>9. QED
    BY <1>1, <1>5, <1>6, <1>7, <1>8, CalmStep

LEMMA FinishCloseStep ==
  ASSUME RegTypeOK, RegTypeOK', Held, NEW s \in Socks, FinishClose(s)
  PROVE  Held'
  <1>1. Calm /\ UNCHANGED <<idMap, regMap, broken, reused>>
    BY SameCalm DEF FinishClose, dmVars
  <1>2. /\ task[s].at = "close" /\ task'[s] = [at |-> "none"]
        /\ \A r \in Socks \ {s} : task'[r] = task[r]
    BY DEF FinishClose, SetTask, RegTypeOK
  <1>3. Elsewhere(s) /\ ~ Handled(s)'
    BY <1>1, <1>2 DEF Elsewhere, Listed, Handled
  <1>4. s \in DOMAIN idMap' => Fits(s)'
    BY <1>1, <1>2 DEF Held, PeerFits, Fits, Listed
  <1>5. Backed(s) => Backed(s)'
    BY <1>1, <1>2 DEF Backed, Listed
  <1>6. QED
    BY <1>1, <1>3, <1>4, <1>5, CalmStep

LEMMA ReceiveErrorStep ==
  ASSUME RegTypeOK, RegTypeOK', Held, NEW s \in Socks, ReceiveError(s)
  PROVE  Held'
  <1>1. Calm /\ UNCHANGED <<idMap, regMap, reused>>
    BY SameCalm DEF ReceiveError, dmVars
  <1>2. task[s].at = "receive" /\ task[s] \in Task
    BY DEF ReceiveError, RegTypeOK
  <1>3. /\ task'[s].at = "close" /\ task'[s].st = task[s].st
        /\ \A r \in Socks \ {s} : task'[r] = task[r]
    BY <1>2 DEF ReceiveError, SetTask, RegTypeOK, Task
  <1>4. broken' = broken \cup {s}
    BY DEF ReceiveError
  <1>5. Elsewhere(s) /\ ~ Listed(s)'
    BY <1>1, <1>2, <1>3, <1>4 DEF Elsewhere, Listed, Handled, Held, OneHolder
  <1>6. s \in DOMAIN idMap' => Fits(s)'
    BY <1>1, <1>2, <1>3, <1>5 DEF Held, PeerFits, Fits
  <1>7. Backed(s)'
    BY <1>4 DEF Backed
  <1>8. QED
    BY <1>1, <1>5, <1>6, <1>7, CalmStep

\* The end of a connection that has sent something takes its device offline; no
\* device is online by one that has not.
LEMMA ReceiveEndStep ==
  ASSUME RegTypeOK, RegTypeOK', IdMapAgrees, Held, NEW s \in Socks, ReceiveEnd(s)
  PROVE  Held'
  <1>0. DMTypeOK
    BY DEF RegTypeOK
  <1>1. Calm /\ UNCHANGED <<regMap, broken, reused>>
    BY <1>0, SameCalm, DropCalm DEF ReceiveEnd, DeviceOffline, dmVars
  <1>2. task[s].at = "receive" /\ task[s] \in Task
    BY DEF ReceiveEnd, RegTypeOK
  <1>3. /\ task'[s].at = "close" /\ task'[s].st.peer = task[s].st.peer
        /\ \A r \in Socks \ {s} : task'[r] = task[r]
    BY <1>2 DEF ReceiveEnd, SetTask, RegTypeOK, Task, SocketTime
  <1>4. Elsewhere(s) /\ ~ Listed(s)'
    BY <1>1, <1>2, <1>3 DEF Elsewhere, Listed, Handled, Held, OneHolder
  <1>5. s \in DOMAIN idMap' => Fits(s)'
    BY <1>1, <1>2, <1>3, <1>4 DEF Calm, Held, PeerFits, Fits
  <1>6. Backed(s) => Backed(s)' \/ Unnamed(s)'
    <2>1. CASE s \in reused \cup broken
      BY <1>1, <2>1 DEF Backed
    <2>2. ASSUME s \notin reused \cup broken, Backed(s) PROVE Unnamed(s)'
      <3>1. task[s].st.connected
        BY <1>1, <1>4, <2>2 DEF Backed, Listed
      <3>2. s \notin DOMAIN idMap'
        BY <1>0, <3>1, DropCalm DEF ReceiveEnd, DeviceOffline
      <3>3. \A u \in Uuids : Online(u)' /\ deviceMap'[u].id = s => FALSE
        BY <1>1, <2>2, <3>2 DEF Calm, Held
      <3>4. QED BY <3>3 DEF Unnamed
    <2>3. QED BY <2>1, <2>2
  <1>7. QED
    BY <1>1, <1>4, <1>5, <1>6, CalmStep

\* What handling a message does to the connection.
LEMMA ReceiveEffect ==
  ASSUME RegTypeOK, Held, NEW s \in Socks, Receive(s)
  PROVE  /\ task[s].at = "receive" /\ task'[s].at = "keep"
         /\ task'[s].st.peer = task[s].st.peer /\ task'[s].st.connected
         /\ ~ Listed(s) /\ ~ Listed(s)'
         /\ Elsewhere(s) /\ Backed(s)'
         /\ UNCHANGED <<regMap, broken, reused>>
  <1>1. task[s].at = "receive" /\ task[s] \in Task /\ UNCHANGED <<regMap, broken, reused>>
    BY DEF Receive, RegTypeOK
  <1>2. /\ task'[s].at = "keep" /\ task'[s].st.peer = task[s].st.peer
        /\ task'[s].st.connected
        /\ \A r \in Socks \ {s} : task'[r] = task[r]
    BY <1>1 DEF Receive, SetTask, RegTypeOK, Task, SocketTime
  <1>3. ~ Listed(s)
    BY <1>1 DEF Held, OneHolder, Handled
  <1>4. QED
    BY <1>1, <1>2, <1>3 DEF Elsewhere, Listed, Backed

LEMMA CalmReceiveStep ==
  ASSUME RegTypeOK, RegTypeOK', Held, NEW s \in Socks, Receive(s), Calm
  PROVE  Held'
  <1>1. s \in DOMAIN idMap' => Fits(s)'
    BY ReceiveEffect DEF Calm, Held, PeerFits, Fits
  <1>2. QED
    BY <1>1, ReceiveEffect, CalmStep

\* A device comes online.  The index may only have the address if it was reused
\* too early: otherwise it would name the very device, which is not online.
LEMMA CameOnlineStep ==
  ASSUME RegTypeOK, RegTypeOK', IdMapAgrees, Held, NEW s \in Socks, Receive(s),
         NEW u \in Uuids, u = task[s].st.peer, Known(u), ~ Online(u),
         deviceMap' = [deviceMap EXCEPT ![u].online = TRUE, ![u].id = s],
         idMap' = Insert(idMap, s, u)
  PROVE  Held'
  <1>0. DMTypeOK /\ DMTypeOK'
    BY DEF RegTypeOK
  <1>1. deviceMap \in [DOMAIN deviceMap -> DeviceInfo]
    BY <1>0, MapsDef DEF DMTypeOK
  <1>2. /\ deviceMap'[u].id = s
        /\ \A v \in Uuids \ {u} :
             Online(v)' => Online(v) /\ deviceMap'[v].id = deviceMap[v].id
    BY <1>1 DEF Online, Known, DeviceInfo
  <1>3. /\ DOMAIN idMap' = DOMAIN idMap \cup {s}
        /\ \A r \in DOMAIN idMap : idMap'[r] = idMap[r]
        /\ s \notin DOMAIN idMap => idMap'[s] = u
    BY DEF Insert
  <1>4. s \in DOMAIN idMap => s \in reused
    BY ReceiveEffect DEF Held, PeerFits, Fits, IdMapAgrees
  <1>5. OneHolder'
    BY ReceiveEffect DEF OneHolder, Held, Elsewhere, Handled
  <1>6. ASSUME NEW r \in DOMAIN idMap' PROVE Fits(r)'
    <2>1. CASE r = s
      BY <1>3, <1>4, <2>1, ReceiveEffect DEF Fits
    <2>2. CASE r # s
      <3>1. r \in Socks /\ r \in DOMAIN idMap /\ idMap'[r] = idMap[r] /\ Fits(r)
        BY <1>0, <1>3, <2>2, IndexAddress DEF Held, PeerFits
      <3>2. Elsewhere(s)
        BY ReceiveEffect
      <3>3. QED BY <2>2, <3>1, <3>2 DEF Fits, Elsewhere
    <2>3. QED BY <2>1, <2>2
  <1>7. ASSUME NEW v \in Uuids, Online(v)' PROVE Indexed(v)' /\ Backed(deviceMap[v].id)'
    <2>1. CASE v = u
      BY <1>2, <1>3, <1>4, <2>1, ReceiveEffect DEF Indexed
    <2>2. CASE v # u
      <3>1. Online(v) /\ deviceMap'[v].id = deviceMap[v].id
        BY <1>2, <1>7, <2>2
      <3>2. PICK r \in Socks : r = deviceMap[v].id
        BY <1>0, <3>1, OnlineAddress
      <3>3. Indexed(v) /\ Backed(r)
        BY <3>1, <3>2 DEF Held
      <3>4. Indexed(v)'
        BY <1>3, <3>1, <3>3, ReceiveEffect DEF Indexed
      <3>5. Backed(r)'
        <4>1. CASE r = s
          BY <4>1, ReceiveEffect
        <4>2. CASE r # s
          <5>1. Elsewhere(s)
            BY ReceiveEffect
          <5>2. QED BY <3>3, <4>2, <5>1 DEF Backed, Elsewhere
        <4>3. QED BY <4>1, <4>2
      <3>6. QED BY <3>1, <3>2, <3>4, <3>5
    <2>3. QED BY <2>1, <2>2
  <1>8. QED
    BY <1>5, <1>6, <1>7 DEF Held, PeerFits

LEMMA HandleRegMsgStep ==
  ASSUME RegTypeOK, RegTypeOK', IdMapAgrees, Held, NEW s \in Socks, HandleRegMsg(s)
  PROVE  Held'
  <1>0. DMTypeOK
    BY DEF RegTypeOK
  <1>1. Receive(s)
    BY DEF HandleRegMsg, HandleRegister, HandleKeepAlive, HandleBind, HandleUnbind, HandleOther
  <1>2. PICK u \in Uuids : u = task[s].st.peer
    BY <1>1, TaskTyped DEF Receive, SocketTime
  <1>3. CASE HandleRegister(s)
    <2>1. PICK t \in Tokens : DeviceOnline(u, t, s)
      BY <1>2, <1>3 DEF HandleRegister
    <2>2. CASE Online(u)
      BY <1>0, <1>1, <2>1, <2>2, RefreshCalm, CalmReceiveStep DEF DeviceOnline, Online
    <2>3. CASE Known(u) /\ ~ Online(u) /\ deviceMap[u].token = t
      BY <1>1, <1>2, <2>1, <2>3, CameOnlineStep DEF DeviceOnline
    <2>4. CASE Known(u) => ~ Online(u) /\ deviceMap[u].token # t
      BY <1>1, <2>1, <2>4, SameCalm, CalmReceiveStep DEF DeviceOnline, Online
    <2>5. QED BY <2>1, <2>2, <2>3, <2>4 DEF DeviceOnline
  <1>4. CASE HandleKeepAlive(s)
    BY <1>0, <1>1, <1>2, <1>4, KeepAliveCalm, CalmReceiveStep DEF HandleKeepAlive
  <1>5. CASE HandleBind(s)
    BY <1>0, <1>1, <1>2, <1>5, BindCalm, CalmReceiveStep DEF HandleBind
  <1>6. CASE HandleUnbind(s)
    BY <1>0, <1>1, <1>2, <1>6, BindCalm, CalmReceiveStep DEF HandleUnbind, UnbindMobile
  <1>7. CASE HandleOther(s)
    BY <1>1, <1>7, SameCalm, CalmReceiveStep DEF HandleOther, dmVars
  <1>8. QED
    BY <1>3, <1>4, <1>5, <1>6, <1>7 DEF HandleRegMsg

LEMMA ScannerStep ==
  ASSUME RegTypeOK, RegTypeOK', IdMapAgrees, Held, Scanner
  PROVE  Held'
  <1>0. DMTypeOK
    BY DEF RegTypeOK
  <1>1. ASSUME NEW u \in Uuids, ScanCheck(u), UNCHANGED regVars PROVE Held'
    BY <1>1, SameCalm, CalmStill DEF ScanCheck
  <1>2. CASE ScanOffline /\ UNCHANGED regVars
    <2>1. scan.id \in Socks
      BY <1>0, <1>2 DEF ScanOffline, DMTypeOK, Scan
    <2>2. QED BY <1>0, <1>2, <2>1, DropCalm, CalmStill DEF ScanOffline
  <1>3. ASSUME NEW i, ScanPostAndClose(i) PROVE Held'
    <2>1. Calm /\ UNCHANGED <<idMap, task, reused>>
      BY <1>3, SameCalm DEF ScanPostAndClose, ScanPost
    <2>2. CASE i \notin DOMAIN regMap
      BY <1>3, <2>1, <2>2, CalmStill DEF ScanPostAndClose, regVars
    <2>3. CASE i \in DOMAIN regMap
      <3>1. i \in Socks
        BY <2>3, MapsDef DEF RegTypeOK
      <3>2. regMap' = Erase(regMap, i) /\ broken' = broken \cup {i}
        BY <1>3, <2>3 DEF ScanPostAndClose
      <3>3. Elsewhere(i) /\ ~ Listed(i)' /\ Backed(i)'
        BY <2>1, <3>2 DEF Elsewhere, Listed, Erase, Restrict, Backed
      <3>4. i \in DOMAIN idMap' => Fits(i)'
        BY <2>1, <3>3 DEF Held, PeerFits, Fits
      <3>5. QED
        BY <2>1, <3>1, <3>3, <3>4, CalmStep
    <2>4. QED BY <2>2, <2>3
  <1>4. QED
    BY <1>1, <1>2, <1>3 DEF Scanner

LEMMA NextHeld == RegIInv /\ [Next]_vars => Held'
  <1> SUFFICES ASSUME RegIInv, [Next]_vars PROVE Held'
    OBVIOUS
  <1>0. RegTypeOK /\ RegTypeOK' /\ DMTypeOK /\ IdMapAgrees /\ Held
    BY RegNextTypeOK DEF RegIInv, RegTypeOK
  <1>1. ASSUME NEW s \in Socks, NEW u \in Uuids, SslConnect(s, u) \/ RegAccept(s, u)
        PROVE  Held'
    BY <1>0, <1>1, SslConnectStep, RegAcceptStep
  <1>2. ASSUME NEW s \in Socks, RegDispatch(s) \/ SslTask(s) PROVE Held'
    BY <1>0, <1>2, RegDispatchStep, SslTaskStep
  <1>3. ASSUME NEW s \in Socks, RegTask(s) PROVE Held'
    BY <1>0, <1>3, ReceiveEndStep, ReceiveErrorStep, HandleRegMsgStep, FinishKeepStep,
       FinishCloseStep DEF RegTask
  <1>4. CASE Scanner
    BY <1>0, <1>4, ScannerStep
  <1>5. CASE Tick /\ UNCHANGED regVars
    BY <1>0, <1>5, TickCalm, CalmStill
  <1>6. CASE UNCHANGED vars
    BY <1>0, <1>6, SameCalm, CalmStill DEF vars, dmVars
  <1>7. QED
    BY <1>1, <1>2, <1>3, <1>4, <1>5, <1>6 DEF Next

LEMMA RegInvariant == Spec => []RegIInv
  <1>1. Init => Held
    BY EmptyMapTyped DEF Init, DMInit, Held, OneHolder, PeerFits, Listed, Handled, Online, Known
  <1>2. Spec => []IdMapAgrees
    BY RegistrationImplements, MapsAgree
  <1>3. QED
    BY <1>1, <1>2, NextHeld, RegTypeCorrect, PTL DEF Spec, RegIInv

\* Every online device can be found by the address of its connection, so that
\* it can be taken offline; unless the address was reused too early.
THEOREM IndexIsComplete == Spec => []IndexComplete
  <1>1. RegIInv => IndexComplete
    <2>1. RegIInv => DOMAIN deviceMap \subseteq Uuids
      BY MapsDef DEF RegIInv, RegTypeOK, DMTypeOK
    <2>2. QED
      BY <2>1 DEF RegIInv, Held, Indexed, IndexComplete
  <1>2. QED
    BY <1>1, RegInvariant, PTL

\* An online device has a connection, or a known reason for having none.
THEOREM OnlineAreConnected == Spec => []OnlineIsConnected
  <1>1. RegIInv => OnlineIsConnected
    BY DEF RegIInv, Held, Backed, OnlineIsConnected
  <1>2. QED
    BY <1>1, RegInvariant, PTL

=============================================================================
