---------------------------- MODULE DeviceManager ----------------------------
(***************************************************************************)
(* CDeviceManager of the transmit server: the table of the devices known   *)
(* to the server, the index from the address of a connection's socket to   *)
(* the device registered over it, and the thread that drops the devices it *)
(* has not heard of for two minutes.  Every public operation holds m_mutex *)
(* from its first to its last line and is one action; the thread in run()  *)
(* takes the mutex only inside deviceOffline and is three actions.         *)
(*                                                                         *)
(* Callers are left open: any operation may be called with any argument,   *)
(* as the handlers of CRegServer, the scan and the HTTP handlers do.       *)
(* deviceOffline(uuid) has no caller and is left out.                      *)
(***************************************************************************)
EXTENDS Naturals, StdMap

CONSTANTS
  Uuids,       \* device uuids
  Socks,       \* addresses a socket impl object can have: the UInt64 ids
  Phones,      \* (mobile token, installation id) pairs a device can be bound to
  NoPhone,     \* both strings empty
  Garbage,     \* what a read of a freed DeviceInfo may yield besides an address
  Expire,      \* age, in scan periods, beyond which a device is dropped (24)
  MaxTokens    \* bound on the number of tokens ever issued

ASSUME ExpireAssumption == Expire \in Nat
ASSUME MaxTokensAssumption == MaxTokens \in Nat
ASSUME NoPhoneAssumption == NoPhone \notin Phones
ASSUME GarbageAssumption == Garbage \notin Socks

VARIABLES
  deviceMap,   \* m_device_map: from uuids to DeviceInfo
  idMap,       \* m_device_id_map: from addresses to uuids
  issued,      \* number of tokens generated so far (a UUID's digest is fresh)
  lastPush,    \* the last push sent about a device to the phone it is bound to
  scan         \* where run() stands in its loop, and the DeviceInfo it holds

dmVars == <<deviceMap, idMap, issued, lastPush, scan>>

Ages == 0 .. (Expire + 1)     \* Expire + 1 stands for every older age
Tokens == 1 .. MaxTokens

DeviceInfo ==
  [id : Socks, token : Tokens, phone : Phones \cup {NoPhone},
   age : Ages, online : BOOLEAN]

Scan ==
  [at : {"check"}] \cup [at : {"offline", "post"}, uuid : Uuids, id : Socks]

Known(u) == u \in DOMAIN deviceMap
Online(u) == Known(u) /\ deviceMap[u].online
Expired(u) == deviceMap[u].age > Expire

DMTypeOK ==
  /\ deviceMap \in Maps(Uuids, DeviceInfo)
  /\ idMap \in Maps(Socks, Uuids)
  /\ issued \in 0 .. MaxTokens
  /\ lastPush \in [Uuids -> {"none", "online", "offline"}]
  /\ scan \in Scan

DMInit ==
  /\ deviceMap = EmptyMap
  /\ idMap = EmptyMap
  /\ issued = 0
  /\ lastPush = [u \in Uuids |-> "none"]
  /\ scan = [at |-> "check"]

-----------------------------------------------------------------------------
(* State transformers shared by the operations. *)

\* A push goes out only to a device that is bound to a phone.
Push(u, what) ==
  lastPush' = IF deviceMap[u].phone = NoPhone
              THEN lastPush
              ELSE [lastPush EXCEPT ![u] = what]

Refresh(u) == deviceMap' = [deviceMap EXCEPT ![u].age = 0]

NewDevice(i, t) ==
  [id |-> i, token |-> t, phone |-> NoPhone, age |-> 0, online |-> FALSE]

-----------------------------------------------------------------------------
(* The operations.  The Boolean they return is not a variable: the handlers *)
(* that look at it (see Registration) test the same condition.              *)

\* A device asks for a token over an SSL connection whose socket is at i.  An
\* offline device gets the token it already has, an online one is refused.
AddDeviceOk(u) == ~ Online(u)

AddDevice(u, i) ==
  /\ \/ /\ Online(u)
        /\ UNCHANGED <<deviceMap, issued>>
     \/ /\ Known(u) /\ ~ Online(u)
        /\ Refresh(u)
        /\ UNCHANGED issued
     \/ /\ ~ Known(u)
        /\ issued < MaxTokens
        /\ issued' = issued + 1
        /\ deviceMap' = Insert(deviceMap, u, NewDevice(i, issued + 1))
  /\ UNCHANGED <<idMap, lastPush, scan>>

KeepAliveDevice(u) ==
  /\ IF Online(u) THEN Refresh(u) ELSE UNCHANGED deviceMap
  /\ UNCHANGED <<idMap, issued, lastPush, scan>>

\* A device registers with token t over the connection at s.
DeviceOnline(u, t, s) ==
  /\ \/ /\ Online(u)
        /\ Refresh(u)
        /\ UNCHANGED <<idMap, lastPush>>
     \/ /\ Known(u) /\ ~ Online(u) /\ deviceMap[u].token = t
        /\ deviceMap' = [deviceMap EXCEPT ![u].online = TRUE, ![u].id = s]
        /\ idMap' = Insert(idMap, s, u)
        /\ Push(u, "online")
     \/ /\ Known(u) => ~ Online(u) /\ deviceMap[u].token # t
        /\ UNCHANGED <<deviceMap, idMap, lastPush>>
  /\ UNCHANGED <<issued, scan>>

\* deviceOffline(id): whatever device the index names is removed.
\* Mutants: the index keeps the entry; the table keeps the device; the phone is
\* not told; the device is looked for in the table.
DropDeviceKeepsIndex(s) ==
  IF s \in DOMAIN idMap /\ Known(idMap[s])
  THEN /\ deviceMap' = Erase(deviceMap, idMap[s])
       /\ Push(idMap[s], "offline")
       /\ UNCHANGED idMap
  ELSE UNCHANGED <<deviceMap, idMap, lastPush>>

DropDeviceIndexOnly(s) ==
  idMap' = Erase(idMap, s) /\ UNCHANGED <<deviceMap, lastPush>>

DropDeviceSilently(s) ==
  IF s \in DOMAIN idMap
  THEN idMap' = Erase(idMap, s) /\ deviceMap' = Erase(deviceMap, idMap[s]) /\ UNCHANGED lastPush
  ELSE UNCHANGED <<deviceMap, idMap, lastPush>>

DropDeviceByTable(s) ==
  /\ deviceMap' = Restrict(deviceMap, {u \in DOMAIN deviceMap : deviceMap[u].id # s})
  /\ idMap' = Erase(idMap, s)
  /\ UNCHANGED lastPush

DropDevice(s) ==
  IF s \notin DOMAIN idMap
  THEN UNCHANGED <<deviceMap, idMap, lastPush>>
  ELSE /\ idMap' = Erase(idMap, s)
       /\ IF Known(idMap[s])
          THEN /\ deviceMap' = Erase(deviceMap, idMap[s])
               /\ Push(idMap[s], "offline")
          ELSE UNCHANGED <<deviceMap, lastPush>>

DeviceOffline(s) ==
  /\ DropDevice(s)
  /\ UNCHANGED <<issued, scan>>

\* What the phone was told counts from the moment it was bound.
SetPhone(u, p) ==
  IF Known(u)
  THEN /\ deviceMap' = [deviceMap EXCEPT ![u].phone = p]
       /\ lastPush' = IF deviceMap[u].phone = p
                      THEN lastPush
                      ELSE [lastPush EXCEPT ![u] = "none"]
  ELSE UNCHANGED <<deviceMap, lastPush>>

BindMobile(u, p) ==
  /\ SetPhone(u, p)
  /\ UNCHANGED <<idMap, issued, scan>>

UnbindMobile(u) == BindMobile(u, NoPhone)

-----------------------------------------------------------------------------
(* The thread in run().  It walks the map without the mutex, so its steps   *)
(* interleave with every operation; an iterator that another thread's erase *)
(* left dangling is covered by letting the walk visit the devices in any    *)
(* order.                                                                   *)

\* A scan period passes.
Tick ==
  /\ deviceMap' = [u \in DOMAIN deviceMap |->
                     [deviceMap[u] EXCEPT !.age = IF @ > Expire THEN @ ELSE @ + 1]]
  /\ UNCHANGED <<idMap, issued, lastPush, scan>>

\* The walk finds a device too old and reads its id for the call.
ScanCheck(u) ==
  /\ scan.at = "check"
  /\ Known(u)
  /\ Expired(u)
  /\ scan' = [at |-> "offline", uuid |-> u, id |-> deviceMap[u].id]
  /\ UNCHANGED <<deviceMap, idMap, issued, lastPush>>

ScanOffline ==
  /\ scan.at = "offline"
  /\ DropDevice(scan.id)
  /\ scan' = [scan EXCEPT !.at = "post"]
  /\ UNCHANGED issued

\* The id read from the DeviceInfo to post it.  After ScanOffline the record has
\* usually been freed: the memory still holds the old id, or was reused for the
\* DeviceInfo of another device, or holds something else.
PostedIds ==
  {scan.id, Garbage} \cup {deviceMap[u].id : u \in DOMAIN deviceMap}

ScanPost(i) ==
  /\ scan.at = "post"
  /\ i \in PostedIds
  /\ scan' = [at |-> "check"]
  /\ UNCHANGED <<deviceMap, idMap, issued, lastPush>>

-----------------------------------------------------------------------------

Operation ==
  \E u \in Uuids :
    \/ \E i \in Socks : AddDevice(u, i)
    \/ KeepAliveDevice(u)
    \/ \E t \in Tokens, s \in Socks : DeviceOnline(u, t, s)
    \/ \E p \in Phones \cup {NoPhone} : BindMobile(u, p)
    \/ UnbindMobile(u)

ScanStep ==
  \/ \E u \in Uuids : ScanCheck(u)
  \/ ScanOffline
  \/ \E i \in Socks \cup {Garbage} : ScanPost(i)

DMNext ==
  \/ Operation
  \/ \E s \in Socks : DeviceOffline(s)
  \/ Tick
  \/ ScanStep

DMSpec == DMInit /\ [][DMNext]_dmVars

-----------------------------------------------------------------------------
(* Properties. *)

\* Every entry of the index names a device that is in the table, is online and
\* has that very address as its id.  deviceOffline(id) and the HTTP relay find
\* devices through these two maps and nothing else ties them together; the
\* entries are made and removed by different threads.
IdMapAgrees ==
  \A s \in DOMAIN idMap :
    /\ Online(idMap[s])
    /\ deviceMap[idMap[s]].id = s

\* A token that was handed out but not used yet is never revoked: only online
\* devices leave the table, however stale the address deviceOffline is given
\* and however old the device is when the scan meets it.
UnusedTokenKept ==
  [][\A u \in DOMAIN deviceMap : Known(u)' \/ Online(u)]_dmVars

\* While a device stays online its session is fixed: no register from another
\* connection moves its id, no request for a token changes its token.
SessionFixed ==
  [][\A u \in Uuids : Online(u) /\ Online(u)' =>
        /\ deviceMap'[u].id = deviceMap[u].id
        /\ deviceMap'[u].token = deviceMap[u].token]_dmVars

\* The phone bound to a device is not left believing it is online: if the last
\* push said so, the device is still in the table, online and bound.
OwnerNotMisled ==
  \A u \in Uuids :
    lastPush[u] = "online" => Online(u) /\ deviceMap[u].phone # NoPhone
=============================================================================
