----------------------------- MODULE Registration -----------------------------
(***************************************************************************)
(* The device side of the transmit server put together: the connections of *)
(* CRegServer (as SelectLoop implements them), the messages CRegMsgHandler *)
(* handles on them, and the device manager, which knows a connection only  *)
(* by the address of its socket object.                                    *)
(*                                                                         *)
(* A device first asks for a token on an SSL connection, then registers    *)
(* with it on a second connection and sends keep-alives there.  Nothing    *)
(* here makes devices follow that order.  Every message names its device   *)
(* by a uuid the server does not compare with anything: a device is taken  *)
(* to name itself, and one device to use a connection.                     *)
(***************************************************************************)
EXTENDS DeviceManager

VARIABLES
  regMap,      \* m_pReg_map: from addresses to SocketTime
  task,        \* the CRegMsgHandler task that owns the connection at an address
  broken,      \* history: addresses of closed connections whose end the device
               \* manager was not told of
  reused       \* history: addresses whose last connection got them while the
               \* device manager still had them from an earlier one

regVars == <<regMap, task, broken, reused>>
vars == <<dmVars, regVars>>

\* SocketTime: who is at the other end, and whether it has sent anything yet.
SocketTime == [peer : Uuids, connected : BOOLEAN]

Task ==
  [at : {"none"}]
    \* SSL: about to call addDevice, then bindMobile, then to answer
    \cup [at : {"token", "bind", "reply"}, peer : Uuids]
    \* registration: about to receive, handled a message, or the end of it
    \cup [at : {"receive", "keep", "close"}, st : SocketTime]

RegTypeOK ==
  /\ DMTypeOK
  /\ regMap \in Maps(Socks, SocketTime)
  /\ task \in [Socks -> Task]
  /\ broken \subseteq Socks /\ reused \subseteq Socks

Init ==
  /\ DMInit
  /\ regMap = EmptyMap
  /\ task = [s \in Socks |-> [at |-> "none"]]
  /\ broken = {} /\ reused = {}

Listed(s) == s \in DOMAIN regMap
Handled(s) == task[s].at # "none"
SetTask(s, t) == task' = [task EXCEPT ![s] = t]

\* The device manager has the address s from an earlier connection.
Named(s) ==
  \/ s \in DOMAIN idMap
  \/ \E u \in DOMAIN deviceMap : deviceMap[u].id = s
  \/ scan.at # "check" /\ scan.id = s

\* malloc gives a new connection's socket any address no connection has.
NewAddress(s) ==
  /\ ~ Listed(s) /\ ~ Handled(s)
  /\ broken' = broken \ {s}
  /\ reused' = IF Named(s) THEN reused \cup {s} ELSE reused \ {s}

-----------------------------------------------------------------------------
(* Asking for a token.                                                      *)

\* A device connects to the SSL port; its request is handed to a task.
SslConnect(s, u) ==
  /\ NewAddress(s)
  /\ SetTask(s, [at |-> "token", peer |-> u])
  /\ UNCHANGED <<dmVars, regMap>>

SslAddDevice(s) ==
  /\ task[s].at = "token"
  /\ AddDevice(task[s].peer, s)
  /\ SetTask(s, [task[s] EXCEPT !.at = IF AddDeviceOk(task[s].peer) THEN "bind" ELSE "reply"])
  /\ UNCHANGED <<regMap, broken, reused>>

SslBindMobile(s) ==
  /\ task[s].at = "bind"
  /\ \E p \in Phones \cup {NoPhone} : BindMobile(task[s].peer, p)
  /\ SetTask(s, [task[s] EXCEPT !.at = "reply"])
  /\ UNCHANGED <<regMap, broken, reused>>

\* The answer is sent and handleTaskFinish closes the connection.
SslFinish(s) ==
  /\ task[s].at = "reply"
  /\ SetTask(s, [at |-> "none"])
  /\ UNCHANGED <<dmVars, regMap, broken, reused>>

-----------------------------------------------------------------------------
(* A registration connection.                                               *)

RegAccept(s, u) ==
  /\ NewAddress(s)
  /\ regMap' = Insert(regMap, s, [peer |-> u, connected |-> FALSE])
  /\ UNCHANGED <<dmVars, task>>

RegDispatch(s) ==
  /\ Listed(s)
  /\ SetTask(s, [at |-> "receive", st |-> regMap[s]])
  /\ regMap' = Erase(regMap, s)
  /\ UNCHANGED <<dmVars, broken, reused>>

\* Mutant: the state is set before it is looked at.
ReceiveEndStateFirst(s) ==
  /\ task[s].at = "receive"
  /\ SetTask(s, [task[s] EXCEPT !.at = "close", !.st.connected = FALSE])
  /\ UNCHANGED <<dmVars, regMap, broken, reused>>

\* receiveBytes returned no data: the peer ended the connection.  Only one that
\* had sent something before tells the device manager.
ReceiveEnd(s) ==
  /\ task[s].at = "receive"
  /\ IF task[s].st.connected THEN DeviceOffline(s) ELSE UNCHANGED dmVars
  /\ SetTask(s, [task[s] EXCEPT !.at = "close", !.st.connected = FALSE])
  /\ UNCHANGED <<regMap, broken, reused>>

\* receiveBytes threw: a timeout, a reset, a TLS error.  Nobody is told.
ReceiveError(s) ==
  /\ task[s].at = "receive"
  /\ SetTask(s, [task[s] EXCEPT !.at = "close"])
  /\ broken' = broken \cup {s}
  /\ UNCHANGED <<dmVars, regMap, reused>>

\* A message arrived and handleRegMsg handles it.  What receiveBytes and the
\* parser do with it is local to the task.
Receive(s) ==
  /\ task[s].at = "receive"
  /\ SetTask(s, [task[s] EXCEPT !.at = "keep", !.st.connected = TRUE])
  /\ UNCHANGED <<regMap, broken, reused>>

HandleRegister(s) ==
  /\ Receive(s)
  /\ \E t \in Tokens : t <= issued /\ DeviceOnline(task[s].st.peer, t, s)

HandleKeepAlive(s) ==
  /\ Receive(s)
  /\ KeepAliveDevice(task[s].st.peer)

HandleBind(s) ==
  /\ Receive(s)
  /\ \E p \in Phones \cup {NoPhone} : BindMobile(task[s].st.peer, p)

HandleUnbind(s) ==
  /\ Receive(s)
  /\ UnbindMobile(task[s].st.peer)

\* A response to an HTTP request, or a message that is refused.
HandleOther(s) ==
  /\ Receive(s)
  /\ UNCHANGED dmVars

\* handleTaskFinish: back into the map, or closed.
FinishKeep(s) ==
  /\ task[s].at = "keep"
  /\ regMap' = Insert(regMap, s, task[s].st)
  /\ SetTask(s, [at |-> "none"])
  /\ UNCHANGED <<dmVars, broken, reused>>

\* Mutant: closing a connection takes its device offline in the table itself.
FinishCloseMarksOffline(s) ==
  /\ task[s].at = "close"
  /\ SetTask(s, [at |-> "none"])
  /\ deviceMap' = [u \in DOMAIN deviceMap |->
                     [deviceMap[u] EXCEPT !.online = @ /\ deviceMap[u].id # s]]
  /\ UNCHANGED <<idMap, issued, lastPush, scan, regMap, broken, reused>>

FinishClose(s) ==
  /\ task[s].at = "close"
  /\ SetTask(s, [at |-> "none"])
  /\ UNCHANGED <<dmVars, regMap, broken, reused>>

-----------------------------------------------------------------------------
(* The scan.  postNotification runs CRegServer::handleOffline in the scan's *)
(* thread: it closes the connection at the address it is given, if it is in *)
(* the map at that moment.                                                  *)

ScanPostAndClose(i) ==
  /\ ScanPost(i)
  /\ IF i \in DOMAIN regMap
     THEN regMap' = Erase(regMap, i) /\ broken' = broken \cup {i}
     ELSE UNCHANGED <<regMap, broken>>
  /\ UNCHANGED <<task, reused>>

Scanner ==
  \/ \E u \in Uuids : ScanCheck(u) /\ UNCHANGED regVars
  \/ ScanOffline /\ UNCHANGED regVars
  \/ \E i \in Socks \cup {Garbage} : ScanPostAndClose(i)

-----------------------------------------------------------------------------

SslTask(s) == SslAddDevice(s) \/ SslBindMobile(s) \/ SslFinish(s)

HandleRegMsg(s) ==
  \/ HandleRegister(s) \/ HandleKeepAlive(s)
  \/ HandleBind(s) \/ HandleUnbind(s) \/ HandleOther(s)

RegTask(s) ==
  ReceiveEnd(s) \/ ReceiveError(s) \/ HandleRegMsg(s) \/ FinishKeep(s) \/ FinishClose(s)

Next ==
  \/ \E s \in Socks, u \in Uuids : SslConnect(s, u) \/ RegAccept(s, u)
  \/ \E s \in Socks : RegDispatch(s) \/ SslTask(s) \/ RegTask(s)
  \/ Scanner
  \/ Tick /\ UNCHANGED regVars

Spec == Init /\ [][Next]_vars

\* The scan's thread runs, and each pass visits every device.
Fairness ==
  /\ \A u \in Uuids : SF_vars(ScanCheck(u) /\ UNCHANGED regVars)
  /\ WF_vars(ScanOffline /\ UNCHANGED regVars)
  /\ WF_vars(\E i \in Socks \cup {Garbage} : ScanPostAndClose(i))

FairSpec == Spec /\ Fairness

-----------------------------------------------------------------------------
(* Properties. *)

\* The index is complete: every online device can be found by the address of its
\* connection, so that the end of the connection and the scan can take it
\* offline.  A device this fails for stays "already online" for good: it can
\* never get a token again.  The one exception is a connection at an address the
\* device manager had not forgotten yet (DeviceManager.cpp:160).
IndexComplete ==
  \A u \in DOMAIN deviceMap : Online(u) =>
    LET s == deviceMap[u].id
    IN  s \in reused \/ (s \in DOMAIN idMap /\ idMap[s] = u)

\* A device is online only while it has a connection, or had one that was closed
\* without the device manager being told: because receiving on it failed, or
\* because the scan closed it; or the address is another connection's by now.
OnlineIsConnected ==
  \A u \in Uuids : Online(u) =>
    LET s == deviceMap[u].id
    IN  s \in reused \cup broken \/ Listed(s) \/ task[s].at \in {"receive", "keep"}

\* An online device that falls silent does not stay in the table: the scan drops
\* it, and it can ask for a token again; unless its address is reused first.
SilentDeviceDropped ==
  \A u \in Uuids :
    LET Silent == Online(u) /\ Expired(u)
    IN  Silent ~> (Silent => deviceMap[u].id \in reused)
=============================================================================
