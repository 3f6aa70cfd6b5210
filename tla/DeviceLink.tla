---------------------------- MODULE DeviceLink ----------------------------
(***************************************************************************)
(* The device's link to the server and what hangs on it: CRegProxy         *)
(* receives requests, CRPCServer has them run, and their answers go back   *)
(* through handleNf.  A request may start an update (CSystemManager), and  *)
(* the reboot that follows it stops CRegProxy through a notification.      *)
(*                                                                         *)
(* A null pointer that is used ends the process.  It is started again, or  *)
(* the device is, and all is as at first but for the requests.             *)
(***************************************************************************)
EXTENDS RegProxy, RpcServer, SystemUpdate

CONSTANTS
  Updates,     \* the requests that start an update
  Mobiles      \* the requests that make the device announce a mobile

ASSUME RequestsAssumption ==
  /\ Updates \cup Mobiles \subseteq Requests
  /\ Ports = Addrs

vars == <<proxyVars, rpcVars, updateVars>>

LinkTypeOK == ProxyTypeOK /\ RpcTypeOK /\ UpdateTypeOK(Requests)

Init == ProxyInit /\ RpcInit /\ UpdateInit

ProxyOnly == UNCHANGED <<rpcVars, updateVars>>
RpcOnly == UNCHANGED <<proxyVars, updateVars>>
UpdateOnly == UNCHANGED <<proxyVars, rpcVars>>

\* The process, or the device, starts over.
StartOver ==
  /\ started' = TRUE /\ loop' = "top" /\ sock' = Null
  /\ age' = 0 /\ quiet' = 0 /\ lamp' = TRUE /\ unlit' = FALSE
  /\ queue' = <<>> /\ serving' = TRUE
  /\ client' = [r \in Requests |->
                  [at |-> IF At(r, "unsent") THEN "unsent" ELSE "done"]]
  /\ updating' = FALSE /\ timer' = "null"
  /\ job' = [t \in Timers |-> "none"]
  /\ starting' = {} /\ stuck' = FALSE /\ overlapped' = FALSE

Crash == StartOver

-----------------------------------------------------------------------------
(* The loop. *)

ReceiveRequest ==
  /\ Receive
  /\ \E r \in Requests : AddRequest(r, sock)
  /\ UNCHANGED updateVars

ProxyStep ==
  \/ EndLoop \/ Connect \/ TokenFails \/ ResolveThrows
  \/ Registered \/ RegisterFails \/ RegisterThrows \/ Sleep
  \/ PollNothing \/ PollThrows \/ ReceiveFails
  \/ NoCheck \/ SendKeepAlive \/ KeepAliveFails \/ KeepAliveThrows

OnTimer == (ProxyStep /\ ProxyOnly) \/ ReceiveRequest

-----------------------------------------------------------------------------
(* Answers: handleFinish is run for one client at a time, and handleNf within *)
(* it.  The loop may replace the socket between the check and the send.       *)

Sending == \E r \in Requests : At(r, "send")

\* Mutant: an answer waits for its connection.
HandleFinishWaiting(r) ==
  /\ At(r, "finish") /\ ~ Sending
  /\ started /\ client[r].id = sock
  /\ Move(r, "send")
  /\ UNCHANGED <<queue, serving>>
  /\ RpcOnly

HandleFinish(r) ==
  /\ At(r, "finish") /\ ~ Sending
  /\ IF started /\ sock # Null /\ client[r].id = sock THEN Move(r, "send") ELSE Finish(r)
  /\ UNCHANGED <<queue, serving>>
  /\ RpcOnly

SendAnswer(r) ==
  /\ At(r, "send")
  /\ IF sock = Null
     THEN Crash
     ELSE Finish(r) /\ UNCHANGED <<queue, serving>> /\ RpcOnly

-----------------------------------------------------------------------------
(* What the clients do. *)

\* handleMessage has the observer's lock while it stops the loop.
Stopping == \E t \in Timers : job[t] = "stop"

\* handleMessage sends without a look at the socket.
AnnounceMobile(r) ==
  /\ r \in Mobiles /\ At(r, "run") /\ ~ Stopping
  /\ IF sock = Null THEN Crash ELSE Respond(r) /\ RpcOnly

\* startUpdate
StartUpdate(r) ==
  /\ r \in Updates /\ At(r, "run")
  /\ IF MayStart
     THEN Enter(r) /\ Move(r, "set")
     ELSE Move(r, "finish") /\ UNCHANGED updateVars
  /\ UNCHANGED <<proxyVars, queue, serving>>

ContinueUpdate(r) ==
  /\ \/ At(r, "set") /\ SetUpdating(r, TRUE) /\ Move(r, "delete")
     \/ At(r, "set") /\ SetUpdating(r, FALSE) /\ Move(r, "finish")
     \/ At(r, "delete") /\ DeleteTimer /\ Move(r, "new")
     \/ At(r, "new") /\ NewTimer(r) /\ Move(r, "finish")
  /\ UNCHANGED <<proxyVars, queue, serving>>

\* Another thread has deleted the timer, and has made no new one yet.
DeleteTwice(r) == At(r, "delete") /\ timer = "deleted" /\ Crash

\* Any request may be refused.
Run(r) ==
  \/ Respond(r) /\ RpcOnly
  \/ NoResponse(r) /\ RpcOnly
  \/ AnnounceMobile(r) \/ StartUpdate(r) \/ ContinueUpdate(r) \/ DeleteTwice(r)

-----------------------------------------------------------------------------
(* handleUpdate, and rebootSystem at its end: the notification has handleMessage *)
(* take handleNf from the observers, once no answer is being sent, and stop the  *)
(* loop, which ends when it comes round; then the socket is closed.              *)

UpdateStep(t) ==
  /\ \/ SkipUpdate(t) \/ FetchInfo(t) \/ FetchProgram(t) \/ Install(t)
     \/ UpdateFails(t) \/ UpdateThrows(t)
  /\ UpdateOnly

\* Mutant: m_started stays set.
WillRebootRunning(t) ==
  /\ ~ Sending /\ ~ Stopping
  /\ Step(t, "reboot", "stop")
  /\ UNCHANGED <<proxyVars, rpcVars>>
  /\ UNCHANGED <<updating, timer, starting, stuck, overlapped>>

WillReboot(t) ==
  /\ ~ Sending /\ ~ Stopping
  /\ Step(t, "reboot", "stop")
  /\ started' = FALSE
  /\ UNCHANGED <<loop, sock, age, quiet, lamp, unlit, rpcVars>>
  /\ UNCHANGED <<updating, timer, starting, stuck, overlapped>>

LoopStopped(t) ==
  /\ loop \in Over
  /\ Step(t, "stop", "rest")
  /\ DealError
  /\ UNCHANGED <<started, loop, lamp, unlit, rpcVars>>
  /\ UNCHANGED <<updating, timer, starting, stuck, overlapped>>

Reboot(t) == job[t] = "rest" /\ StartOver

HandleUpdate(t) == UpdateStep(t) \/ WillReboot(t) \/ LoopStopped(t) \/ Reboot(t)

RunClient(r) == Run(r) \/ HandleFinish(r) \/ SendAnswer(r)

Next ==
  \/ OnTimer
  \/ Serve /\ RpcOnly
  \/ \E r \in Requests : RunClient(r)
  \/ \E t \in Timers : HandleUpdate(t)

Spec == Init /\ [][Next]_vars

\* Every thread goes on: no call of theirs blocks for ever.  The server lets
\* itself be reached now and then.
Fairness ==
  /\ WF_vars(OnTimer)
  /\ SF_vars(Connect /\ ProxyOnly) /\ SF_vars(Registered /\ ProxyOnly)
  /\ \A r \in Requests : WF_vars(RunClient(r))
  /\ \A t \in Timers : WF_vars(HandleUpdate(t))

FairSpec == Spec /\ Fairness

-----------------------------------------------------------------------------
(* Properties. *)

\* A device that is not connected gets registered again, that is, the loop comes
\* round with a connection, as long as the server can be reached now and then;
\* unless an exception ends the loop (RegProxy.cpp:178, 299, 323, 344, 477), or a
\* reboot does.
Reconnects ==
  sock = Null ~> (loop = "top" /\ sock # Null) \/ loop = "dead" \/ ~ started

\* Once a new program is in place the device reboots: neither the loop nor an
\* answer that is being sent keeps handleMessage waiting for ever
\* (RegProxy.cpp:158-169).
Reboots == (\E t \in Timers : job[t] = "reboot") ~> \A t \in Timers : job[t] = "none"

\* A request that is being run comes to an end: no thread waits for ever for the
\* handler of a timer, for its turn to answer, or for the end of handleMessage
\* (SystemManager.cpp:90-91, RPCServer.cpp:104-125).
RequestsEnd == \A r \in Requests : client[r].at \in Stage ~> At(r, "done")
=============================================================================
