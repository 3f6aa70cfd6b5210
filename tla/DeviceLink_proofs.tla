-------------------------- MODULE DeviceLink_proofs --------------------------
(***************************************************************************)
(* The device's link, for every number of requests, timers and addresses   *)
(* and every setting of the times: types, the two promises of the loop     *)
(* (the lamp, and that a silent connection is given up), and m_updating.   *)
(***************************************************************************)
EXTENDS DeviceLink, TLAPS

USE RegProxyAssumption, TimersAssumption, RequestsAssumption

-----------------------------------------------------------------------------
(* The loop.  Whatever a thread does, to CRegProxy it is one of these.      *)

ProxyMove ==
  \/ ProxyStep \/ Receive \/ StartOver
  \/ started' = FALSE /\ UNCHANGED <<loop, sock, age, quiet, lamp, unlit>>
  \/ loop \in Over /\ DealError /\ UNCHANGED <<started, loop, lamp, unlit>>
  \/ UNCHANGED proxyVars

LEMMA NextProxyMove ==
  ASSUME [Next]_vars
  PROVE  ProxyMove
  <1> USE DEF ProxyMove
  <1>1. CASE OnTimer
    BY <1>1 DEF OnTimer, ReceiveRequest
  <1>2. CASE Serve /\ RpcOnly
    BY <1>2 DEF RpcOnly
  <1>3. ASSUME NEW r \in Requests, RunClient(r) PROVE ProxyMove
    <2>1. CASE Run(r)
      BY <2>1 DEF Run, AnnounceMobile, StartUpdate, ContinueUpdate, DeleteTwice, Crash,
                  RpcOnly, proxyVars
    <2>2. CASE HandleFinish(r) \/ SendAnswer(r)
      BY <2>2 DEF HandleFinish, SendAnswer, Crash, RpcOnly
    <2>3. QED BY <1>3, <2>1, <2>2 DEF RunClient
  <1>4. ASSUME NEW t \in Timers, HandleUpdate(t) PROVE ProxyMove
    BY <1>4 DEF HandleUpdate, UpdateStep, UpdateOnly, WillReboot, LoopStopped, Reboot
  <1>5. CASE UNCHANGED vars
    BY <1>5 DEF vars
  <1>6. QED
    BY <1>1, <1>2, <1>3, <1>4, <1>5 DEF Next

\* The clock of the loop is ahead of the last success, and bounded: by a timeout
\* and a send whenever the loop comes round, a poll and a receive later at most.
ClockInv ==
  /\ quiet <= age
  /\ loop \in {"top", "register", "sleep", "ended"} => age <= KeepAliveTimeout + IoTime

\* Where the loop stands tells whether there is a socket.
SocketInv ==
  /\ loop \in {"register", "check"} => sock # Null
  /\ loop = "sleep" => sock = Null

ProxyInv == ProxyTypeOK /\ ClockInv /\ SocketInv /\ LampTruth

LEMMA LimitBounds ==
  /\ Limit \in Nat /\ KeepAliveTimeout + IoTime \in Nat
  /\ KeepAliveTimeout + IoTime + IoTime + PollTime = Limit
  BY DEF Limit

LEMMA ProxyInitInv == Init => ProxyInv
  <1> SUFFICES ASSUME Init PROVE ProxyInv
    OBVIOUS
  <1>1. /\ started = TRUE /\ loop = "top" /\ sock = Null
        /\ age = 0 /\ quiet = 0 /\ lamp = TRUE /\ unlit = FALSE
    BY DEF Init, ProxyInit
  <1>2. age \in 0 .. Limit /\ quiet \in 0 .. Limit /\ ClockInv
    BY <1>1, LimitBounds DEF ClockInv
  <1>3. ProxyTypeOK
    BY <1>1, <1>2 DEF ProxyTypeOK
  <1>4. SocketInv /\ LampTruth
    BY <1>1 DEF SocketInv, LampTruth
  <1>5. QED
    BY <1>2, <1>3, <1>4 DEF ProxyInv

LEMMA ProxyMoveTime ==
  ASSUME ProxyTypeOK, ClockInv, ProxyMove
  PROVE  ProxyTypeOK' /\ ClockInv'
  <1> USE LimitBounds DEF ProxyTypeOK, ClockInv, Over
  <1> USE DEF Go, Stay, Pass, DealError, Disconnected, Connected
  <1>1. CASE ProxyStep
    <2>1. CASE EndLoop
      BY <2>1 DEF EndLoop
    <2>2. CASE Connect
      BY <2>2 DEF Connect
    <2>3. CASE TokenFails
      BY <2>3 DEF TokenFails
    <2>4. CASE ResolveThrows
      BY <2>4 DEF ResolveThrows
    <2>5. CASE Registered
      <3>1. age' \in 0 .. Limit /\ quiet' \in 0 .. Limit /\ ClockInv'
        BY <2>5 DEF Registered
      <3>2. QED BY <2>5, <3>1, Zenon DEF Registered
    <2>6e. CASE RegisterThrows
      BY <2>6e DEF RegisterThrows
    <2>6. CASE RegisterFails
      BY <2>6 DEF RegisterFails
    <2>7. CASE Sleep
      BY <2>7 DEF Sleep
    <2>8. CASE PollNothing
      BY <2>8 DEF PollNothing
    <2>9. CASE PollThrows
      BY <2>9 DEF PollThrows
    <2>10. CASE ReceiveFails
      BY <2>10 DEF ReceiveFails
    <2>11. CASE NoCheck
      BY <2>11 DEF NoCheck
    <2>12. CASE SendKeepAlive
      BY <2>12 DEF SendKeepAlive
    <2>13. CASE KeepAliveFails
      <3>1. CASE age > KeepAliveTimeout
        <4>1. DealError /\ unlit' = TRUE /\ loop' = "top" /\ UNCHANGED <<started, lamp>>
          BY <2>13, <3>1 DEF KeepAliveFails
        <4>2. age' \in 0 .. Limit /\ quiet' \in 0 .. Limit /\ ClockInv'
          BY <4>1
        <4>3. QED BY <4>1, <4>2
      <3>2. CASE ~ (age > KeepAliveTimeout)
        <4>1. PICK d \in 0 .. IoTime :
                Pass(d) /\ loop' = "top" /\ UNCHANGED <<started, sock, lamp, unlit>>
          BY <2>13, <3>2 DEF KeepAliveFails
        <4>2. QED BY <3>2, <4>1
      <3>3. QED BY <3>1, <3>2
    <2>14. CASE KeepAliveThrows
      BY <2>14 DEF KeepAliveThrows
    <2>15. QED
      BY <1>1, <2>1, <2>2, <2>3, <2>4, <2>5, <2>6, <2>7,
         <2>6e, <2>8, <2>9, <2>10, <2>11, <2>12, <2>13, <2>14 DEF ProxyStep
  <1>2. CASE Receive
    BY <1>2 DEF Receive
  <1>3. CASE StartOver
    <2>1. age' \in 0 .. Limit /\ quiet' \in 0 .. Limit /\ ClockInv'
      BY <1>3 DEF StartOver
    <2>2. QED BY <1>3, <2>1, Zenon DEF StartOver
  <1>4. CASE started' = FALSE /\ UNCHANGED <<loop, sock, age, quiet, lamp, unlit>>
    BY <1>4
  <1>5. CASE loop \in Over /\ DealError /\ UNCHANGED <<started, loop, lamp, unlit>>
    BY <1>5
  <1>6. CASE UNCHANGED proxyVars
    BY <1>6 DEF proxyVars
  <1>7. QED
    BY <1>1, <1>2, <1>3, <1>4, <1>5, <1>6 DEF ProxyMove

LEMMA ProxyMoveLamp ==
  ASSUME ProxyTypeOK, SocketInv, LampTruth, ProxyMove
  PROVE  SocketInv' /\ LampTruth'
  <1> USE DEF ProxyTypeOK, SocketInv, LampTruth, Over, Null
  <1> USE DEF Go, Stay, DealError, Disconnected, Connected
  <1>1. CASE ProxyStep
    <2>1. CASE EndLoop
      BY <2>1 DEF EndLoop
    <2>2. CASE Connect
      BY <2>2 DEF Connect
    <2>3. CASE TokenFails
      BY <2>3 DEF TokenFails
    <2>4. CASE ResolveThrows
      BY <2>4 DEF ResolveThrows
    <2>5. CASE Registered
      BY <2>5 DEF Registered
    <2>6e. CASE RegisterThrows
      BY <2>6e DEF RegisterThrows
    <2>6. CASE RegisterFails
      BY <2>6 DEF RegisterFails
    <2>7. CASE Sleep
      BY <2>7 DEF Sleep
    <2>8. CASE PollNothing
      BY <2>8 DEF PollNothing
    <2>9. CASE PollThrows
      BY <2>9 DEF PollThrows
    <2>10. CASE ReceiveFails
      BY <2>10 DEF ReceiveFails
    <2>11. CASE NoCheck
      BY <2>11 DEF NoCheck
    <2>12. CASE SendKeepAlive
      BY <2>12 DEF SendKeepAlive
    <2>13. CASE KeepAliveFails
      BY <2>13 DEF KeepAliveFails
    <2>14. CASE KeepAliveThrows
      BY <2>14 DEF KeepAliveThrows
    <2>15. QED
      BY <1>1, <2>1, <2>2, <2>3, <2>4, <2>5, <2>6, <2>7,
         <2>6e, <2>8, <2>9, <2>10, <2>11, <2>12, <2>13, <2>14 DEF ProxyStep
  <1>2. CASE Receive
    BY <1>2 DEF Receive
  <1>3. CASE StartOver
    BY <1>3 DEF StartOver
  <1>4. CASE started' = FALSE /\ UNCHANGED <<loop, sock, age, quiet, lamp, unlit>>
    BY <1>4
  <1>5. CASE loop \in Over /\ DealError /\ UNCHANGED <<started, loop, lamp, unlit>>
    BY <1>5
  <1>6. CASE UNCHANGED proxyVars
    BY <1>6 DEF proxyVars
  <1>7. QED
    BY <1>1, <1>2, <1>3, <1>4, <1>5, <1>6 DEF ProxyMove

LEMMA ProxyInvariant == Spec => []ProxyInv
  <1>1. ProxyInv /\ [Next]_vars => ProxyInv'
    BY NextProxyMove, ProxyMoveTime, ProxyMoveLamp DEF ProxyInv
  <1>2. QED
    BY <1>1, ProxyInitInv, PTL DEF Spec

\* The lamp tells whether the device is registered, except after a keep-alive
\* timeout.
THEOREM LampTells == Spec => []LampTruth
  BY ProxyInvariant, PTL DEF ProxyInv

\* A connection on which nothing can be sent is given up in time, whatever the
\* check period, the timeout and the time a send takes.
THEOREM SilentLinksDropped == Spec => []SilentLinkDropped
  <1>1. ProxyInv => SilentLinkDropped
    BY DEF ProxyInv, ProxyTypeOK, ClockInv, SilentLinkDropped
  <1>2. QED
    BY <1>1, ProxyInvariant, PTL

-----------------------------------------------------------------------------
(* Requests.  To CRPCServer a step of any thread is one of these.           *)

RpcMove ==
  \/ \E r \in Requests : AddRequest(r, sock) /\ sock # Null
  \/ Serve \/ StartOver
  \/ /\ UNCHANGED <<queue, serving>>
     /\ \E r \in Requests :
          client[r].at \in Stage /\ (Finish(r) \/ \E stage \in Stage : Move(r, stage))
  \/ UNCHANGED rpcVars

LEMMA NextRpcMove ==
  ASSUME [Next]_vars
  PROVE  RpcMove
  <1> USE DEF RpcMove
  <1>1. CASE OnTimer
    BY <1>1 DEF OnTimer, ReceiveRequest, Receive, Connected, ProxyOnly
  <1>2. CASE Serve /\ RpcOnly
    BY <1>2
  <1>3. ASSUME NEW r \in Requests, RunClient(r) PROVE RpcMove
    <2>1. CASE Run(r)
      <3>1. CASE Respond(r) \/ NoResponse(r)
        BY <3>1 DEF Respond, NoResponse, At, Stage
      <3>2. CASE AnnounceMobile(r)
        BY <3>2 DEF AnnounceMobile, Crash, Respond, At, Stage
      <3>3. CASE StartUpdate(r)
        BY <3>3 DEF StartUpdate, At, Stage
      <3>4. CASE ContinueUpdate(r)
        BY <3>4 DEF ContinueUpdate, At, Stage
      <3>5. CASE DeleteTwice(r)
        BY <3>5 DEF DeleteTwice, Crash
      <3>6. QED BY <2>1, <3>1, <3>2, <3>3, <3>4, <3>5 DEF Run
    <2>2. CASE HandleFinish(r)
      BY <2>2 DEF HandleFinish, At, Stage
    <2>3. CASE SendAnswer(r)
      BY <2>3 DEF SendAnswer, Crash, At, Stage
    <2>4. QED BY <1>3, <2>1, <2>2, <2>3 DEF RunClient
  <1>4. ASSUME NEW t \in Timers, HandleUpdate(t) PROVE RpcMove
    BY <1>4 DEF HandleUpdate, UpdateStep, UpdateOnly, WillReboot, LoopStopped, Reboot, rpcVars
  <1>5. CASE UNCHANGED vars
    BY <1>5 DEF vars
  <1>6. QED
    BY <1>1, <1>2, <1>3, <1>4, <1>5 DEF Next

\* The queue has requests that are queued, each once.
QueueInv ==
  /\ \A i \in 1 .. Len(queue) : At(queue[i], "queued")
  /\ \A i, j \in 1 .. Len(queue) : queue[i] = queue[j] => i = j

RpcInv == RpcTypeOK /\ QueueInv

LEMMA RpcMoveInv ==
  ASSUME ProxyTypeOK, RpcInv, RpcMove
  PROVE  RpcInv'
  <1> USE DEF RpcTypeOK, RpcInv
  <1>f. ASSUME NEW r \in Requests, Finish(r)
        PROVE  /\ client' \in [Requests -> Client]
               /\ \A q \in Requests \ {r} : client'[q] = client[q]
    BY <1>f DEF Finish, Client
  <1>m. ASSUME NEW r \in Requests, client[r].at \in Stage \cup {"queued"},
               NEW stage \in Stage, Move(r, stage)
        PROVE  /\ client' \in [Requests -> Client]
               /\ \A q \in Requests \ {r} : client'[q] = client[q]
    <2>1. client[r] \in [at : Stage \cup {"queued"}, id : Ports]
      BY <1>m DEF Client, Stage
    <2>2. [client[r] EXCEPT !.at = stage] \in Client
      BY <2>1 DEF Client
    <2>3. client' = [client EXCEPT ![r] = [client[r] EXCEPT !.at = stage]]
      BY <1>m DEF Move
    <2>4. QED BY <2>2, <2>3
  <1>1. ASSUME NEW r \in Requests, AddRequest(r, sock), sock # Null PROVE RpcInv'
    <2>1. [at |-> "queued", id |-> sock] \in Client
      BY <1>1 DEF ProxyTypeOK, Client
    <2>2. /\ client' = [client EXCEPT ![r] = [at |-> "queued", id |-> sock]]
          /\ queue' = Append(queue, r) /\ At(r, "unsent") /\ UNCHANGED serving
      BY <1>1 DEF AddRequest
    <2>3. RpcTypeOK'
      BY <2>1, <2>2
    <2>4. /\ Len(queue') = Len(queue) + 1 /\ queue'[Len(queue) + 1] = r
          /\ \A i \in 1 .. Len(queue) : queue'[i] = queue[i] /\ queue[i] \in Requests
      BY <2>2
    <2>5. \A i \in 1 .. Len(queue) : queue[i] # r
      BY <2>2 DEF QueueInv, At
    <2>6. /\ client'[r].at = "queued"
          /\ \A q \in Requests \ {r} : client'[q] = client[q]
      BY <2>2
    <2>7. Len(queue) \in Nat
      OBVIOUS
    <2>8. QueueInv'
      BY <2>4, <2>5, <2>6, <2>7 DEF QueueInv, At
    <2>9. QED BY <2>3, <2>8
  <1>2. CASE Serve
    <2>1. PICK r \in Requests : r = Head(queue)
      BY <1>2 DEF Serve
    <2>2. /\ queue # <<>> /\ queue' = Tail(queue)
          /\ \/ Move(r, "run") /\ UNCHANGED serving
             \/ Finish(r) /\ serving' = FALSE
      BY <1>2, <2>1 DEF Serve
    <2>3. /\ Len(queue) \in Nat \ {0} /\ Len(queue') = Len(queue) - 1
          /\ queue' \in Seq(Requests) /\ queue[1] = r
          /\ \A i \in 1 .. Len(queue') : queue'[i] = queue[i + 1] /\ queue'[i] \in Requests
      <3>1. queue \in Seq(Requests) /\ queue # <<>> /\ queue' = Tail(queue)
        BY <2>2
      <3>2. /\ Len(queue) \in Nat \ {0} /\ Len(queue') = Len(queue) - 1
            /\ queue' \in Seq(Requests)
        BY <3>1
      <3>3. queue[1] = r
        BY <2>1, <3>1
      <3>4. \A i \in 1 .. Len(queue') : queue'[i] = queue[i + 1] /\ queue'[i] \in Requests
        BY <3>1, <3>2
      <3>5. QED BY <3>2, <3>3, <3>4
    <2>4. At(r, "queued")
      BY <2>3 DEF QueueInv
    <2>5. /\ client' \in [Requests -> Client]
          /\ \A q \in Requests \ {r} : client'[q] = client[q]
      BY <2>2, <2>4, <1>f, <1>m DEF At, Stage
    <2>6. \A i \in 1 .. Len(queue') : queue'[i] # r
      BY <2>3 DEF QueueInv
    <2>7. QueueInv'
      <3>1. \A i \in 1 .. Len(queue') : i + 1 \in 1 .. Len(queue)
        BY <2>3
      <3>2. ASSUME NEW i \in 1 .. Len(queue') PROVE client'[queue'[i]].at = "queued"
        <4>1. queue'[i] = queue[i + 1] /\ queue'[i] \in Requests /\ queue'[i] # r
          BY <2>3, <2>6
        <4>2. At(queue[i + 1], "queued")
          BY <3>1 DEF QueueInv
        <4>3. QED
          BY <2>5, <4>1, <4>2 DEF At
      <3>3. ASSUME NEW i \in 1 .. Len(queue'), NEW j \in 1 .. Len(queue'), queue'[i] = queue'[j]
            PROVE  i = j
        <4>1. i + 1 \in 1 .. Len(queue) /\ j + 1 \in 1 .. Len(queue)
          BY <3>1
        <4>2. queue[i + 1] = queue[j + 1]
          BY <2>3, <3>3
        <4>3. i + 1 = j + 1
          BY <4>1, <4>2 DEF QueueInv
        <4>4. QED
          BY <4>3
      <3>4. QED
        BY <3>2, <3>3 DEF QueueInv, At
    <2>8. serving' \in BOOLEAN
      BY <2>2
    <2>9. QED BY <2>3, <2>5, <2>7, <2>8
  <1>3. CASE StartOver
    BY <1>3 DEF StartOver, Client, QueueInv
  <1>4. ASSUME UNCHANGED <<queue, serving>>, NEW r \in Requests, client[r].at \in Stage,
               Finish(r) \/ \E stage \in Stage : Move(r, stage)
        PROVE  RpcInv'
    <2>1. /\ client' \in [Requests -> Client]
          /\ \A q \in Requests \ {r} : client'[q] = client[q]
      BY <1>4, <1>f, <1>m
    <2>2. \A i \in 1 .. Len(queue) : queue[i] \in Requests /\ queue[i] # r
      BY <1>4 DEF QueueInv, At, Stage
    <2>3. QueueInv'
      BY <1>4, <2>1, <2>2 DEF QueueInv, At
    <2>4. QED BY <1>4, <2>1, <2>3
  <1>5. CASE UNCHANGED rpcVars
    BY <1>5 DEF rpcVars, QueueInv, At
  <1>6. QED
    BY <1>1, <1>2, <1>3, <1>4, <1>5 DEF RpcMove

LEMMA RpcInvariant == Spec => []RpcInv
  <1>1. Init => RpcInv
    BY DEF Init, RpcInit, RpcInv, RpcTypeOK, QueueInv, Client
  <1>2. ProxyInv /\ RpcInv /\ [Next]_vars => RpcInv'
    BY NextRpcMove, RpcMoveInv DEF ProxyInv
  <1>3. QED
    BY <1>1, <1>2, ProxyInvariant, PTL DEF Spec

-----------------------------------------------------------------------------
(* Updates.  m_updating is told from who is past its check and whose handler *)
(* runs; that holds as long as only one request is past it at a time.        *)

Preparing == {"set", "delete", "new"}

\* No request begins to start an update, goes on with it or has done.
SameStages ==
  \A r \in Requests :
    client[r].at \in Preparing \/ client'[r].at \in Preparing => client'[r].at = client[r].at

TimerMove(t) ==
  /\ UNCHANGED client
  /\ \/ UpdateStep(t)
     \/ /\ Step(t, "reboot", "stop") \/ Step(t, "stop", "rest")
        /\ UNCHANGED <<updating, timer, starting, stuck, overlapped>>

UpdateMove ==
  \/ SameStages /\ UNCHANGED updateVars
  \/ StartOver
  \/ \E r \in Requests : At(r, "run") /\ Enter(r) /\ Move(r, "set")
  \/ \E r \in Requests : ContinueUpdate(r)
  \/ \E t \in Timers : TimerMove(t)

\* The stages of a request that moves among those that are not of an update.
LEMMA MoveSameStages ==
  ASSUME RpcTypeOK, NEW r \in Requests, client[r].at \notin Preparing,
         Finish(r) \/ \E stage \in {"run", "finish", "send"} : Move(r, stage)
  PROVE  SameStages
  <1>1. \A q \in Requests \ {r} : client'[q] = client[q]
    BY DEF Finish, Move, RpcTypeOK
  <1>2. client'[r].at \notin Preparing
    <2>1. CASE Finish(r)
      BY <2>1 DEF Finish, RpcTypeOK, Preparing
    <2>2. ASSUME NEW stage \in {"run", "finish", "send"}, Move(r, stage)
          PROVE  client'[r].at \notin Preparing
      <3>1. client[r] \in Client
        BY DEF RpcTypeOK
      <3>2. client'[r] = [client[r] EXCEPT !.at = stage]
        BY <2>2 DEF Move, RpcTypeOK
      <3>3. client'[r].at = stage
        BY <3>1, <3>2 DEF Client
      <3>4. QED BY <3>3 DEF Preparing
    <2>3. QED BY <2>1, <2>2
  <1>3. QED
    BY <1>1, <1>2 DEF SameStages

LEMMA NextUpdateMove ==
  ASSUME RpcInv, [Next]_vars
  PROVE  UpdateMove
  <1> USE DEF UpdateMove, RpcInv
  <1>s. ASSUME UNCHANGED client PROVE SameStages
    BY <1>s DEF SameStages
  <1>1. CASE OnTimer
    <2>1. CASE ProxyStep /\ ProxyOnly
      BY <2>1, <1>s DEF ProxyOnly, rpcVars
    <2>2. ASSUME NEW r \in Requests, AddRequest(r, sock), UNCHANGED updateVars PROVE UpdateMove
      BY <2>2 DEF AddRequest, At, RpcTypeOK, SameStages, Preparing
    <2>3. QED BY <1>1, <2>1, <2>2 DEF OnTimer, ReceiveRequest
  <1>2. CASE Serve /\ RpcOnly
    <2>1. PICK r \in Requests : r = Head(queue)
      BY <1>2 DEF Serve, RpcTypeOK
    <2>2. Move(r, "run") \/ Finish(r)
      BY <1>2, <2>1 DEF Serve
    <2>3. client[r].at = "queued"
      <3>1. Len(queue) \in Nat \ {0} /\ queue[1] = Head(queue)
        BY <1>2 DEF Serve, RpcTypeOK
      <3>2. QED BY <2>1, <3>1 DEF QueueInv, At
    <2>4. QED
      BY <1>2, <2>2, <2>3, MoveSameStages DEF RpcOnly, Preparing
  <1>3. ASSUME NEW r \in Requests, RunClient(r) PROVE UpdateMove
    <2>1. CASE Run(r)
      <3>1. CASE (Respond(r) \/ NoResponse(r)) /\ RpcOnly
        BY <3>1, MoveSameStages DEF Respond, NoResponse, At, Preparing, RpcOnly
      <3>2. CASE AnnounceMobile(r)
        BY <3>2, MoveSameStages DEF AnnounceMobile, Crash, Respond, At, Preparing, RpcOnly
      <3>3. CASE StartUpdate(r)
        BY <3>3, MoveSameStages DEF StartUpdate, At, Preparing
      <3>4. CASE ContinueUpdate(r)
        BY <3>4
      <3>5. CASE DeleteTwice(r)
        BY <3>5 DEF DeleteTwice, Crash
      <3>6. QED BY <2>1, <3>1, <3>2, <3>3, <3>4, <3>5 DEF Run
    <2>2. CASE HandleFinish(r)
      BY <2>2, MoveSameStages DEF HandleFinish, At, Preparing, RpcOnly
    <2>3. CASE SendAnswer(r)
      BY <2>3, MoveSameStages DEF SendAnswer, Crash, At, Preparing, RpcOnly
    <2>4. QED BY <1>3, <2>1, <2>2, <2>3 DEF RunClient
  <1>4. ASSUME NEW t \in Timers, HandleUpdate(t) PROVE UpdateMove
    BY <1>4 DEF HandleUpdate, UpdateStep, UpdateOnly, WillReboot, LoopStopped, Reboot,
                TimerMove, rpcVars
  <1>5. CASE UNCHANGED vars
    BY <1>5, <1>s DEF vars, rpcVars
  <1>6. QED
    BY <1>1, <1>2, <1>3, <1>4, <1>5 DEF Next

Unfinished == {"start"} \cup Working

FlagInv ==
  /\ starting = {r \in Requests : client[r].at \in Preparing}
  /\ ~ overlapped =>
       /\ \A r, q \in starting : r = q
       /\ \A r \in Requests : client[r].at \in {"delete", "new"} => updating
       /\ \A r \in starting, t \in Timers : job[t] \notin Unfinished
       /\ \A t \in Timers : job[t] \in Unfinished => updating
       /\ updating => stuck \/ starting # {} \/ \E t \in Timers : job[t] \in Unfinished
       /\ \A t \in Timers : Busy(t) => timer = t
       /\ \A r \in Requests, t \in Timers : client[r].at = "new" => ~ Busy(t)

UpdateInv == UpdateTypeOK(Requests) /\ FlagInv

\* A client that moves has the stage it moves to; the others stay.
LEMMA MoveStage ==
  ASSUME RpcTypeOK, NEW r \in Requests, client[r].at \in Stage,
         NEW stage \in Stage, Move(r, stage)
  PROVE  /\ client'[r].at = stage
         /\ \A q \in Requests \ {r} : client'[q] = client[q]
  <1>1. client[r] \in [at : Stage \cup {"queued"}, id : Ports]
    BY DEF RpcTypeOK, Client, Stage
  <1>2. client'[r] = [client[r] EXCEPT !.at = stage]
    BY DEF Move, RpcTypeOK
  <1>3. QED
    BY <1>1, <1>2 DEF Move, RpcTypeOK

LEMMA EnterFlag ==
  ASSUME RpcTypeOK, UpdateInv, NEW r \in Requests, At(r, "run"), Enter(r), Move(r, "set")
  PROVE  UpdateInv'
  <1>1. /\ client[r].at = "run" /\ client'[r].at = "set"
        /\ \A q \in Requests \ {r} : client'[q] = client[q]
    BY MoveStage DEF At, Stage
  <1>2. /\ ~ updating /\ starting' = starting \cup {r}
        /\ overlapped' = (overlapped \/ starting # {})
        /\ UNCHANGED <<updating, timer, job, stuck>>
    BY DEF Enter, MayStart
  <1>3. UpdateTypeOK(Requests)'
    BY <1>2 DEF UpdateInv, UpdateTypeOK
  <1>4. starting' = {q \in Requests : client'[q].at \in Preparing}
    BY <1>1, <1>2 DEF UpdateInv, FlagInv, Preparing
  <1>5. ASSUME ~ overlapped' PROVE FlagInv'
    <2>1. ~ overlapped /\ starting = {}
      BY <1>2, <1>5
    <2>2. starting' = {r}
      BY <1>2, <2>1
    <2>3. \A q \in Requests : client'[q].at \in {"delete", "new"} => client'[q] = client[q]
      BY <1>1
    <2>4. QED
      BY <1>2, <1>4, <2>1, <2>2, <2>3 DEF UpdateInv, FlagInv, Busy
  <1>6. QED
    BY <1>3, <1>4, <1>5 DEF UpdateInv, FlagInv

LEMMA ContinueFlag ==
  ASSUME RpcTypeOK, UpdateInv, NEW r \in Requests, ContinueUpdate(r)
  PROVE  UpdateInv'
  <1> USE DEF At, Stage
  <1>1. CASE At(r, "set") /\ SetUpdating(r, TRUE) /\ Move(r, "delete")
    <2>1. /\ client'[r].at = "delete"
          /\ \A q \in Requests \ {r} : client'[q] = client[q]
      BY <1>1, MoveStage
    <2>2. updating' = TRUE /\ UNCHANGED <<starting, timer, job, stuck, overlapped>>
      BY <1>1 DEF SetUpdating, UpdateInv, UpdateTypeOK
    <2>3. r \in starting
      BY <1>1 DEF UpdateInv, FlagInv, Preparing
    <2>4. starting' = {q \in Requests : client'[q].at \in Preparing}
      BY <1>1, <2>1, <2>2 DEF UpdateInv, FlagInv, Preparing
    <2>5. UpdateTypeOK(Requests)'
      BY <2>2 DEF UpdateInv, UpdateTypeOK
    <2>6. QED
      BY <2>1, <2>2, <2>3, <2>4, <2>5 DEF UpdateInv, FlagInv, Busy
  <1>2. CASE At(r, "set") /\ SetUpdating(r, FALSE) /\ Move(r, "finish")
    <2>1. /\ client'[r].at = "finish"
          /\ \A q \in Requests \ {r} : client'[q] = client[q]
      BY <1>2, MoveStage
    <2>2. /\ updating' = TRUE /\ stuck' = TRUE /\ starting' = starting \ {r}
          /\ UNCHANGED <<timer, job, overlapped>>
      BY <1>2 DEF SetUpdating
    <2>3. starting' = {q \in Requests : client'[q].at \in Preparing}
      BY <1>2, <2>1, <2>2 DEF UpdateInv, FlagInv, Preparing
    <2>4. UpdateTypeOK(Requests)'
      BY <2>2 DEF UpdateInv, UpdateTypeOK
    <2>5. QED
      BY <2>1, <2>2, <2>3, <2>4 DEF UpdateInv, FlagInv, Busy
  <1>3. CASE At(r, "delete") /\ DeleteTimer /\ Move(r, "new")
    <2>1. /\ client'[r].at = "new"
          /\ \A q \in Requests \ {r} : client'[q] = client[q]
      BY <1>3, MoveStage
    <2>2. /\ timer \in Timers => ~ Busy(timer)
          /\ timer' \in {"null", "deleted"}
          /\ UNCHANGED <<updating, job, starting, stuck, overlapped>>
      BY <1>3 DEF DeleteTimer
    <2>3. starting' = {q \in Requests : client'[q].at \in Preparing}
      BY <1>3, <2>1, <2>2 DEF UpdateInv, FlagInv, Preparing
    <2>4. UpdateTypeOK(Requests)'
      BY <2>2 DEF UpdateInv, UpdateTypeOK
    <2>5. ~ overlapped => \A t \in Timers : ~ Busy(t)
      BY <2>2 DEF UpdateInv, FlagInv
    <2>6. QED
      BY <1>3, <2>1, <2>2, <2>3, <2>4, <2>5 DEF UpdateInv, FlagInv, Busy
  <1>4. CASE At(r, "new") /\ NewTimer(r) /\ Move(r, "finish")
    <2>1. /\ client'[r].at = "finish"
          /\ \A q \in Requests \ {r} : client'[q] = client[q]
      BY <1>4, MoveStage
    <2>2. PICK t \in Timers : timer' = t /\ job' = [job EXCEPT ![t] = "start"]
      BY <1>4 DEF NewTimer
    <2>3. starting' = starting \ {r} /\ UNCHANGED <<updating, stuck, overlapped>>
      BY <1>4 DEF NewTimer
    <2>4. starting' = {q \in Requests : client'[q].at \in Preparing}
      BY <1>4, <2>1, <2>3 DEF UpdateInv, FlagInv, Preparing
    <2>5. UpdateTypeOK(Requests)'
      BY <2>2, <2>3 DEF UpdateInv, UpdateTypeOK
    <2>6. job'[t] = "start" /\ \A u \in Timers \ {t} : job'[u] = job[u]
      BY <2>2 DEF UpdateInv, UpdateTypeOK
    <2>7. ASSUME ~ overlapped PROVE FlagInv'
      <3>1. updating' /\ starting' = {} /\ \A u \in Timers : ~ Busy(u)
        BY <1>4, <2>3, <2>7 DEF UpdateInv, FlagInv, Preparing
      <3>2. \A q \in Requests : client'[q].at \notin Preparing
        BY <2>4, <3>1
      <3>3. \A u \in Timers : Busy(u)' => u = t
        BY <2>6, <3>1 DEF Busy
      <3>4. job'[t] \in Unfinished
        BY <2>6 DEF Unfinished
      <3>5. QED
        BY <2>2, <2>4, <3>1, <3>2, <3>3, <3>4 DEF FlagInv, Preparing
    <2>8. QED
      BY <2>3, <2>4, <2>5, <2>7 DEF UpdateInv, FlagInv
  <1>5. QED
    BY <1>1, <1>2, <1>3, <1>4 DEF ContinueUpdate

LEMMA TimerFlag ==
  ASSUME RpcTypeOK, UpdateInv, NEW t \in Timers, TimerMove(t)
  PROVE  UpdateInv'
  <1> USE DEF Unfinished, Working, Rebooting, Busy
  <1>1. UNCHANGED <<client, starting, timer, overlapped>>
    BY DEF TimerMove, UpdateStep, SkipUpdate, FetchInfo, FetchProgram, Install, UpdateFails,
           UpdateThrows
  <1>2. /\ \A u \in Timers \ {t} : job'[u] = job[u]
        /\ Busy(t) /\ job' \in [Timers -> {"none", "start", "over"} \cup Working \cup Rebooting]
    BY DEF TimerMove, UpdateStep, SkipUpdate, FetchInfo, FetchProgram, Install, UpdateFails,
           Fails, UpdateThrows, Step, UpdateInv, UpdateTypeOK
  <1>3. \/ updating' = updating /\ stuck' = stuck /\ job[t] \in Unfinished
           /\ (updating => job'[t] \in Unfinished)
           /\ (job'[t] \in Unfinished => job[t] \in Unfinished)
        \/ updating' = updating /\ stuck' = TRUE /\ job[t] \in Unfinished /\ job'[t] \notin Unfinished
        \/ updating' = FALSE /\ stuck' = stuck /\ job[t] \in Unfinished /\ job'[t] \notin Unfinished
        \/ /\ updating' = updating /\ stuck' = stuck
           /\ job[t] \notin Unfinished /\ job'[t] \notin Unfinished
    BY DEF TimerMove, UpdateStep, SkipUpdate, FetchInfo, FetchProgram, Install, UpdateFails,
           Fails, UpdateThrows, Step, UpdateInv, UpdateTypeOK
  <1>4. UpdateTypeOK(Requests)'
    BY <1>1, <1>2, <1>3 DEF UpdateInv, UpdateTypeOK
  <1>5. ASSUME ~ overlapped PROVE FlagInv'
    <2>1. \A u \in Timers : job[u] \in Unfinished => u = t
      BY <1>2, <1>5 DEF UpdateInv, FlagInv
    <2>2. job[t] \in Unfinished => starting = {}
      BY <1>5 DEF UpdateInv, FlagInv
    <2>3. job[t] \in Unfinished => \A r \in Requests : client[r].at \notin {"delete", "new"}
      BY <2>2 DEF UpdateInv, FlagInv, Preparing
    <2>4. QED
      BY <1>1, <1>2, <1>3, <1>5, <2>1, <2>2, <2>3 DEF UpdateInv, FlagInv
  <1>6. QED
    BY <1>1, <1>4, <1>5 DEF UpdateInv, FlagInv

LEMMA UpdateMoveInv ==
  ASSUME RpcTypeOK, UpdateInv, UpdateMove
  PROVE  UpdateInv'
  <1>1. CASE SameStages /\ UNCHANGED updateVars
    <2>1. /\ UNCHANGED <<updating, timer, job, starting, stuck, overlapped>>
          /\ \A r \in Requests : client[r].at \in Preparing \/ client'[r].at \in Preparing
                                   => client'[r].at = client[r].at
      BY <1>1 DEF updateVars, SameStages
    <2>2. starting' = {r \in Requests : client'[r].at \in Preparing}
      BY <2>1 DEF UpdateInv, FlagInv
    <2>3. UpdateTypeOK(Requests)'
      BY <2>1 DEF UpdateInv, UpdateTypeOK
    <2>4. \A r \in Requests :
            /\ client'[r].at \in {"delete", "new"} => client[r].at \in {"delete", "new"}
            /\ client'[r].at = "new" => client[r].at = "new"
      BY <2>1 DEF Preparing
    <2>5. ASSUME ~ overlapped PROVE FlagInv'
      <3>1. /\ \A r, q \in starting' : r = q
            /\ \A r \in starting', t \in Timers : job'[t] \notin Unfinished
            /\ \A t \in Timers : Busy(t)' => timer' = t
        BY <2>1, <2>5 DEF UpdateInv, FlagInv, Busy
      <3>2. \A t \in Timers : job'[t] \in Unfinished => updating'
        BY <2>1, <2>5, Zenon DEF UpdateInv, FlagInv
      <3>3. updating' => stuck' \/ starting' # {} \/ \E t \in Timers : job'[t] \in Unfinished
        BY <2>1, <2>5, Zenon DEF UpdateInv, FlagInv
      <3>4. \A r \in Requests : client'[r].at \in {"delete", "new"} => updating'
        <4>1. \A r \in Requests : client[r].at \in {"delete", "new"} => updating
          BY <2>1, <2>5, Zenon DEF UpdateInv, FlagInv
        <4>2. QED BY <2>1, <2>4, <4>1, Zenon
      <3>5. \A r \in Requests, t \in Timers : client'[r].at = "new" => ~ Busy(t)'
        <4>1. \A r \in Requests, t \in Timers : client[r].at = "new" => ~ Busy(t)
          BY <2>1, <2>5, Zenon DEF UpdateInv, FlagInv
        <4>2. QED BY <2>1, <2>4, <4>1 DEF Busy
      <3>6. QED
        BY <2>2, <3>1, <3>2, <3>3, <3>4, <3>5 DEF FlagInv
    <2>6. QED
      BY <2>1, <2>2, <2>3, <2>5 DEF UpdateInv, FlagInv
  <1>2. CASE StartOver
    <2>1. \A r \in Requests : client'[r].at \in {"unsent", "done"}
      BY <1>2 DEF StartOver
    <2>2. /\ updating' = FALSE /\ timer' = "null" /\ starting' = {}
          /\ job' = [t \in Timers |-> "none"] /\ stuck' = FALSE /\ overlapped' = FALSE
      BY <1>2 DEF StartOver
    <2>3. UpdateTypeOK(Requests)'
      BY <2>2 DEF UpdateTypeOK
    <2>4. \A t \in Timers : job'[t] \notin Unfinished /\ ~ Busy(t)'
      BY <2>2 DEF Unfinished, Working, Rebooting, Busy
    <2>5. QED
      BY <2>1, <2>2, <2>3, <2>4 DEF UpdateInv, FlagInv, Preparing
  <1>3. ASSUME NEW r \in Requests, Enter(r) /\ Move(r, "set"), At(r, "run") PROVE UpdateInv'
    BY <1>3, EnterFlag
  <1>4. ASSUME NEW r \in Requests, ContinueUpdate(r) PROVE UpdateInv'
    BY <1>4, ContinueFlag
  <1>5. ASSUME NEW t \in Timers, TimerMove(t) PROVE UpdateInv'
    BY <1>5, TimerFlag
  <1>6. QED
    BY <1>1, <1>2, <1>3, <1>4, <1>5 DEF UpdateMove

LEMMA UpdateInvariant == Spec => []UpdateInv
  <1>1. Init => UpdateInv
    <2> SUFFICES ASSUME Init PROVE UpdateInv
      OBVIOUS
    <2>1. \A r \in Requests : client[r].at = "unsent"
      BY DEF Init, RpcInit
    <2>2. QED
      BY <2>1 DEF Init, UpdateInit, UpdateInv, UpdateTypeOK, FlagInv, Preparing, Unfinished,
                  Working, Rebooting, Busy
  <1>2. RpcInv /\ UpdateInv /\ [Next]_vars => UpdateInv'
    BY NextUpdateMove, UpdateMoveInv DEF RpcInv
  <1>3. QED
    BY <1>1, <1>2, RpcInvariant, PTL DEF Spec

\* The loop, the requests and the update keep their types.
THEOREM LinkTypeCorrect == Spec => []LinkTypeOK
  <1>1. ProxyInv /\ RpcInv /\ UpdateInv => LinkTypeOK
    BY DEF ProxyInv, RpcInv, UpdateInv, LinkTypeOK
  <1>2. QED
    BY <1>1, ProxyInvariant, RpcInvariant, UpdateInvariant, PTL

\* One update runs at a time, with m_updating set and not for longer, as long as
\* no two requests are past the check at a time and nothing leaves it set.
THEOREM UpdateFlagTold == Spec => []UpdateFlag
  <1>1. UpdateInv => UpdateFlag
    BY DEF UpdateInv, FlagInv, UpdateFlag, Unfinished
  <1>2. QED
    BY <1>1, UpdateInvariant, PTL
=============================================================================
