----------------------------- MODULE RequestRelay -----------------------------
(***************************************************************************)
(* How the transmit server relays an HTTP request to a device and the      *)
(* device's response back.  The HTTP thread enters the request in a map    *)
(* under a request id, sends it on the device's connection and waits on    *)
(* the request's semaphore; the task that receives the response, or the    *)
(* timer that finds the request too old, takes it out of the map and       *)
(* signals.  The thread then reads the response and deletes the request.   *)
(*                                                                         *)
(* Which connection belongs to the device is Registration's subject: here  *)
(* the lookups may find one or not.  The request id is the time of day in  *)
(* microseconds, so two threads can draw the same one.                     *)
(***************************************************************************)
EXTENDS Naturals, StdMap

CONSTANTS
  Reqs,          \* RequestInfo objects, each made for one HTTP request
  Ids,           \* request ids: microsecond timestamps
  Null,          \* no response set
  DistinctIds    \* do no two requests draw the same microsecond?

ASSUME NullAssumption == Null \notin Reqs /\ Null \notin Ids
ASSUME DistinctIdsAssumption == DistinctIds \in BOOLEAN

VARIABLES
  pc,            \* where the thread handling each request is
  rid,           \* the id each request was sent with
  response,      \* RequestInfo::response: whose answer it is
  sem,           \* RequestInfo::sem
  reqMap,        \* m_request_map: from ids to requests
  late,          \* ids older than the timeout
  atDevice,      \* <<id, request>> pairs a device has still to answer
  answered,      \* history: requests a device has answered
  dropped,       \* history: requests whose answer the server threw away
  unread         \* history: those whose answer it could not read or tell whose it was

vars == <<pc, rid, response, sem, reqMap, late, atDevice, answered, dropped, unread>>
deviceVars == <<atDevice, answered, dropped, unread>>

PC == {"lookup", "find", "enter", "send", "wait", "reply",
       "done", "404", "timeout", "failed"}

TypeOK ==
  /\ pc \in [Reqs -> PC]
  /\ rid \in [Reqs -> Ids \cup {Null}]
  /\ response \in [Reqs -> Reqs \cup {Null}]
  /\ sem \in [Reqs -> Nat]
  /\ reqMap \in Maps(Ids, Reqs)
  /\ late \subseteq Ids
  /\ atDevice \subseteq Ids \X Reqs
  /\ answered \subseteq Reqs
  /\ dropped \subseteq Reqs
  /\ unread \subseteq Reqs

Init ==
  /\ pc = [r \in Reqs |-> "lookup"]
  /\ rid = [r \in Reqs |-> Null]
  /\ response = [r \in Reqs |-> Null]
  /\ sem = [r \in Reqs |-> 0]
  /\ reqMap = EmptyMap
  /\ late = {}
  /\ atDevice = {}
  /\ answered = {}
  /\ dropped = {}
  /\ unread = {}

Goto(r, from, to) == pc[r] = from /\ pc' = [pc EXCEPT ![r] = to]

-----------------------------------------------------------------------------
(* The HTTP thread: sendRequest, then the end of handleRequest.             *)

\* getDevice; NULL is answered with 404.
Lookup(r) ==
  /\ \/ Goto(r, "lookup", "find")
     \/ Goto(r, "lookup", "404")
  /\ UNCHANGED <<rid, response, sem, reqMap, late, deviceVars>>

\* The connection is not in m_pReg_map: it is gone, or a task is handling it.
Find(r) ==
  /\ \/ Goto(r, "find", "enter")
     \/ Goto(r, "find", "404")
  /\ UNCHANGED <<rid, response, sem, reqMap, late, deviceVars>>

\* The request enters the map before it is sent.  std::map::insert leaves a
\* request that is there under the same id alone.
Enter(r) ==
  /\ Goto(r, "enter", "send")
  /\ \E i \in Ids :
       /\ DistinctIds => \A q \in Reqs : rid[q] # i
       /\ rid' = [rid EXCEPT ![r] = i]
       /\ reqMap' = Insert(reqMap, i, r)
  /\ UNCHANGED <<response, sem, late, deviceVars>>

Send(r) ==
  /\ Goto(r, "send", "wait")
  /\ atDevice' = atDevice \cup {<<rid[r], r>>}
  /\ UNCHANGED <<rid, response, sem, reqMap, late, answered, dropped, unread>>

\* sendBytes throws: the connection broke, or was deleted since it was found.
\* Nobody deletes the request or takes it out of the map.
SendFails(r) ==
  /\ Goto(r, "send", "failed")
  /\ UNCHANGED <<rid, response, sem, reqMap, late, deviceVars>>

\* Mutant: the wait does not wait.
WaitNot(r) ==
  /\ Goto(r, "wait", "reply")
  /\ sem' = [sem EXCEPT ![r] = @ - 1]
  /\ UNCHANGED <<rid, response, reqMap, late, deviceVars>>

Wait(r) ==
  /\ Goto(r, "wait", "reply")
  /\ sem[r] > 0
  /\ sem' = [sem EXCEPT ![r] = @ - 1]
  /\ UNCHANGED <<rid, response, reqMap, late, deviceVars>>

\* The HTTP response is sent and the request deleted.
Reply(r) ==
  /\ Goto(r, "reply", IF response[r] = Null THEN "timeout" ELSE "done")
  /\ UNCHANGED <<rid, response, sem, reqMap, late, deviceVars>>

-----------------------------------------------------------------------------
(* The task that receives a device's response: handleTaskFinish.            *)

\* Mutants: the entry stays in the map; the answer goes to any request there.
DeliverKeepsEntry(i, r) ==
  /\ <<i, r>> \in atDevice
  /\ i \in DOMAIN reqMap
  /\ atDevice' = atDevice \ {<<i, r>>}
  /\ answered' = answered \cup {r}
  /\ response' = [response EXCEPT ![reqMap[i]] = r]
  /\ sem' = [sem EXCEPT ![reqMap[i]] = @ + 1]
  /\ UNCHANGED <<pc, rid, late, reqMap, dropped, unread>>

DeliverToAny(i, r) ==
  /\ <<i, r>> \in atDevice
  /\ atDevice' = atDevice \ {<<i, r>>}
  /\ answered' = answered \cup {r}
  /\ \E j \in DOMAIN reqMap :
       /\ reqMap' = Erase(reqMap, j)
       /\ response' = [response EXCEPT ![reqMap[j]] = r]
       /\ sem' = [sem EXCEPT ![reqMap[j]] = @ + 1]
  /\ UNCHANGED <<pc, rid, late, dropped, unread>>

Deliver(i, r) ==
  /\ <<i, r>> \in atDevice
  /\ atDevice' = atDevice \ {<<i, r>>}
  /\ answered' = answered \cup {r}
  /\ IF i \in DOMAIN reqMap
     THEN /\ reqMap' = Erase(reqMap, i)
          /\ response' = [response EXCEPT ![reqMap[i]] = r]
          /\ sem' = [sem EXCEPT ![reqMap[i]] = @ + 1]
          /\ UNCHANGED dropped
     ELSE /\ dropped' = dropped \cup {r}
          /\ UNCHANGED <<reqMap, response, sem>>
  /\ UNCHANGED <<pc, rid, late, unread>>

\* The server cannot use the response: without an id it is taken for id 1,
\* which is looked up nowhere; one that arrives in two pieces, or with another
\* message in one receive, does not parse.
Unusable(i, r) ==
  /\ <<i, r>> \in atDevice
  /\ atDevice' = atDevice \ {<<i, r>>}
  /\ answered' = answered \cup {r}
  /\ dropped' = dropped \cup {r}
  /\ unread' = unread \cup {r}
  /\ UNCHANGED <<pc, rid, response, sem, reqMap, late>>

\* The device or its connection dies before it has answered.
NoAnswer(i, r) ==
  /\ <<i, r>> \in atDevice
  /\ atDevice' = atDevice \ {<<i, r>>}
  /\ UNCHANGED <<pc, rid, response, sem, reqMap, late, answered, dropped, unread>>

-----------------------------------------------------------------------------
(* httpRequestTimer.                                                        *)

Age(i) ==
  /\ i \in DOMAIN reqMap
  /\ i \notin late
  /\ late' = late \cup {i}
  /\ UNCHANGED <<pc, rid, response, sem, reqMap, deviceVars>>

\* Mutant: one request too old clears the map.
OverdueAll == IF DOMAIN reqMap \cap late = {} THEN {} ELSE DOMAIN reqMap

\* One pass under the mutex signals and removes everything that is too old.
Overdue == DOMAIN reqMap \cap late

\* Mutants: what is signalled stays in the map; what is removed is not signalled.
HttpRequestTimerKeeps ==
  /\ Overdue # {}
  /\ sem' = [r \in Reqs |-> IF \E i \in Overdue : reqMap[i] = r THEN sem[r] + 1 ELSE sem[r]]
  /\ UNCHANGED <<pc, rid, response, reqMap, late, deviceVars>>

HttpRequestTimerSilent ==
  /\ Overdue # {}
  /\ reqMap' = Restrict(reqMap, DOMAIN reqMap \ Overdue)
  /\ UNCHANGED <<pc, rid, response, sem, late, deviceVars>>

HttpRequestTimer ==
  /\ Overdue # {}
  /\ sem' = [r \in Reqs |-> IF \E i \in Overdue : reqMap[i] = r THEN sem[r] + 1 ELSE sem[r]]
  /\ reqMap' = Restrict(reqMap, DOMAIN reqMap \ Overdue)
  /\ UNCHANGED <<pc, rid, response, late, deviceVars>>

-----------------------------------------------------------------------------

HandleRequest(r) ==
  Lookup(r) \/ Find(r) \/ Enter(r) \/ Send(r) \/ SendFails(r) \/ Wait(r) \/ Reply(r)

Next ==
  \/ \E r \in Reqs : HandleRequest(r)
  \/ \E i \in Ids, r \in Reqs : Deliver(i, r) \/ Unusable(i, r) \/ NoAnswer(i, r)
  \/ \E i \in Ids : Age(i)
  \/ HttpRequestTimer

Spec == Init /\ [][Next]_vars

\* The HTTP threads and the timer's thread run, and time passes.  Devices owe
\* nothing.
Fairness ==
  /\ \A r \in Reqs : WF_vars(HandleRequest(r))
  /\ \A i \in Ids : WF_vars(Age(i))
  /\ WF_vars(HttpRequestTimer)

FairSpec == Spec /\ Fairness

-----------------------------------------------------------------------------
(* Properties. *)

\* A request in the map has not been deleted: whoever finds it there may still
\* write its response and signal its semaphore.
NoDanglingRequest ==
  \A i \in DOMAIN reqMap : pc[reqMap[i]] \in {"send", "wait", "failed"}

\* A request is signalled once, by the response or by the timer: once signalled
\* it is not in the map any more, and a second signal would overflow its
\* semaphore, whose maximum is 1.
SignalledOnce ==
  \A r \in Reqs :
    /\ sem[r] <= 1
    /\ sem[r] = 1 => \A i \in DOMAIN reqMap : reqMap[i] # r

\* A request never gets the answer a device gave to another one.
OwnAnswer == \A r \in Reqs : response[r] \in {r, Null}

\* An answer that arrived in one piece, alone and with its id is thrown away
\* only when its request has timed out.  Any other answer is lost however early
\* it comes (`unread`).
OnlyLateAnswersDropped == \A r \in dropped \ unread : rid[r] \in late

\* "it will hang until response send back, or timeout": no request hangs for ever.
EveryRequestEnds ==
  \A r \in Reqs : pc[r] = "wait" ~> pc[r] \in {"done", "timeout"}

\* What a place in the thread means to the abstract specification.
Outcome(at) ==
  CASE at \in {"lookup", "find", "enter"} -> "looking"
    [] at \in {"send", "wait", "reply"} -> "asked"
    [] at = "done" -> "answered"
    [] at = "failed" -> "aborted"
    [] OTHER -> at

Replies == INSTANCE OneReply
             WITH outcome <- [r \in Reqs |-> Outcome(pc[r])], answers <- answered

\* The threads implement one reply per request, and the device's own.
ImplementsOneReply == Replies!ReplySpec

ImplementsOneReplyFairly == Replies!ReplyFairSpec
=============================================================================
