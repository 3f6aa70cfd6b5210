------------------------- MODULE RequestRelay_proofs -------------------------
(***************************************************************************)
(* The request map and the semaphores, for any number of requests and ids: *)
(* first what holds even when two requests draw the same id, then what     *)
(* needs the ids to be distinct, then the refinement of OneReply.          *)
(***************************************************************************)
EXTENDS RequestRelay, StdMapTheorems, TLAPS

USE NullAssumption, DistinctIdsAssumption

-----------------------------------------------------------------------------
(* Whatever the ids are. *)

\* A request in the map waits or is about to, has not been signalled, and is
\* there under its own id.
EntriesWait ==
  \A i \in DOMAIN reqMap :
    /\ pc[reqMap[i]] \in {"send", "wait", "failed"}
    /\ sem[reqMap[i]] = 0
    /\ rid[reqMap[i]] = i

\* Only a request that was entered is ever signalled, and only once.
SignalsCount ==
  \A r \in Reqs : sem[r] # 0 => sem[r] = 1 /\ pc[r] \in {"send", "wait", "failed"}

\* A request past its entry in the map has an id.
Entered ==
  \A r \in Reqs : pc[r] \notin {"lookup", "find", "enter", "404"} => rid[r] \in Ids

IInv == TypeOK /\ EntriesWait /\ SignalsCount /\ Entered

LEMMA InitIInv == Init => IInv
  BY EmptyMapTyped DEF Init, IInv, TypeOK, PC, EntriesWait, SignalsCount, Entered

\* What the map is after a step.
LEMMA EraseEntry ==
  ASSUME TypeOK, NEW i
  PROVE  /\ Erase(reqMap, i) \in Maps(Ids, Reqs)
         /\ DOMAIN Erase(reqMap, i) = DOMAIN reqMap \ {i}
         /\ \A j \in DOMAIN reqMap \ {i} : Erase(reqMap, i)[j] = reqMap[j]
  <1>1. reqMap \in Maps(Ids, Reqs)
    BY DEF TypeOK
  <1>2. Erase(reqMap, i) \in Maps(Ids, Reqs)
    BY <1>1, EraseMap
  <1>3. QED
    BY <1>2 DEF Erase, Restrict

LEMMA OverdueErased ==
  ASSUME TypeOK, HttpRequestTimer
  PROVE  /\ reqMap' \in Maps(Ids, Reqs)
         /\ DOMAIN reqMap' = DOMAIN reqMap \ Overdue
         /\ \A i \in DOMAIN reqMap \ Overdue : reqMap'[i] = reqMap[i]
  <1>1. DOMAIN reqMap \subseteq Ids /\ reqMap \in [DOMAIN reqMap -> Reqs]
    BY MapsDef DEF TypeOK
  <1>2. reqMap' = [i \in DOMAIN reqMap \ Overdue |-> reqMap[i]]
    BY DEF HttpRequestTimer, Restrict
  <1>3. DOMAIN reqMap' \subseteq Ids /\ reqMap' \in [DOMAIN reqMap' -> Reqs]
    BY <1>1, <1>2
  <1>4. QED
    BY <1>2, <1>3, MapsDef

LEMMA EntryTyped ==
  ASSUME TypeOK, NEW i \in DOMAIN reqMap
  PROVE  i \in Ids /\ reqMap[i] \in Reqs
  BY MapValue DEF TypeOK

LEMMA NextIInv == IInv /\ [Next]_vars => IInv'
  <1> SUFFICES ASSUME IInv, [Next]_vars PROVE IInv'
    OBVIOUS
  <1> USE DEF IInv, EntriesWait, SignalsCount, Entered
  <1>e. \A i \in DOMAIN reqMap : i \in Ids /\ reqMap[i] \in Reqs
    BY EntryTyped
  <1>1. ASSUME NEW r \in Reqs, Lookup(r) \/ Find(r) PROVE IInv'
    BY <1>1, <1>e DEF Lookup, Find, Goto, TypeOK, PC, deviceVars
  <1>2. ASSUME NEW r \in Reqs, Enter(r) PROVE IInv'
    <2>1. PICK i \in Ids : rid' = [rid EXCEPT ![r] = i] /\ reqMap' = Insert(reqMap, i, r)
      BY <1>2 DEF Enter
    <2>0. reqMap \in Maps(Ids, Reqs)
      BY DEF TypeOK
    <2>2. /\ reqMap' \in Maps(Ids, Reqs)
          /\ \A j \in DOMAIN reqMap' :
               \/ j \in DOMAIN reqMap /\ reqMap'[j] = reqMap[j]
               \/ j = i /\ reqMap'[j] = r
      <3>1. Insert(reqMap, i, r) \in Maps(Ids, Reqs)
        BY <2>0, InsertMap
      <3>2. QED
        BY <2>1, <3>1 DEF Insert
    <2>3. sem[r] = 0 /\ pc[r] = "enter" /\ pc' = [pc EXCEPT ![r] = "send"]
      BY <1>2 DEF Enter, Goto
    <2>4. TypeOK'
      BY <1>2, <2>1, <2>2, <2>3 DEF Enter, TypeOK, PC, deviceVars
    <2>5. EntriesWait'
      BY <1>2, <1>e, <2>1, <2>2, <2>3 DEF Enter, TypeOK
    <2>6. SignalsCount'
      BY <1>2, <2>3 DEF Enter, TypeOK
    <2>7. Entered'
      BY <1>2, <2>1, <2>3 DEF Enter, TypeOK
    <2>8. QED
      BY <2>4, <2>5, <2>6, <2>7
  <1>3. ASSUME NEW r \in Reqs, Send(r) PROVE IInv'
    <2>1. rid[r] \in Ids
      BY <1>3 DEF Send, Goto, Entered
    <2>2. TypeOK'
      BY <1>3, <2>1 DEF Send, Goto, TypeOK, PC
    <2>3. QED
      BY <1>3, <1>e, <2>2 DEF Send, Goto, TypeOK, PC, Entered
  <1>4. ASSUME NEW r \in Reqs, SendFails(r) PROVE IInv'
    BY <1>4, <1>e DEF SendFails, Goto, TypeOK, PC, deviceVars
  <1>5. ASSUME NEW r \in Reqs, Wait(r) PROVE IInv'
    BY <1>5, <1>e DEF Wait, Goto, TypeOK, PC, deviceVars
  <1>6. ASSUME NEW r \in Reqs, Reply(r) PROVE IInv'
    BY <1>6, <1>e DEF Reply, Goto, TypeOK, PC, deviceVars
  <1>7. ASSUME NEW i \in Ids, NEW r \in Reqs, Deliver(i, r) PROVE IInv'
    <2>1. CASE i \in DOMAIN reqMap
      <3>1. /\ reqMap' = Erase(reqMap, i)
            /\ response' = [response EXCEPT ![reqMap[i]] = r]
            /\ sem' = [sem EXCEPT ![reqMap[i]] = @ + 1]
            /\ UNCHANGED <<pc, rid, late, dropped, unread>>
            /\ answered' = answered \cup {r} /\ atDevice' = atDevice \ {<<i, r>>}
        BY <1>7, <2>1 DEF Deliver
      <3>2. /\ reqMap' \in Maps(Ids, Reqs)
            /\ DOMAIN reqMap' = DOMAIN reqMap \ {i}
            /\ \A j \in DOMAIN reqMap \ {i} : reqMap'[j] = reqMap[j]
        BY <3>1, EraseEntry
      <3>3. reqMap[i] \in Reqs /\ sem[reqMap[i]] = 0 /\ pc[reqMap[i]] \in {"send", "wait", "failed"}
        BY <2>1, <1>e
      <3>4. TypeOK'
        BY <3>1, <3>2, <3>3 DEF TypeOK
      <3>5. EntriesWait'
        BY <1>e, <2>1, <3>1, <3>2, <3>3 DEF TypeOK
      <3>6. SignalsCount'
        BY <3>1, <3>3 DEF TypeOK
      <3>7. Entered'
        BY <3>1
      <3>8. QED
        BY <3>4, <3>5, <3>6, <3>7
    <2>2. CASE i \notin DOMAIN reqMap
      BY <1>7, <2>2 DEF Deliver, TypeOK
    <2>3. QED
      BY <2>1, <2>2
  <1>8. ASSUME NEW i \in Ids, NEW r \in Reqs, NoAnswer(i, r) PROVE IInv'
    BY <1>8 DEF NoAnswer, TypeOK
  <1>8u. ASSUME NEW i \in Ids, NEW r \in Reqs, Unusable(i, r) PROVE IInv'
    BY <1>8u DEF Unusable, TypeOK
  <1>9. ASSUME NEW i \in Ids, Age(i) PROVE IInv'
    BY <1>9 DEF Age, TypeOK, deviceVars
  <1>10. CASE HttpRequestTimer
    <2>1. /\ reqMap' \in Maps(Ids, Reqs)
          /\ DOMAIN reqMap' = DOMAIN reqMap \ Overdue
          /\ \A i \in DOMAIN reqMap \ Overdue : reqMap'[i] = reqMap[i]
      BY <1>10, OverdueErased
    <2>2. /\ sem' = [r \in Reqs |-> IF \E i \in Overdue : reqMap[i] = r
                                    THEN sem[r] + 1 ELSE sem[r]]
          /\ UNCHANGED <<pc, rid, response, late, deviceVars>>
      BY <1>10 DEF HttpRequestTimer
    <2>3. TypeOK'
      BY <2>1, <2>2 DEF TypeOK, deviceVars
    <2>4. EntriesWait'
      BY <1>e, <2>1, <2>2 DEF Overdue
    <2>5. SignalsCount'
      BY <2>2 DEF Overdue
    <2>6. Entered'
      BY <2>2
    <2>7. QED
      BY <2>3, <2>4, <2>5, <2>6
  <1>11. CASE UNCHANGED vars
    BY <1>11 DEF vars, TypeOK, deviceVars
  <1>12. QED
    BY <1>1, <1>2, <1>3, <1>4, <1>5, <1>6, <1>7, <1>8, <1>8u, <1>9, <1>10, <1>11
    DEF Next, HandleRequest

LEMMA Invariance == Spec => []IInv
  BY InitIInv, NextIInv, PTL DEF Spec

\* The relay's state keeps its type.
THEOREM TypeCorrect == Spec => []TypeOK
  BY Invariance, PTL DEF IInv

\* Whoever finds a request in the map finds one that has not been deleted, even
\* when two requests drew the same id.
THEOREM NoneDangling == Spec => []NoDanglingRequest
  <1>1. IInv => NoDanglingRequest
    BY DEF IInv, EntriesWait, NoDanglingRequest
  <1>2. QED
    BY <1>1, Invariance, PTL

\* No request is signalled twice.
THEOREM NoneSignalledTwice == Spec => []SignalledOnce
  <1>1. IInv => SignalledOnce
    BY EntryTyped DEF IInv, EntriesWait, SignalsCount, SignalledOnce, TypeOK
  <1>2. QED
    BY <1>1, Invariance, PTL

\* A request that is signalled without an answer is too old.
TimeoutIsLate ==
  \A r \in Reqs :
    response[r] = Null /\ (sem[r] = 1 \/ pc[r] \in {"reply", "timeout"}) => rid[r] \in late

LEMMA NextTimeoutIsLate == IInv /\ TimeoutIsLate /\ [Next]_vars => TimeoutIsLate'
  <1> SUFFICES ASSUME IInv, TimeoutIsLate, [Next]_vars PROVE TimeoutIsLate'
    OBVIOUS
  <1> USE DEF TimeoutIsLate
  <1>i. TypeOK
    BY DEF IInv
  <1>1. ASSUME NEW r \in Reqs, Lookup(r) \/ Find(r) \/ Send(r) \/ SendFails(r) \/ Wait(r) \/ Reply(r)
        PROVE  TimeoutIsLate'
    <2>1. /\ UNCHANGED <<rid, response, late>>
          /\ \A q \in Reqs \ {r} : pc'[q] = pc[q] /\ sem'[q] = sem[q]
      BY <1>1, <1>i DEF Lookup, Find, Send, SendFails, Wait, Reply, Goto, TypeOK
    <2>2. sem'[r] = 1 \/ pc'[r] \in {"reply", "timeout"} =>
            sem[r] = 1 \/ pc[r] \in {"reply", "timeout"}
      <3>1. CASE Lookup(r) \/ Find(r) \/ Send(r) \/ SendFails(r)
        BY <3>1, <1>i DEF Lookup, Find, Send, SendFails, Goto, TypeOK
      <3>2. CASE Wait(r)
        BY <3>2, <1>i DEF Wait, IInv, SignalsCount, Goto, TypeOK
      <3>3. CASE Reply(r)
        BY <3>3, <1>i DEF Reply, Goto, TypeOK
      <3>4. QED
        BY <1>1, <3>1, <3>2, <3>3
    <2>3. QED
      BY <2>1, <2>2
  <1>2. ASSUME NEW r \in Reqs, Enter(r) PROVE TimeoutIsLate'
    <2>1. sem[r] # 1
      BY <1>2 DEF Enter, Goto, IInv, SignalsCount
    <2>2. QED
      BY <1>2, <1>i, <2>1 DEF Enter, Goto, TypeOK
  <1>3. ASSUME NEW i \in Ids, NEW r \in Reqs, Deliver(i, r) PROVE TimeoutIsLate'
    <2>1. CASE i \in DOMAIN reqMap
      <3>1. reqMap[i] \in Reqs
        BY <1>i, <2>1, EntryTyped
      <3>2. QED
        BY <1>3, <1>i, <2>1, <3>1 DEF Deliver, TypeOK
    <2>2. CASE i \notin DOMAIN reqMap
      BY <1>3, <2>2 DEF Deliver
    <2>3. QED
      BY <2>1, <2>2
  <1>4. ASSUME NEW i \in Ids, Age(i) \/ \E r \in Reqs : NoAnswer(i, r) \/ Unusable(i, r)
        PROVE  TimeoutIsLate'
    BY <1>4 DEF Age, NoAnswer, Unusable
  <1>5. CASE HttpRequestTimer
    <2>1. /\ UNCHANGED <<pc, rid, response, late>>
          /\ \A r \in Reqs : sem'[r] # sem[r] => \E i \in Overdue : reqMap[i] = r
      BY <1>5 DEF HttpRequestTimer
    <2>2. \A i \in Overdue : rid[reqMap[i]] \in late
      BY DEF IInv, EntriesWait, Overdue
    <2>3. QED
      BY <2>1, <2>2
  <1>6. CASE UNCHANGED vars
    BY <1>6 DEF vars
  <1>7. QED
    BY <1>1, <1>2, <1>3, <1>4, <1>5, <1>6 DEF Next, HandleRequest

\* No HTTP request is answered with a timeout before its time is up, even when two
\* requests drew the same id: the thread that finds no answer was woken by the timer
\* (RegServer.cpp:533-537).
THEOREM TimeoutsAreLate == Spec => []TimeoutIsLate
  <1>1. Init => TimeoutIsLate
    BY DEF Init, TimeoutIsLate
  <1>2. QED
    BY <1>1, NextTimeoutIsLate, Invariance, PTL DEF Spec

-----------------------------------------------------------------------------
(* When no two requests draw the same id. *)

IdsDiffer == \A q, r \in Reqs : rid[q] = rid[r] /\ rid[q] # Null => q = r

Unsent == {"lookup", "find", "enter", "404", "send"}

\* What a device has still to answer, or has answered, was sent.
AskedWasSent ==
  /\ \A i \in Ids, r \in Reqs : <<i, r>> \in atDevice => rid[r] = i /\ pc[r] \notin Unsent
  /\ \A r \in answered : pc[r] \notin Unsent
  /\ dropped \subseteq answered

\* An answer still to come that names its request finds its request in the map, or comes too late.
PendingIsMapped ==
  \A r \in Reqs :
    pc[r] = "send" \/ <<rid[r], r>> \in atDevice => rid[r] \in DOMAIN reqMap \/ rid[r] \in late

AnswersOwned == \A r \in Reqs : response[r] = Null \/ (response[r] = r /\ r \in answered)

DInv ==
  /\ IInv /\ IdsDiffer /\ AskedWasSent /\ PendingIsMapped /\ AnswersOwned
  /\ OnlyLateAnswersDropped

LEMMA InitDInv == Init => DInv
  BY InitIInv
  DEF Init, DInv, IdsDiffer, AskedWasSent, PendingIsMapped, AnswersOwned, OnlyLateAnswersDropped

LEMMA NextDInv == DistinctIds /\ DInv /\ [Next]_vars => DInv'
  <1> SUFFICES ASSUME DistinctIds, DInv, [Next]_vars PROVE DInv'
    OBVIOUS
  <1>i. IInv /\ IInv' /\ TypeOK
    BY NextIInv DEF DInv, IInv
  <1>e. \A i \in DOMAIN reqMap : i \in Ids /\ reqMap[i] \in Reqs /\ rid[reqMap[i]] = i
    BY <1>i, EntryTyped DEF IInv, EntriesWait
  <1>a. Entered
    BY <1>i DEF IInv
  <1> USE DEF DInv, IdsDiffer, AskedWasSent, PendingIsMapped, AnswersOwned,
              OnlyLateAnswersDropped, Unsent
  <1>1. ASSUME NEW r \in Reqs, Lookup(r) \/ Find(r) PROVE DInv'
    BY <1>1, <1>i DEF Lookup, Find, Goto, TypeOK, PC, deviceVars
  <1>2. ASSUME NEW r \in Reqs, Enter(r) PROVE DInv'
    <2>1. PICK i \in Ids : /\ \A q \in Reqs : rid[q] # i
                           /\ rid' = [rid EXCEPT ![r] = i]
                           /\ reqMap' = Insert(reqMap, i, r)
      BY <1>2 DEF Enter
    <2>2. /\ pc[r] = "enter" /\ pc' = [pc EXCEPT ![r] = "send"]
          /\ UNCHANGED <<response, late, atDevice, answered, dropped, unread>>
      BY <1>2 DEF Enter, Goto, deviceVars
    <2>3. DOMAIN reqMap' = DOMAIN reqMap \cup {i}
      BY <2>1, <1>e DEF Insert
    <2>4. IdsDiffer'
      BY <2>1, <1>i DEF TypeOK
    <2>5. AskedWasSent'
      BY <2>1, <2>2, <1>i DEF TypeOK
    <2>6. PendingIsMapped'
      BY <2>1, <2>2, <2>3, <1>i DEF TypeOK
    <2>7. AnswersOwned' /\ OnlyLateAnswersDropped'
      BY <2>1, <2>2, <1>i DEF TypeOK
    <2>8. QED
      BY <1>i, <2>4, <2>5, <2>6, <2>7
  <1>3. ASSUME NEW r \in Reqs, Send(r) PROVE DInv'
    BY <1>3, <1>i, <1>a DEF Send, Goto, TypeOK, PC, Entered
  <1>4. ASSUME NEW r \in Reqs, SendFails(r) PROVE DInv'
    BY <1>4, <1>i DEF SendFails, Goto, TypeOK, PC, deviceVars
  <1>5. ASSUME NEW r \in Reqs, Wait(r) PROVE DInv'
    BY <1>5, <1>i DEF Wait, Goto, TypeOK, PC, deviceVars
  <1>6. ASSUME NEW r \in Reqs, Reply(r) PROVE DInv'
    BY <1>6, <1>i DEF Reply, Goto, TypeOK, PC, deviceVars
  <1>7. ASSUME NEW i \in Ids, NEW r \in Reqs, Deliver(i, r) PROVE DInv'
    <2>1. /\ <<i, r>> \in atDevice /\ rid[r] = i /\ pc[r] \notin Unsent
          /\ \A q \in Reqs : rid[q] = i => q = r
          /\ atDevice' = atDevice \ {<<i, r>>} /\ answered' = answered \cup {r}
          /\ UNCHANGED <<pc, rid, late, unread>>
      BY <1>7, <1>i DEF Deliver, TypeOK
    <2>2. AskedWasSent' /\ IdsDiffer'
      BY <1>7, <2>1, <1>i DEF Deliver, TypeOK
    <2>3. CASE i \in DOMAIN reqMap
      <3>1. /\ reqMap[i] = r /\ response' = [response EXCEPT ![r] = r]
            /\ reqMap' = Erase(reqMap, i) /\ UNCHANGED dropped
        BY <1>7, <1>e, <2>1, <2>3 DEF Deliver
      <3>2. DOMAIN reqMap' = DOMAIN reqMap \ {i}
        BY <3>1 DEF Erase, Restrict
      <3>3. PendingIsMapped'
        BY <2>1, <3>2, <1>i DEF TypeOK
      <3>4. QED
        BY <1>i, <2>1, <2>2, <3>1, <3>3 DEF TypeOK
    <2>4. CASE i \notin DOMAIN reqMap
      <3>1. /\ i \in late /\ dropped' = dropped \cup {r}
            /\ UNCHANGED <<reqMap, response>>
        BY <1>7, <2>1, <2>4 DEF Deliver
      <3>2. QED
        BY <1>i, <2>1, <2>2, <3>1 DEF TypeOK
    <2>5. QED
      BY <2>3, <2>4
  <1>8. ASSUME NEW i \in Ids, NEW r \in Reqs, NoAnswer(i, r) PROVE DInv'
    BY <1>8, <1>i DEF NoAnswer, TypeOK
  <1>8u. ASSUME NEW i \in Ids, NEW r \in Reqs, Unusable(i, r) PROVE DInv'
    BY <1>8u, <1>i DEF Unusable, TypeOK
  <1>9. ASSUME NEW i \in Ids, Age(i) PROVE DInv'
    BY <1>9, <1>i DEF Age, TypeOK, deviceVars
  <1>10. CASE HttpRequestTimer
    <2>1. DOMAIN reqMap' = DOMAIN reqMap \ Overdue
      BY <1>10, <1>i, OverdueErased
    <2>2. UNCHANGED <<pc, rid, response, late, atDevice, answered, dropped, unread>>
      BY <1>10 DEF HttpRequestTimer, deviceVars
    <2>3. QED
      BY <2>1, <2>2, <1>i DEF Overdue
  <1>11. CASE UNCHANGED vars
    BY <1>11, <1>i DEF vars, deviceVars
  <1>12. QED
    BY <1>1, <1>2, <1>3, <1>4, <1>5, <1>6, <1>7, <1>8, <1>8u, <1>9, <1>10, <1>11
    DEF Next, HandleRequest

LEMMA DistinctInvariance == DistinctIds /\ Spec => []DInv
  <1> SUFFICES ASSUME DistinctIds PROVE Spec => []DInv
    OBVIOUS
  <1>1. DInv /\ [Next]_vars => DInv'
    BY NextDInv
  <1>2. QED
    BY InitDInv, <1>1, PTL DEF Spec

\* With distinct ids no request gets another one's answer.
THEOREM AnswersAreOwn == DistinctIds /\ Spec => []OwnAnswer
  <1>1. DInv => OwnAnswer
    BY DEF DInv, AnswersOwned, OwnAnswer
  <1>2. QED
    BY <1>1, DistinctInvariance, PTL

\* With distinct ids an answer that could be read and names its request is thrown
\* away only after the timeout.
THEOREM DroppedAreLate == DistinctIds /\ Spec => []OnlyLateAnswersDropped
  BY DistinctInvariance, PTL DEF DInv


\* A thread that waits has been signalled, or its request is in the map, where the
\* answer or the timer finds it.
NoneForgotten ==
  \A r \in Reqs : pc[r] = "wait" => sem[r] = 1 \/ \E i \in DOMAIN reqMap : reqMap[i] = r

\* The same from the time the request is entered on.
Kept(r) == sem[r] = 1 \/ \E i \in DOMAIN reqMap : reqMap[i] = r
EnteredAreKept == \A r \in Reqs : pc[r] \in {"send", "wait"} => Kept(r)

LEMMA NextEnteredAreKept == DistinctIds /\ DInv /\ EnteredAreKept /\ [Next]_vars => EnteredAreKept'
  <1> SUFFICES ASSUME DistinctIds, DInv, EnteredAreKept, [Next]_vars PROVE EnteredAreKept'
    OBVIOUS
  <1> USE DEF EnteredAreKept, Kept
  <1>i. IInv /\ TypeOK
    BY DEF DInv, IInv
  <1>e. \A i \in DOMAIN reqMap :
          i \in Ids /\ reqMap[i] \in Reqs /\ rid[reqMap[i]] = i /\ sem[reqMap[i]] = 0
    BY <1>i, EntryTyped DEF IInv, EntriesWait
  <1>1. ASSUME NEW r \in Reqs, Lookup(r) \/ Find(r) \/ Send(r) \/ SendFails(r) \/ Wait(r) \/ Reply(r)
        PROVE  EnteredAreKept'
    <2>1. /\ UNCHANGED reqMap
          /\ \A q \in Reqs \ {r} : pc'[q] = pc[q] /\ sem'[q] = sem[q]
          /\ pc'[r] \in {"send", "wait"} => pc[r] = "send" /\ sem' = sem
      BY <1>1, <1>i DEF Lookup, Find, Send, SendFails, Wait, Reply, Goto, TypeOK
    <2>2. QED
      BY <2>1
  <1>2. ASSUME NEW r \in Reqs, Enter(r) PROVE EnteredAreKept'
    <2>1. PICK i \in Ids : (\A q \in Reqs : rid[q] # i) /\ reqMap' = Insert(reqMap, i, r)
      BY <1>2 DEF Enter
    <2>2. i \notin DOMAIN reqMap
      BY <1>e, <2>1
    <2>3. /\ i \in DOMAIN reqMap' /\ reqMap'[i] = r
          /\ \A j \in DOMAIN reqMap : j \in DOMAIN reqMap' /\ reqMap'[j] = reqMap[j]
      BY <2>1, <2>2 DEF Insert
    <2>4. sem' = sem /\ \A q \in Reqs \ {r} : pc'[q] = pc[q]
      BY <1>2, <1>i DEF Enter, Goto, TypeOK
    <2>5. QED
      BY <2>3, <2>4
  <1>3. ASSUME NEW i \in Ids, NEW r \in Reqs, Deliver(i, r) PROVE EnteredAreKept'
    <2>1. CASE i \in DOMAIN reqMap
      <3>1. /\ reqMap' = Erase(reqMap, i) /\ pc' = pc
            /\ sem' = [sem EXCEPT ![reqMap[i]] = @ + 1]
        BY <1>3, <2>1 DEF Deliver
      <3>2. /\ DOMAIN reqMap' = DOMAIN reqMap \ {i}
            /\ \A j \in DOMAIN reqMap \ {i} : reqMap'[j] = reqMap[j]
        BY <1>i, <3>1, EraseEntry
      <3>3. /\ sem'[reqMap[i]] = 1
            /\ \A q \in Reqs : q # reqMap[i] => sem'[q] = sem[q]
        BY <1>i, <1>e, <2>1, <3>1 DEF TypeOK
      <3>4. QED
        BY <3>1, <3>2, <3>3
    <2>2. CASE i \notin DOMAIN reqMap
      BY <1>3, <2>2 DEF Deliver
    <2>3. QED
      BY <2>1, <2>2
  <1>4. ASSUME NEW i \in Ids, Age(i) \/ \E r \in Reqs : NoAnswer(i, r) \/ Unusable(i, r)
        PROVE  EnteredAreKept'
    BY <1>4 DEF Age, NoAnswer, Unusable
  <1>5. CASE HttpRequestTimer
    <2>1. /\ DOMAIN reqMap' = DOMAIN reqMap \ Overdue
          /\ \A i \in DOMAIN reqMap \ Overdue : reqMap'[i] = reqMap[i]
      BY <1>5, <1>i, OverdueErased
    <2>2. /\ pc' = pc
          /\ \A i \in Overdue : sem'[reqMap[i]] = 1
          /\ \A q \in Reqs : (\A i \in Overdue : reqMap[i] # q) => sem'[q] = sem[q]
      BY <1>5, <1>e DEF HttpRequestTimer, Overdue
    <2>3. QED
      BY <2>1, <2>2
  <1>6. CASE UNCHANGED vars
    BY <1>6 DEF vars
  <1>7. QED
    BY <1>1, <1>2, <1>3, <1>4, <1>5, <1>6 DEF Next, HandleRequest

\* With distinct ids no thread waits for a signal nobody will give: what is left to
\* the fairness of the timer is only that it comes round (RegServer.cpp:614-620).
THEOREM NoWaiterForgotten == DistinctIds /\ Spec => []NoneForgotten
  <1> SUFFICES ASSUME DistinctIds PROVE Spec => []NoneForgotten
    OBVIOUS
  <1>1. Init => EnteredAreKept
    BY DEF Init, EnteredAreKept
  <1>2. DInv /\ EnteredAreKept /\ [Next]_vars => EnteredAreKept'
    BY NextEnteredAreKept
  <1>3. EnteredAreKept => NoneForgotten
    BY DEF EnteredAreKept, NoneForgotten, Kept
  <1>4. QED
    BY <1>1, <1>2, <1>3, DistinctInvariance, PTL DEF Spec

-----------------------------------------------------------------------------
(* The refinement: each step of a thread or a task is one step of OneReply,  *)
(* or none.                                                                  *)

OutcomeMap == [r \in Reqs |-> Outcome(pc[r])]

LEMMA InitRefines == Init => Replies!ReplyInit
  BY DEF Init, Replies!ReplyInit, Outcome

\* Moving a thread moves its request's outcome, and no other's.
LEMMA MoveOutcome ==
  ASSUME TypeOK, NEW r \in Reqs, NEW from, NEW to, Goto(r, from, to)
  PROVE  OutcomeMap[r] = Outcome(from) /\ OutcomeMap' = [OutcomeMap EXCEPT ![r] = Outcome(to)]
  BY DEF OutcomeMap, Goto, TypeOK

LEMMA NextRefines == DInv /\ [Next]_vars => [Replies!ReplyNext]_(Replies!replyVars)
  <1> SUFFICES ASSUME DInv, [Next]_vars PROVE [Replies!ReplyNext]_(Replies!replyVars)
    OBVIOUS
  <1>t. TypeOK
    BY DEF DInv, IInv
  <1>s. OutcomeMap' = OutcomeMap /\ answered' = answered => UNCHANGED Replies!replyVars
    BY DEF Replies!replyVars, OutcomeMap
  <1>b. ASSUME NEW r \in Reqs, NEW from, NEW to, Goto(r, from, to), UNCHANGED answered,
               \/ Outcome(from) = "looking" /\ Outcome(to) = "404"
               \/ Outcome(from) = "looking" /\ Outcome(to) = "asked"
               \/ Outcome(from) = "asked" /\ Outcome(to) = "answered" /\ r \in answered
               \/ Outcome(from) = "asked" /\ Outcome(to) = "timeout"
               \/ Outcome(from) = "asked" /\ Outcome(to) = "aborted"
        PROVE  Replies!ReplyNext
    <2>1. OutcomeMap[r] = Outcome(from) /\ OutcomeMap' = [OutcomeMap EXCEPT ![r] = Outcome(to)]
      BY <1>t, <1>b, MoveOutcome
    <2>2. Replies!Settle(r)
      BY <1>b, <2>1
      DEF OutcomeMap, Replies!Settle, Replies!NotFound, Replies!Ask, Replies!Answer,
          Replies!GiveUp, Replies!Abort, Replies!Become
    <2>3. QED
      BY <2>2 DEF Replies!ReplyNext
  <1>c. ASSUME NEW r \in Reqs, NEW from, NEW to, Goto(r, from, to), UNCHANGED answered,
               Outcome(from) = Outcome(to)
        PROVE  UNCHANGED Replies!replyVars
    <2>1. OutcomeMap[r] = Outcome(from) /\ OutcomeMap' = [OutcomeMap EXCEPT ![r] = Outcome(to)]
      BY <1>t, <1>c, MoveOutcome
    <2>2. OutcomeMap' = OutcomeMap
      BY <1>c, <2>1 DEF OutcomeMap
    <2>3. QED
      BY <1>c, <1>s, <2>2
  <1>o. /\ Outcome("lookup") = "looking" /\ Outcome("find") = "looking"
        /\ Outcome("enter") = "looking" /\ Outcome("404") = "404"
        /\ Outcome("send") = "asked" /\ Outcome("wait") = "asked" /\ Outcome("reply") = "asked"
        /\ Outcome("done") = "answered" /\ Outcome("failed") = "aborted"
        /\ Outcome("timeout") = "timeout"
    BY DEF Outcome
  <1>1. ASSUME NEW r \in Reqs, Lookup(r) \/ Find(r)
        PROVE  Replies!ReplyNext \/ UNCHANGED Replies!replyVars
    BY <1>1, <1>b, <1>c, <1>o DEF Lookup, Find, deviceVars
  <1>2. ASSUME NEW r \in Reqs, Enter(r) PROVE Replies!ReplyNext
    BY <1>2, <1>b, <1>o DEF Enter, deviceVars
  <1>3. ASSUME NEW r \in Reqs, Send(r) \/ Wait(r) PROVE UNCHANGED Replies!replyVars
    BY <1>3, <1>c, <1>o DEF Send, Wait, deviceVars
  <1>4. ASSUME NEW r \in Reqs, SendFails(r) PROVE Replies!ReplyNext
    BY <1>4, <1>b, <1>o DEF SendFails, deviceVars
  <1>5. ASSUME NEW r \in Reqs, Reply(r) PROVE Replies!ReplyNext
    <2>1. CASE response[r] = Null
      BY <1>5, <2>1, <1>b, <1>o DEF Reply, deviceVars
    <2>2. CASE response[r] # Null
      <3>1. r \in answered
        BY <2>2 DEF DInv, AnswersOwned
      <3>2. QED
        BY <1>5, <2>2, <3>1, <1>b, <1>o DEF Reply, deviceVars
    <2>3. QED
      BY <2>1, <2>2
  <1>6. ASSUME NEW i \in Ids, NEW r \in Reqs, Deliver(i, r) \/ Unusable(i, r)
        PROVE  Replies!ReplyNext
    <2>1. pc[r] \notin Unsent /\ pc[r] \in PC
      BY <1>6, <1>t DEF Deliver, Unusable, DInv, AskedWasSent, TypeOK
    <2>2. OutcomeMap[r] # "looking"
      BY <2>1, <1>o DEF OutcomeMap, Unsent, PC
    <2>3. answered' = answered \cup {r} /\ OutcomeMap' = OutcomeMap
      BY <1>6 DEF Deliver, Unusable, OutcomeMap
    <2>4. QED
      BY <2>2, <2>3 DEF OutcomeMap, Replies!ReplyNext, Replies!DeviceAnswers
  <1>7. ASSUME NEW i \in Ids, NEW r \in Reqs, NoAnswer(i, r) PROVE UNCHANGED Replies!replyVars
    BY <1>7, <1>s DEF NoAnswer, OutcomeMap
  <1>8. ASSUME NEW i \in Ids, Age(i) PROVE UNCHANGED Replies!replyVars
    BY <1>8, <1>s DEF Age, OutcomeMap, deviceVars
  <1>9. CASE HttpRequestTimer
    BY <1>9, <1>s DEF HttpRequestTimer, OutcomeMap, deviceVars
  <1>10. CASE UNCHANGED vars
    BY <1>10, <1>s DEF vars, OutcomeMap
  <1>11. QED
    BY <1>1, <1>2, <1>3, <1>4, <1>5, <1>6, <1>7, <1>8, <1>9, <1>10 DEF Next, HandleRequest

\* With distinct ids the threads, the tasks and the timer together give every
\* request the one reply OneReply promises.
THEOREM RelayImplements == DistinctIds /\ Spec => ImplementsOneReply
  BY InitRefines, NextRefines, DistinctInvariance, PTL
  DEF Spec, ImplementsOneReply, Replies!ReplySpec
=============================================================================
