-------------------------- MODULE SelectLoop_proofs --------------------------
(***************************************************************************)
(* The hand-over of connections between the accept thread, the handler and *)
(* the tasks, for any number of connections, threads and bytes.  The       *)
(* inductive invariant IInv adds to the properties what makes them         *)
(* inductive: what the handler's copies of the list may still contain.     *)
(***************************************************************************)
EXTENDS SelectLoop, TLAPS

USE MaxInnerAssumption, MaxWakersAssumption, InnerAssumption DEF Inner

-----------------------------------------------------------------------------
(* The inductive invariant. *)

\* The list and the map hold the same connections.
ListMatchesMap == sockList = sockMap

\* While the handler is in select no task owns a connection of its copy: only
\* the handler gives connections to tasks.
SnapshotUnowned == pc = "select" => \A s \in snapshot : ~ Handled(s)

\* What is left to visit has no owner but the map, and is readable if it is
\* still there.  The byte it is going to read is there.
ReadyUnowned ==
  /\ pc \in {"copy", "select"} => ready = {}
  /\ \A s \in ready \ {Inner} : ~ Handled(s) /\ (s \in sockMap => s \in readable)
  /\ Inner \in ready => inner > 0

\* Only the handler's death loses a connection with its peer's data unread.
NothingLost == \A s \in readable : Live(s) \/ pc = "dead"

IInv ==
  /\ TypeOK
  /\ ListMatchesMap
  /\ OneOwner
  /\ SnapshotUnowned
  /\ ReadyUnowned
  /\ NothingLost
  /\ NoMissedWakeup

LEMMA InitIInv == Init => IInv
  BY DEF Init, IInv, TypeOK, ListMatchesMap, OneOwner, SnapshotUnowned, ReadyUnowned,
         NothingLost, NoMissedWakeup

LEMMA NextIInv == IInv /\ [Next]_vars => IInv'
  <1> SUFFICES ASSUME IInv, [Next]_vars PROVE IInv'
    OBVIOUS
  <1> USE DEF IInv, TypeOK, ListMatchesMap, OneOwner, SnapshotUnowned, ReadyUnowned,
              NothingLost, NoMissedWakeup, Handled, Live, MutexFree, handlerVars, mapVars
  <1>1. ASSUME NEW s \in Socks, Accept(s) PROVE IInv'
    BY <1>1 DEF Accept, AddressFree
  <1>2. ASSUME NEW s \in Socks, Arrive(s) PROVE IInv'
    BY <1>2 DEF Arrive
  <1>3. CASE Copy
    BY <1>3 DEF Copy
  <1>4. CASE Select
    BY <1>4 DEF Select, Selected
  <1>5. CASE SelectTimeout
    BY <1>5 DEF SelectTimeout
  <1>6. CASE VisitInner
    BY <1>6 DEF VisitInner
  <1>7. ASSUME NEW s \in Socks, Visit(s) PROVE IInv'
    BY <1>7 DEF Visit
  <1>8. CASE Visited
    BY <1>8 DEF Visited
  <1>9. ASSUME NEW s \in Socks, Receive(s) PROVE IInv'
    BY <1>9 DEF Receive
  <1>10. ASSUME NEW s \in Socks, FinishKeep(s) PROVE IInv'
    BY <1>10 DEF FinishKeep
  <1>11. ASSUME NEW s \in Socks, FinishClose(s) PROVE IInv'
    BY <1>11 DEF FinishClose
  <1>12. CASE Wake
    BY <1>12 DEF Wake
  <1>13. ASSUME NEW s \in Socks, HandleOffline(s) PROVE IInv'
    BY <1>13 DEF HandleOffline
  <1>14. CASE UNCHANGED vars
    BY <1>14 DEF vars
  <1>15. QED
    BY <1>1, <1>2, <1>3, <1>4, <1>5, <1>6, <1>7, <1>8, <1>9, <1>10, <1>11,
       <1>12, <1>13, <1>14 DEF Next, Handler, Task

LEMMA Invariance == Spec => []IInv
  BY InitIInv, NextIInv, PTL DEF Spec

\* The loop's state keeps its type.
THEOREM TypeCorrect == Spec => []TypeOK
  BY Invariance, PTL DEF IInv

\* A connection never has two owners, whatever the threads interleave.
THEOREM SingleOwner == Spec => []OneOwner
  BY Invariance, PTL DEF IInv

\* The handler never waits on a stale copy of the list without a byte to wake it.
THEOREM WakeupsNotMissed == Spec => []NoMissedWakeup
  BY Invariance, PTL DEF IInv

-----------------------------------------------------------------------------
(* The refinement: every step of a thread is one step of one abstract       *)
(* connection, or none.                                                     *)

LEMMA InitImplements == Init => Conn!ConnInit
  BY DEF Init, Conn!ConnInit, ConnState, Handled

LEMMA NextImplements == IInv /\ IInv' /\ [Next]_vars => [Conn!ConnNext]_Conn!connVars
  <1> SUFFICES ASSUME IInv, IInv', [Next]_vars
               PROVE  Conn!ConnNext \/ UNCHANGED Conn!connVars
    OBVIOUS
  <1> USE DEF IInv, TypeOK, ListMatchesMap, OneOwner, ReadyUnowned, NothingLost,
              Handled, Live, MutexFree, mapVars, Conn!connVars
  \* A step that moves no connection and reads nothing.
  <1>s. ASSUME UNCHANGED <<sockMap, task, readable>>
        PROVE  UNCHANGED Conn!connVars
    BY <1>s DEF ConnState
  \* A step that moves the connection at one address.
  <1>m. ASSUME NEW s \in Socks, \A r \in Socks \ {s} : ConnState(r)' = ConnState(r)
        PROVE  Conn!Move(s, ConnState(s), ConnState(s)')
    BY <1>m DEF Conn!Move
  <1>1. ASSUME NEW s \in Socks, Accept(s) PROVE Conn!Open(s)
    <2>1. /\ ConnState(s) = "free" /\ ConnState(s)' = "listed" /\ s \notin readable
          /\ \A r \in Socks \ {s} : ConnState(r)' = ConnState(r)
      BY <1>1 DEF Accept, AddressFree, ConnState
    <2>2. QED
      BY <1>1, <2>1, <1>m DEF Accept, Conn!Open
  <1>2. ASSUME NEW s \in Socks, Arrive(s) PROVE Conn!Send(s)
    BY <1>2 DEF Arrive, Conn!Send, ConnState
  <1>3. CASE Copy \/ Select \/ SelectTimeout \/ VisitInner \/ Visited \/ Wake
    BY <1>3, <1>s DEF Copy, Select, SelectTimeout, VisitInner, Visited, Wake
  <1>4. ASSUME NEW s \in Socks, Visit(s)
        PROVE  Conn!Handle(s) \/ Conn!Lose(s) \/ UNCHANGED Conn!connVars
    <2>1. CASE s \in sockMap /\ task' = [task EXCEPT ![s] = "receive"]
      <3>1. /\ ConnState(s) = "listed" /\ ConnState(s)' = "handled" /\ s \in readable
            /\ \A r \in Socks \ {s} : ConnState(r)' = ConnState(r)
        BY <1>4, <2>1 DEF Visit, ConnState
      <3>2. QED
        BY <1>4, <2>1, <3>1, <1>m DEF Visit, Conn!Handle
    <2>2. CASE s \in sockMap /\ UNCHANGED task
      <3>1. /\ ConnState(s) = "listed" /\ ConnState(s)' = "lost" /\ s \in readable
            /\ \A r \in Socks \ {s} : ConnState(r)' = ConnState(r)
        BY <1>4, <2>2 DEF Visit, ConnState
      <3>2. QED
        BY <1>4, <2>2, <3>1, <1>m DEF Visit, Conn!Lose
    <2>3. CASE s \notin sockMap
      BY <1>4, <2>3, <1>s DEF Visit
    <2>4. QED
      BY <1>4, <2>1, <2>2, <2>3 DEF Visit
  <1>5. ASSUME NEW s \in Socks, Receive(s) PROVE Conn!Read(s)
    BY <1>5 DEF Receive, Conn!Read, ConnState
  <1>6. ASSUME NEW s \in Socks, FinishKeep(s) PROVE Conn!Release(s)
    <2>1. /\ ConnState(s) = "handled" /\ ConnState(s)' = "listed"
          /\ \A r \in Socks \ {s} : ConnState(r)' = ConnState(r)
      BY <1>6 DEF FinishKeep, ConnState
    <2>2. QED
      BY <1>6, <2>1, <1>m DEF FinishKeep, Conn!Release
  <1>7. ASSUME NEW s \in Socks, FinishClose(s) PROVE Conn!Close(s)
    <2>1. /\ ConnState(s) = "handled" /\ ConnState(s)' = "free"
          /\ \A r \in Socks \ {s} : ConnState(r)' = ConnState(r)
      BY <1>7 DEF FinishClose, ConnState
    <2>2. QED
      BY <1>7, <2>1, <1>m DEF FinishClose, Conn!Close
  <1>8. ASSUME NEW s \in Socks, HandleOffline(s) PROVE Conn!Close(s)
    <2>1. /\ ConnState(s) = "listed" /\ ConnState(s)' = "free"
          /\ \A r \in Socks \ {s} : ConnState(r)' = ConnState(r)
      BY <1>8 DEF HandleOffline, ConnState
    <2>2. QED
      BY <1>8, <2>1, <1>m DEF HandleOffline, Conn!Close
  <1>9. CASE UNCHANGED vars
    BY <1>9, <1>s DEF vars
  <1>10. QED
    BY <1>1, <1>2, <1>3, <1>4, <1>5, <1>6, <1>7, <1>8, <1>9
    DEF Next, Handler, Task, Conn!ConnNext

\* The threads implement the abstract connections.
THEOREM LoopImplements == Spec => Implements
  BY InitImplements, NextImplements, Invariance, PTL DEF Spec, Implements, Conn!ConnSpec
=============================================================================
