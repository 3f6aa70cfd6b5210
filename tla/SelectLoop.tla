------------------------------ MODULE SelectLoop ------------------------------
(***************************************************************************)
(* How CRegServer passes a connection between its threads.  The accept     *)
(* thread enters it in a map and a socket list; the handler thread copies  *)
(* the list, selects on the copy, and hands every readable connection to a *)
(* task of the thread pool, taking it out of both; the task puts it back   *)
(* or closes it.  A connection that enters the list while the handler is   *)
(* in select is not in the copy: a byte written to an inner socket, which  *)
(* always is in it, wakes the handler.                                     *)
(*                                                                         *)
(* The SSL side and the registration side run the same loop over their own *)
(* map, list and inner socket.  This is the registration side; the SSL     *)
(* side's behaviours are those in which every task closes its connection   *)
(* and the scan closes none.                                               *)
(***************************************************************************)
EXTENDS Naturals, FiniteSets

CONSTANTS
  Socks,        \* addresses of the connections' socket objects
  PoolSize,     \* threads the pool has for this side's tasks (16 in all)
  MaxInner,     \* bytes the inner connection can hold
  MaxWakers     \* bound on the tasks that lag between put-back and wake-up

ASSUME PoolSizeAssumption == PoolSize \in Nat
ASSUME MaxInnerAssumption == MaxInner \in Nat \ {0}
ASSUME MaxWakersAssumption == MaxWakers \in Nat \ {0}

VARIABLES
  sockMap,      \* keys of m_pReg_map (m_pSsl_map)
  sockList,     \* m_reg_sock_list (m_ssl_sock_list) without the inner socket
  pc,           \* where the handler thread is
  snapshot,     \* its readList, as copied
  ready,        \* its readList, as select left it: what is still to visit
  task,         \* the task that owns the connection at an address, if any
  wakers,       \* tasks that put a connection back and have yet to write the byte
  inner,        \* bytes in the inner socket
  readable      \* connections on which select or receive would not block

vars == <<sockMap, sockList, pc, snapshot, ready, task, wakers, inner, readable>>
handlerVars == <<pc, snapshot, ready>>
mapVars == <<sockMap, sockList>>

Inner == "inner"

ASSUME InnerAssumption == Inner \notin Socks

TypeOK ==
  /\ sockMap \subseteq Socks
  /\ sockList \subseteq Socks
  /\ pc \in {"copy", "select", "visit", "dead"}
  /\ snapshot \subseteq Socks
  /\ ready \subseteq Socks \cup {Inner}
  /\ task \in [Socks -> {"none", "receive", "keep", "close"}]
  /\ wakers \in 0 .. MaxWakers
  /\ inner \in 0 .. MaxInner
  /\ readable \subseteq Socks

Init ==
  /\ sockMap = {}
  /\ sockList = {}
  /\ pc = "copy"
  /\ snapshot = {}
  /\ ready = {}
  /\ task = [s \in Socks |-> "none"]
  /\ wakers = 0
  /\ inner = 0
  /\ readable = {}

Handled(s) == task[s] # "none"
Live(s) == s \in sockMap \/ Handled(s)

\* The handler that died in the middle of its critical section holds the mutex
\* for good.
MutexFree == pc # "dead"

ThreadFree == Cardinality({s \in Socks : Handled(s)}) + wakers < PoolSize

\* malloc may give a new socket object an address only when no reference to the
\* old one is left: the lists hold copies of the socket.
AddressFree(s) ==
  /\ ~ Live(s)
  /\ s \notin sockList
  /\ pc \in {"select", "dead"} => s \notin snapshot
  /\ s \notin ready

-----------------------------------------------------------------------------
(* The accept thread.  It writes the byte before it releases the mutex.     *)

Accept(s) ==
  /\ MutexFree
  /\ AddressFree(s)
  /\ inner < MaxInner
  /\ sockMap' = sockMap \cup {s}
  /\ sockList' = sockList \cup {s}
  /\ inner' = inner + 1
  /\ readable' = readable \ {s}
  /\ UNCHANGED <<handlerVars, task, wakers>>

\* The peer sends something or ends the connection.
Arrive(s) ==
  /\ Live(s)
  /\ s \notin readable
  /\ readable' = readable \cup {s}
  /\ UNCHANGED <<mapVars, handlerVars, task, wakers, inner>>

-----------------------------------------------------------------------------
(* The handler thread.                                                      *)

Copy ==
  /\ pc = "copy"
  /\ snapshot' = sockList
  /\ pc' = "select"
  /\ UNCHANGED <<mapVars, ready, task, wakers, inner, readable>>

\* Mutant: the loop walks a copy of the list select has not reduced.
SelectedUnreduced == snapshot \cup (IF inner > 0 THEN {Inner} ELSE {})

Selected ==
  (snapshot \cap readable) \cup (IF inner > 0 THEN {Inner} ELSE {})

Select ==
  /\ pc = "select"
  /\ Selected # {}
  /\ ready' = Selected
  /\ pc' = "visit"
  /\ UNCHANGED <<mapVars, snapshot, task, wakers, inner, readable>>

SelectTimeout ==
  /\ pc = "select"
  /\ Selected = {}
  /\ pc' = "copy"
  /\ UNCHANGED <<mapVars, snapshot, ready, task, wakers, inner, readable>>

\* Mutant: a byte is read whether select found one or not.
VisitInnerAlways ==
  /\ pc = "visit"
  /\ inner' = inner - 1
  /\ ready' = ready \ {Inner}
  /\ UNCHANGED <<mapVars, pc, snapshot, task, wakers, readable>>

VisitInner ==
  /\ pc = "visit"
  /\ Inner \in ready
  /\ inner' = inner - 1
  /\ ready' = ready \ {Inner}
  /\ UNCHANGED <<mapVars, pc, snapshot, task, wakers, readable>>

\* Mutant: the connection stays in the map.
VisitKeepsEntry(s) ==
  /\ pc = "visit"
  /\ s \in ready \cap sockMap
  /\ ready' = ready \ {s}
  /\ sockList' = sockList \ {s}
  /\ ThreadFree
  /\ task' = [task EXCEPT ![s] = "receive"]
  /\ UNCHANGED <<sockMap, pc, snapshot, wakers, inner, readable>>

\* Take the connection out of the list and, when the map still has it, start a
\* task for it.  TaskManager::start throws when the pool has no thread left; the
\* exception ends the thread between lock and unlock.
Visit(s) ==
  /\ pc = "visit"
  /\ s \in ready
  /\ ready' = ready \ {s}
  /\ sockList' = sockList \ {s}
  /\ sockMap' = sockMap \ {s}
  /\ \/ /\ s \in sockMap
        /\ ThreadFree
        /\ task' = [task EXCEPT ![s] = "receive"]
        /\ UNCHANGED pc
     \/ /\ s \in sockMap
        /\ ~ ThreadFree
        /\ pc' = "dead"
        /\ UNCHANGED task
     \/ /\ s \notin sockMap
        /\ UNCHANGED <<pc, task>>
  /\ UNCHANGED <<snapshot, wakers, inner, readable>>

Visited ==
  /\ pc = "visit"
  /\ ready = {}
  /\ pc' = "copy"
  /\ UNCHANGED <<mapVars, snapshot, ready, task, wakers, inner, readable>>

-----------------------------------------------------------------------------
(* A task: receive and handle one message, then handleTaskFinish on the     *)
(* same thread.                                                             *)

\* Everything there is to read is read; an end or an error closes.
Receive(s) ==
  /\ task[s] = "receive"
  /\ \E outcome \in {"keep", "close"} : task' = [task EXCEPT ![s] = outcome]
  /\ readable' = readable \ {s}
  /\ UNCHANGED <<mapVars, handlerVars, wakers, inner>>

\* Mutant: the handler is not woken.
FinishKeepNoWakeup(s) ==
  /\ task[s] = "keep" /\ MutexFree
  /\ sockList' = sockList \cup {s}
  /\ sockMap' = sockMap \cup {s}
  /\ task' = [task EXCEPT ![s] = "none"]
  /\ UNCHANGED <<handlerVars, wakers, inner, readable>>

FinishKeep(s) ==
  /\ task[s] = "keep"
  /\ MutexFree
  /\ wakers < MaxWakers
  /\ sockList' = sockList \cup {s}
  /\ sockMap' = sockMap \cup {s}
  /\ task' = [task EXCEPT ![s] = "none"]
  /\ wakers' = wakers + 1
  /\ UNCHANGED <<handlerVars, inner, readable>>

\* writeInnerSocket, after the mutex is released.
Wake ==
  /\ wakers > 0
  /\ inner < MaxInner
  /\ inner' = inner + 1
  /\ wakers' = wakers - 1
  /\ UNCHANGED <<mapVars, handlerVars, task, readable>>

FinishClose(s) ==
  /\ task[s] = "close"
  /\ task' = [task EXCEPT ![s] = "none"]
  /\ readable' = readable \ {s}
  /\ UNCHANGED <<mapVars, handlerVars, wakers, inner>>

-----------------------------------------------------------------------------

\* handleOffline: the scan of the device manager has a connection closed.  A
\* connection a task is handling is not in the map and stays open.
HandleOffline(s) ==
  /\ MutexFree
  /\ s \in sockMap
  /\ sockList' = sockList \ {s}
  /\ sockMap' = sockMap \ {s}
  /\ readable' = readable \ {s}
  /\ UNCHANGED <<handlerVars, task, wakers, inner>>

-----------------------------------------------------------------------------

Handler ==
  Copy \/ Select \/ SelectTimeout \/ VisitInner \/ Visited \/ \E s \in Socks : Visit(s)

Task(s) == Receive(s) \/ FinishKeep(s) \/ FinishClose(s)

Next ==
  \/ Handler
  \/ Wake
  \/ \E s \in Socks : Accept(s) \/ Arrive(s) \/ Task(s) \/ HandleOffline(s)

Spec == Init /\ [][Next]_vars

\* Threads the scheduler runs: the handler, whose select is not counted on to
\* time out, and the tasks.  Peers and the scan owe nothing.
Fairness ==
  /\ WF_vars(Copy) /\ WF_vars(Select) /\ WF_vars(VisitInner) /\ WF_vars(Visited)
  /\ WF_vars(Wake)
  /\ \A s \in Socks : WF_vars(Visit(s)) /\ WF_vars(Task(s))

FairSpec == Spec /\ Fairness

-----------------------------------------------------------------------------
(* Properties. *)

\* A connection has one owner: the map, or one task.  Two tasks on one socket
\* would interleave their reads; a task's connection in the map would be
\* handed out a second time or closed under it.
OneOwner == \A s \in sockMap : ~ Handled(s)

\* No wake-up is missed: while the handler waits in select without a connection
\* that is in the list by now, a byte is in the inner socket or on its way.
NoMissedWakeup ==
  pc = "select" /\ ~ (sockList \subseteq snapshot) => inner > 0 \/ wakers > 0

\* The abstract connection of each address.  A connection without an owner whose
\* peer's data was never read is the one the handler died on.
ConnState(s) ==
  IF s \in sockMap THEN "listed"
  ELSE IF Handled(s) THEN "handled"
  ELSE IF s \in readable THEN "lost"
  ELSE "free"

Conn == INSTANCE Connections
          WITH conn <- [s \in Socks |-> ConnState(s)], waiting <- readable

\* The threads together implement the abstract connections.
Implements == Conn!ConnSpec

\* ... and what a peer sends is handled, with threads enough in the pool.
ImplementsFairly == Conn!ConnFairSpec
=============================================================================
