-------------------------- MODULE DoorControl_proofs --------------------------
(***************************************************************************)
(* What the run of MCDoorControl checks for three requests, proved for any *)
(* number of requests and users, any clock and any time zone.              *)
(***************************************************************************)
EXTENDS DoorControl, TLAPS

USE DayAssumption, KeepAssumption

-----------------------------------------------------------------------------
(* Type correctness. *)

LEMMA InitTypeOK == Init => DoorTypeOK
  <1>1. OpInit => OpTypeOK
    BY DEF OpInit, OpTypeOK
  <1>2. [pc |-> "idle"] \in Task
    BY DEF Task
  <1>3. QED
    BY <1>1, <1>2 DEF Init, DoorTypeOK

LEMMA BecomeTyped ==
  ASSUME DoorTypeOK, NEW r \in Requests, NEW t \in Task, Become(r, t)
  PROVE  /\ task' \in [Requests -> Task]
         /\ task'[r] = t
         /\ \A q \in Requests \ {r} : task'[q] = task[q]
  BY DEF DoorTypeOK, Become

LEMMA FinishTyped ==
  ASSUME DoorTypeOK, NEW r \in Requests, Finish(r)
  PROVE  task' \in [Requests -> Task]
  <1>1. [pc |-> "done"] \in Task
    BY DEF Task
  <1>2. QED
    BY <1>1, BecomeTyped DEF Finish

\* What a thread knows, by the place it is at.
LEMMA TaskAt ==
  ASSUME DoorTypeOK, NEW r \in Requests
  PROVE  /\ task[r].pc \in {"check", "quota", "mode", "move", "set"} =>
              task[r] \in [pc : {"check", "quota", "mode", "move", "set"},
                           op : {"open", "close"}, caller : Callers]
         /\ task[r].pc = "record" =>
              task[r] \in [pc : {"record"}, op : {"open", "close"}, caller : Callers,
                           timestamp : Stamps]
         /\ task[r].pc \in {"authority", "change", "read"} =>
              task[r] \in [pc : {"authority", "change", "read"}, op : {"mode"},
                           caller : Users, mode : Modes]
         /\ task[r].pc = "save" => task[r] \in [pc : {"save"}, op : {"mode"}, mode : Modes]
         /\ task[r].pc \in {"restore", "erase"} =>
              task[r] \in [pc : {"restore", "erase"}, op : {"reset"}]
         /\ task[r].pc \in {"flush", "select"} =>
              task[r] \in [pc : {"flush", "select"}, op : {"get"},
                           wanted : SUBSET OperationRecordNode]
  BY DEF DoorTypeOK, Task

LEMMA GotoTyped ==
  ASSUME DoorTypeOK, NEW r \in Requests, NEW pc, Goto(r, pc),
         \/ /\ task[r].pc \in {"check", "quota", "mode", "move", "set"}
            /\ pc \in {"check", "quota", "mode", "move", "set"}
         \/ task[r].pc \in {"authority", "change", "read"} /\ pc \in {"authority", "change", "read"}
         \/ task[r].pc \in {"restore", "erase"} /\ pc \in {"restore", "erase"}
         \/ task[r].pc \in {"flush", "select"} /\ pc \in {"flush", "select"}
  PROVE  task' \in [Requests -> Task]
  <1>1. [task[r] EXCEPT !.pc = pc] \in Task
    BY TaskAt DEF Task
  <1>2. QED
    BY <1>1, BecomeTyped DEF Goto

LEMMA CachedTyped == OpTypeOK => Cached \subseteq OperationRecordNode
  BY DEF OpTypeOK, Cached

LEMMA WriteTyped ==
  ASSUME OpTypeOK, WriteAllRecords
  PROVE  /\ cache' \in Seq(OperationRecordNode)
         /\ db' \subseteq OperationRecordNode
         /\ lost' \subseteq OperationRecordNode
  <1>1. PICK n \in 0..Len(cache) : Insert(n) /\ cache' = <<>>
    BY DEF WriteAllRecords
  <1>2. \A i \in 1..Len(cache) : cache[i] \in OperationRecordNode
    BY DEF OpTypeOK
  <1>3. QED
    BY <1>1, <1>2 DEF OpTypeOK, Insert

LEMMA StepTypeOK ==
  ASSUME DoorTypeOK, [Next]_vars
  PROVE  DoorTypeOK'
  <1>1. CASE UNCHANGED vars
    BY <1>1 DEF DoorTypeOK, OpTypeOK, vars, opVars, doorVars, modeVars
  <1>2. ASSUME NEW r \in Requests, Begin(r)
        PROVE  DoorTypeOK'
    <2>1. task' \in [Requests -> Task]
      <3>1. CASE \E op \in {"open", "close"}, c \in Callers :
                    Become(r, [pc |-> "check", op |-> op, caller |-> c])
        <4>1. PICK op \in {"open", "close"}, c \in Callers :
                     Become(r, [pc |-> "check", op |-> op, caller |-> c])
          BY <3>1
        <4>2. [pc |-> "check", op |-> op, caller |-> c] \in Task
          BY DEF Task
        <4>3. QED
          BY <4>1, <4>2, BecomeTyped
      <3>2. CASE \E c \in Users, m \in Modes :
                    Become(r, [pc |-> "authority", op |-> "mode", caller |-> c, mode |-> m])
        <4>1. PICK c \in Users, m \in Modes :
                     Become(r, [pc |-> "authority", op |-> "mode", caller |-> c, mode |-> m])
          BY <3>2
        <4>2. [pc |-> "authority", op |-> "mode", caller |-> c, mode |-> m] \in Task
          BY DEF Task
        <4>3. QED
          BY <4>1, <4>2, BecomeTyped
      <3>3. CASE Become(r, [pc |-> "flush", op |-> "get", wanted |-> Cached \cup db])
        <4>1. [pc |-> "flush", op |-> "get", wanted |-> Cached \cup db] \in Task
          BY CachedTyped DEF Task, DoorTypeOK, OpTypeOK
        <4>2. QED
          BY <3>3, <4>1, BecomeTyped
      <3>4. CASE Become(r, [pc |-> "restore", op |-> "reset"])
        <4>1. [pc |-> "restore", op |-> "reset"] \in Task
          BY DEF Task
        <4>2. QED
          BY <3>4, <4>1, BecomeTyped
      <3>5. QED
        BY <1>2, <3>1, <3>2, <3>3, <3>4 DEF Begin
    <2>2. QED
      BY <1>2, <2>1 DEF Begin, DoorTypeOK, OpTypeOK, opVars, doorVars, modeVars
  <1>3. ASSUME NEW r \in Requests, Check(r)
        PROVE  DoorTypeOK'
    <2>1. task' \in [Requests -> Task]
      BY <1>3, FinishTyped, GotoTyped DEF Check, At
    <2>2. raced' \subseteq {"open", "close", "mode"}
      BY <1>3, TaskAt DEF Check, At, Race, DoorTypeOK
    <2>3. QED
      BY <1>3, <2>1, <2>2 DEF Check, DoorTypeOK, OpTypeOK, opVars, doorVars, modeVars
  <1>4. ASSUME NEW r \in Requests, Quota(r)
        PROVE  DoorTypeOK'
    <2>1. task' \in [Requests -> Task]
      BY <1>4, FinishTyped, GotoTyped DEF Quota, At
    <2>2. QED
      BY <1>4, <2>1 DEF Quota, DoorTypeOK, OpTypeOK, opVars, doorVars, modeVars
  <1>5. ASSUME NEW r \in Requests, CheckMode(r)
        PROVE  DoorTypeOK'
    <2>1. task' \in [Requests -> Task]
      BY <1>5, FinishTyped, GotoTyped DEF CheckMode, At
    <2>2. QED
      BY <1>5, <2>1 DEF CheckMode, DoorTypeOK, OpTypeOK, opVars, doorVars, modeVars
  <1>6. ASSUME NEW r \in Requests, Move(r)
        PROVE  DoorTypeOK'
    <2>1. task' \in [Requests -> Task]
      BY <1>6, GotoTyped DEF Move, At
    <2>2. QED
      BY <1>6, <2>1 DEF Move, DoorTypeOK, OpTypeOK, opVars, modeVars
  <1>7. ASSUME NEW r \in Requests, Set(r)
        PROVE  DoorTypeOK'
    <2>1. [pc |-> "record", op |-> task[r].op, caller |-> task[r].caller,
           timestamp |-> now + Zone] \in Task
      BY <1>7, TaskAt DEF Set, At, Task, DoorTypeOK, OpTypeOK, Stamps
    <2>2. task' \in [Requests -> Task]
      BY <1>7, <2>1, BecomeTyped DEF Set
    <2>3. QED
      BY <1>7, <2>2 DEF Set, DoorTypeOK, OpTypeOK, opVars, modeVars
  <1>8. ASSUME NEW r \in Requests, Record(r)
        PROVE  DoorTypeOK'
    <2>1. task' \in [Requests -> Task]
      BY <1>8, FinishTyped DEF Record
    <2>2. [timestamp |-> task[r].timestamp, by |-> r] \in OperationRecordNode
      BY <1>8, TaskAt DEF Record, At, OperationRecordNode
    <2>3. OpTypeOK'
      BY <1>8, <2>2 DEF Record, AddRecord, DoorTypeOK, OpTypeOK
    <2>4. QED
      BY <1>8, <2>1, <2>3 DEF Record, DoorTypeOK, doorVars, modeVars
  <1>9. ASSUME NEW r \in Requests, Authority(r)
        PROVE  DoorTypeOK'
    <2>1. task' \in [Requests -> Task]
      BY <1>9, FinishTyped, GotoTyped DEF Authority, At
    <2>2. QED
      BY <1>9, <2>1 DEF Authority, DoorTypeOK, OpTypeOK, opVars, doorVars, modeVars
  <1>10. ASSUME NEW r \in Requests, Change(r)
         PROVE  DoorTypeOK'
    <2>1. task' \in [Requests -> Task]
      BY <1>10, FinishTyped, GotoTyped DEF Change, At
    <2>2. mode' \in Modes /\ raced' \subseteq {"open", "close", "mode"} /\ lax' \subseteq Requests
      <3>1. task[r].op = "mode" /\ task[r].mode \in Modes
        BY <1>10, TaskAt DEF Change, At
      <3>2. raced' \in {raced, raced \cup {"mode"}}
        BY <1>10, <3>1 DEF Change, Race
      <3>3. mode' \in {mode, task[r].mode} /\ lax' \in {lax, Requests}
        BY <1>10 DEF Change
      <3>4. QED
        BY <3>1, <3>2, <3>3 DEF DoorTypeOK
    <2>3. QED
      BY <1>10, <2>1, <2>2 DEF Change, DoorTypeOK, OpTypeOK, opVars, doorVars
  <1>11. ASSUME NEW r \in Requests, Read(r)
         PROVE  DoorTypeOK'
    <2>1. [pc |-> "save", op |-> "mode", mode |-> mode] \in Task
      BY DEF Task, DoorTypeOK
    <2>2. task' \in [Requests -> Task]
      BY <1>11, <2>1, BecomeTyped DEF Read
    <2>3. QED
      BY <1>11, <2>2 DEF Read, DoorTypeOK, OpTypeOK, opVars, doorVars, modeVars
  <1>12. ASSUME NEW r \in Requests, Save(r)
         PROVE  DoorTypeOK'
    <2>1. task' \in [Requests -> Task]
      BY <1>12, FinishTyped DEF Save
    <2>2. config' \in Modes
      BY <1>12, TaskAt DEF Save, At
    <2>3. QED
      BY <1>12, <2>1, <2>2 DEF Save, DoorTypeOK, OpTypeOK, opVars, doorVars
  <1>13. ASSUME NEW r \in Requests, Flush(r)
         PROVE  DoorTypeOK'
    <2>1. task' \in [Requests -> Task]
      BY <1>13, FinishTyped, GotoTyped DEF Flush, At
    <2>2. OpTypeOK'
      BY <1>13, WriteTyped DEF Flush, DoorTypeOK, OpTypeOK
    <2>3. QED
      BY <1>13, <2>1, <2>2 DEF Flush, DoorTypeOK, doorVars, modeVars
  <1>14. ASSUME NEW r \in Requests, Select(r)
         PROVE  DoorTypeOK'
    <2>1. task' \in [Requests -> Task]
      BY <1>14, FinishTyped DEF Select
    <2>2. QED
      BY <1>14, <2>1 DEF Select, DoorTypeOK, OpTypeOK, opVars, doorVars, modeVars
  <1>15. ASSUME Log, UNCHANGED <<doorVars, modeVars, task, raced, lax>>
         PROVE  DoorTypeOK'
    <2>1. OpTypeOK'
      <3>1. CASE TimerWrite
        BY <3>1, WriteTyped DEF TimerWrite, DoorTypeOK, OpTypeOK
      <3>2. CASE TimerClean
        BY <3>2 DEF TimerClean, DoorTypeOK, OpTypeOK
      <3>3. CASE SystemWillReboot
        BY <3>3, WriteTyped DEF SystemWillReboot, DoorTypeOK, OpTypeOK
      <3>4. CASE Tick
        BY <3>4 DEF Tick, DoorTypeOK, OpTypeOK
      <3>5. QED
        BY <1>15, <3>1, <3>2, <3>3, <3>4 DEF Log, Timer
    <2>2. QED
      BY <1>15, <2>1 DEF DoorTypeOK, doorVars, modeVars
  <1>16. CASE Restart
    <2>1. [pc |-> "cut"] \in Task
      BY DEF Task
    <2>2. task' \in [Requests -> Task]
      BY <1>16, <2>1 DEF Restart, DoorTypeOK
    <2>3. OpTypeOK'
      BY <1>16, CachedTyped DEF Restart, OpRestart, DoorTypeOK, OpTypeOK
    <2>4. QED
      BY <1>16, <2>2, <2>3 DEF Restart, OpenDevice, DoorTypeOK
  <1>17. ASSUME NEW r \in Requests, Restore(r)
         PROVE  DoorTypeOK'
    <2>1. task' \in [Requests -> Task]
      BY <1>17, FinishTyped, GotoTyped DEF Restore, At
    <2>2. config' \in Modes /\ restored' \in BOOLEAN
      BY <1>17, FactoryAssumption DEF Restore, DoorTypeOK
    <2>3. QED
      BY <1>17, <2>1, <2>2 DEF Restore, DoorTypeOK, OpTypeOK, opVars, doorVars
  <1>18. ASSUME NEW r \in Requests, Erase(r)
         PROVE  DoorTypeOK'
    <2>1. task' \in [Requests -> Task]
      BY <1>18, FinishTyped DEF Erase
    <2>2. OpTypeOK'
      BY <1>18 DEF Erase, ResetOpRecord, DoorTypeOK, OpTypeOK, opVars
    <2>3. QED
      BY <1>18, <2>1, <2>2 DEF Erase, DoorTypeOK, doorVars, modeVars
  <1>19. QED
    BY <1>1, <1>2, <1>3, <1>4, <1>5, <1>6, <1>7, <1>8, <1>9, <1>10, <1>11, <1>12,
       <1>13, <1>14, <1>15, <1>16, <1>17, <1>18 DEF Next, Handle

\* The controller's state and the log's keep their types.
THEOREM TypeCorrect == Spec => []DoorTypeOK
  <1>1. DoorTypeOK /\ [Next]_vars => DoorTypeOK'
    BY StepTypeOK
  <1>2. QED
    BY InitTypeOK, <1>1, PTL DEF Spec

-----------------------------------------------------------------------------
(* Where a step leaves the threads.                                         *)

\* A thread's step leaves the others where they are.
LEMMA OthersStay ==
  ASSUME DoorTypeOK, NEW r \in Requests, Begin(r) \/ Handle(r)
  PROVE  \A q \in Requests \ {r} : task'[q] = task[q]
  BY DEF DoorTypeOK, Begin, Handle, Check, Quota, CheckMode, Move, Set, Record, Authority,
         Change, Read, Save, Restore, Erase, Flush, Select, Goto, Finish, Become

LEMMA RestartStops ==
  ASSUME DoorTypeOK, Restart
  PROVE  \A r \in Requests : task'[r].pc \in {"idle", "done", "cut"}
  BY DEF Restart, DoorTypeOK

-----------------------------------------------------------------------------
(* The relay and the flag.  As long as no two threads do the same, there is *)
(* one mover at most: a second one would have to do the opposite, and would *)
(* not get past Check before the first has set the flag.                    *)

Clean == fd = "ok" /\ "open" \notin raced /\ "close" \notin raced

SwitchInv ==
  Clean =>
    /\ \A r \in Requests : task[r].pc \in Moving => doorOpen = (task[r].op # "open")
    /\ \A q, r \in Requests : task[q].pc \in Moving /\ task[r].pc \in Moving => q = r
    /\ \A r \in Requests : At(r, "set") => relay = (task[r].op = "open")
    /\ (\A r \in Requests : ~ At(r, "set")) => relay = doorOpen

LEMMA SwitchStep ==
  ASSUME DoorTypeOK, SwitchInv, [Next]_vars
  PROVE  SwitchInv'
  <1> USE DEF Moving, At
  <1>1. CASE UNCHANGED <<doorVars, task, raced>>
    BY <1>1 DEF SwitchInv, Clean, doorVars
  \* The threads that move the door stay where they are.
  <1>2. ASSUME NEW r \in Requests, \A q \in Requests \ {r} : task'[q] = task[q],
               UNCHANGED doorVars, raced \subseteq raced',
               task[r].pc \notin Moving, task'[r].pc \notin Moving
        PROVE  SwitchInv'
    BY <1>2 DEF SwitchInv, Clean, doorVars
  <1>3. ASSUME NEW r \in Requests, Begin(r)
        PROVE  SwitchInv'
    <2>1. task[r].pc = "idle" /\ task'[r].pc \in {"check", "authority", "restore", "flush"}
      BY <1>3 DEF Begin, Become, DoorTypeOK
    <2>2. QED
      BY <1>2, <1>3, <2>1, OthersStay DEF Begin
  <1>4. ASSUME NEW r \in Requests, Check(r)
        PROVE  SwitchInv'
    <2>1. task[r].pc = "check" /\ task[r].op \in {"open", "close"}
      BY <1>4, TaskAt DEF Check
    <2>2. \A q \in Requests \ {r} : task'[q] = task[q]
      BY <1>4, OthersStay DEF Handle
    <2>3. CASE doorOpen = (task[r].op = "open")
      <3>1. task'[r].pc = "done" /\ raced' = raced
        BY <1>4, <2>3 DEF Check, Finish, Become, DoorTypeOK
      <3>2. QED
        BY <1>2, <1>4, <2>1, <2>2, <3>1 DEF Check
    <2>4. CASE doorOpen # (task[r].op = "open")
      <3>1. task'[r].pc \in {"move", "quota", "mode"} /\ task'[r].op = task[r].op
        BY <1>4, <2>4, <2>1, TaskAt DEF Check, Goto, Become, DoorTypeOK
      <3>2. Race(r, Moving)
        BY <1>4, <2>4 DEF Check
      <3>3. doorOpen' = doorOpen /\ relay' = relay /\ fd' = fd
        BY <1>4 DEF Check, doorVars
      <3>4. doorOpen = (task[r].op # "open")
        BY <2>4 DEF DoorTypeOK
      <3>5. ASSUME Clean'
            PROVE  Clean /\ \A q \in Requests \ {r} : task[q].pc \notin Moving
        <4>1. Clean
          BY <3>2, <3>3, <3>5 DEF Race, Clean
        <4>2. ASSUME NEW q \in Requests \ {r}, task[q].pc \in Moving
              PROVE  FALSE
          <5>1. doorOpen = (task[q].op # "open") /\ task[q].op \in {"open", "close"}
            BY <4>1, <4>2, TaskAt DEF SwitchInv
          <5>2. task[q].op = task[r].op
            BY <2>1, <3>4, <5>1
          <5>3. task[r].op \in raced'
            BY <3>2, <4>2, <5>2 DEF Race
          <5>4. QED
            BY <2>1, <3>5, <5>3 DEF Clean
        <4>3. QED
          BY <4>1, <4>2
      <3>6. QED
        BY <2>1, <2>2, <3>1, <3>3, <3>4, <3>5 DEF SwitchInv
    <2>5. QED
      BY <2>3, <2>4
  <1>5. ASSUME NEW r \in Requests, Quota(r) \/ CheckMode(r)
        PROVE  SwitchInv'
    <2>1. \A q \in Requests \ {r} : task'[q] = task[q]
      BY <1>5, OthersStay DEF Handle
    <2>2. task[r].pc \in {"quota", "mode"}
      BY <1>5 DEF Quota, CheckMode
    <2>3. \/ task'[r].pc \in {"mode", "move"} /\ task'[r].op = task[r].op
          \/ task'[r].pc = "done"
      BY <1>5, <2>2, TaskAt DEF Quota, CheckMode, Goto, Finish, Become, DoorTypeOK
    <2>4. UNCHANGED <<doorVars, raced>>
      BY <1>5 DEF Quota, CheckMode
    <2>5. QED
      BY <2>1, <2>2, <2>3, <2>4 DEF SwitchInv, Clean, doorVars
  <1>6. ASSUME NEW r \in Requests, Move(r)
        PROVE  SwitchInv'
    <2>1. \A q \in Requests \ {r} : task'[q] = task[q]
      BY <1>6, OthersStay DEF Handle
    <2>2. task[r].pc = "move" /\ task'[r].pc = "set" /\ task'[r].op = task[r].op
      BY <1>6, TaskAt DEF Move, Goto, Become, DoorTypeOK
    <2>3. Clean' => Clean /\ relay' = (task[r].op = "open") /\ doorOpen' = doorOpen
      BY <1>6 DEF Move, Clean
    <2>4. QED
      BY <2>1, <2>2, <2>3 DEF SwitchInv
  <1>7. ASSUME NEW r \in Requests, Set(r)
        PROVE  SwitchInv'
    <2>1. \A q \in Requests \ {r} : task'[q] = task[q]
      BY <1>7, OthersStay DEF Handle
    <2>2. task[r].pc = "set" /\ task'[r].pc = "record"
      BY <1>7 DEF Set, Become, DoorTypeOK
    <2>3. doorOpen' = (task[r].op = "open") /\ relay' = relay /\ (Clean' => Clean)
      BY <1>7 DEF Set, Clean
    <2>4. QED
      BY <2>1, <2>2, <2>3 DEF SwitchInv
  <1>8. ASSUME NEW r \in Requests,
               \/ Record(r) \/ Authority(r) \/ Change(r) \/ Read(r) \/ Save(r)
               \/ Restore(r) \/ Erase(r) \/ Flush(r) \/ Select(r)
        PROVE  SwitchInv'
    <2>1. \A q \in Requests \ {r} : task'[q] = task[q]
      BY <1>8, OthersStay DEF Handle
    <2>2. task[r].pc \notin Moving /\ task'[r].pc \notin Moving
      BY <1>8, TaskAt DEF Record, Authority, Change, Read, Save, Restore, Erase, Flush, Select,
                          Goto, Finish, Become, DoorTypeOK
    <2>3. UNCHANGED doorVars /\ raced \subseteq raced'
      BY <1>8 DEF Record, Authority, Change, Race, Read, Save, Restore, Erase, Flush, Select
    <2>4. QED
      BY <1>2, <2>1, <2>2, <2>3
  <1>9. CASE Restart
    <2>1. Clean' => relay' = FALSE /\ doorOpen' = FALSE
      BY <1>9 DEF Restart, OpenDevice, Clean
    <2>2. QED
      BY <1>9, <2>1, RestartStops DEF SwitchInv
  <1>10. QED
    BY <1>1, <1>3, <1>4, <1>5, <1>6, <1>7, <1>8, <1>9 DEF Next, Handle, vars

\* For any number of threads: the relay is where m_door_open says, when no thread
\* is between the ioctl and the assignment, unless two threads did the same at
\* once.
THEOREM SwitchTold == Spec => []SwitchAgrees
  <1>1. Init => SwitchInv
    <2> SUFFICES ASSUME Init PROVE SwitchInv
      OBVIOUS
    <2>1. \A r \in Requests : task[r].pc = "idle"
      BY DEF Init
    <2>2. relay = doorOpen
      BY DEF Init
    <2>3. QED
      BY <2>1, <2>2 DEF SwitchInv, Moving, At
  <1>2. DoorTypeOK /\ SwitchInv /\ [Next]_vars => SwitchInv'
    BY SwitchStep
  <1>3. SwitchInv => SwitchAgrees
    BY DEF SwitchInv, SwitchAgrees, Clean
  <1>4. QED
    BY TypeCorrect, <1>1, <1>2, <1>3, PTL DEF Spec

-----------------------------------------------------------------------------
(* The mode. *)

\* Whoever is handling a request while anyone may move the door has been seen.
LaxInv ==
  /\ \A r \in Requests :
       ~ AdminMode /\ task[r].pc \notin {"idle", "done", "cut"} => r \in lax
  /\ AdminModeHolds

LEMMA LaxStep ==
  ASSUME DoorTypeOK, LaxInv, [Next]_vars
  PROVE  LaxInv'
  <1>1. CASE UNCHANGED <<mode, task, lax>>
    BY <1>1 DEF LaxInv, AdminModeHolds, AdminMode, At
  \* Nobody gets to move the door, and the mode stays.
  <1>2. ASSUME NEW r \in Requests, Begin(r) \/ Handle(r),
               mode' = mode, lax \ {r} \subseteq lax',
               IF task[r].pc = "idle" THEN ~ AdminMode => r \in lax' ELSE lax \subseteq lax',
               task'[r].pc \notin {"idle", "move"}
        PROVE  LaxInv'
    <2>1. \A q \in Requests \ {r} : task'[q] = task[q]
      BY <1>2, OthersStay
    <2>2. ASSUME NEW q \in Requests, ~ AdminMode', task'[q].pc \notin {"idle", "done", "cut"}
          PROVE  q \in lax'
      <3>1. ~ AdminMode
        BY <1>2, <2>2 DEF AdminMode
      <3>2. CASE q = r
        <4>1. task[r].pc \notin {"done", "cut"}
          BY <1>2 DEF Begin, Handle, At, Check, Quota, CheckMode, Move, Set, Record, Authority,
                      Change, Read, Save, Restore, Erase, Flush, Select
        <4>2. QED
          BY <1>2, <3>1, <3>2, <4>1 DEF LaxInv
      <3>3. CASE q # r
        BY <1>2, <2>1, <2>2, <3>1, <3>3 DEF LaxInv
      <3>4. QED
        BY <3>2, <3>3
    <2>3. AdminModeHolds'
      BY <1>2, <2>1 DEF LaxInv, AdminModeHolds, At
    <2>4. QED
      BY <2>2, <2>3 DEF LaxInv
  <1>3. ASSUME NEW r \in Requests, Begin(r)
        PROVE  LaxInv'
    <2>1. task[r].pc = "idle" /\ task'[r].pc \in {"check", "authority", "restore", "flush"}
      BY <1>3 DEF Begin, At, Become, DoorTypeOK
    <2>2. mode' = mode /\ lax \ {r} \subseteq lax' /\ (~ AdminMode => r \in lax')
      BY <1>3 DEF Begin, modeVars
    <2>3. QED
      BY <1>2, <1>3, <2>1, <2>2
  <1>4. ASSUME NEW r \in Requests, Check(r)
        PROVE  LaxInv'
    <2>1. task[r].pc = "check" /\ mode' = mode /\ lax' = lax
      BY <1>4 DEF Check, At, modeVars
    <2>2. CASE task'[r].pc # "move"
      <3>1. task'[r].pc \in {"done", "quota", "mode"}
        BY <1>4, <2>2, TaskAt DEF Check, At, Goto, Finish, Become, DoorTypeOK
      <3>2. QED
        BY <1>2, <1>4, <2>1, <3>1 DEF Handle
    <2>3. CASE task'[r].pc = "move"
      <3>1. task'[r].caller = Schedule
        BY <1>4, <2>3, TaskAt DEF Check, At, Goto, Finish, Become, DoorTypeOK
      <3>2. QED
        BY <1>4, <2>1, <2>3, <3>1, OthersStay DEF Handle, LaxInv, AdminModeHolds, AdminMode, At
    <2>4. QED
      BY <2>2, <2>3
  <1>5. ASSUME NEW r \in Requests, CheckMode(r)
        PROVE  LaxInv'
    <2>1. task[r].pc = "mode" /\ mode' = mode /\ lax' = lax
      BY <1>5 DEF CheckMode, At, modeVars
    <2>2. CASE Finish(r)
      <3>1. task'[r].pc = "done"
        BY <2>2 DEF Finish, Become, DoorTypeOK
      <3>2. QED
        BY <1>2, <1>5, <2>1, <3>1 DEF Handle
    <2>3. CASE Goto(r, "move") /\ (AdminMode => task[r].caller \in Admins)
      <3>1. task'[r].pc = "move" /\ task'[r].caller = task[r].caller
        BY <2>1, <2>3, TaskAt DEF Goto, Become, DoorTypeOK
      <3>2. QED
        BY <1>5, <2>1, <2>3, <3>1, OthersStay DEF Handle, LaxInv, AdminModeHolds, AdminMode, At
    <2>4. QED
      BY <1>5, <2>2, <2>3 DEF CheckMode
  <1>6. ASSUME NEW r \in Requests, Change(r)
        PROVE  LaxInv'
    <2>1. task[r].pc = "change" /\ task'[r].pc \in {"done", "read"}
      BY <1>6, TaskAt DEF Change, At, Goto, Finish, Become, DoorTypeOK
    <2>2. CASE mode' = mode /\ lax' = lax
      BY <1>2, <1>6, <2>1, <2>2 DEF Handle
    <2>3. CASE AdminMode' /\ lax' = lax
      BY <1>6, <2>1, <2>3, OthersStay DEF Handle, LaxInv, AdminModeHolds, At
    <2>4. CASE lax' = Requests
      BY <2>4 DEF LaxInv, AdminModeHolds
    <2>5. QED
      BY <1>6, <2>2, <2>3, <2>4 DEF Change
  <1>7. ASSUME NEW r \in Requests,
               \/ Quota(r) \/ Move(r) \/ Set(r) \/ Record(r) \/ Authority(r)
               \/ Read(r) \/ Save(r) \/ Restore(r) \/ Erase(r) \/ Flush(r) \/ Select(r)
        PROVE  LaxInv'
    <2>1. task[r].pc # "idle" /\ task'[r].pc \notin {"idle", "move"}
      BY <1>7, TaskAt DEF Quota, Move, Set, Record, Authority, Read, Save, Restore, Erase, Flush,
                          Select, At, Goto, Finish, Become, DoorTypeOK
    <2>2. mode' = mode /\ lax' = lax
      BY <1>7 DEF Quota, Move, Set, Record, Authority, Read, Save, Restore, Erase, Flush, Select,
                  modeVars
    <2>3. QED
      BY <1>2, <1>7, <2>1, <2>2 DEF Handle
  <1>8. CASE Restart
    BY <1>8, RestartStops DEF Restart, LaxInv, AdminModeHolds, At
  <1>9. QED
    BY <1>1, <1>3, <1>4, <1>5, <1>6, <1>7, <1>8 DEF Next, Handle, vars, modeVars

\* For any number of threads: in administrator mode, a user without the authority
\* moves the door only if he began before the mode was set.
THEOREM ModeHolds == Spec => []AdminModeHolds
  <1>1. Init => LaxInv
    BY DEF Init, LaxInv, AdminModeHolds, At
  <1>2. DoorTypeOK /\ LaxInv /\ [Next]_vars => LaxInv'
    BY LaxStep
  <1>3. LaxInv => AdminModeHolds
    BY DEF LaxInv
  <1>4. QED
    BY TypeCorrect, <1>1, <1>2, <1>3, PTL DEF Spec

Saving == {"read", "save"}

\* Unless two threads change the mode at once, the one that does has the mode it
\* will save, and the file is right when there is none and no reset has come in.
ModeInv ==
  "mode" \notin raced =>
    /\ \A q, r \in Requests : task[q].pc \in Saving /\ task[r].pc \in Saving => q = r
    /\ \A r \in Requests : At(r, "save") => task[r].mode = mode
    /\ (\A r \in Requests : task[r].pc \notin Saving) /\ ~ restored => config = mode

LEMMA ModeStep ==
  ASSUME DoorTypeOK, ModeInv, [Next]_vars
  PROVE  ModeInv'
  <1> USE DEF Saving, At
  <1>1. CASE UNCHANGED <<modeVars, task, raced>>
    BY <1>1 DEF ModeInv, modeVars
  <1>2. ASSUME NEW r \in Requests, Begin(r) \/ Handle(r), UNCHANGED modeVars,
               raced \subseteq raced',
               task[r].pc \notin Saving, task'[r].pc \notin Saving
        PROVE  ModeInv'
    BY <1>2, OthersStay DEF ModeInv, modeVars
  <1>3. ASSUME NEW r \in Requests, Begin(r)
        PROVE  ModeInv'
    <2>1. task[r].pc = "idle" /\ task'[r].pc \in {"check", "authority", "restore", "flush"}
      BY <1>3 DEF Begin, Become, DoorTypeOK
    <2>2. QED
      BY <1>2, <1>3, <2>1 DEF Begin
  <1>4. ASSUME NEW r \in Requests, Change(r)
        PROVE  ModeInv'
    <2>1. task[r].pc = "change" /\ task[r].op = "mode"
      BY <1>4, TaskAt DEF Change
    <2>2. CASE mode = task[r].mode
      <3>1. task'[r].pc = "done" /\ UNCHANGED modeVars /\ raced' = raced
        BY <1>4, <2>2 DEF Change, Finish, Become, DoorTypeOK, modeVars
      <3>2. QED
        BY <1>2, <1>4, <2>1, <3>1 DEF Handle
    <2>3. CASE mode # task[r].mode
      <3>1. task'[r].pc = "read" /\ Race(r, Saving)
        BY <1>4, <2>1, <2>3, TaskAt DEF Change, Goto, Become, DoorTypeOK
      <3>2. ASSUME "mode" \notin raced'
            PROVE  "mode" \notin raced /\ \A q \in Requests \ {r} : task[q].pc \notin Saving
        <4>1. \A q \in Requests : task[q].pc \in Saving => task[q].op = "mode"
          BY TaskAt
        <4>2. QED
          BY <2>1, <3>1, <3>2, <4>1 DEF Race
      <3>3. QED
        BY <1>4, <3>1, <3>2, OthersStay DEF Handle, ModeInv
    <2>4. QED
      BY <2>2, <2>3
  <1>5. ASSUME NEW r \in Requests, Read(r)
        PROVE  ModeInv'
    <2>1. task[r].pc = "read" /\ task'[r].pc = "save" /\ task'[r].mode = mode
      BY <1>5 DEF Read, Become, DoorTypeOK
    <2>2. UNCHANGED modeVars /\ raced' = raced
      BY <1>5 DEF Read
    <2>3. QED
      BY <1>5, <2>1, <2>2, OthersStay DEF Handle, ModeInv, modeVars
  <1>6. ASSUME NEW r \in Requests, Save(r)
        PROVE  ModeInv'
    <2>1. task[r].pc = "save" /\ task'[r].pc = "done"
      BY <1>6 DEF Save, Finish, Become, DoorTypeOK
    <2>2. config' = task[r].mode /\ mode' = mode /\ raced' = raced
      BY <1>6 DEF Save
    <2>3. QED
      BY <1>6, <2>1, <2>2, OthersStay DEF Handle, ModeInv
  <1>7. ASSUME NEW r \in Requests,
               \/ Check(r) \/ Quota(r) \/ CheckMode(r) \/ Move(r) \/ Set(r) \/ Record(r)
               \/ Authority(r) \/ Erase(r) \/ Flush(r) \/ Select(r)
        PROVE  ModeInv'
    <2>1. task[r].pc \notin Saving /\ task'[r].pc \notin Saving
      BY <1>7, TaskAt DEF Check, Quota, CheckMode, Move, Set, Record, Authority, Erase, Flush, Select,
                          Goto, Finish, Become, DoorTypeOK
    <2>2. UNCHANGED modeVars /\ raced \subseteq raced'
      BY <1>7 DEF Check, Race, Quota, CheckMode, Move, Set, Record, Authority, Erase, Flush, Select
    <2>3. QED
      BY <1>2, <1>7, <2>1, <2>2 DEF Handle
  <1>8. CASE Restart
    BY <1>8, RestartStops DEF Restart, ModeInv
  <1>9. ASSUME NEW r \in Requests, Restore(r)
        PROVE  ModeInv'
    <2>1. task[r].pc \notin Saving /\ task'[r].pc \notin Saving
      BY <1>9, TaskAt DEF Restore, Goto, Finish, Become, DoorTypeOK
    <2>2. mode' = mode /\ raced' = raced /\ (restored' \/ UNCHANGED <<config, restored>>)
      BY <1>9 DEF Restore
    <2>3. QED
      BY <1>9, <2>1, <2>2, OthersStay DEF Handle, ModeInv
  <1>10. QED
    BY <1>1, <1>3, <1>4, <1>5, <1>6, <1>7, <1>8, <1>9 DEF Next, Handle, vars, modeVars

\* For any number of threads: the mode the device restarts with is the one it had,
\* unless two threads were changing it, or one had not finished.
THEOREM ModeSaved == Spec => []ModeKept
  <1>1. Init => ModeInv
    BY DEF Init, ModeInv, Saving, At
  <1>2. DoorTypeOK /\ ModeInv /\ [Next]_vars => ModeInv'
    BY ModeStep
  <1>3. ModeInv => ModeKept
    BY DEF ModeInv, ModeKept, Saving, At
  <1>4. QED
    BY TypeCorrect, <1>1, <1>2, <1>3, PTL DEF Spec

-----------------------------------------------------------------------------
(* The log. *)

LEMMA WriteMoves ==
  ASSUME OpTypeOK, WriteAllRecords
  PROVE  /\ cache' = <<>> /\ Cached' = {}
         /\ db \subseteq db' /\ db' \subseteq db \cup Cached
         /\ db' \cup lost' = db \cup lost \cup Cached
  <1>1. PICK n \in 0..Len(cache) : Insert(n) /\ cache' = <<>>
    BY DEF WriteAllRecords
  <1>2. DOMAIN cache = 1..Len(cache) /\ Len(cache) \in Nat
    BY DEF OpTypeOK
  <1>3. Cached = {cache[i] : i \in 1..n} \cup {cache[i] : i \in (n + 1)..Len(cache)}
    <2>1. 1..Len(cache) = 1..n \cup (n + 1)..Len(cache)
      BY <1>1, <1>2
    <2>2. QED
      BY <1>2, <2>1 DEF Cached
  <1>4. Cached' = {}
    BY <1>1 DEF Cached
  <1>5. QED
    BY <1>1, <1>3, <1>4 DEF Insert

\* Whoever has a record in the log, in memory or in the table, has done with it.
LogInv ==
  /\ \A x \in Cached \cup db : task[x.by].pc \in {"done", "cut"}
  /\ WrittenOnce

\* What the log does by itself, and what getRecords has it do.
LogStays == /\ db' \subseteq db \cup Cached
            /\ Cached' = {} \/ (cache' = cache /\ db' \subseteq db)

LEMMA LogStaysInv ==
  ASSUME DoorTypeOK, LogInv, LogStays, cache' = <<>> \/ cache' = cache,
         \A q \in Requests : task[q].pc \in {"done", "cut"} => task'[q].pc \in {"done", "cut"}
  PROVE  LogInv'
  <1>1. Cached \cup db \subseteq OperationRecordNode
    BY CachedTyped DEF DoorTypeOK, OpTypeOK
  <1>2. \A x \in Cached \cup db : x.by \in Requests
    BY <1>1 DEF OperationRecordNode
  <1>3. Cached' \cup db' \subseteq Cached \cup db
    BY DEF LogStays, Cached
  <1>4. \A x \in Cached' \cup db' : task'[x.by].pc \in {"done", "cut"}
    BY <1>2, <1>3 DEF LogInv
  <1>5. WrittenOnce'
    BY DEF LogInv, WrittenOnce, LogStays, Cached
  <1>6. QED
    BY <1>4, <1>5 DEF LogInv

LEMMA LogStep ==
  ASSUME DoorTypeOK, LogInv, [Next]_vars
  PROVE  LogInv'
  <1> USE DEF At
  <1>1. CASE UNCHANGED <<cache, db, task>>
    BY <1>1, LogStaysInv DEF LogStays
  <1>2. ASSUME NEW r \in Requests, Begin(r) \/ Handle(r), UNCHANGED <<cache, db>>
        PROVE  LogInv'
    <2>1. task[r].pc \notin {"done", "cut"}
      BY <1>2 DEF Begin, Handle, Check, Quota, CheckMode, Move, Set, Record, Authority,
                  Change, Read, Save, Restore, Erase, Flush, Select
    <2>2. \A q \in Requests : task[q].pc \in {"done", "cut"} => task'[q].pc \in {"done", "cut"}
      BY <1>2, <2>1, OthersStay
    <2>3. QED
      BY <1>2, <2>2, LogStaysInv DEF LogStays
  <1>3. ASSUME NEW r \in Requests, Record(r)
        PROVE  LogInv'
    <2> DEFINE x == [timestamp |-> task[r].timestamp, by |-> r]
    <2>1. cache' = Append(cache, x) /\ db' = db
      BY <1>3 DEF Record, AddRecord
    <2>2. cache \in Seq(OperationRecordNode) /\ x \in OperationRecordNode
      BY <1>3, TaskAt DEF Record, DoorTypeOK, OpTypeOK, OperationRecordNode
    <2>3. /\ DOMAIN cache = 1..Len(cache) /\ DOMAIN cache' = 1..(Len(cache) + 1)
          /\ Len(cache) \in Nat
          /\ \A i \in 1..Len(cache) : cache'[i] = cache[i]
          /\ cache'[Len(cache) + 1] = x
      BY <2>1, <2>2
    <2>4. Cached' = Cached \cup {x}
      <3>1. 1..(Len(cache) + 1) = 1..Len(cache) \cup {Len(cache) + 1}
        BY <2>3
      <3>2. QED
        BY <2>3, <3>1 DEF Cached
    <2>5. task[r].pc = "record" /\ task'[r].pc = "done"
      BY <1>3 DEF Record, Finish, Become, DoorTypeOK
    <2>6. x \notin Cached \cup db
      BY <2>5 DEF LogInv
    <2>7. \A y \in Cached \cup db : y.by \in Requests
      BY CachedTyped DEF DoorTypeOK, OpTypeOK, OperationRecordNode
    <2>8. \A y \in Cached' \cup db' : task'[y.by].pc \in {"done", "cut"}
      BY <1>3, <2>1, <2>4, <2>5, <2>7, OthersStay DEF LogInv, Handle
    <2>9. WrittenOnce'
      <3>1. Cached' \cap db' = {}
        BY <2>1, <2>4, <2>6 DEF LogInv, WrittenOnce
      <3>2. \A i, j \in DOMAIN cache' : cache'[i] = cache'[j] => i = j
        BY <2>3, <2>6 DEF LogInv, WrittenOnce, Cached
      <3>3. QED
        BY <3>1, <3>2 DEF WrittenOnce
    <2>10. QED
      BY <2>8, <2>9 DEF LogInv
  <1>4. ASSUME NEW r \in Requests, Flush(r)
        PROVE  LogInv'
    <2>1. CASE UNCHANGED <<cache, db>>
      BY <1>2, <1>4, <2>1 DEF Handle
    <2>2. CASE WriteAllRecords
      <3>1. task[r].pc = "flush"
        BY <1>4 DEF Flush
      <3>2. \A q \in Requests : task[q].pc \in {"done", "cut"} => task'[q].pc \in {"done", "cut"}
        BY <1>4, <3>1, OthersStay DEF Handle
      <3>3. QED
        BY <2>2, <3>2, WriteMoves, LogStaysInv DEF LogStays, DoorTypeOK
    <2>3. QED
      BY <1>4, <2>1, <2>2 DEF Flush
  <1>5. CASE Log /\ UNCHANGED task
    <2>1. CASE WriteAllRecords
      BY <1>5, <2>1, WriteMoves, LogStaysInv DEF LogStays, DoorTypeOK
    <2>2. CASE UNCHANGED cache /\ db' \subseteq db
      BY <1>5, <2>2, LogStaysInv DEF LogStays
    <2>3. QED
      BY <1>5, <2>1, <2>2 DEF Log, Timer, TimerWrite, TimerClean, SystemWillReboot, Tick
  <1>6. CASE Restart
    <2>1. cache' = <<>> /\ Cached' = {} /\ db' = db
      BY <1>6 DEF Restart, OpRestart, Cached
    <2>2. \A q \in Requests : task[q].pc \in {"done", "cut"} => task'[q].pc \in {"done", "cut"}
      BY <1>6 DEF Restart
    <2>3. QED
      BY <2>1, <2>2, LogStaysInv DEF LogStays
  <1>7. ASSUME NEW r \in Requests,
               \/ Begin(r) \/ Check(r) \/ Quota(r) \/ CheckMode(r) \/ Move(r) \/ Set(r)
               \/ Authority(r) \/ Change(r) \/ Read(r) \/ Save(r) \/ Restore(r) \/ Select(r)
        PROVE  LogInv'
    <2>1. UNCHANGED <<cache, db>>
      BY <1>7 DEF Begin, Check, Quota, CheckMode, Move, Set, Authority, Change, Read, Save,
                  Restore, Select, opVars
    <2>2. QED
      BY <1>2, <1>7, <2>1 DEF Handle
  <1>8. ASSUME NEW r \in Requests, Erase(r)
        PROVE  LogInv'
    <2>1. task[r].pc \notin {"done", "cut"}
      BY <1>8 DEF Erase
    <2>2. \A q \in Requests : task[q].pc \in {"done", "cut"} => task'[q].pc \in {"done", "cut"}
      BY <1>8, <2>1, OthersStay DEF Handle
    <2>3. cache' = cache /\ db' \subseteq db
      BY <1>8 DEF Erase, ResetOpRecord, opVars
    <2>4. QED
      BY <2>2, <2>3, LogStaysInv DEF LogStays
  <1>9. QED
    BY <1>1, <1>3, <1>4, <1>5, <1>6, <1>7, <1>8 DEF Next, Handle, vars, opVars

\* For any number of requests: no record is in the table and in memory at once,
\* or in memory twice, so that none is refused because it was written before.
THEOREM LogWrittenOnce == Spec => []WrittenOnce
  <1>1. Init => LogInv
    <2> SUFFICES ASSUME Init PROVE LogInv
      OBVIOUS
    <2>1. cache = <<>> /\ db = {}
      BY DEF Init, OpInit
    <2>2. Cached = {} /\ DOMAIN cache = {}
      BY <2>1 DEF Cached
    <2>3. QED
      BY <2>1, <2>2 DEF LogInv, WrittenOnce
  <1>2. DoorTypeOK /\ LogInv /\ [Next]_vars => LogInv'
    BY LogStep
  <1>3. LogInv => WrittenOnce
    BY DEF LogInv
  <1>4. QED
    BY TypeCorrect, <1>1, <1>2, <1>3, PTL DEF Spec
-----------------------------------------------------------------------------
(* What getRecords is to answer. *)

\* The rows timerCallback deletes are too old.
LEMMA DeletedIsOld ==
  ASSUME OpTypeOK, NEW x \in OperationRecordNode, ~ (x.timestamp >= DeleteDay)
  PROVE  ~ Kept(x)
  <1> DEFINE d == now \div DayLength
             k == KeepDays * DayLength
  <1>1. now \in Int /\ x.timestamp \in Int
    BY DEF OpTypeOK, OperationRecordNode, Stamps
  <1>2. d \in Int /\ k \in Int
    BY <1>1
  <1>3. d * DayLength <= now
    BY <1>1
  <1>4. (d - KeepDays) * DayLength = d * DayLength - k
    BY <1>2
  <1>5. x.timestamp < d * DayLength - k
    <2>1. DeleteDay \in Int /\ DeleteDay = (d - KeepDays) * DayLength
      BY <1>2 DEF DeleteDay, Days
    <2>2. QED
      BY <1>1, <1>4, <2>1
  <1>6. d * DayLength \in Int
    BY <1>2
  <1>7. x.timestamp + k < now
    <2> HIDE DEF k
    <2>1. QED
      BY <1>1, <1>2, <1>3, <1>5, <1>6
  <1>8. QED
    BY <1>1, <1>2, <1>7 DEF Kept

AnswerInv ==
  \A r \in Requests :
    task[r].pc \in {"flush", "select"} =>
      \A x \in task[r].wanted :
        \/ x \in db \cup lost
        \/ task[r].pc = "flush" /\ x \in Cached
        \/ ~ Kept(x)

\* Nothing wanted is forgotten as long as what leaves memory is in the table or
\* lost, and what leaves the table is too old or lost.
LEMMA NothingForgotten ==
  ASSUME DoorTypeOK, AnswerInv, NEW r \in Requests,
         task'[r] = task[r],
         Cached \subseteq Cached' \cup db' \cup lost',
         \A x \in db \cup lost : x \in db' \cup lost' \/ ~ Kept(x),
         now' \in Nat, now <= now'
  PROVE  task'[r].pc \in {"flush", "select"} =>
           \A x \in task'[r].wanted :
             \/ x \in db' \cup lost'
             \/ task'[r].pc = "flush" /\ x \in Cached'
             \/ ~ Kept(x)'
  <1> SUFFICES ASSUME task[r].pc \in {"flush", "select"}, NEW x \in task[r].wanted
               PROVE  \/ x \in db' \cup lost'
                      \/ task[r].pc = "flush" /\ x \in Cached'
                      \/ ~ Kept(x)'
    OBVIOUS
  <1>1. x.timestamp \in Int /\ now \in Nat /\ KeepDays * DayLength \in Int
    <2>1. x \in OperationRecordNode
      BY TaskAt
    <2>2. x.timestamp \in Int
      BY <2>1 DEF OperationRecordNode, Stamps
    <2>3. KeepDays * DayLength \in Int
      OBVIOUS
    <2>4. now \in Nat
      BY DEF DoorTypeOK, OpTypeOK
    <2>5. QED
      BY <2>2, <2>3, <2>4
  <1>2. ~ Kept(x) => ~ Kept(x)'
    <2> DEFINE k == x.timestamp + KeepDays * DayLength
    <2>1. k \in Int /\ (Kept(x) <=> k >= now) /\ (Kept(x)' <=> k >= now')
      BY <1>1 DEF Kept
    <2> HIDE DEF k
    <2>2. QED
      BY <1>1, <2>1
  <1>3. QED
    BY <1>2 DEF AnswerInv

LEMMA AnswerStep ==
  ASSUME DoorTypeOK, AnswerInv, [Next]_vars
  PROVE  AnswerInv'
  <1> USE DEF At
  <1>1. now \in Nat /\ lost \subseteq OperationRecordNode /\ db \subseteq OperationRecordNode
    BY DEF DoorTypeOK, OpTypeOK
  <1>2. CASE UNCHANGED <<cache, db, lost, now, task>>
    BY <1>2 DEF AnswerInv, Cached, Kept
  \* A thread that is not about to answer leaves the table and the clock alone.
  <1>3. ASSUME NEW r \in Requests, Begin(r) \/ Handle(r),
               Cached \subseteq Cached', db \cup lost \subseteq db' \cup lost', now' = now,
               task'[r].pc \notin {"flush", "select"}
        PROVE  AnswerInv'
    BY <1>1, <1>3, OthersStay, NothingForgotten DEF AnswerInv
  <1>4. ASSUME NEW r \in Requests, Begin(r)
        PROVE  AnswerInv'
    <2>1. UNCHANGED <<cache, db, lost, now>> /\ Cached' = Cached
      BY <1>4 DEF Begin, opVars, Cached
    <2>2. CASE task'[r].pc \in {"check", "authority", "restore"}
      BY <1>3, <1>4, <2>1, <2>2
    <2>3. CASE task' = [task EXCEPT ![r] = [pc |-> "flush", op |-> "get",
                                            wanted |-> Cached \cup db]]
      <3>1. task'[r].wanted = Cached \cup db /\ task'[r].pc = "flush"
        BY <2>3 DEF DoorTypeOK
      <3>2. QED
        BY <1>1, <1>4, <2>1, <3>1, OthersStay, NothingForgotten DEF AnswerInv
    <2>4. QED
      BY <1>4, <2>2, <2>3 DEF Begin, Become, DoorTypeOK
  <1>5. ASSUME NEW r \in Requests, Record(r)
        PROVE  AnswerInv'
    <2>1. cache' = Append(cache, [timestamp |-> task[r].timestamp, by |-> r])
          /\ UNCHANGED <<db, lost, now>>
      BY <1>5 DEF Record, AddRecord
    <2>2. Cached \subseteq Cached'
      <3>1. cache \in Seq(OperationRecordNode)
            /\ [timestamp |-> task[r].timestamp, by |-> r] \in OperationRecordNode
        BY <1>5, TaskAt DEF Record, DoorTypeOK, OpTypeOK, OperationRecordNode
      <3>2. DOMAIN cache \subseteq DOMAIN cache' /\ \A i \in DOMAIN cache : cache'[i] = cache[i]
        BY <2>1, <3>1
      <3>3. QED
        BY <3>2 DEF Cached
    <2>3. task'[r].pc = "done"
      BY <1>5 DEF Record, Finish, Become, DoorTypeOK
    <2>4. QED
      BY <1>3, <1>5, <2>1, <2>2, <2>3 DEF Handle
  <1>6. ASSUME NEW r \in Requests, Flush(r)
        PROVE  AnswerInv'
    <2>1. now' = now /\ task[r].pc = "flush"
      BY <1>6 DEF Flush
    <2>2. CASE UNCHANGED <<cache, db, lost>> /\ Finish(r)
      <3>1. task'[r].pc = "done" /\ Cached' = Cached
        BY <2>2 DEF Finish, Become, DoorTypeOK, Cached
      <3>2. QED
        BY <1>3, <1>6, <2>1, <2>2, <3>1 DEF Handle
    <2>3. CASE WriteAllRecords /\ Goto(r, "select")
      <3>1. db' \cup lost' = db \cup lost \cup Cached
        BY <2>3, WriteMoves DEF DoorTypeOK
      <3>2. task'[r].pc = "select" /\ task'[r].wanted = task[r].wanted
        BY <2>1, <2>3, TaskAt DEF Goto, Become, DoorTypeOK
      <3>3. \A q \in Requests \ {r} : task'[q] = task[q]
        BY <1>6, OthersStay DEF Handle
      <3>4. \A x \in task[r].wanted : x \in db' \cup lost' \/ ~ Kept(x)'
        BY <2>1, <3>1 DEF AnswerInv, Kept
      <3>5. \A q \in Requests \ {r} :
              task'[q].pc \in {"flush", "select"} =>
                \A x \in task'[q].wanted :
                  \/ x \in db' \cup lost'
                  \/ task'[q].pc = "flush" /\ x \in Cached'
                  \/ ~ Kept(x)'
        BY <1>1, <2>1, <3>1, <3>3, NothingForgotten
      <3>6. QED
        BY <3>2, <3>4, <3>5 DEF AnswerInv
    <2>4. QED
      BY <1>6, <2>2, <2>3 DEF Flush
  <1>7. CASE Log /\ UNCHANGED task
    <2>1. now' \in Nat /\ now <= now'
      BY <1>1, <1>7 DEF Log, Timer, TimerWrite, TimerClean, SystemWillReboot, Tick
    <2>2. /\ Cached \subseteq Cached' \cup db' \cup lost'
          /\ \A x \in db \cup lost : x \in db' \cup lost' \/ ~ Kept(x)
      <3>1. CASE WriteAllRecords
        BY <3>1, WriteMoves DEF DoorTypeOK
      <3>2. CASE TimerClean
        <4>1. Cached' = Cached /\ lost' = lost
          BY <3>2 DEF TimerClean, Cached
        <4>2. db' = db \/ db' = {x \in db : x.timestamp >= DeleteDay}
          BY <3>2 DEF TimerClean
        <4>3. \A x \in db : x \in db' \/ ~ Kept(x)
          BY <1>1, <4>2, DeletedIsOld DEF DoorTypeOK
        <4>4. QED
          BY <4>1, <4>3
      <3>3. CASE Tick
        BY <3>3 DEF Tick, Cached
      <3>4. QED
        BY <1>7, <3>1, <3>2, <3>3 DEF Log, Timer, TimerWrite, SystemWillReboot
    <2>3. QED
      BY <1>7, <2>1, <2>2, NothingForgotten DEF AnswerInv
  <1>8. CASE Restart
    BY <1>8, RestartStops DEF AnswerInv
  <1>9. ASSUME NEW r \in Requests,
               \/ Check(r) \/ Quota(r) \/ CheckMode(r) \/ Move(r) \/ Set(r)
               \/ Authority(r) \/ Change(r) \/ Read(r) \/ Save(r) \/ Restore(r) \/ Erase(r)
               \/ Select(r)
        PROVE  AnswerInv'
    <2>1. Cached' = Cached /\ db \cup lost \subseteq db' \cup lost' /\ now' = now
      BY <1>9 DEF Check, Quota, CheckMode, Move, Set, Authority, Change, Read, Save, Restore,
                  Erase, ResetOpRecord, Select, opVars, Cached
    <2>2. task'[r].pc \notin {"flush", "select"}
      BY <1>9, TaskAt DEF Check, Quota, CheckMode, Move, Set, Authority, Change, Read, Save,
                          Restore, Erase, Select, Goto, Finish, Become, DoorTypeOK
    <2>3. QED
      BY <1>3, <1>9, <2>1, <2>2 DEF Handle
  <1>10. QED
    BY <1>2, <1>4, <1>5, <1>6, <1>7, <1>8, <1>9 DEF Next, Handle, vars, opVars

\* For any number of requests, any clock and any length of the day: getRecords
\* selects from a table that has every record of before the request that is not
\* lost or past its days.
THEOREM AnswersComplete == Spec => []AnswerComplete
  <1>1. Init => AnswerInv
    BY DEF Init, AnswerInv
  <1>2. DoorTypeOK /\ AnswerInv /\ [Next]_vars => AnswerInv'
    BY AnswerStep
  <1>3. AnswerInv => AnswerComplete
    BY DEF AnswerInv, AnswerComplete, At
  <1>4. QED
    BY TypeCorrect, <1>1, <1>2, <1>3, PTL DEF Spec
=============================================================================
