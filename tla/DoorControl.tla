----------------------------- MODULE DoorControl -----------------------------
(***************************************************************************)
(* The device's door: CDeviceController, called by the threads that run    *)
(* requests and by the timer that runs scheduled tasks, none of which take *)
(* a lock, and the log it writes (OpRecord).  Whether a user may open the  *)
(* door, and who has which authority, is UserManager's subject: here the   *)
(* answers are arbitrary, except that only an administrator is taken for   *)
(* one.  CRPCClient has verified the user before a request begins.         *)
(***************************************************************************)
EXTENDS OpRecord

CONSTANTS
  Users,         \* who sends requests
  Admins,        \* the users with the administrator's authority
  Schedule,      \* the caller of a scheduled task, which has no token
  Modes,         \* values of m_user_mode: changeMode takes any integer
  Factory        \* the mode in the configuration file a reset puts in place

ASSUME CallerAssumption == Admins \subseteq Users /\ Schedule \notin Users
ASSUME FactoryAssumption == Factory \in Modes

VARIABLES
  fd,            \* m_fd: did openDevice succeed?
  relay,         \* is the door's relay open?
  doorOpen,      \* m_door_open
  mode,          \* m_user_mode
  config,        \* "UserMode" in the configuration file
  task,          \* the request each thread is handling
  raced,         \* history: operations that two requests were doing at once
  lax,           \* history: requests during which anyone could move the door
  restored       \* history: has a reset replaced the configuration file since
                 \* a mode was saved, or the device started?

doorVars == <<fd, relay, doorOpen>>
modeVars == <<mode, config, restored>>
vars == <<opVars, doorVars, modeVars, task, raced, lax>>

Callers == Users \cup {Schedule}

Task ==
  [pc : {"idle", "done", "cut"}]
    \cup [pc : {"check", "quota", "mode", "move", "set"}, op : {"open", "close"}, caller : Callers]
    \cup [pc : {"record"}, op : {"open", "close"}, caller : Callers, timestamp : Stamps]
    \cup [pc : {"authority", "change", "read"}, op : {"mode"}, caller : Users, mode : Modes]
    \cup [pc : {"save"}, op : {"mode"}, mode : Modes]
    \cup [pc : {"restore", "erase"}, op : {"reset"}]
    \cup [pc : {"flush", "select"}, op : {"get"}, wanted : SUBSET OperationRecordNode]

DoorTypeOK ==
  /\ OpTypeOK
  /\ fd \in {"ok", "bad"}
  /\ relay \in BOOLEAN /\ doorOpen \in BOOLEAN
  /\ mode \in Modes /\ config \in Modes /\ restored \in BOOLEAN
  /\ task \in [Requests -> Task]
  /\ raced \subseteq {"open", "close", "mode"}
  /\ lax \subseteq Requests

\* openDevice puts the relay in place, if it can.
OpenDevice ==
  /\ relay' = IF fd' = "ok" THEN FALSE ELSE relay
  /\ doorOpen' = FALSE

Init ==
  /\ OpInit
  /\ fd \in {"ok", "bad"} /\ relay = FALSE /\ doorOpen = FALSE
  /\ config \in Modes /\ mode = config /\ restored = FALSE
  /\ task = [r \in Requests |-> [pc |-> "idle"]]
  /\ raced = {}
  /\ lax = {}

\* Only the administrator may move the door.
AdminMode == mode = 1

At(r, pc) == task[r].pc = pc
Become(r, t) == task' = [task EXCEPT ![r] = t]
Goto(r, pc) == Become(r, [task[r] EXCEPT !.pc = pc])
Finish(r) == Become(r, [pc |-> "done"])

\* Another thread is doing the same.
Race(r, pcs) ==
  raced' = IF \E q \in Requests \ {r} : task[q].pc \in pcs /\ task[q].op = task[r].op
           THEN raced \cup {task[r].op} ELSE raced

\* Between the look at m_door_open and the assignment to it.
Moving == {"quota", "mode", "move", "set"}

\* The task timer's thread runs q.
Scheduled(q) ==
  task[q].pc \in Moving \cup {"check", "record"} /\ task[q].caller = Schedule

-----------------------------------------------------------------------------
(* A request begins, or the only thread of the task timer runs a task.      *)

Begin(r) ==
  /\ At(r, "idle")
  /\ \/ \E op \in {"open", "close"}, c \in Callers :
          /\ c = Schedule => ~ \E q \in Requests : Scheduled(q)
          /\ Become(r, [pc |-> "check", op |-> op, caller |-> c])
     \/ \E c \in Users, m \in Modes :
          Become(r, [pc |-> "authority", op |-> "mode", caller |-> c, mode |-> m])
     \/ Become(r, [pc |-> "restore", op |-> "reset"])
     \/ Become(r, [pc |-> "flush", op |-> "get", wanted |-> Cached \cup db])
  /\ lax' = IF AdminMode THEN lax \ {r} ELSE lax \cup {r}
  /\ UNCHANGED <<opVars, doorVars, modeVars, raced>>

-----------------------------------------------------------------------------
(* openDoor and closeDoor.                                                  *)

\* A door that is open or closed already is left alone, whoever asks.
Check(r) ==
  /\ At(r, "check")
  /\ IF doorOpen = (task[r].op = "open")
     THEN Finish(r) /\ UNCHANGED raced
     ELSE /\ Race(r, Moving)
          /\ Goto(r, CASE task[r].caller = Schedule -> "move"
                       [] task[r].op = "open" -> "quota"
                       [] OTHER -> "mode")
  /\ UNCHANGED <<opVars, doorVars, modeVars, lax>>

\* canUserOpenDoor.
Quota(r) ==
  /\ At(r, "quota")
  /\ Finish(r) \/ Goto(r, "mode")
  /\ UNCHANGED <<opVars, doorVars, modeVars, raced, lax>>

\* Mutant: the mode is not looked at.
CheckModeNot(r) ==
  /\ At(r, "mode")
  /\ Goto(r, "move")
  /\ UNCHANGED <<opVars, doorVars, modeVars, raced, lax>>

\* userAuthority also refuses an administrator whose token is gone by now.
CheckMode(r) ==
  /\ At(r, "mode")
  /\ IF AdminMode
     THEN Finish(r) \/ (task[r].caller \in Admins /\ Goto(r, "move"))
     ELSE Goto(r, "move")
  /\ UNCHANGED <<opVars, doorVars, modeVars, raced, lax>>

\* The ioctl.  Its result is not looked at; the driver is taken to obey.
Move(r) ==
  /\ At(r, "move")
  /\ relay' = IF fd = "ok" THEN task[r].op = "open" ELSE relay
  /\ Goto(r, "set")
  /\ UNCHANGED <<opVars, fd, doorOpen, modeVars, raced, lax>>

\* Mutants: the assignment of the other function; the time is not made local.
SetUtc(r) ==
  /\ At(r, "set")
  /\ doorOpen' = (task[r].op = "open")
  /\ Become(r, [pc |-> "record", op |-> task[r].op, caller |-> task[r].caller,
                timestamp |-> now])
  /\ UNCHANGED <<opVars, fd, relay, modeVars, raced, lax>>

SetOpen(r) ==
  /\ At(r, "set")
  /\ doorOpen' = TRUE
  /\ Become(r, [pc |-> "record", op |-> task[r].op, caller |-> task[r].caller,
                timestamp |-> now + Zone])
  /\ UNCHANGED <<opVars, fd, relay, modeVars, raced, lax>>

\* m_door_open, and the time of the record.
Set(r) ==
  /\ At(r, "set")
  /\ doorOpen' = (task[r].op = "open")
  /\ Become(r, [pc |-> "record", op |-> task[r].op, caller |-> task[r].caller,
                timestamp |-> now + Zone])
  /\ UNCHANGED <<opVars, fd, relay, modeVars, raced, lax>>

\* userOpenDoor counts a manual opening first (UserManager).
Record(r) ==
  /\ At(r, "record")
  /\ AddRecord([timestamp |-> task[r].timestamp, by |-> r])
  /\ Finish(r)
  /\ UNCHANGED <<doorVars, modeVars, raced, lax>>

-----------------------------------------------------------------------------
(* changeMode.                                                              *)

Authority(r) ==
  /\ At(r, "authority")
  /\ Finish(r) \/ (task[r].caller \in Admins /\ Goto(r, "change"))
  /\ UNCHANGED <<opVars, doorVars, modeVars, raced, lax>>

\* Mutant: the mode is changed in memory only.
ChangeUnsaved(r) ==
  /\ At(r, "change")
  /\ mode' = task[r].mode
  /\ lax' = IF AdminMode' THEN lax ELSE Requests
  /\ Finish(r)
  /\ UNCHANGED <<opVars, doorVars, config, restored, raced>>

Change(r) ==
  /\ At(r, "change")
  /\ IF mode = task[r].mode
     THEN Finish(r) /\ UNCHANGED <<mode, raced, lax>>
     ELSE /\ mode' = task[r].mode
          /\ lax' = IF AdminMode' THEN lax ELSE Requests
          /\ Race(r, {"read", "save"})
          /\ Goto(r, "read")
  /\ UNCHANGED <<opVars, doorVars, config, restored>>

Read(r) ==
  /\ At(r, "read")
  /\ Become(r, [pc |-> "save", op |-> "mode", mode |-> mode])
  /\ UNCHANGED <<opVars, doorVars, modeVars, raced, lax>>

\* setConfig.
Save(r) ==
  /\ At(r, "save")
  /\ config' = task[r].mode
  /\ restored' = FALSE
  /\ Finish(r)
  /\ UNCHANGED <<opVars, doorVars, mode, raced, lax>>

-----------------------------------------------------------------------------
(* CSystemManager::resetConfig, for the administrator: the configuration    *)
(* file, then the users (UserManager), the log and the tasks.  m_user_mode  *)
(* stays as it is until the device restarts.                                *)

\* The file is copied without the configuration's mutex.
Restore(r) ==
  /\ At(r, "restore")
  /\ \/ /\ config' = Factory
        /\ restored' = TRUE
        /\ Finish(r) \/ Goto(r, "erase")          \* the users' table may fail
     \/ Finish(r) /\ UNCHANGED <<config, restored>>
  /\ UNCHANGED <<opVars, doorVars, mode, raced, lax>>

Erase(r) ==
  /\ At(r, "erase")
  /\ ResetOpRecord \/ UNCHANGED opVars
  /\ Finish(r)
  /\ UNCHANGED <<doorVars, modeVars, raced, lax>>

-----------------------------------------------------------------------------
(* getRecords.                                                              *)

\* Mutant: what is still in the cache is not written first.
FlushNot(r) ==
  /\ At(r, "flush")
  /\ Goto(r, "select")
  /\ UNCHANGED <<opVars, doorVars, modeVars, raced, lax>>

Flush(r) ==
  /\ At(r, "flush")
  /\ \/ WriteAllRecords /\ Goto(r, "select")
     \/ Finish(r) /\ UNCHANGED <<cache, db, lost>>     \* no transaction: an exception
  /\ UNCHANGED <<now, timer, lastDelete, doorVars, modeVars, raced, lax>>

\* The answer is what is in the table, in the range asked for.
Select(r) ==
  /\ At(r, "select")
  /\ Finish(r)
  /\ UNCHANGED <<opVars, doorVars, modeVars, raced, lax>>

-----------------------------------------------------------------------------

\* The device restarts, at any point.
Restart ==
  /\ OpRestart
  /\ fd' \in {"ok", "bad"} /\ OpenDevice
  /\ mode' = config /\ restored' = FALSE
  /\ task' = [r \in Requests |-> IF task[r].pc \in {"idle", "done"} THEN task[r] ELSE [pc |-> "cut"]]
  /\ raced' = {}
  /\ UNCHANGED <<config, lax>>

Handle(r) ==
  \/ Check(r) \/ Quota(r) \/ CheckMode(r) \/ Move(r) \/ Set(r) \/ Record(r)
  \/ Authority(r) \/ Change(r) \/ Read(r) \/ Save(r)
  \/ Restore(r) \/ Erase(r) \/ Flush(r) \/ Select(r)

Timer == TimerWrite \/ TimerClean

Log == Timer \/ SystemWillReboot \/ Tick

Next ==
  \/ \E r \in Requests : Begin(r) \/ Handle(r)
  \/ Log /\ UNCHANGED <<doorVars, modeVars, task, raced, lax>>
  \/ Restart

Spec == Init /\ [][Next]_vars

-----------------------------------------------------------------------------
(* Properties. *)

\* What the device tells as the door's switch is where the relay is, when no
\* thread is moving it; unless two threads opened the door, or closed it, at
\* once, or the driver is not there.
SwitchAgrees ==
  /\ fd = "ok"
  /\ raced \cap {"open", "close"} = {}
  /\ \A r \in Requests : ~ At(r, "set")
  => doorOpen = relay

\* A user without the administrator's authority who moves the door has seen the
\* device out of administrator mode at some moment of his request.
AdminModeHolds ==
  \A r \in Requests :
    At(r, "move") /\ task[r].caller \notin Admins \cup {Schedule} => r \in lax

\* The mode survives a restart: the configuration file has it whenever no thread
\* is changing it; unless two were at once, or a reset has replaced the file,
\* which leaves the mode in memory as it is.
ModeKept ==
  "mode" \notin raced /\ ~ restored /\ (\A r \in Requests : ~ At(r, "read") /\ ~ At(r, "save"))
    => config = mode

\* getRecords answers with every record made before it began, also those that
\* were still in memory, except what is too old or was thrown away.
AnswerComplete ==
  \A r \in Requests : At(r, "select") =>
    \A x \in task[r].wanted : x \in db \cup lost \/ ~ Kept(x)
=============================================================================
