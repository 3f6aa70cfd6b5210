---------------------------- MODULE TaskSchedule ----------------------------
(***************************************************************************)
(* The device's scheduled tasks: CTaskManager, called by the threads that  *)
(* run requests, the handlers it makes, and the one thread of its timer,   *)
(* which opens and closes the door.                                        *)
(*                                                                         *)
(* The timer's queue holds counted references to handlers, and so does the *)
(* map.  removeTask, modifyTask and stopAllTasks release one reference too *)
(* many, so handlers are freed while the queue still names them.  Memory   *)
(* that was freed still says that its handler is cancelled, until a new    *)
(* handler is put there; the rest of it may read as anything.  What is     *)
(* worse ends the process, and Restart follows.                            *)
(*                                                                         *)
(* CRPCClient lets only the administrator in.  A task's parameters are     *)
(* checked first, and refused ones change nothing: they are left out, as   *)
(* is getTasks.                                                            *)
(***************************************************************************)
EXTENDS Integers, FiniteSets, Sequences, StdMap

CONSTANTS
  Requests,      \* threads that run requests
  Ids,           \* task ids: the microsecond a task was added at
  Addrs,         \* where handlers can be allocated
  Infos,         \* the TaskInfos (without id) requests and files hold
  Factory,       \* the tasks of the configuration file a reset puts in place
  InitTasks,     \* the tasks the file may hold at first
  MaxTasks,      \* m_max_task_num (32)
  DayLength,     \* minutes in a day (1440)
  WeekLength,    \* days in a week (7)
  Zone           \* m_utcOffset, in minutes

ASSUME IdsAssumption == Ids \subseteq Nat
ASSUME TimeAssumption ==
  DayLength \in Nat \ {0, 1} /\ WeekLength \in Nat \ {0} /\ Zone \in 0 .. DayLength
ASSUME BoundAssumption == MaxTasks \in Nat

VARIABLES
  taskMap,       \* m_task_map: from ids to the addresses of handlers
  mem,           \* what is at each address: a handler while refs > 0
  queue,         \* m_timer's queue
  cancel,        \* is the notification of m_timer->cancel() in the queue?
  timer,         \* where the timer's thread stands
  taskConfig,    \* m_task_config
  file,          \* "Tasks" in the configuration file
  now,           \* the minute of the week, UTC
  door,          \* what the last task to run did
  pc,            \* where each request stands
  crossed,       \* history: overlaps of requests since the device started
  wiped          \* history: handlers whose entry was cleared after a reset
                 \* had made them

tables == <<taskMap, taskConfig, file>>
timerVars == <<queue, cancel, timer, now, door>>
vars == <<taskMap, mem, queue, cancel, timer, taskConfig, file, now, door, pc, crossed, wiped>>

Minutes == 0 .. DayLength * WeekLength - 1
Days == 0 .. WeekLength - 1

\* What a request gives and a file holds.  Any active is let in.
TaskInfo ==
  [option : {"open", "close"}, at : 0 .. DayLength - 1, days : SUBSET Days, active : Int]
ASSUME InfosAssumption == Infos \subseteq TaskInfo /\ Infos # {}

\* What a handler makes of it: an active that is neither 0 nor 1 is no.
SetTaskInfo(x) == [x EXCEPT !.active = x.active = 1]
Tasks == {SetTaskInfo(x) : x \in Infos}

\* taskExists, for a handler's task h and a request's x: the same time and days,
\* and as active.  The options are not compared, and an x whose active is neither
\* 0 nor 1 has no twin.
Twin(h, x) ==
  /\ h.at = x.at /\ h.days = x.days
  /\ \/ h.active /\ x.active = 1
     \/ ~ h.active /\ x.active = 0

\* The arrays of tasks: the elements that have an id, in their order.  Resets that
\* overlap make it two and more.
Arrays == [Ids -> Seq(Infos)]
Nothing == [i \in Ids |-> <<>>]
Present(tasks) == {i \in Ids : tasks[i] # <<>>}
Single(tasks) == \A i \in Ids : Len(tasks[i]) <= 1
Slots(tasks) == UNION {{<<i, k>> : k \in DOMAIN tasks[i]} : i \in Ids}
Element(tasks, s) == tasks[s[1]][s[2]]

\* Tasks that addTask would have accepted, in some order: the files to start with
\* are such.
Proper(tasks) ==
  /\ IsFiniteSet(Present(tasks)) /\ Cardinality(Present(tasks)) <= MaxTasks
  /\ Single(tasks)
  /\ \A i, j \in Present(tasks) :
       LET x == tasks[i][1]
           y == tasks[j][1]
       IN  Twin(SetTaskInfo(x), y) /\ Twin(SetTaskInfo(y), x) => i = j
ASSUME FilesAssumption ==
  \A tasks \in {Factory} \cup InitTasks : tasks \in Arrays /\ Proper(tasks)

\* Entries of the queue.  stale: the handler the entry was made for was freed.
Entry == [addr : Addrs, in : 0 .. DayLength + 1, stale : BOOLEAN]

Request ==
  [at : {"idle", "done"}]
    \cup [at : {"size", "exists", "insert"}, info : Infos]
    \cup [at : {"restore", "stop", "read"}]
    \cup [at : {"assign", "load"}, tasks : Arrays]

TaskTypeOK ==
  /\ taskMap \in Maps(Ids, Addrs)
  /\ mem \in [Addrs -> [info : Tasks, cancelled : BOOLEAN, refs : 0 .. 2]]
  /\ queue \subseteq Entry /\ cancel \in BOOLEAN
  /\ timer \in [at : {"idle"}] \cup [at : {"run", "again"}, entry : Entry]
  /\ taskConfig \in Arrays /\ file \in Arrays
  /\ now \in Minutes
  /\ door \in {"open", "close"}
  /\ pc \in [Requests -> Request]
  /\ crossed \subseteq {"add", "reset", "freed"}
  /\ wiped \subseteq Addrs

-----------------------------------------------------------------------------
(* Local time, and the timer's queue.                                       *)

LocalMinute(t) == (t + Zone) % DayLength
LocalDay(t) == ((t + Zone) \div DayLength) % WeekLength
UtcDay(t) == (t \div DayLength) % WeekLength

\* How long until a time of the day; a time that is now, or next minute, is
\* tomorrow's.
\* Mutants: the present time is not made local; a day is always added.
WaitUtc(at) ==
  LET diff == (at - now) % DayLength
  IN  IF diff <= 1 THEN diff + DayLength ELSE diff

WaitTomorrow(at) == ((at - LocalMinute(now)) % DayLength) + DayLength

Wait(at) ==
  LET diff == (at - LocalMinute(now)) % DayLength
  IN  IF diff <= 1 THEN diff + DayLength ELSE diff

AddToScheduleQueue(a, task) ==
  IF task.active THEN {[addr |-> a, in |-> Wait(task.at), stale |-> FALSE]} ELSE {}

Live(a) == mem[a].refs > 0
Info(id) == mem[taskMap[id]].info

\* A new handler, in the map or not.
Handler(task, mapped) ==
  [info |-> task, cancelled |-> FALSE,
   refs |-> (IF task.active THEN 1 ELSE 0) + (IF mapped THEN 1 ELSE 0)]

\* The memory at a after n references to it were given up.  Nothing happens to
\* what has been freed.
Released(a, n) == [mem[a] EXCEPT !.refs = IF @ < n THEN 0 ELSE @ - n]

Freed == [info |-> CHOOSE h \in Tasks : TRUE, cancelled |-> TRUE, refs |-> 0]

\* cancel() and release() on the handlers at the given addresses, and the map's
\* own references: that is every reference there is.
Discard(addrs) == [a \in Addrs |-> IF a \in addrs THEN Freed ELSE mem[a]]

\* Entries whose handler is freed by that.
Spoilt(e, addrs) == [e EXCEPT !.stale = @ \/ e.addr \in addrs]
SpoilTimer(addrs) ==
  timer' = IF timer.at = "idle" THEN timer ELSE [timer EXCEPT !.entry = Spoilt(@, addrs)]

-----------------------------------------------------------------------------
(* loadTasksConfig: every element of the file's array gets a handler.       *)

\* Where the handlers of the given elements can be put.
Placements(slots, addrs) ==
  {g \in [slots -> addrs] : \A s, t \in slots : g[s] = g[t] => s = t}

\* The memory with the handlers in it.  The first with each of ids is in the map.
Loaded(m, g, tasks, ids) ==
  [a \in Addrs |->
     IF \E s \in DOMAIN g : g[s] = a
     THEN LET s == CHOOSE t \in DOMAIN g : g[t] = a
          IN  Handler(SetTaskInfo(Element(tasks, s)), s[1] \in ids /\ s[2] = 1)
     ELSE m[a]]
Schedule(g, tasks) ==
  UNION {AddToScheduleQueue(g[s], SetTaskInfo(Element(tasks, s))) : s \in DOMAIN g}
MapOf(g, ids) == [i \in ids |-> g[<<i, 1>>]]

Blank == [a \in Addrs |-> Freed]

Init ==
  /\ file \in InitTasks /\ taskConfig = file
  /\ now = 0
  /\ \E g \in Placements(Slots(file), Addrs) :
       /\ taskMap = MapOf(g, Present(file))
       /\ mem = Loaded(Blank, g, file, Present(file))
       /\ queue = Schedule(g, file)
  /\ cancel = FALSE /\ timer = [at |-> "idle"]
  /\ door = "close"
  /\ pc = [r \in Requests |-> [at |-> "idle"]]
  /\ crossed = {} /\ wiped = {}

\* The device restarts, at any point.  A file that has too many tasks, two equal
\* ones, or one twice, has them still.
Restart ==
  /\ \E g \in Placements(Slots(file), Addrs) :
       /\ taskMap' = MapOf(g, Present(file))
       /\ mem' = Loaded(Blank, g, file, Present(file))
       /\ queue' = Schedule(g, file)
  /\ taskConfig' = file
  /\ cancel' = FALSE /\ timer' = [at |-> "idle"]
  /\ pc' = [r \in Requests |-> IF pc[r].at = "idle" THEN pc[r] ELSE [at |-> "done"]]
  /\ crossed' = crossed \cap (IF Single(file) THEN {"add"} ELSE {"add", "reset"})
  /\ wiped' = {}
  /\ UNCHANGED <<file, now, door>>

-----------------------------------------------------------------------------
(* The requests.                                                            *)

Goto(r, p) == pc' = [pc EXCEPT ![r] = p]
Become(r, at) == Goto(r, [pc[r] EXCEPT !.at = at])
Finish(r) == Goto(r, [at |-> "done"])
At(r, at) == pc[r].at = at

\* A request at one of these points relies on what it has checked.
Relying(r) == pc[r].at \in {"exists", "insert"}
\* A reset that has begun, and not loaded the tasks yet.  There can be several.
Resetting == \E r \in Requests : pc[r].at \in {"stop", "read", "assign", "load"}

\* r changes the tasks: what it overlaps with.
Cross(r) ==
  crossed' = crossed
    \cup (IF \E q \in Requests \ {r} : Relying(q) THEN {"add"} ELSE {})
    \cup (IF Resetting THEN {"add", "reset"} ELSE {})

TaskExists(info) == \E i \in DOMAIN taskMap : Twin(Info(i), info)

\* m_task_config is saved whenever it changes.
SaveTasks(tasks) == taskConfig' = tasks /\ file' = tasks

\* addTask: the number of tasks and equal tasks are looked at before the lock
\* is taken.
Add(r) ==
  /\ At(r, "idle")
  /\ \E x \in Infos : Goto(r, [at |-> "size", info |-> x])
  /\ UNCHANGED <<tables, mem, timerVars, crossed, wiped>>

\* Mutant: the size is not looked at.
CheckSizeNot(r) ==
  /\ At(r, "size")
  /\ Become(r, "exists")
  /\ UNCHANGED <<tables, mem, timerVars, crossed, wiped>>

CheckSize(r) ==
  /\ At(r, "size")
  /\ IF Cardinality(DOMAIN taskMap) = MaxTasks THEN Finish(r) ELSE Become(r, "exists")
  /\ UNCHANGED <<tables, mem, timerVars, crossed, wiped>>

CheckExists(r) ==
  /\ At(r, "exists")
  /\ IF TaskExists(pc[r].info) THEN Finish(r) ELSE Become(r, "insert")
  /\ UNCHANGED <<tables, mem, timerVars, crossed, wiped>>

\* The microsecond is one no task was added at.
Fresh ==
  {id \in Ids \ DOMAIN taskMap :
     /\ taskConfig[id] = <<>> /\ file[id] = <<>>
     /\ \A r \in Requests : pc[r].at \in {"assign", "load"} => pc[r].tasks[id] = <<>>}

InsertTask(r) ==
  /\ At(r, "insert")
  /\ \E id \in Fresh, a \in {b \in Addrs : ~ Live(b)} :
       LET h == SetTaskInfo(pc[r].info)
       IN  /\ SaveTasks([taskConfig EXCEPT ![id] = Append(@, pc[r].info)])
           /\ taskMap' = Insert(taskMap, id, a)
           /\ mem' = [mem EXCEPT ![a] = Handler(h, TRUE)]
           /\ queue' = queue \cup AddToScheduleQueue(a, h)
           /\ wiped' = wiped \ {a}
  /\ Cross(r)
  /\ Finish(r)
  /\ UNCHANGED <<cancel, timer, now, door>>

\* Mutant: the task stays in the file.
RemoveTaskUnsaved(r) ==
  /\ At(r, "idle")
  /\ \E id \in DOMAIN taskMap :
       LET a == taskMap[id]
       IN  /\ mem' = Discard({a})
           /\ queue' = {Spoilt(e, {a}) : e \in queue} /\ SpoilTimer({a})
           /\ wiped' = wiped \ {a}
           /\ taskMap' = Erase(taskMap, id)
           /\ taskConfig' = [taskConfig EXCEPT ![id] = IF @ = <<>> THEN @ ELSE Tail(@)]
           /\ UNCHANGED file
  /\ Cross(r)
  /\ Finish(r)
  /\ UNCHANGED <<cancel, now, door>>

\* Of two elements with the id, the first is removed.
RemoveTask(r) ==
  /\ At(r, "idle")
  /\ \E id \in DOMAIN taskMap :
       LET a == taskMap[id]
       IN  /\ mem' = Discard({a})
           /\ queue' = {Spoilt(e, {a}) : e \in queue} /\ SpoilTimer({a})
           /\ wiped' = wiped \ {a}
           /\ taskMap' = Erase(taskMap, id)
           /\ IF id \in Present(taskConfig)
              THEN SaveTasks([taskConfig EXCEPT ![id] = Tail(@)])
              ELSE UNCHANGED <<taskConfig, file>>
  /\ Cross(r)
  /\ Finish(r)
  /\ UNCHANGED <<cancel, now, door>>

\* modifyTask: a new handler, which malloc may well put where the old one was.
\* A task that is equal but for its option is left as it is, and the request
\* succeeds.
ModifyTask(r) ==
  /\ At(r, "idle")
  /\ \E id \in DOMAIN taskMap, x \in Infos :
       LET a == taskMap[id]
           h == SetTaskInfo(x)
       IN  /\ ~ TaskExists(x)
           /\ \E b \in Addrs :
                /\ Discard({a})[b].refs = 0
                /\ mem' = [Discard({a}) EXCEPT ![b] = Handler(h, TRUE)]
                /\ queue' = {Spoilt(e, {a}) : e \in queue} \cup AddToScheduleQueue(b, h)
                /\ taskMap' = [taskMap EXCEPT ![id] = b]
                /\ wiped' = wiped \ {a, b}
           /\ SpoilTimer({a})
           /\ IF id \in Present(taskConfig)
              THEN SaveTasks([taskConfig EXCEPT ![id] = <<x>> \o Tail(@)])
              ELSE UNCHANGED <<taskConfig, file>>
  /\ Cross(r)
  /\ Finish(r)
  /\ UNCHANGED <<cancel, now, door>>

-----------------------------------------------------------------------------
(* CSystemManager::resetConfig and resetTasks, which take no lock before the *)
(* tasks are loaded: nothing keeps two resets apart.                         *)

\* The configuration file is replaced, which may fail; then the users' table
\* and the log, which may fail as well (UserManager, OpRecord).
Reset(r) ==
  /\ At(r, "idle")
  /\ file' = Factory
  /\ LET overlapped == IF Resetting THEN {"add", "reset"} ELSE {}
     IN  \/ crossed' = crossed \cup overlapped /\ Goto(r, [at |-> "stop"])
         \/ crossed' = crossed \cup overlapped \cup {"reset"} /\ Finish(r)
  /\ UNCHANGED <<taskMap, taskConfig, mem, timerVars, wiped>>

\* stopAllTasks.  The timer's thread empties its queue when it gets to it.
StopAllTasks(r) ==
  /\ At(r, "stop")
  /\ LET addrs == {taskMap[i] : i \in DOMAIN taskMap}
     IN  /\ mem' = Discard(addrs)
         /\ queue' = {Spoilt(e, addrs) : e \in queue} /\ SpoilTimer(addrs)
         /\ wiped' = wiped \ addrs
  /\ taskMap' = EmptyMap
  /\ cancel' = TRUE
  /\ Become(r, "read")
  /\ UNCHANGED <<taskConfig, file, now, door, crossed>>

ReadTasks(r) ==
  /\ At(r, "read")
  /\ Goto(r, [at |-> "assign", tasks |-> file])
  /\ UNCHANGED <<tables, mem, timerVars, crossed, wiped>>

\* A new array, which is assigned outside the mutex.
Assign(r) ==
  /\ At(r, "assign")
  /\ taskConfig' = Nothing
  /\ Become(r, "load")
  /\ UNCHANGED <<taskMap, file, mem, timerVars, crossed, wiped>>

\* A task that is in the map by now gets a second handler, in the queue only; and
\* the array may have been filled by another reset.
LoadTasks(r) ==
  /\ At(r, "load")
  /\ LET tasks == pc[r].tasks
         ids == Present(tasks) \ DOMAIN taskMap
     IN  \E g \in Placements(Slots(tasks), {b \in Addrs : ~ Live(b)}) :
           /\ taskConfig' = [i \in Ids |-> taskConfig[i] \o tasks[i]]
           /\ taskMap' = [i \in DOMAIN taskMap \cup ids |->
                            IF i \in ids THEN g[<<i, 1>>] ELSE taskMap[i]]
           /\ mem' = Loaded(mem, g, tasks, ids)
           /\ queue' = queue \cup Schedule(g, tasks)
           /\ wiped' = wiped \ {g[s] : s \in DOMAIN g}
  /\ crossed' = crossed \cup (IF \E q \in Requests \ {r} : Relying(q) THEN {"add"} ELSE {})
  /\ Finish(r)
  /\ UNCHANGED <<file, cancel, timer, now, door>>

-----------------------------------------------------------------------------
(* The timer's thread.  A handler that was freed still says it is cancelled. *)

Due(e) == e \in queue /\ e.in = 0

\* An entry that is given up gives up its reference.
Forget(e) == mem' = [mem EXCEPT ![e.addr] = Released(e.addr, 1)]

TimerDequeue ==
  /\ timer.at = "idle" /\ ~ cancel
  /\ \E e \in queue :
       /\ Due(e)
       /\ queue' = queue \ {e}
       /\ IF mem[e.addr].cancelled
          THEN Forget(e) /\ UNCHANGED timer
          ELSE timer' = [at |-> "run", entry |-> e] /\ UNCHANGED mem
  /\ UNCHANGED <<tables, cancel, now, door, pc, crossed, wiped>>

\* CTaskHandler::run.  The day is the one in Greenwich.
\* Mutant: the day is not looked at.
RunTaskDaily ==
  /\ timer.at = "run"
  /\ door' = mem[timer.entry.addr].info.option
  /\ timer' = [timer EXCEPT !.at = "again"]
  /\ UNCHANGED <<tables, mem, queue, cancel, now, pc, crossed, wiped>>

RunTask ==
  /\ timer.at = "run"
  /\ \E h \in IF Live(timer.entry.addr) THEN {mem[timer.entry.addr].info} ELSE Tasks :
       door' = IF UtcDay(now) \in h.days THEN h.option ELSE door
  /\ timer' = [timer EXCEPT !.at = "again"]
  /\ UNCHANGED <<tables, mem, queue, cancel, now, pc, crossed, wiped>>

TimerAgain ==
  /\ timer.at = "again"
  /\ IF mem[timer.entry.addr].cancelled
     THEN Forget(timer.entry) /\ UNCHANGED queue
     ELSE queue' = queue \cup {[timer.entry EXCEPT !.in = DayLength]} /\ UNCHANGED mem
  /\ timer' = [at |-> "idle"]
  /\ UNCHANGED <<tables, cancel, now, door, pc, crossed, wiped>>

\* The notification of cancel(): every entry goes, the ones made since included.
TimerClear ==
  /\ timer.at = "idle" /\ cancel
  /\ cancel' = FALSE
  /\ queue' = {}
  /\ mem' = [a \in Addrs |-> Released(a, Cardinality({e \in queue : e.addr = a}))]
  /\ wiped' = wiped \cup {e.addr : e \in {d \in queue : ~ d.stale}}
  /\ crossed' = crossed \cup
       (IF \E i \in DOMAIN taskMap : Live(taskMap[i]) /\ mem'[taskMap[i]].refs = 0
        THEN {"add", "freed"} ELSE {})
  /\ UNCHANGED <<tables, timer, now, door, pc>>

\* A minute passes, in which the timer's thread did what was due.
Tick ==
  /\ timer.at = "idle" /\ ~ cancel
  /\ ~ \E e \in queue : Due(e)
  /\ now' = (now + 1) % (DayLength * WeekLength)
  /\ queue' = {[e EXCEPT !.in = @ - 1] : e \in queue}
  /\ UNCHANGED <<tables, mem, cancel, timer, door, pc, crossed, wiped>>

Handle(r) ==
  \/ Add(r) \/ CheckSize(r) \/ CheckExists(r) \/ InsertTask(r)
  \/ RemoveTask(r) \/ ModifyTask(r)
  \/ Reset(r) \/ StopAllTasks(r) \/ ReadTasks(r) \/ Assign(r) \/ LoadTasks(r)

TimerThread == TimerDequeue \/ RunTask \/ TimerAgain \/ TimerClear

Next ==
  \/ \E r \in Requests : Handle(r)
  \/ TimerThread
  \/ Tick
  \/ Restart

Spec == Init /\ [][Next]_vars

-----------------------------------------------------------------------------
(* Properties. *)

\* The tasks in the map, in m_task_config and in the file are the same, and none is
\* there twice; except during a reset, after one that failed half-way or that another
\* change, another reset included, overlapped (TaskManager.cpp:82-106), and after the
\* timer has freed a handler that is in the map.
ConfigAgrees ==
  ~ Resetting /\ crossed \cap {"reset", "freed"} = {} =>
    /\ taskConfig = file /\ Single(file)
    /\ DOMAIN taskMap = Present(file)
    /\ \A i \in DOMAIN taskMap : Info(i) = SetTaskInfo(file[i][1])

\* What addTask checks for holds: there are not too many tasks, and no two for the
\* same time and days of which each would be refused next to the other.  So two equal
\* ones have an active between them that is neither 0 nor 1, which taskExists never
\* finds (TaskManager.cpp:170); or an addition or a reset overlapped another change
\* (TaskManager.cpp:179-217).
AddChecksHold ==
  crossed = {} =>
    /\ Cardinality(DOMAIN taskMap) <= MaxTasks
    /\ \A i, j \in DOMAIN taskMap :
         Twin(Info(i), taskConfig[j][1]) /\ Twin(Info(j), taskConfig[i][1]) => i = j

\* Every active task is going to run at its time, unless the timer cleared its queue
\* only after the reset that made the task's handler (TaskManager.cpp:45); which may
\* free handlers that are in the map.  A reset that fails or is overlapped is no
\* exception.
ActiveScheduled ==
  "freed" \notin crossed =>
    \A i \in DOMAIN taskMap :
      Info(i).active /\ taskMap[i] \notin wiped =>
        \E e \in queue \cup (IF timer.at = "idle" THEN {} ELSE {timer.entry}) :
          /\ e.addr = taskMap[i] /\ ~ e.stale
          /\ LocalMinute(now + e.in) = Info(i).at

\* When a task moves the door, the file has an active task that says so at this
\* minute, today.  Exceptions: the day is Greenwich's, which is another one for part
\* of the night (TaskHandler.cpp:21); an entry made for a handler that was freed runs
\* whatever was put in its place (TaskManager.cpp:334); a reset is under way, or one
\* failed half-way or was overlapped by another change since the device started, by
\* another reset for example, which leaves handlers in the queue only
\* (TaskManager.cpp:98-106); the timer freed a handler that is in the map.
RunsAsConfigured ==
  [][door' # door =>
       \/ timer.entry.stale
       \/ crossed \cap {"reset", "freed"} # {} \/ Resetting
       \/ \E s \in Slots(file) :
            LET x == Element(file, s)
            IN  /\ x.active = 1 /\ x.option = door'
                /\ x.at = LocalMinute(now)
                /\ LocalDay(now) \in x.days \/ LocalDay(now) # UtcDay(now)]_vars
=============================================================================
