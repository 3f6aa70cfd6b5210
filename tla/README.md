# Verification of Shuchuang

Shuchuang is a door controller that can be reached from the Internet. The
repository builds two programs:

* the **transmit server** (`src/Src/TransmitServer`): devices keep a TLS
  connection to it, phones send it HTTP requests, and it relays a phone's request
  to the device and the device's response back;
* the **device** (`src/Src/Device`): it registers with a server, checks who asks,
  opens the door, and keeps users, timed tasks and operation records.

This directory holds TLA+ modules translated from that code, TLC configurations
that check them on small instances, and proofs that TLAPS checks.

## The system

### Transmit server

| Part | State | Operations and threads |
|---|---|---|
| `CDeviceManager` | table uuid -> `DeviceInfo`, index socket address -> uuid, under one mutex | `addDevice`, `deviceOnline`, `keepAliveDevice`, `deviceOffline`, `bindMobile`, `unbindMobile`, `checkDevice`, `getDevice`; a thread that scans for silent devices every 5 s, mostly without the mutex |
| `CRegServer` | for each of two sides (SSL: ask for a token; registration: stay connected) a map of connections, a socket list, an inner socket pair; a pool of 16 threads; the request map | two accept threads, two select threads, one timer thread, one task per message; `handleTaskFinish`, `handleOffline`, `sendRequest` |
| `CRegMsgHandler` | the connection it was given, the request id of a response | receives one message, handles it, ends |
| `CHTTPServer`, `CHTTPRequestHandler` | none | checks a request, answers server and update requests itself, hands the rest to `sendRequest` |
| `CPushCenter`, `CUpdateManager`, `COfflineNotification` | none | push service, version check, message from the scan to `CRegServer` |

### Device

| Part | State | Operations and threads |
|---|---|---|
| `CRegProxy` | `m_sock`, `m_started`, the time of the last keep-alive, the error lamp | one callback of a `Poco::Timer` that loops: ask for a token, register, poll for requests, keep alive; `handleNf` sends answers and `handleMessage` announces a mobile or a reboot, on other threads and on the same socket |
| `CRPCServer`, `CRPCClient` | the queue of requests `CRegProxy` has received; a pool of 16 threads | one thread takes a request from the queue and starts a client, which calls the component; `handleFinish` hands one answer at a time to `handleNf` |
| `CUserManager`, `CUserRecord` | SQLite table of users; login challenges by user name; cache of openings by token | `login`, `logout`, `passwd`, `addUser`, `deleteUser`, `topUpUser`, `listUser`, `getUsers`, `canUserOpenDoor`, `userOpenDoor`; a timer that drops old challenges and writes the cache back |
| `CDeviceController` | `m_fd`, `m_door_open`, `m_user_mode`; the mode also in the configuration file | `openDoor`, `closeDoor`, `checkDoor`, `changeMode`, `getMode`, from request threads and from timed tasks, without a lock |
| `COpManager`, `COperationRecord` | SQLite table of records, a vector of those not yet in it | `addRecord`, `getRecords`, `resetOpRecord`; a timer that writes and deletes; a notification before a reboot |
| `CTaskManager`, `CTaskHandler` | `m_task_map`, `m_task_config`, "Tasks" in the configuration file; the queue of a `Poco::Util::Timer`, which holds counted references to handlers, as the map does | `addTask`, `removeTask`, `modifyTask`, `getTasks`, `resetTasks`; the timer's thread opens and closes the door |
| `CSystemManager` | `m_updating`, `m_timer` | `startUpdate`; `handleUpdate` on the timer's thread, which ends in `rebootSystem`; `resetConfig` |
| `CConfigManager` | the configuration file, under a mutex its reset does not take | `getConfig`, `setConfig`, `resetConfig` |
| `CNetworkManager`, `CDhcpClient`, `CPrintLog` | log | no state the components above depend on |

### What is hard here

The server keeps three views of one connection (a socket list, a map by socket
address, the device manager's index by the same address) in three critical
sections, and four kinds of threads change them. A socket address is reused as
soon as the last copy of the socket is gone. A wake-up byte stands in for a
condition variable. The relay joins a thread that waits to a map entry that
somebody else must find.

On the device every request runs on a thread of its own, and the components share
rows, flags and files without agreeing on a lock. `CUserManager` reads a row in one
statement, changes its copy, and writes the whole row in another.
`CDeviceController` looks at a flag, moves a relay and sets the flag.
`COpManager` keeps records in memory that a failed insert or a restart loses.
`CTaskManager` checks before it locks, cancels a timer that acts on it later, and
gives up references to handlers the timer still has. `CRegProxy`'s loop replaces a
socket that two other threads send on, and ends for good at an exception nobody
catches. A reboot waits for the loop, which may be waiting for the server, and for an
answer another thread is sending.

`PROJECT.json` lists each hazard at its line.

## Modules

| Module | What it is |
|---|---|
| `StdMap` | `std::map` as a partial function: `insert` does not overwrite, `erase` by key |
| `DeviceManager` | `CDeviceManager`: each public operation is one action (it holds `m_mutex` throughout); `run()` is three actions per device found too old: read age and id, take offline, read the id again and post |
| `Connections` | abstract: a connection is listed, handled by one task, or gone; what a peer sends is handled |
| `SelectLoop` | the accept, select and task threads of `CRegServer` for one side |
| `Registration` | `DeviceManager` with the connections and the messages of both sides: which address a device is known by, and when it is told to forget it |
| `OneReply` | abstract: one outcome per HTTP request, an answer only after the device's |
| `RequestRelay` | `sendRequest`, the response path of `handleTaskFinish`, `httpRequestTimer`, the end of `handleRequest` |
| `RegProxy` | `CRegProxy`: the loop, with every way it can go wrong, and time in polls |
| `RpcServer` | the queue, the thread that serves it, the pool |
| `SystemUpdate` | `startUpdate` and `handleUpdate`, step by step |
| `DeviceLink` | the three together: requests arrive at `CRegProxy`, are run, start an update, are answered through `handleNf`; the reboot stops the loop |
| `UserManager` | `CUserManager` and `CUserRecord`: requests run one SQL statement at a time, and so does the write-back of the cache |
| `OpRecord` | `COpManager` and `COperationRecord`: the cache, the table, the timer, the loss of records |
| `DoorControl` | `CDeviceController` on top of `OpRecord`: each access to shared state is a step; changes of the mode, resets, restarts |
| `TaskSchedule` | `CTaskManager`, `CTaskHandler` and the timer's queue, with the memory of handlers; reset and restart |
| `StdMapTheorems`, `*_proofs` | lemmas and proofs |
| `MC*` | instances for TLC |

How they compose: `Registration` EXTENDS `DeviceManager` and is shown to refine it
(`DMSpec`): the handlers change the table through its operations alone.
`Registration` uses a connection as `Connections` describes it, and `SelectLoop` is
shown to implement `Connections`. `RequestRelay` leaves the choice of connection
open: both lookups of `sendRequest` may succeed or fail at any time, which covers
whatever `Registration` does. `DoorControl` EXTENDS `OpRecord` and adds its records
there. It leaves the answers of `CUserManager` open (whether a user may open the door,
whether an administrator still has the authority), which covers `UserManager`.

`DeviceLink` EXTENDS `RegProxy`, `RpcServer` and `SystemUpdate`, which share no variable:
a request is given the id of the connection it came by (`Ports = Addrs`) and is
answered only on that one. `resetConfig` is a sequence of calls to components that do
not know of each other: its parts are in `DoorControl` (the file, the log) and
`TaskSchedule` (the file, the tasks), each of which leaves open what the others do.

Operators whose comment says *Mutant* are plausible mistakes in the definition
that follows them. No specification uses one. They document what each property
can tell apart: with the definition replaced by the mutant, TLC finds the property
violated.

### Correspondence of state

* `deviceMap`, `idMap` are `m_device_map`, `m_device_id_map`. A device's time stamp
  is an age in scan periods, saturated one above `Expire` (24 in the code). Tokens
  are numbers in the order they are generated: a UUID's digest is fresh. The device
  type is left out. `lastPush` is history.
* `sockMap`, `sockList` (`SelectLoop`) are `m_pReg_map`/`m_pSsl_map` and the socket
  lists without the inner socket, which never leaves them. `snapshot` and `ready` are
  the handler's `readList` before and after `select`. `wakers` counts tasks between
  the unlock and `writeInnerSocket`.
* `regMap`, `task` (`Registration`) are `m_pReg_map` and the running handlers. The
  state of a `SocketTime` is whether it is `Connected`; `Connecting` is never
  assigned in the code.
* `rows` (`UserManager`) is the table `User`. `challenges` and `cache` are the two maps.
  `flush` is where `writeCache` is: it holds `m_cache_mutex` meanwhile. `task[r].row` and
  `task[r].login` are the copies of rows a request holds. `owner`, `used`, `opens`,
  `ended` are histories. Tokens and challenges are fresh MD5 strings. `Null` stands for the
  empty token and the empty password, which a client may send as well: the empty token is
  that of every user who is not logged in, and `opens[Null]` counts the openings made with
  it.
* `cache`, `db` (`OpRecord`) are `m_cache_map` and the table `Operation`. A record is its
  time stamp, in local time as in the code, and the request it was made by. `lost` is
  history: records that never reached the table, or that a reset erased.
* `relay` (`DoorControl`) is the relay the driver moves, `fd` whether `open` of the driver
  succeeded, `config` the mode in the file. `raced`, `lax` and `restored` are histories that
  say when a property makes an exception: two requests did the same at once, anyone
  could move the door at some moment of a request, a reset has replaced the file.
* `taskMap`, `taskConfig`, `file` (`TaskSchedule`) are `m_task_map`, `m_task_config` and
  "Tasks" in the file: for each id the elements of the array that have it, since resets
  that overlap fill it twice. `Infos` are tasks as a request or the file gives them,
  with any integer as active; `SetTaskInfo` makes of it the Boolean that a handler has.
  `mem` is what is at each address a handler can have: its task, whether it is
  cancelled, its references. `queue` is the timer's queue; an entry has the time left
  and remembers whether its handler was freed (`stale`, history). `cancel` is the
  notification of `Timer::cancel` in that queue. `now` is a minute of the week.
  `crossed` (which requests overlapped) and `wiped` (handlers whose entry was cleared
  after a reset had made them) are histories that say where a property makes an
  exception.
* `started`, `sock`, `lamp` (`RegProxy`) are `m_started`, `m_sock` and the error LED. Time is in
  units of the poll's five seconds: `age` is how long ago `m_lastCheckTime` is, `quiet`
  (history) how long ago the server was last written to. `unlit` is history.
* `queue`, `client` (`RpcServer`) are `m_queue` and the `CRPCClient` of each request, `serving`
  whether the thread of `run` is alive.
* `updating`, `timer` (`SystemUpdate`) are `m_updating` and `m_timer`, `job` is where `handleUpdate`
  stands on each timer. `starting`, `stuck`, `overlapped` are histories.
* `reqMap`, `sem`, `response` (`RequestRelay`) are `m_request_map` and two members of
  `RequestInfo`; `rid` is the local `request_id`. The time stamp's age is `late`.
  `dropped` are the requests whose answer was thrown away; `unread` those of them whose
  answer the server could not use (both histories).

### Undefined behaviour

* `run()` reads the id of a `DeviceInfo` that `deviceOffline` has just deleted
  (`DeviceManager.cpp:85`). `PostedIds` lets it be the old id, the id of any device
  now in the table (the memory was reused), or garbage.
* `run()` walks the map while others erase. The walk visits devices in any order and
  any number of times; a crash is not modelled.
* `sendRequest` may send on a socket another thread has deleted. The model takes the
  outcome in which the send fails.
* `removeTask`, `modifyTask` and `stopAllTasks` release a handler the timer still has. The
  freed memory still says that its handler is cancelled, until a new handler is put
  there, as `malloc` does with a block of the same size; its task may read as anything.
  What is worse ends the process (`Restart`).
* `handleNf` and `handleMessage` use `m_sock` after the loop has deleted it: it counts as null,
  and a null pointer ends the process (`Crash`, a restart at once). So does `startUpdate`
  when it deletes a timer another request has deleted.
* `handleFinish` releases a client once more than it may. The client is not used again;
  this is left out.

## Runs

| Run | Module, cfg | Shows | Bounds |
|---|---|---|---|
| `select_loop` | `MCSelectLoopSafety` | `OneOwner`, `NoMissedWakeup`, `Implements` | 3 connections, 2 threads: the handler can die with the mutex |
| `select_loop_live` | `MCSelectLoopLive` | `ImplementsFairly` | 2 connections, a thread for each task |
| `registration` | `MCRegistrationSafety` | `IdMapAgrees`, `IndexComplete`, `OnlineIsConnected`, `UnusedTokenKept`, `DMSpec` | 2 devices, 2 addresses, reused at once, 2 tokens |
| `registration_live` | `MCRegistrationLive` | `OwnerNotMisled`, `SilentDeviceDropped` | 1 device, 2 addresses, 1 phone, 3 tokens: the device comes back twice |
| `relay` | `MCRequestRelay` | `NoDanglingRequest`, `SignalledOnce`, `OwnAnswer`, `OnlyLateAnswersDropped`, `ImplementsOneReplyFairly` | 3 requests, distinct ids; 231,184 states |
| `relay_hang` | `MCRequestRelayHang` | violates `EveryRequestEnds` | 2 requests, one id |
| `users_sessions` | `MCUserManagerSessions` | `TokensOwn`, `ChallengeOnce`, `NotOvercharged` | the administrator and a user, 2 requests at a time, 3 tokens and the empty one, 1 challenge, 1 opening counted at a time; 3,484,403 states |
| `users_admin` | `MCUserManagerAdmin` | `AdminKept` | 2 requests at a time, statements may fail, validity may end; 3,426,216 states |
| `users_passwd` | `MCUserManagerPasswd` | violates `LoginAgainAfterPasswd` | 2 requests at a time, 1 challenge |
| `doors` | `MCDoorControl` | `SwitchAgrees`, `AdminModeHolds`, `ModeKept`, `WrittenOnce`, `AnswerComplete` | 3 requests, of a user, the administrator or the schedule; 2 modes; a clock of 3 instants, two to a day |
| `tasks` | `MCTaskSchedule` | `ConfigAgrees`, `AddChecksHold`, `ActiveScheduled`, `RunsAsConfigured` | 3 requests, 2 tasks at most, 3 ids and addresses; days of 3 minutes, weeks of 2 days, an offset of a minute; 1,056,135 states |
| `device_link` | `MCDeviceLink` | `LampTruth`, `SilentLinkDropped`, `UpdateFlag`, `Reconnects`, `Reboots`, `RequestsEnd` | 2 requests, both may update, one may announce a mobile; 2 sockets, 2 timers, 2 threads; every period is one poll; a failed update may have left its timer; 185,368 states |

The runs `select_loop`, `relay`, `users_sessions`, `doors` and `tasks` also check the type
invariant of their module. Those of `Registration` and `DeviceLink` are proved, with the
invariants the proofs rest on, and no run repeats them.

Why the bounds are enough. The interesting cases need two parties and one
resource they meet in: two devices that meet at one address, two connections of
one device, two requests under one id; a third connection or request adds an
onlooker. Where the number matters in general the property is proved (below).
`Expire` is 0 or 1 because only the order of "too old" and other events counts.
`MaxTokens` bounds the number of times a device is forgotten and comes back.
A request of `UserManager` stands for a thread of the pool: it begins again when it is
done, so that two of them make any sequence of operations, two at a time, as long as
tokens and challenges last. A request of `DoorControl` runs once; it takes three, two
openings and a closing, to part relay and flag, and those happen in the run. The
clock of `DoorControl` reaches a new day with a record of the day before, and local time
is ahead of UTC, as it is where the device is used.
`MaxTime` and `MaxOpens` bound the clock and the openings of each user.
A request of `TaskSchedule` changes the tasks once. It takes three to overlap an addition
with another and a reset, or to have a task freed, its memory taken, and freed again;
three addresses hold two tasks and the handler that replaces one, or what two resets
load. The tasks are one for a day, one for every day, and one with an active of 2: it can
be added twice in sequence, and is inactive. An active of 0 is to `AddChecksHold` what 1
is, and adds to the model an inactive task, which the third is too; the theorems cover
every integer. A day of three
minutes has one minute that is another day in Greenwich, and two that are not.
In `DeviceLink` two requests overlap in `startUpdate`, wait for each other's answer, and
meet the reboot; two sockets tell an answer's connection from the present one. A
keep-alive that fails at one poll and again at the next is old enough to give the
connection up. `IoTime` is 0: a send takes no time that counts (`SilentLinkDropped` is
proved for any). With two threads for two requests the pool is never full: the run
does not reach the end of the thread that serves (`Serve`'s other case).
`MaxInner` and `MaxWakers` bound the bytes in the inner socket and the tasks that
have put a connection back and not yet written their byte.

`CHECK_DEADLOCK FALSE` is used where the system may stop: the handler thread is dead
(`select_loop`), every request has ended (`relay*`, `doors`), an exception has ended the
loop and every request is answered (`device_link`), or tokens and challenges have run
out (`users_*`).

### The violations

`relay_hang`: `sendRequest` enters a request with `std::map::insert` under a
microsecond time stamp. If another request has the same one, `insert` leaves the
second request out. No response and no timeout reaches it then, and its thread
waits on its semaphore for good. `HTTPRequestHandler.cpp:193` says "it will hang
until response send back, or timeout".

`users_passwd`: `writeCache` reads a user's row and writes it back with fewer openings.
If `passwd` changes the row in between, the write restores the old password and the
old token: the session is valid again, and the new password is gone.
`UserManager.cpp:442` says "when change password successfully, need to login again".

### Observations that are not violations of anything the repository says

* A device that registers at an address the index still has becomes online without
  an index entry and can never get a token again. An address is forgotten late when
  a receive throws (`RegMsgHandler.cpp:57`). `IndexComplete` and `OnlineIsConnected`
  make that exception (`reused`) and no other.
* `HTTPRequestHandler.cpp:135` answers "online" for a device that has only asked for
  a token.
* Answers the relay throws away although they come in time: one without a request id,
  which is taken for id 1 and looked up nowhere (`RegMsgHandler.cpp:163`); one that is
  received in two pieces, or together with another message, which does not parse (lines
  44-55, 301). `Unusable` has them, `OnlyLateAnswersDropped` excepts them (`unread`), and the
  HTTP client gets a timeout.
* The empty token passes for a login: a request must have a token, which may be "", and
  `getUserByToken` finds the row of anyone who is not logged in (added and never logged in,
  logged out, password changed). Whoever sends it acts as that user, and as the
  administrator when he is not logged in; an opening made so is charged to such a user.
  `NotOvercharged` allows for these openings (`opens[Null]`). In `DoorControl` a caller is the
  user whose row the token finds, so `AdminModeHolds` is about that row's authority.
* `verifyUserPassword` does not look at the result of its read: a user who is not found,
  or whose read fails, has the empty password (`UserManager.cpp:231`).
* Openings counted under a token are lost when the user logs in again before the
  write-back: the entry's token is in no row then. Concurrent openings, or a top-up,
  can take `remainOpen` below zero, which reads as "no limit". A top-up is lost when a
  whole row is written over it. `NotOvercharged` therefore says one direction only.
* Two openings and a closing that overlap can leave the relay open and the flag closed,
  or the other way round. `SwitchAgrees` makes the exception `raced`.
* Two overlapping changes of the mode can leave the file with one and the memory with
  the other. A reset replaces the file and leaves the mode in memory; a change to that
  mode then does nothing, and is forgotten at the next start (`restored`).
* A user who passed the check in `openDoor` before administrator mode was set opens the
  door in it.
* A door that is open answers any verified user's request to open it with success,
  before any right is checked.
* The insert of the cached records stops at the first row that fails (two records in
  the same microsecond are enough), and the cache is cleared: all records behind it
  are lost, at the log line "Not supposed to be here." (`OperationManager.cpp:66`).
  `WrittenOnce` says that a row never fails because it was written before.
* `CTaskHandler::run` takes the week day from UTC and the hour from local time: in the first
  hours of a local day a task runs by the day before (`RunsAsConfigured` makes that
  exception). `modifyTask` succeeds and changes nothing when only the option differs
  (`TaskManager.cpp:282`).
* `resetTasks` cancels the timer and then loads the new tasks; the timer's thread gets to the
  cancellation later and drops them as well. They are in the map and never run
  (`wiped`), until the device restarts.
* Two additions that overlap can exceed the limit of tasks or make two equal ones
  (`crossed`). One addition after the other makes equal ones when active is neither 0 nor 1:
  `addTask` does not check it, the handler takes it for "no", and `taskExists`, which compares
  the handler's Boolean with the request's number, never finds such a task
  (`TaskManager.cpp:170`, 202). `AddChecksHold` says what is left: no two tasks that would
  each be refused next to the other.
* Nothing keeps two resets apart. When both have stopped the timer before either loads
  the tasks, `m_task_map.insert` leaves the second one's handlers out of the map while the timer
  has them, and `m_task_config` can get every task twice (`TaskManager.cpp:86`, 98-106): a
  task that is removed later still moves the door. `ConfigAgrees` and `RunsAsConfigured`
  except resets that were overlapped (`"reset" \in crossed`); `ActiveScheduled` does not.
* `m_updating` stays set after a request that names no version and after an exception
  nobody catches: no update is started any more (`stuck`). Two requests that both find
  it clear run two updates, or delete one timer twice (`overlapped`).
* After a keep-alive timeout the lamp stays dark although the device is not connected
  (`unlit`). `Reconnects` therefore speaks of the loop, which must come round with a
  connection, and not of the lamp.
* What `setSendTimeout` and `setReceiveTimeout` of a new connection throw is outside the
  `try` (`RegProxy.cpp:323`, 344): the loop ends (`RegisterThrows`).
* A request to announce a mobile (`handleMessage`) uses the socket without a look at it: the
  process ends when there is none.
* A full pool ends the thread that serves the queue: requests are received and never
  run (`RPCServer.cpp:95`).
* An exception of the poll, of the name's resolution or of the keep-alive's packet ends
  the loop of `CRegProxy` for good, at an open connection or none.
* Records made in the three seconds between the notification and the reboot are lost.

## Fairness

* `SelectLoop`: weak fairness of the handler's steps and of each task's: threads the
  scheduler runs. `SelectTimeout` has none, so the liveness result does not rest on
  the 60 s timeout. Peers and the scan owe nothing. A pool thread is free for each
  task in the runs that check liveness; with fewer, `TaskManager::start` throws and
  the handler ends.
* `Registration`: the scan's thread runs, and each pass visits every device; since a
  keep-alive can make a device young again between two passes, `ScanCheck` has strong
  fairness.
* `RequestRelay`: the HTTP threads and the timer run and time passes. Devices need
  not answer.
* `DeviceLink`: the threads of the loop, of the requests and of the updates run: every call
  they block in has a timeout. `Connect` and `Registered` have strong fairness: the server
  can be reached now and then, whenever the device keeps trying. It owes no request,
  and nothing says an exception does not come. The thread that serves the queue has no
  fairness: the properties are about requests that are being run. A crash is followed by
  a restart at once.

`UserManager`, `DoorControl` and `TaskSchedule` state no liveness: a client may leave any
request unfinished, and the code promises no more than an answer to each.

## Proofs

Every theorem is for all values of the constants, under the named assumptions of the
modules (`NoPhone`, `Garbage`, `Null` and the inner socket are not members of the sets
they complement; bounds are naturals).

* `Registration_proofs`, first part: `DMTypeOK`, `IdMapAgrees`, `UnusedTokenKept`,
  `SessionFixed`, `OwnerNotMisled` of the device manager alone. `DMTypeOK /\ IdMapAgrees`
  is inductive. The two action properties follow from it: a device is removed only
  through an index entry, and an entry names an online device; an online device is only
  refreshed.
* `Registration_proofs`, second part: `RegTypeOK`, `DMSpec`, `IndexComplete`,
  `OnlineIsConnected`,
  for any number of devices and addresses. Type correctness is what lets every handler
  be shown to be one of `DeviceManager`'s operations or a stutter. The inductive
  invariant `RegIInv` adds to the types and `IdMapAgrees` four facts, the last three
  of which except the addresses in `reused`: a connection in the server's map is with
  no task (`OneHolder`); what the index says of an address is who that connection
  belongs to (`PeerFits`); the index has every online device at its address
  (`Indexed`); that connection is in the map, or with a task that still holds it
  connected, or its receive has failed (`Backed`). Most handlers leave who is online
  and where as it was (`CalmStep`); a device that comes online does so at the address
  of its own task (`CameOnlineStep`).
* `DeviceLink_proofs`: `LinkTypeOK`, `LampTruth`, `SilentLinkDropped`, `UpdateFlag`,
  for any number of requests, timers and threads and any periods with a keep-alive no
  rarer than its timeout. Each of the three parts has an invariant of its own, and
  each step of `DeviceLink` moves a part as one of its actions or leaves it
  (`ProxyMove`, `RpcMove`, `UpdateMove`). `ClockInv`: the last success is no older
  than the last check, which is bounded wherever the loop comes round; `SocketInv`
  says where a socket is held. `FlagInv` says of the update that, while no requests
  overlapped, what starts, runs or has been started accounts for the flag and there is
  one of it.
* `SelectLoop_proofs`: `TypeOK`, `OneOwner`, `NoMissedWakeup`, `Implements`.
* `RequestRelay_proofs`: `TypeOK`, `NoDanglingRequest`, `SignalledOnce` for any ids.
  The invariant that is inductive says that a request in the map waits or is about to,
  is unsignalled and stands under its own id, and that only a request that waits is
  signalled. With `DistinctIds`: `OwnAnswer`, `OnlyLateAnswersDropped`,
  `ImplementsOneReply`. The strengthening says that what a device still has to answer
  was sent under the request's own id (`AskedWasSent`), and that such an answer, if it can
  be read, finds the request in the map or is late (`PendingIsMapped`).
* `UserManager_proofs`: `TypeOK`, `AdminKept`, `TokensOwn`, `ChallengeOnce`, for any
  number of users and requests, whichever statements fail. Besides the table (`TableOK`)
  the invariant speaks of every copy of a row that a request or the write-back holds
  (`TasksOK`, `FlushOK`): a stale copy is as proper as the table, is named after the row
  it will be written to, and has a token handed to that user. This is why lost updates
  cannot mix users up, although they do lose updates. `NotOvercharged` needs more: a
  copy may be written after openings it has not seen were charged elsewhere. `PaidInv`
  says of the table and of every copy that the openings its row has lost, and those
  still in the cache that may be charged to it (`Pending`, counted as a set: the user's
  own and those of the empty token, `MayPay`), are together no more than he and the
  empty token made (`Bill`); a stale copy has lost less, so that writing it back takes
  charges away and adds none. The theorem assumes what the property does: that `add` and
  `topup`, which set the count anew, are not among the requests.
* `DoorControl_proofs`: all invariants of the run, for any number of threads, users
  and modes, any clock, zone and length of the day. `SwitchInv`: unless two threads do
  the same, there is one mover at most, since another would have to do the opposite
  and `Check` holds it until the flag is set. `LaxInv`: whoever is handled while
  anyone may move the door is in `lax`. `ModeInv`: the only changer holds the mode it
  will save. `LogInv`: a request that has a record anywhere is done, so that a new
  record is new. `AnswerInv`: whatever is wanted stays in memory, in the table, among
  the lost, or is past its days; `DeletedIsOld` is the arithmetic of `timerCallback`'s
  date.

* `TaskSchedule_proofs`: `TaskTypeOK`, `ConfigAgrees`, `AddChecksHold`,
  `ActiveScheduled`, `RunsAsConfigured`, for any number of requests, ids and addresses,
  any limit of tasks, length of the day and of the week, and any zone. The invariant is
  `TaskInv`. `Handlers`: what says it is cancelled has no references left, so that the
  reference the timer gives up for it changes nothing; that is what makes one release
  too many harmless but for the entries it leaves. `Mapped`: handlers in the map are
  alive and have an address each. `Agrees`, `Saved`: map, `m_task_config` and file,
  where a reset may stand between them. That it is alone (`OneReset`), and that no array
  has a task twice (`Singles`), holds only until a reset is overlapped (`Overlapped`),
  and is claimed until then. `Checked`: as long as no two additions overlapped, map and
  file are as `addTask` wants them, and what a request has checked still holds. What a
  change makes of the arrays rests on the library's theorems about `Append`, `Tail` and
  concatenation. `ActiveScheduled` has a converse, `Owned`: every entry that is not
  stale is one of an active task in the map, at its time. Both are kept by one argument
  for all requests (`Replaces`: some handlers are freed, some tasks keep theirs, every
  other task has a new one with an entry) and by one for the timer (`Carried`: no task
  changes, and an entry that goes is one nothing needs or is counted in `wiped`). A
  start gives the invariant whatever was before (`Started`). The arithmetic of
  `addToScheduleQueue`, of a day later and of a minute later, over midnight and the end
  of the week, is in lemmas of its own (`WaitReaches`, `NextDay`, `MinutePasses`). The
  named assumption is that the files to start with, and the one a reset puts in place,
  have what `addTask` would have accepted (`FilesAssumption`): nothing checks a file
  that is read.

What `EveryRequestEnds` and `ImplementsOneReplyFairly` leave to fairness is little:
`NoWaiterForgotten` (`RequestRelay_proofs`) says that, with distinct ids, a thread that waits
has been signalled or its request is in the map, where the timer will find it; and
`TimeoutsAreLate` that, whatever the ids, no thread goes on without an answer before its
time is up.

Only model-checked: everything with fairness (`ImplementsFairly`,
`SilentDeviceDropped`, `ImplementsOneReplyFairly`, `Reconnects`, `Reboots`, `RequestsEnd`), which
needs ENABLED and is beyond the prover. Every other property a run checks is a theorem.

## Not modelled

Opening and closing ports, `start`/`stop`, parsing and formatting, the push service,
the network setup, logging; `deviceOffline(uuid)`, which nobody calls. A message names
its device by a uuid the server compares with nothing; the model takes a device to
name itself.

* `UserManager`: where the table comes from. The statement that creates it is commented
  out (`UserRecord.cpp:37-58`): that names are unique is assumed of the database the
  device is shipped with, as are the administrator's row and authority (`ProperRows`).
  The push configuration that `login` and `logout` write, the columns `LastVerify` and
  `LastLogin`, which are never read, the lists, which only read, and `resetUser`, which
  replaces the database file.
* `OpRecord`: a `commit` that throws; the range, limit and offset of `getRecords`, which
  select from what the model has it answer with. `timerCallback` runs in a step for the
  write and one for the deletion.
* `DoorControl`: requests before `openDevice` has been called, which answer 420; a
  `setConfig` that fails; the file's bytes while `resetConfig` copies it without
  `CConfigManager`'s mutex; `checkDoor`, `getMode`, which only read, and the error LED. The
  result of `ioctl` is ignored in the code, and the driver is taken to obey. The
  build for x86, which has no relay, differs in `OpenDevice` and `Move`.
* `TaskSchedule`: `getTasks`, which only reads; a task whose parameters are refused; a
  `setConfig` that fails. `LoadTasks` and each change under the mutex is one step:
  `Assign` of another reset, which takes no lock, comes before or after it and not
  between two elements. Only `m_task_config` could tell, and what is said of it excepts
  such an overlap. A task moves the door without `DoorControl`'s relay and flag (there
  it is the request of the schedule).
* `RegProxy`: the SSL connection a token is asked for on, which only the loop uses; what is
  in a packet.
* `RpcServer`: what a client does for a request, which is in the module of its component, and
  `stop`, at the end of the process.
* `SystemUpdate`: the contents of the files, the checksum and the download, which succeed,
  fail or throw; setting the clock, once, before anything else runs.
* `CNetworkManager`, `CDhcpClient`: a test driver is their only user. The HTTP handler's checks
  and the server's own update answers keep no state.

## Plan

Done, in this order: `DeviceManager`, `SelectLoop`, `RequestRelay`, `Registration`,
`UserManager`, `DoorControl` with `OpRecord`, `TaskSchedule`, `DeviceLink` with `RegProxy`,
`RpcServer` and `SystemUpdate`; the proofs of all of them.

Left:

1. That what moves the door reaches the table (liveness, `DoorControl`, fair threads and
   timer), with two requests.
2. `DeviceLink` with a pool smaller than the requests: what is still answered once the
   thread that serves has ended.
3. `UserManager`: `resetUser`, against requests that hold a row of the replaced table.
4. The HTTP handler's checks, as the environment of `RequestRelay`.
