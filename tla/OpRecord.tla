------------------------------- MODULE OpRecord -------------------------------
(***************************************************************************)
(* The device's log of door operations: COpManager, which keeps records in *)
(* memory for up to a minute, and COperationRecord, the table they end in. *)
(* The cache has a mutex; the table is read and cleaned without it.        *)
(*                                                                         *)
(* Who adds records, and who asks for them, is DoorControl's subject.      *)
(***************************************************************************)
EXTENDS Integers, Sequences, FiniteSets

CONSTANTS
  Requests,      \* requests to the device, and runs of scheduled tasks
  DayLength,     \* instants in a day: the resolution of timestamps
  KeepDays,      \* days records are kept: 30 in the code
  Zone,          \* instants local time is ahead of UTC
  MaxTime        \* bound on the clock

ASSUME DayAssumption == DayLength \in Nat \ {0}
ASSUME KeepAssumption == KeepDays \in Nat /\ Zone \in Int /\ MaxTime \in Nat

VARIABLES
  cache,         \* m_cache_map, a vector
  db,            \* the table `Operation`
  now,           \* the clock, in UTC
  timer,         \* where timerCallback is
  lastDelete,    \* m_lastDeleteTime
  lost           \* history: records thrown away before they reached the table,
                 \* or erased from it by a reset

opVars == <<cache, db, now, timer, lastDelete, lost>>

Stamps == {t + Zone : t \in 0..MaxTime}

\* timestamp is the local time.  operation, username and schema are what the
\* request was.
OperationRecordNode == [timestamp : Stamps, by : Requests]

Never == -DayLength

OpTypeOK ==
  /\ cache \in Seq(OperationRecordNode)
  /\ db \subseteq OperationRecordNode
  /\ now \in 0..MaxTime
  /\ timer \in {"write", "clean"}
  /\ lastDelete \in {Never} \cup 0..MaxTime
  /\ lost \subseteq OperationRecordNode

OpInit ==
  /\ cache = <<>>
  /\ db = {}
  /\ now = 0
  /\ timer = "write"
  /\ lastDelete = Never
  /\ lost = {}

Cached == {cache[i] : i \in DOMAIN cache}

AddRecord(x) ==
  /\ cache' = Append(cache, x)
  /\ UNCHANGED <<db, now, timer, lastDelete, lost>>

\* `Timestamp` is the primary key.
Insertable(i) ==
  \A x \in db \cup {cache[j] : j \in 1..(i - 1)} : x.timestamp # cache[i].timestamp

\* The rows go in one by one, until one is refused: its timestamp is taken, or
\* the database fails.  What went in is committed; the rest is forgotten.
Insert(n) ==
  /\ \A i \in 1..n : Insertable(i)
  /\ db' = db \cup {cache[i] : i \in 1..n}
  /\ lost' = lost \cup {cache[i] : i \in (n + 1)..Len(cache)}

\* Mutant: what could not be inserted is kept for the next time.
WriteAllRecordsOrRetry ==
  \E n \in 0..Len(cache) :
    /\ Insert(n)
    /\ cache' = IF n = Len(cache) THEN <<>> ELSE cache

\* One transaction, with m_mutex held.  If it cannot even begin, an exception
\* leaves everything as it is: callers have a step of their own for that.
WriteAllRecords ==
  \E n \in 0..Len(cache) :
    /\ Insert(n)
    /\ cache' = <<>>

-----------------------------------------------------------------------------
(* timerCallback, once a minute.                                            *)

\* If the transaction cannot begin, the callback ends and nothing has changed.
TimerWrite ==
  /\ timer = "write"
  /\ WriteAllRecords
  /\ timer' = "clean"
  /\ UNCHANGED <<now, lastDelete>>

Days(t) == t \div DayLength

DeleteDay == (Days(now) - KeepDays) * DayLength

\* Once a day, whether or not the deletion succeeds.
TimerClean ==
  /\ timer = "clean"
  /\ timer' = "write"
  /\ IF Days(now - lastDelete) > 0
     THEN /\ lastDelete' = now
          /\ \/ db' = {x \in db : x.timestamp >= DeleteDay}
             \/ UNCHANGED db
     ELSE UNCHANGED <<lastDelete, db>>
  /\ UNCHANGED <<cache, now, lost>>

-----------------------------------------------------------------------------

\* CSystemManager is about to reboot the device.
SystemWillReboot ==
  /\ WriteAllRecords
  /\ UNCHANGED <<now, timer, lastDelete>>

\* CSystemManager resets the device (the caller says when).
ResetOpRecord ==
  /\ db' = {}
  /\ lost' = lost \cup db
  /\ UNCHANGED <<cache, now, timer, lastDelete>>

\* The program ends and starts again.
OpRestart ==
  /\ cache' = <<>>
  /\ lost' = lost \cup Cached
  /\ timer' = "write"
  /\ lastDelete' = Never
  /\ UNCHANGED <<db, now>>

Tick ==
  /\ now < MaxTime
  /\ now' = now + 1
  /\ UNCHANGED <<cache, db, timer, lastDelete, lost>>

-----------------------------------------------------------------------------

\* A record is written to the table once: were one of the cache there already,
\* the next transaction would fail at it and lose all that follow.
WrittenOnce ==
  /\ Cached \cap db = {}
  /\ \A i, j \in DOMAIN cache : cache[i] = cache[j] => i = j

\* KeepDays days have not passed since.
Kept(x) == x.timestamp + KeepDays * DayLength >= now
=============================================================================
