-------------------------- MODULE TaskSchedule_proofs --------------------------
(***************************************************************************)
(* The scheduled tasks, proved for every number of requests, tasks and     *)
(* addresses, every length of the day and of the week, and every zone.     *)
(*                                                                         *)
(* First arithmetic, handlers, entries and types; then the invariant,      *)
(* TaskInv; then that every request keeps it, part by part, the timer's    *)
(* thread and the passing of time (Carried), and a start (Started); then   *)
(* the properties, which follow from it.                                   *)
(***************************************************************************)
EXTENDS TaskSchedule, StdMapTheorems, FiniteSetTheorems, SequenceTheorems, TLAPS

USE IdsAssumption, TimeAssumption, BoundAssumption

-----------------------------------------------------------------------------
(* Arithmetic modulo the length of the day. *)

\* A quotient and a remainder that fit are the quotient and the remainder.
LEMMA ModUnique ==
  ASSUME NEW d \in Nat \ {0}, NEW q \in Int, NEW s \in 0 .. d - 1
  PROVE  (d * q + s) % d = s
  <1> DEFINE x == d * q + s
             p == x \div d
             m == x % d
  <1>1. x \in Int /\ p \in Int /\ m \in 0 .. d - 1 /\ x = d * p + m
    OBVIOUS
  <1>2. d * (q - p) = m - s
    BY <1>1
  <1> HIDE DEF x, p, m
  <1>3. CASE q - p >= 1
    <2>1. d * (q - p) >= d
      BY <1>1, <1>3
    <2>2. QED
      BY <1>1, <1>2, <2>1
  <1>4. CASE q - p <= -1
    <2>1. d * (q - p) <= - d
      BY <1>1, <1>4
    <2>2. QED
      BY <1>1, <1>2, <2>1
  <1>5. CASE q - p = 0
    BY <1>1, <1>2, <1>5 DEF m, x
  <1>6. QED
    BY <1>1, <1>3, <1>4, <1>5

\* The minute m of the day q.
Minute(q, m) == DayLength * q + m

LEMMA MinuteOfDay ==
  ASSUME NEW q \in Int, NEW m \in 0 .. DayLength - 1
  PROVE  Minute(q, m) \in Int /\ Minute(q, m) % DayLength = m
  <1>1. DayLength \in Nat \ {0}
    OBVIOUS
  <1>2. (DayLength * q + m) % DayLength = m
    BY <1>1, ModUnique
  <1>3. QED
    BY <1>2 DEF Minute

LEMMA EveryMinute ==
  ASSUME NEW x \in Int
  PROVE  \E q \in Int : x = Minute(q, x % DayLength) /\ x % DayLength \in 0 .. DayLength - 1
  <1>1. /\ x \div DayLength \in Int /\ x % DayLength \in 0 .. DayLength - 1
        /\ x = DayLength * (x \div DayLength) + (x % DayLength)
    OBVIOUS
  <1>2. QED
    BY <1>1 DEF Minute

\* Whole days do not change the time of the day.
LEMMA ModShift ==
  ASSUME NEW x \in Int, NEW y \in Int, NEW q \in Int, y = Minute(q, x)
  PROVE  y % DayLength = x % DayLength
  <1> DEFINE m == x % DayLength
  <1>1. PICK p \in Int : x = Minute(p, m) /\ m \in 0 .. DayLength - 1
    BY EveryMinute
  <1> HIDE DEF m
  <1>2. y = Minute(p + q, m)
    BY <1>1 DEF Minute
  <1>3. Minute(p + q, m) % DayLength = m
    BY <1>1, MinuteOfDay
  <1>4. QED
    BY <1>2, <1>3 DEF m

\* One more day is the same time.
LEMMA NextDay ==
  ASSUME now \in Minutes
  PROVE  LocalMinute(now + DayLength) = LocalMinute(now + 0)
  <1>1. now \in Int
    BY DEF Minutes
  <1>2. now + DayLength + Zone = Minute(1, now + 0 + Zone)
    BY <1>1 DEF Minute
  <1>3. now + DayLength + Zone \in Int /\ now + 0 + Zone \in Int
    BY <1>1
  <1>4. QED
    BY <1>2, <1>3, ModShift DEF LocalMinute

\* A new entry falls due at its task's time: today, or tomorrow when that time is
\* now or in a minute.
LEMMA WaitReaches ==
  ASSUME now \in Minutes, NEW at \in 0 .. DayLength - 1
  PROVE  Wait(at) \in 0 .. DayLength + 1 /\ LocalMinute(now + Wait(at)) = at
  <1> DEFINE l == (now + Zone) % DayLength
             w == (at - l) % DayLength
  <1>1. now \in Int
    BY DEF Minutes
  <1>2. PICK k \in Int : now + Zone = Minute(k, l) /\ l \in 0 .. DayLength - 1
    BY <1>1, EveryMinute
  <1>3. Wait(at) = IF w <= 1 THEN w + DayLength ELSE w
    BY DEF Wait, LocalMinute
  <1> HIDE DEF l
  <1>4. PICK j \in Int : at - l = Minute(j, w) /\ w \in 0 .. DayLength - 1
    BY <1>2, EveryMinute
  <1> HIDE DEF w
  <1>5. now + Wait(at) + Zone \in {Minute(k - j + 1, at), Minute(k - j, at)}
    BY <1>1, <1>2, <1>3, <1>4 DEF Minute
  <1>6. Minute(k - j + 1, at) % DayLength = at /\ Minute(k - j, at) % DayLength = at
    BY <1>2, <1>4, MinuteOfDay
  <1>7. LocalMinute(now + Wait(at)) = at
    BY <1>5, <1>6 DEF LocalMinute
  <1>8. QED
    BY <1>3, <1>4, <1>7

\* A minute later an entry that waits a minute less falls due at the same time,
\* over the end of the week as well.
LEMMA MinutePasses ==
  ASSUME now \in Minutes, NEW k \in Int, NEW t, t = (now + 1) % (DayLength * WeekLength)
  PROVE  t \in Minutes /\ LocalMinute(t + (k - 1)) = LocalMinute(now + k)
  <1> DEFINE w == DayLength * WeekLength
             q == (now + 1) \div w
             p == WeekLength * q
  <1>1. w \in Nat \ {0} /\ now \in Int
    BY DEF Minutes
  <1>2. t = (now + 1) % w
    OBVIOUS
  <1> HIDE DEF w
  <1>3. q \in Int /\ t \in 0 .. w - 1 /\ now + 1 = w * q + t
    BY <1>1, <1>2
  <1> HIDE DEF q
  <1>4. p \in Int /\ w * q = DayLength * p
    BY <1>3 DEF w
  <1> HIDE DEF p
  <1>5. now + k + Zone = Minute(p, t + (k - 1) + Zone)
    <2>1. now + 1 = DayLength * p + t
      BY <1>3, <1>4
    <2>2. QED
      BY <1>1, <1>3, <1>4, <2>1 DEF Minute
  <1>6. now + k + Zone \in Int /\ t + (k - 1) + Zone \in Int
    BY <1>1, <1>3
  <1>7. (now + k + Zone) % DayLength = (t + (k - 1) + Zone) % DayLength
    BY <1>4, <1>5, <1>6, ModShift
  <1>8. t \in Minutes
    BY <1>3 DEF Minutes, w
  <1>9. QED
    BY <1>7, <1>8 DEF LocalMinute

-----------------------------------------------------------------------------
(* Handlers and entries. *)

MemAt == [info : Tasks, cancelled : BOOLEAN, refs : 0 .. 2]

LEMMA TaskTyped ==
  ASSUME NEW h \in Tasks
  PROVE  /\ h.at \in 0 .. DayLength - 1 /\ h.active \in BOOLEAN
         /\ h.option \in {"open", "close"}
  <1>1. PICK x \in Infos : h = SetTaskInfo(x)
    BY DEF Tasks
  <1>2. x \in TaskInfo
    BY InfosAssumption
  <1>3. h = [option |-> x.option, at |-> x.at, days |-> x.days, active |-> (x.active = 1)]
    BY <1>1, <1>2 DEF SetTaskInfo, TaskInfo
  <1>4. QED
    BY <1>2, <1>3 DEF TaskInfo

\* A handler's task is the one it was given, but for what its active can be.
LEMMA SetTyped ==
  ASSUME NEW x \in Infos
  PROVE  /\ SetTaskInfo(x) \in Tasks
         /\ SetTaskInfo(x).at = x.at /\ SetTaskInfo(x).days = x.days
         /\ SetTaskInfo(x).option = x.option
         /\ SetTaskInfo(x).active <=> x.active = 1
  <1>1. x \in TaskInfo
    BY InfosAssumption
  <1>2. SetTaskInfo(x) =
          [option |-> x.option, at |-> x.at, days |-> x.days, active |-> (x.active = 1)]
    BY <1>1 DEF SetTaskInfo, TaskInfo
  <1>3. /\ SetTaskInfo(x).at = x.at /\ SetTaskInfo(x).days = x.days
        /\ SetTaskInfo(x).option = x.option
    BY <1>2
  <1>4. SetTaskInfo(x).active = (x.active = 1)
    BY <1>2
  <1>5. SetTaskInfo(x).active <=> x.active = 1
    BY <1>4
  <1>6. SetTaskInfo(x) \in Tasks
    BY DEF Tasks
  <1>7. QED
    BY <1>3, <1>5, <1>6

LEMMA HandlerTyped ==
  ASSUME NEW x \in Tasks, NEW b \in BOOLEAN
  PROVE  /\ Handler(x, b) \in MemAt
         /\ Handler(x, b).info = x /\ Handler(x, b).cancelled = FALSE
         /\ b => Handler(x, b).refs > 0
  BY DEF Handler, MemAt

LEMMA FreedTyped ==
  Freed \in MemAt /\ Freed.cancelled = TRUE /\ Freed.refs = 0
  <1>1. Tasks # {}
    BY InfosAssumption DEF Tasks
  <1>2. QED
    BY <1>1 DEF Freed, MemAt

LEMMA ReleasedTyped ==
  ASSUME NEW a, mem[a] \in MemAt, NEW n \in Nat
  PROVE  /\ Released(a, n) \in MemAt
         /\ Released(a, n).info = mem[a].info
         /\ Released(a, n).cancelled = mem[a].cancelled
         /\ mem[a].refs = 0 => Released(a, n).refs = 0
  BY DEF Released, MemAt

LEMMA ReleasedNothing ==
  ASSUME NEW a, mem[a] \in MemAt, mem[a].refs = 0
  PROVE  Released(a, 1) = mem[a]
  BY DEF Released, MemAt

LEMMA DiscardTyped ==
  ASSUME mem \in [Addrs -> MemAt], NEW addrs
  PROVE  /\ Discard(addrs) \in [Addrs -> MemAt]
         /\ \A a \in Addrs : a \in addrs => Discard(addrs)[a] = Freed
         /\ \A a \in Addrs : a \notin addrs => Discard(addrs)[a] = mem[a]
  BY FreedTyped DEF Discard

LEMMA EntryTyped ==
  ASSUME now \in Minutes, NEW a \in Addrs, NEW x \in Tasks
  PROVE  \A e \in AddToScheduleQueue(a, x) :
           /\ e \in Entry /\ e.addr = a /\ ~ e.stale
           /\ x.active /\ LocalMinute(now + e.in) = x.at
  <1> SUFFICES ASSUME NEW e \in AddToScheduleQueue(a, x)
               PROVE  /\ e \in Entry /\ e.addr = a /\ ~ e.stale
                      /\ x.active /\ LocalMinute(now + e.in) = x.at
    OBVIOUS
  <1>1. x.at \in 0 .. DayLength - 1
    BY TaskTyped
  <1>2. x.active /\ e = [addr |-> a, in |-> Wait(x.at), stale |-> FALSE]
    BY DEF AddToScheduleQueue
  <1>3. QED
    BY <1>1, <1>2, WaitReaches DEF Entry

LEMMA EntryMade ==
  ASSUME now \in Minutes, NEW a \in Addrs, NEW x \in Tasks, x.active
  PROVE  \E d \in AddToScheduleQueue(a, x) :
           d.addr = a /\ ~ d.stale /\ LocalMinute(now + d.in) = x.at
  <1> DEFINE e == [addr |-> a, in |-> Wait(x.at), stale |-> FALSE]
  <1>1. e \in AddToScheduleQueue(a, x)
    BY DEF AddToScheduleQueue
  <1>2. x.at \in 0 .. DayLength - 1
    BY TaskTyped
  <1>3. e.addr = a /\ ~ e.stale /\ LocalMinute(now + e.in) = x.at
    BY <1>2, WaitReaches
  <1>4. QED
    BY <1>1, <1>3

LEMMA SpoiltTyped ==
  ASSUME NEW e \in Entry, NEW addrs
  PROVE  /\ Spoilt(e, addrs) \in Entry
         /\ Spoilt(e, addrs).addr = e.addr /\ Spoilt(e, addrs).in = e.in
         /\ Spoilt(e, addrs).stale <=> e.stale \/ e.addr \in addrs
  <1>1. (e.stale \/ e.addr \in addrs) \in BOOLEAN
    OBVIOUS
  <1>2. QED
    BY <1>1 DEF Spoilt, Entry

\* An address has finitely many entries: they differ in how long they wait and in
\* whether they are stale.
LEMMA FewEntries ==
  ASSUME queue \subseteq Entry, NEW a
  PROVE  Cardinality({e \in queue : e.addr = a}) \in Nat
  <1> DEFINE S == {e \in queue : e.addr = a}
             T == (0 .. DayLength + 1) \X (0 .. 1)
             f == [e \in S |-> <<e.in, IF e.stale THEN 1 ELSE 0>>]
  <1>1. IsFiniteSet(T)
    <2>1. IsFiniteSet(0 .. DayLength + 1)
      <3>1. 0 \in Int /\ DayLength + 1 \in Int
        OBVIOUS
      <3>2. QED
        BY <3>1, FS_Interval
    <2>2. IsFiniteSet(0 .. 1)
      <3>1. 0 \in Int /\ 1 \in Int
        OBVIOUS
      <3>2. QED
        BY <3>1, FS_Interval
    <2>3. QED
      BY <2>1, <2>2, FS_Product
  <1>2. f \in [S -> T]
    BY DEF Entry
  <1>3. \A d, e \in S : f[d] = f[e] => d = e
    BY DEF Entry
  <1>4. f \in Injection(S, T)
    BY <1>2, <1>3 DEF Injection, IsInjective
  <1>5. IsFiniteSet(S)
    BY <1>1, <1>4, FS_Injection
  <1>6. QED
    BY <1>5, FS_CardinalityType

-----------------------------------------------------------------------------
(* The arrays of tasks. *)

\* What the handler of an element is given.
TaskAt(tasks, s) == SetTaskInfo(Element(tasks, s))

LEMMA SlotTyped ==
  ASSUME NEW tasks \in Arrays
  PROVE  /\ \A s \in Slots(tasks) : s[1] \in Present(tasks) /\ TaskAt(tasks, s) \in Tasks
         /\ \A i \in Present(tasks) :
              /\ <<i, 1>> \in Slots(tasks) /\ tasks[i][1] \in Infos
              /\ TaskAt(tasks, <<i, 1>>) = SetTaskInfo(tasks[i][1])
  <1>1. ASSUME NEW i \in Ids
        PROVE  /\ tasks[i] \in Seq(Infos) /\ DOMAIN tasks[i] = 1 .. Len(tasks[i])
               /\ Len(tasks[i]) \in Nat /\ \A k \in DOMAIN tasks[i] : tasks[i][k] \in Infos
               /\ tasks[i] # <<>> => 1 \in DOMAIN tasks[i]
    <2>1. tasks[i] \in Seq(Infos)
      BY DEF Arrays
    <2>2. /\ Len(tasks[i]) \in Nat /\ DOMAIN tasks[i] = 1 .. Len(tasks[i])
          /\ tasks[i] \in [1 .. Len(tasks[i]) -> Infos]
      BY <2>1, LenProperties
    <2>3. tasks[i] # <<>> => Len(tasks[i]) \in Nat \ {0}
      BY <2>1, EmptySeq
    <2>4. tasks[i] # <<>> => 1 \in DOMAIN tasks[i]
      BY <2>2, <2>3
    <2>5. QED
      BY <2>1, <2>2, <2>4
  <1>2. ASSUME NEW s \in Slots(tasks)
        PROVE  s[1] \in Present(tasks) /\ TaskAt(tasks, s) \in Tasks
    <2>1. PICK i, k : i \in Ids /\ k \in DOMAIN tasks[i] /\ s = <<i, k>>
      BY DEF Slots
    <2>2. s[1] = i /\ s[2] = k
      BY <2>1
    <2>3. Element(tasks, s) = tasks[i][k] /\ tasks[i][k] \in Infos
      BY <1>1, <2>1, <2>2 DEF Element
    <2>4. TaskAt(tasks, s) \in Tasks
      BY <2>3, SetTyped DEF TaskAt
    <2>5. tasks[i] # <<>>
      <3>1. Len(<<>>) = 0
        BY EmptySeq
      <3>2. Len(tasks[i]) # 0
        BY <1>1, <2>1
      <3>3. QED
        BY <3>1, <3>2
    <2>6. i \in Present(tasks)
      BY <2>1, <2>5 DEF Present
    <2>7. QED
      BY <2>2, <2>4, <2>6
  <1>3. ASSUME NEW i \in Present(tasks)
        PROVE  /\ <<i, 1>> \in Slots(tasks) /\ tasks[i][1] \in Infos
               /\ TaskAt(tasks, <<i, 1>>) = SetTaskInfo(tasks[i][1])
    <2>1. i \in Ids /\ 1 \in DOMAIN tasks[i] /\ tasks[i][1] \in Infos
      BY <1>1 DEF Present
    <2>2. <<i, 1>> \in Slots(tasks)
      BY <2>1 DEF Slots
    <2>3. Element(tasks, <<i, 1>>) = tasks[i][1]
      BY DEF Element
    <2>4. QED
      BY <2>1, <2>2, <2>3 DEF TaskAt
  <1>4. QED
    BY <1>2, <1>3

\* In an array in which no task is there twice the elements are the tasks.
LEMMA SingleSlots ==
  ASSUME NEW tasks \in Arrays, Single(tasks), NEW s \in Slots(tasks)
  PROVE  s = <<s[1], 1>> /\ s[1] \in Present(tasks)
  <1>1. \E i \in Ids : \E k \in DOMAIN tasks[i] : s = <<i, k>>
    BY DEF Slots
  <1>2. PICK i, k : i \in Ids /\ k \in DOMAIN tasks[i] /\ s = <<i, k>>
    BY <1>1
  <1>3. tasks[i] \in Seq(Infos) /\ Len(tasks[i]) <= 1
    BY <1>2 DEF Arrays, Single
  <1>4. Len(tasks[i]) \in Nat /\ DOMAIN tasks[i] = 1 .. Len(tasks[i])
    BY <1>3, LenProperties
  <1>5. k = 1
    BY <1>2, <1>3, <1>4
  <1>6. QED
    BY <1>2, <1>5, SlotTyped

\* The array t after one more element, after the first one's removal or change, and
\* after another array.
Adds(t, id, x, n) == n = [t EXCEPT ![id] = Append(@, x)]
Removes(t, id, n) == n = [t EXCEPT ![id] = Tail(@)]
Modifies(t, id, x, n) == n = [t EXCEPT ![id] = <<x>> \o Tail(@)]
Joins(t, u, n) == n = [i \in Ids |-> t[i] \o u[i]]

LEMMA ArrayAdds ==
  ASSUME NEW t, NEW n, NEW id, NEW x, t \in Arrays, id \in Ids, x \in Infos, t[id] = <<>>,
         Adds(t, id, x, n)
  PROVE  n \in Arrays /\ n[id] = <<x>> /\ \A i \in Ids \ {id} : n[i] = t[i]
  <1>1. Append(t[id], x) = <<x>> /\ <<x>> \in Seq(Infos)
    OBVIOUS
  <1>2. n = [t EXCEPT ![id] = <<x>>]
    BY <1>1 DEF Adds
  <1>3. QED
    BY <1>1, <1>2 DEF Arrays

LEMMA SingleTail ==
  ASSUME NEW t, NEW id, t \in Arrays, id \in Present(t), Single(t)
  PROVE  Tail(t[id]) = <<>>
  <1>1. id \in Ids /\ t[id] \in Seq(Infos) /\ t[id] # <<>> /\ Len(t[id]) <= 1
    BY DEF Present, Arrays, Single
  <1>2. Tail(t[id]) \in Seq(Infos) /\ Len(Tail(t[id])) = Len(t[id]) - 1 /\ Len(t[id]) \in Nat \ {0}
    BY <1>1, HeadTailProperties, EmptySeq
  <1>3. \A k \in Nat \ {0} : k <= 1 => k - 1 = 0
    OBVIOUS
  <1>4. Len(Tail(t[id])) = 0
    BY <1>1, <1>2, <1>3
  <1>5. QED
    BY <1>2, <1>4, EmptySeq

LEMMA ArrayRemoves ==
  ASSUME NEW t, NEW n, NEW id, t \in Arrays, id \in Present(t),
         Removes(t, id, n)
  PROVE  /\ n \in Arrays /\ (Single(t) => n[id] = <<>>)
         /\ \A i \in Ids \ {id} : n[i] = t[i]
  <1>1. id \in Ids /\ t[id] \in Seq(Infos) /\ t[id] # <<>>
    BY DEF Present, Arrays
  <1>2. Tail(t[id]) \in Seq(Infos)
    BY <1>1, HeadTailProperties
  <1>3. Single(t) => Tail(t[id]) = <<>>
    BY SingleTail
  <1>4. n[id] = Tail(t[id])
    BY <1>1 DEF Removes, Arrays
  <1>5. n \in Arrays
    BY <1>1, <1>2 DEF Removes, Arrays
  <1>6. \A i \in Ids \ {id} : n[i] = t[i]
    BY DEF Removes, Arrays
  <1>7. QED
    BY <1>3, <1>4, <1>5, <1>6

LEMMA ArrayModifies ==
  ASSUME NEW t, NEW n, NEW id, NEW x, t \in Arrays, id \in Present(t), x \in Infos,
         Modifies(t, id, x, n)
  PROVE  /\ n \in Arrays /\ (Single(t) => n[id] = <<x>>)
         /\ \A i \in Ids \ {id} : n[i] = t[i]
  <1>1. id \in Ids /\ t[id] \in Seq(Infos) /\ t[id] # <<>>
    BY DEF Present, Arrays
  <1>2. Tail(t[id]) \in Seq(Infos) /\ <<x>> \in Seq(Infos)
    BY <1>1, HeadTailProperties
  <1>3. <<x>> \o Tail(t[id]) \in Seq(Infos)
    BY <1>2, ConcatProperties
  <1>4. ASSUME Single(t) PROVE <<x>> \o Tail(t[id]) = <<x>>
    <2>1. Tail(t[id]) = <<>>
      BY <1>4, SingleTail
    <2>2. QED
      BY <1>2, <2>1, ConcatEmptySeq
  <1>5. n[id] = <<x>> \o Tail(t[id])
    BY <1>1 DEF Modifies, Arrays
  <1>6. n \in Arrays
    BY <1>1, <1>3 DEF Modifies, Arrays
  <1>7. \A i \in Ids \ {id} : n[i] = t[i]
    BY DEF Modifies, Arrays
  <1>8. QED
    BY <1>4, <1>5, <1>6, <1>7

LEMMA ArrayJoins ==
  ASSUME NEW t, NEW u, NEW n, t \in Arrays, u \in Arrays, Joins(t, u, n)
  PROVE  n \in Arrays /\ (t = Nothing => n = u)
  <1>1. ASSUME NEW i \in Ids
        PROVE  t[i] \o u[i] \in Seq(Infos) /\ (t[i] = <<>> => t[i] \o u[i] = u[i])
    <2>1. t[i] \in Seq(Infos) /\ u[i] \in Seq(Infos)
      BY DEF Arrays
    <2>2. QED
      BY <2>1, ConcatProperties, ConcatEmptySeq
  <1>2. n \in Arrays
    BY <1>1 DEF Joins, Arrays
  <1>3. ASSUME t = Nothing PROVE n = u
    <2>1. \A i \in Ids : t[i] = <<>>
      BY <1>3 DEF Nothing
    <2>2. \A i \in Ids : t[i] \o u[i] = u[i]
      BY <1>1, <2>1
    <2>3. QED
      BY <2>2 DEF Joins, Arrays
  <1>4. QED
    BY <1>2, <1>3

LEMMA NothingTyped ==
  Nothing \in Arrays /\ Single(Nothing) /\ Present(Nothing) = {}
  <1>1. <<>> \in Seq(Infos) /\ Len(<<>>) = 0
    BY EmptySeq
  <1>2. QED
    BY <1>1 DEF Nothing, Arrays, Single, Present

\* Where loadTasksConfig puts handlers, and what is there then.
LEMMA LoadedTyped ==
  ASSUME NEW m, NEW A, NEW tasks, NEW g, NEW ids,
         m \in [Addrs -> MemAt], A \subseteq Addrs,
         tasks \in Arrays, g \in Placements(Slots(tasks), A)
  PROVE  /\ Loaded(m, g, tasks, ids) \in [Addrs -> MemAt]
         /\ \A s \in Slots(tasks) :
              /\ g[s] \in A /\ Loaded(m, g, tasks, ids)[g[s]].info = TaskAt(tasks, s)
              /\ ~ Loaded(m, g, tasks, ids)[g[s]].cancelled
              /\ s[1] \in ids /\ s[2] = 1 => Loaded(m, g, tasks, ids)[g[s]].refs > 0
         /\ \A a \in Addrs :
              (\A s \in Slots(tasks) : g[s] # a) => Loaded(m, g, tasks, ids)[a] = m[a]
  <1>1. /\ g \in [Slots(tasks) -> A] /\ DOMAIN g = Slots(tasks)
        /\ \A s, t \in Slots(tasks) : g[s] = g[t] => s = t
    BY DEF Placements
  <1>2. ASSUME NEW s \in Slots(tasks)
        PROVE  /\ Loaded(m, g, tasks, ids)[g[s]].info = TaskAt(tasks, s)
               /\ ~ Loaded(m, g, tasks, ids)[g[s]].cancelled
               /\ s[1] \in ids /\ s[2] = 1 => Loaded(m, g, tasks, ids)[g[s]].refs > 0
               /\ Loaded(m, g, tasks, ids)[g[s]] \in MemAt
    <2> DEFINE mapped == s[1] \in ids /\ s[2] = 1
    <2>1. (CHOOSE t \in DOMAIN g : g[t] = g[s]) = s
      BY <1>1
    <2>2. Loaded(m, g, tasks, ids)[g[s]] = Handler(TaskAt(tasks, s), mapped)
      BY <1>1, <2>1 DEF Loaded, TaskAt
    <2>3. TaskAt(tasks, s) \in Tasks /\ mapped \in BOOLEAN
      BY SlotTyped
    <2> HIDE DEF mapped
    <2>4. /\ Handler(TaskAt(tasks, s), mapped) \in MemAt
          /\ Handler(TaskAt(tasks, s), mapped).info = TaskAt(tasks, s)
          /\ Handler(TaskAt(tasks, s), mapped).cancelled = FALSE
          /\ mapped => Handler(TaskAt(tasks, s), mapped).refs > 0
      BY <2>3, HandlerTyped
    <2>5. QED
      BY <2>2, <2>4 DEF mapped
  <1>3. ASSUME NEW a \in Addrs, \A s \in Slots(tasks) : g[s] # a
        PROVE  Loaded(m, g, tasks, ids)[a] = m[a]
    BY <1>1, <1>3 DEF Loaded
  <1>4. ASSUME NEW a \in Addrs PROVE Loaded(m, g, tasks, ids)[a] \in MemAt
    <2>1. CASE \E s \in Slots(tasks) : g[s] = a
      <3>1. PICK s \in Slots(tasks) : g[s] = a
        BY <2>1
      <3>2. QED
        BY <1>2, <3>1
    <2>2. CASE \A s \in Slots(tasks) : g[s] # a
      BY <1>3, <2>2
    <2>3. QED
      BY <2>1, <2>2
  <1>5. Loaded(m, g, tasks, ids) \in [Addrs -> MemAt]
    BY <1>4 DEF Loaded
  <1>6. QED
    BY <1>1, <1>2, <1>3, <1>5

LEMMA ScheduleEntries ==
  ASSUME now \in Minutes, NEW tasks \in Arrays, NEW g \in [Slots(tasks) -> Addrs]
  PROVE  /\ Schedule(g, tasks) \subseteq Entry
         /\ \A e \in Schedule(g, tasks) :
              /\ ~ e.stale
              /\ \E s \in Slots(tasks) :
                   /\ e.addr = g[s] /\ TaskAt(tasks, s).active
                   /\ LocalMinute(now + e.in) = TaskAt(tasks, s).at
         /\ \A s \in Slots(tasks) :
              TaskAt(tasks, s).active =>
                \E e \in Schedule(g, tasks) :
                  e.addr = g[s] /\ ~ e.stale /\ LocalMinute(now + e.in) = TaskAt(tasks, s).at
  <1>1. \A s \in Slots(tasks) : TaskAt(tasks, s) \in Tasks /\ g[s] \in Addrs
    BY SlotTyped
  <1>2. \A e : e \in Schedule(g, tasks) <=>
                 \E s \in Slots(tasks) : e \in AddToScheduleQueue(g[s], TaskAt(tasks, s))
    BY DEF Schedule, TaskAt
  <1>3. ASSUME NEW e \in Schedule(g, tasks)
        PROVE  /\ e \in Entry /\ ~ e.stale
               /\ \E s \in Slots(tasks) :
                    /\ e.addr = g[s] /\ TaskAt(tasks, s).active
                    /\ LocalMinute(now + e.in) = TaskAt(tasks, s).at
    <2>1. PICK s \in Slots(tasks) : e \in AddToScheduleQueue(g[s], TaskAt(tasks, s))
      BY <1>2
    <2>2. QED
      BY <1>1, <2>1, EntryTyped
  <1>4. ASSUME NEW s \in Slots(tasks), TaskAt(tasks, s).active
        PROVE  \E e \in Schedule(g, tasks) :
                 e.addr = g[s] /\ ~ e.stale /\ LocalMinute(now + e.in) = TaskAt(tasks, s).at
    <2>1. PICK e \in AddToScheduleQueue(g[s], TaskAt(tasks, s)) :
            e.addr = g[s] /\ ~ e.stale /\ LocalMinute(now + e.in) = TaskAt(tasks, s).at
      BY <1>1, <1>4, EntryMade
    <2>2. QED
      BY <1>2, <2>1
  <1>5. QED
    BY <1>3, <1>4

-----------------------------------------------------------------------------
(* Type correctness. *)

\* What a request holds.
LEMMA HeldTyped ==
  ASSUME TaskTypeOK, NEW r \in Requests
  PROVE  /\ pc[r].at \in {"size", "exists", "insert"} => pc[r].info \in Infos
         /\ pc[r].at \in {"assign", "load"} => pc[r].tasks \in Arrays
  <1>1. pc[r] \in Request
    BY DEF TaskTypeOK
  <1>2. QED
    BY <1>1 DEF Request

LEMMA GotoTyped ==
  ASSUME TaskTypeOK, NEW r \in Requests, NEW p \in Request, Goto(r, p)
  PROVE  /\ pc' \in [Requests -> Request] /\ pc'[r] = p
         /\ \A q \in Requests \ {r} : pc'[q] = pc[q]
  BY DEF TaskTypeOK, Goto

LEMMA FinishTyped ==
  ASSUME TaskTypeOK, NEW r \in Requests, Finish(r)
  PROVE  /\ pc' \in [Requests -> Request] /\ pc'[r].at = "done"
         /\ \A q \in Requests \ {r} : pc'[q] = pc[q]
  <1>1. [at |-> "done"] \in Request
    BY DEF Request
  <1>2. QED
    BY <1>1, GotoTyped DEF Finish

\* A request that goes on keeps what it holds.
LEMMA BecomeTyped ==
  ASSUME NEW r, NEW at, TaskTypeOK, r \in Requests, Become(r, at),
         \/ pc[r].at = "size" /\ at = "exists"
         \/ pc[r].at = "exists" /\ at = "insert"
         \/ pc[r].at = "stop" /\ at = "read"
         \/ pc[r].at = "assign" /\ at = "load"
  PROVE  /\ pc' \in [Requests -> Request]
         /\ pc'[r].at = at
         /\ pc[r].at \in {"size", "exists"} => pc'[r].info = pc[r].info
         /\ pc[r].at = "assign" => pc'[r].tasks = pc[r].tasks
         /\ \A q \in Requests \ {r} : pc'[q] = pc[q]
  <1> DEFINE p == [pc[r] EXCEPT !.at = at]
  <1>1. pc[r] \in Request
    BY DEF TaskTypeOK
  <1>2. /\ p \in Request /\ p.at = at
        /\ pc[r].at \in {"size", "exists"} => p.info = pc[r].info
        /\ pc[r].at = "assign" => p.tasks = pc[r].tasks
    BY <1>1 DEF Request
  <1>3. Goto(r, p)
    BY DEF Become
  <1> HIDE DEF p
  <1>4. QED
    BY <1>2, <1>3, GotoTyped DEF p

LEMMA CrossTyped ==
  ASSUME TaskTypeOK, NEW r \in Requests, Cross(r)
  PROVE  crossed' \subseteq {"add", "reset", "freed"}
  BY DEF TaskTypeOK, Cross

LEMMA SpoilTyped ==
  ASSUME TaskTypeOK, NEW addrs, SpoilTimer(addrs)
  PROVE  /\ {Spoilt(e, addrs) : e \in queue} \subseteq Entry
         /\ timer' \in [at : {"idle"}] \cup [at : {"run", "again"}, entry : Entry]
         /\ timer'.at = timer.at
         /\ timer.at # "idle" => timer.entry \in Entry /\ timer'.entry = Spoilt(timer.entry, addrs)
  <1>1. {Spoilt(e, addrs) : e \in queue} \subseteq Entry
    BY SpoiltTyped DEF TaskTypeOK
  <1>2. CASE timer.at = "idle"
    BY <1>1, <1>2 DEF SpoilTimer, TaskTypeOK
  <1>3. CASE timer.at # "idle"
    <2>1. timer \in [at : {"run", "again"}, entry : Entry]
      BY <1>3 DEF TaskTypeOK
    <2>2. Spoilt(timer.entry, addrs) \in Entry
      BY <2>1, SpoiltTyped
    <2>3. timer' = [timer EXCEPT !.entry = Spoilt(timer.entry, addrs)]
      BY <1>3 DEF SpoilTimer
    <2>4. QED
      BY <1>1, <2>1, <2>2, <2>3
  <1>4. QED
    BY <1>2, <1>3

LEMMA MapsValue ==
  ASSUME TaskTypeOK, NEW i \in DOMAIN taskMap
  PROVE  i \in Ids /\ taskMap[i] \in Addrs /\ mem[taskMap[i]] \in MemAt /\ Info(i) \in Tasks
  <1>1. i \in Ids /\ taskMap[i] \in Addrs
    BY MapValue DEF TaskTypeOK
  <1>2. mem[taskMap[i]] \in MemAt
    BY <1>1 DEF TaskTypeOK, MemAt
  <1>3. QED
    BY <1>1, <1>2 DEF Info, MemAt

\* The requests.
LEMMA RequestTypeOK ==
  ASSUME TaskTypeOK, NEW r \in Requests, Handle(r)
  PROVE  TaskTypeOK'
  <1> mem \in [Addrs -> MemAt] /\ now \in Minutes
    BY DEF TaskTypeOK, MemAt
  <1>1. CASE Add(r)
    <2>1. PICK x \in Infos : Goto(r, [at |-> "size", info |-> x])
      BY <1>1 DEF Add
    <2>2. [at |-> "size", info |-> x] \in Request
      BY DEF Request
    <2>3. pc' \in [Requests -> Request]
      BY <2>1, <2>2, GotoTyped
    <2>4. QED
      BY <1>1, <2>3 DEF Add, TaskTypeOK, tables, timerVars
  <1>2. CASE CheckSize(r)
    <2>1. Finish(r) \/ Become(r, "exists")
      BY <1>2 DEF CheckSize
    <2>2. pc' \in [Requests -> Request]
      BY <1>2, <2>1, FinishTyped, BecomeTyped DEF CheckSize, At
    <2>3. QED
      BY <1>2, <2>2 DEF CheckSize, TaskTypeOK, tables, timerVars
  <1>3. CASE CheckExists(r)
    <2>1. Finish(r) \/ Become(r, "insert")
      BY <1>3 DEF CheckExists
    <2>2. pc' \in [Requests -> Request]
      BY <1>3, <2>1, FinishTyped, BecomeTyped DEF CheckExists, At
    <2>3. QED
      BY <1>3, <2>2 DEF CheckExists, TaskTypeOK, tables, timerVars
  <1>4. CASE InsertTask(r)
    <2> DEFINE x == pc[r].info
               h == SetTaskInfo(x)
    <2>1. PICK id, a :
            /\ id \in Fresh /\ a \in Addrs
            /\ SaveTasks([taskConfig EXCEPT ![id] = Append(@, x)])
            /\ taskMap' = Insert(taskMap, id, a)
            /\ mem' = [mem EXCEPT ![a] = Handler(h, TRUE)]
            /\ queue' = queue \cup AddToScheduleQueue(a, h)
            /\ wiped' = wiped \ {a}
      BY <1>4 DEF InsertTask
    <2>2. id \in Ids /\ taskConfig[id] = <<>> /\ x \in Infos
      BY <1>4, <2>1, HeldTyped DEF Fresh, InsertTask, At
    <2>9. h \in Tasks
      BY <2>2, SetTyped
    <2> HIDE DEF x, h
    <2>3. taskMap' \in Maps(Ids, Addrs)
      BY <2>1, <2>2, InsertMap DEF TaskTypeOK
    <2>4. taskConfig' \in Arrays /\ file' \in Arrays
      <3>1. Adds(taskConfig, id, x, taskConfig') /\ file' = taskConfig'
        BY <2>1 DEF SaveTasks, Adds
      <3>2. QED
        BY <2>2, <3>1, ArrayAdds DEF TaskTypeOK
    <2>5. mem' \in [Addrs -> MemAt]
      BY <2>1, <2>9, HandlerTyped
    <2>6. queue' \subseteq Entry
      BY <2>1, <2>9, EntryTyped DEF TaskTypeOK
    <2>7. pc' \in [Requests -> Request] /\ crossed' \subseteq {"add", "reset", "freed"}
      BY <1>4, FinishTyped, CrossTyped DEF InsertTask
    <2>8. QED
      BY <1>4, <2>1, <2>3, <2>4, <2>5, <2>6, <2>7 DEF InsertTask, TaskTypeOK, MemAt
  <1>5. CASE RemoveTask(r)
    <2>1. PICK id \in DOMAIN taskMap :
            LET a == taskMap[id]
            IN  /\ mem' = Discard({a})
                /\ queue' = {Spoilt(e, {a}) : e \in queue} /\ SpoilTimer({a})
                /\ wiped' = wiped \ {a}
                /\ taskMap' = Erase(taskMap, id)
                /\ IF id \in Present(taskConfig)
                   THEN SaveTasks([taskConfig EXCEPT ![id] = Tail(@)])
                   ELSE UNCHANGED <<taskConfig, file>>
      BY <1>5 DEF RemoveTask
    <2>2. taskMap' \in Maps(Ids, Addrs)
      BY <2>1, EraseMap DEF TaskTypeOK
    <2>3. taskConfig' \in Arrays /\ file' \in Arrays
      <3>1. CASE id \in Present(taskConfig)
        <4>1. Removes(taskConfig, id, taskConfig') /\ file' = taskConfig'
          BY <2>1, <3>1 DEF SaveTasks, Removes
        <4>2. QED
          BY <3>1, <4>1, ArrayRemoves DEF TaskTypeOK
      <3>2. CASE id \notin Present(taskConfig)
        BY <2>1, <3>2 DEF TaskTypeOK
      <3>3. QED
        BY <3>1, <3>2
    <2>4. mem' \in [Addrs -> MemAt]
      BY <2>1, DiscardTyped
    <2>5. /\ queue' \subseteq Entry
          /\ timer' \in [at : {"idle"}] \cup [at : {"run", "again"}, entry : Entry]
      BY <2>1, SpoilTyped
    <2>6. pc' \in [Requests -> Request] /\ crossed' \subseteq {"add", "reset", "freed"}
      BY <1>5, FinishTyped, CrossTyped DEF RemoveTask
    <2>7. QED
      BY <1>5, <2>1, <2>2, <2>3, <2>4, <2>5, <2>6 DEF RemoveTask, TaskTypeOK, MemAt
  <1>6. CASE ModifyTask(r)
    <2>1. PICK id, x :
            /\ id \in DOMAIN taskMap /\ x \in Infos
            /\ LET a == taskMap[id]
               IN  /\ \E b \in Addrs :
                        /\ mem' = [Discard({a}) EXCEPT ![b] = Handler(SetTaskInfo(x), TRUE)]
                        /\ queue' = {Spoilt(e, {a}) : e \in queue}
                                       \cup AddToScheduleQueue(b, SetTaskInfo(x))
                        /\ taskMap' = [taskMap EXCEPT ![id] = b]
                        /\ wiped' = wiped \ {a, b}
                   /\ SpoilTimer({a})
                   /\ IF id \in Present(taskConfig)
                      THEN SaveTasks([taskConfig EXCEPT ![id] = <<x>> \o Tail(@)])
                      ELSE UNCHANGED <<taskConfig, file>>
      BY <1>6 DEF ModifyTask
    <2> DEFINE a == taskMap[id]
               h == SetTaskInfo(x)
    <2>2. PICK b \in Addrs :
            /\ mem' = [Discard({a}) EXCEPT ![b] = Handler(h, TRUE)]
            /\ queue' = {Spoilt(e, {a}) : e \in queue} \cup AddToScheduleQueue(b, h)
            /\ taskMap' = [taskMap EXCEPT ![id] = b]
            /\ wiped' = wiped \ {a, b}
      BY <2>1
    <2>3. taskMap' \in Maps(Ids, Addrs)
      BY <2>1, <2>2, UpdateMap DEF TaskTypeOK
    <2>4. taskConfig' \in Arrays /\ file' \in Arrays
      <3>1. CASE id \in Present(taskConfig)
        <4>1. Modifies(taskConfig, id, x, taskConfig') /\ file' = taskConfig'
          BY <2>1, <3>1 DEF SaveTasks, Modifies
        <4>2. QED
          BY <2>1, <3>1, <4>1, ArrayModifies DEF TaskTypeOK
      <3>2. CASE id \notin Present(taskConfig)
        BY <2>1, <3>2 DEF TaskTypeOK
      <3>3. QED
        BY <3>1, <3>2
    <2>10. h \in Tasks
      BY <2>1, SetTyped
    <2> HIDE DEF h
    <2>5. mem' \in [Addrs -> MemAt]
      BY <2>1, <2>2, <2>10, DiscardTyped, HandlerTyped
    <2>6. queue' \subseteq Entry
      <3>1. {Spoilt(e, {a}) : e \in queue} \subseteq Entry
        BY <2>1, SpoilTyped
      <3>2. QED
        BY <2>2, <2>10, <3>1, EntryTyped
    <2>7. timer' \in [at : {"idle"}] \cup [at : {"run", "again"}, entry : Entry]
      BY <2>1, SpoilTyped
    <2>8. pc' \in [Requests -> Request] /\ crossed' \subseteq {"add", "reset", "freed"}
      BY <1>6, FinishTyped, CrossTyped DEF ModifyTask
    <2>9. QED
      BY <1>6, <2>2, <2>3, <2>4, <2>5, <2>6, <2>7, <2>8 DEF ModifyTask, TaskTypeOK, MemAt
  <1>7. CASE Reset(r)
    <2>1. [at |-> "stop"] \in Request
      BY DEF Request
    <2>2. pc' \in [Requests -> Request] /\ crossed' \subseteq {"add", "reset", "freed"}
      BY <1>7, <2>1, GotoTyped, FinishTyped DEF Reset, TaskTypeOK
    <2>3. file' \in Arrays
      BY <1>7, FilesAssumption DEF Reset
    <2>4. QED
      BY <1>7, <2>2, <2>3 DEF Reset, TaskTypeOK, timerVars
  <1>8. CASE StopAllTasks(r)
    <2>1. PICK addrs : /\ mem' = Discard(addrs)
                       /\ queue' = {Spoilt(e, addrs) : e \in queue} /\ SpoilTimer(addrs)
                       /\ wiped' = wiped \ addrs
      BY <1>8 DEF StopAllTasks
    <2>2. mem' \in [Addrs -> MemAt]
      BY <2>1, DiscardTyped
    <2>3. /\ queue' \subseteq Entry
          /\ timer' \in [at : {"idle"}] \cup [at : {"run", "again"}, entry : Entry]
      BY <2>1, SpoilTyped
    <2>4. taskMap' \in Maps(Ids, Addrs)
      BY <1>8, EmptyMapTyped DEF StopAllTasks
    <2>5. pc' \in [Requests -> Request]
      BY <1>8, BecomeTyped DEF StopAllTasks, At
    <2>6. QED
      BY <1>8, <2>1, <2>2, <2>3, <2>4, <2>5 DEF StopAllTasks, TaskTypeOK, MemAt
  <1>9. CASE ReadTasks(r)
    <2>1. [at |-> "assign", tasks |-> file] \in Request
      BY DEF Request, TaskTypeOK
    <2>2. pc' \in [Requests -> Request]
      BY <1>9, <2>1, GotoTyped DEF ReadTasks
    <2>3. QED
      BY <1>9, <2>2 DEF ReadTasks, TaskTypeOK, tables, timerVars
  <1>10. CASE Assign(r)
    <2>1. pc' \in [Requests -> Request]
      BY <1>10, BecomeTyped DEF Assign, At
    <2>2. taskConfig' \in Arrays
      BY <1>10, NothingTyped DEF Assign
    <2>3. QED
      BY <1>10, <2>1, <2>2 DEF Assign, TaskTypeOK, timerVars
  <1>11. CASE LoadTasks(r)
    <2> DEFINE tasks == pc[r].tasks
               ids == Present(tasks) \ DOMAIN taskMap
               A == {b \in Addrs : ~ Live(b)}
    <2>1. PICK g \in Placements(Slots(tasks), A) :
            /\ taskConfig' = [i \in Ids |-> taskConfig[i] \o tasks[i]]
            /\ taskMap' = [i \in DOMAIN taskMap \cup ids |->
                             IF i \in ids THEN g[<<i, 1>>] ELSE taskMap[i]]
            /\ mem' = Loaded(mem, g, tasks, ids)
            /\ queue' = queue \cup Schedule(g, tasks)
            /\ wiped' = wiped \ {g[s] : s \in DOMAIN g}
      BY <1>11 DEF LoadTasks
    <2>2. tasks \in Arrays
      BY <1>11, HeldTyped DEF LoadTasks, At
    <2> HIDE DEF tasks
    <2>3. A \subseteq Addrs /\ g \in [Slots(tasks) -> Addrs]
      BY <2>1 DEF Placements
    <2>4. mem' \in [Addrs -> MemAt]
      <3> HIDE DEF ids, A
      <3>1. QED
        BY <2>1, <2>2, <2>3, LoadedTyped
    <2>5. queue' \subseteq Entry
      BY <2>1, <2>2, <2>3, ScheduleEntries DEF TaskTypeOK
    <2>6. taskMap' \in Maps(Ids, Addrs)
      <3>1. taskMap \in [DOMAIN taskMap -> Addrs] /\ DOMAIN taskMap \subseteq Ids
        BY MapsDef DEF TaskTypeOK
      <3>2. \A i \in Present(tasks) : i \in Ids /\ g[<<i, 1>>] \in Addrs
        BY <2>2, <2>3, SlotTyped DEF Present
      <3>3. taskMap' \in [DOMAIN taskMap \cup ids -> Addrs] /\ DOMAIN taskMap \cup ids \subseteq Ids
        BY <2>1, <3>1, <3>2
      <3>4. QED
        BY <3>3, MapsDef
    <2>7. taskConfig' \in Arrays
      <3>1. Joins(taskConfig, tasks, taskConfig')
        BY <2>1, Zenon DEF Joins
      <3>2. QED
        BY <2>2, <3>1, ArrayJoins DEF TaskTypeOK
    <2>8. pc' \in [Requests -> Request] /\ crossed' \subseteq {"add", "reset", "freed"}
      BY <1>11, FinishTyped DEF LoadTasks, TaskTypeOK
    <2>9. QED
      BY <1>11, <2>1, <2>4, <2>5, <2>6, <2>7, <2>8 DEF LoadTasks, TaskTypeOK, MemAt
  <1>12. QED
    BY <1>1, <1>2, <1>3, <1>4, <1>5, <1>6, <1>7, <1>8, <1>9, <1>10, <1>11 DEF Handle

\* The timer's thread, and time.
LEMMA TimerTypeOK ==
  ASSUME TaskTypeOK, TimerThread \/ Tick
  PROVE  TaskTypeOK'
  <1> mem \in [Addrs -> MemAt] /\ now \in Minutes /\ queue \subseteq Entry
    BY DEF TaskTypeOK, MemAt
  <1>1. CASE TimerDequeue
    <2>1. PICK e \in queue :
            /\ Due(e)
            /\ queue' = queue \ {e}
            /\ \/ Forget(e) /\ UNCHANGED timer
               \/ timer' = [at |-> "run", entry |-> e] /\ UNCHANGED mem
      BY <1>1 DEF TimerDequeue
    <2>2. e \in Entry /\ e.addr \in Addrs
      BY <2>1 DEF Entry
    <2>3. timer' \in [at : {"idle"}] \cup [at : {"run", "again"}, entry : Entry]
      BY <2>1, <2>2 DEF TaskTypeOK
    <2>4. mem' \in [Addrs -> MemAt]
      BY <2>1, <2>2, ReleasedTyped DEF Forget
    <2>5. QED
      BY <1>1, <2>1, <2>3, <2>4 DEF TimerDequeue, TaskTypeOK, MemAt, tables
  <1>2. CASE RunTask
    <2>1. timer \in [at : {"run", "again"}, entry : Entry]
      BY <1>2 DEF RunTask, TaskTypeOK
    <2>2. PICK x : /\ x \in IF Live(timer.entry.addr) THEN {mem[timer.entry.addr].info} ELSE Tasks
                   /\ door' = IF UtcDay(now) \in x.days THEN x.option ELSE door
      BY <1>2 DEF RunTask
    <2>3. x \in Tasks
      BY <2>1, <2>2 DEF Entry, MemAt
    <2>4. door' \in {"open", "close"}
      BY <2>2, <2>3, TaskTyped DEF TaskTypeOK
    <2>5. timer' \in [at : {"run", "again"}, entry : Entry]
      BY <1>2, <2>1 DEF RunTask
    <2>6. QED
      BY <1>2, <2>4, <2>5 DEF RunTask, TaskTypeOK, tables
  <1>3. CASE TimerAgain
    <2> DEFINE e == timer.entry
    <2>1. e \in Entry /\ e.addr \in Addrs
      BY <1>3 DEF TimerAgain, TaskTypeOK, Entry
    <2>2. CASE mem[e.addr].cancelled
      <3>1. mem' \in [Addrs -> MemAt]
        BY <1>3, <2>1, <2>2, ReleasedTyped DEF TimerAgain, Forget
      <3>2. QED
        BY <1>3, <2>2, <3>1 DEF TimerAgain, TaskTypeOK, MemAt, tables
    <2>3. CASE ~ mem[e.addr].cancelled
      <3>1. [e EXCEPT !.in = DayLength] \in Entry
        BY <2>1 DEF Entry
      <3>2. QED
        BY <1>3, <2>3, <3>1 DEF TimerAgain, TaskTypeOK, tables
    <2>4. QED
      BY <2>2, <2>3
  <1>4. CASE TimerClear
    <2>1. mem' \in [Addrs -> MemAt]
      BY <1>4, FewEntries, ReleasedTyped DEF TimerClear
    <2>2. wiped' \subseteq Addrs
      BY <1>4 DEF TimerClear, TaskTypeOK, Entry
    <2>3. queue' = {} /\ crossed' \subseteq {"add", "reset", "freed"} /\ cancel' = FALSE
      BY <1>4 DEF TimerClear, TaskTypeOK
    <2>4. QED
      BY <1>4, <2>1, <2>2, <2>3 DEF TimerClear, TaskTypeOK, MemAt, tables
  <1>5. CASE Tick
    <2>1. now' \in Minutes
      <3>1. 0 \in Int
        OBVIOUS
      <3>2. now' = (now + 1) % (DayLength * WeekLength)
        BY <1>5 DEF Tick
      <3>3. QED
        BY <3>1, <3>2, MinutePasses
    <2>2. ASSUME NEW e \in queue PROVE [e EXCEPT !.in = @ - 1] \in Entry
      <3>1. e \in Entry /\ e.in # 0
        BY <1>5, <2>2 DEF Tick, Due
      <3>2. QED
        BY <3>1 DEF Entry
    <2>3. queue' \subseteq Entry
      BY <1>5, <2>2 DEF Tick
    <2>4. QED
      BY <1>5, <2>1, <2>3 DEF Tick, TaskTypeOK, tables
  <1>6. QED
    BY <1>1, <1>2, <1>3, <1>4, <1>5 DEF TimerThread

-----------------------------------------------------------------------------
(* The invariant. *)

\* A reset that has taken the handlers away, and not made the new ones yet.
Midway == \E r \in Requests : pc[r].at \in {"read", "assign", "load"}

\* A reset was overlapped, by another one or by another change.
Overlapped == "add" \in crossed /\ "reset" \in crossed

\* Until then there is one reset at most, and no array has a task twice: what a
\* reset fills is empty.
OneReset ==
  ~ Overlapped =>
    \A r, q \in Requests :
      /\ pc[r].at \in {"stop", "read", "assign", "load"}
      /\ pc[q].at \in {"stop", "read", "assign", "load"}
      => r = q

Singles ==
  ~ Overlapped =>
    /\ Single(taskConfig) /\ Single(file)
    /\ \A r \in Requests :
         /\ pc[r].at \in {"assign", "load"} => Single(pc[r].tasks)
         /\ pc[r].at = "load" => taskConfig = Nothing

\* The entries there are, the one in the timer's hands included.
Entries == queue \cup (IF timer.at = "idle" THEN {} ELSE {timer.entry})

\* What is cancelled was freed, so that a reference given up is given up for
\* nothing; and the timer has what is due.
Handlers ==
  /\ \A a \in Addrs : mem[a].cancelled => mem[a].refs = 0
  /\ timer.at # "idle" => timer.entry.in = 0

\* Until the timer frees a handler that is in the map, those there are alive, and
\* every task has its own.
Mapped ==
  "freed" \notin crossed =>
    /\ \A i \in DOMAIN taskMap : Live(taskMap[i])
    /\ \A i, j \in DOMAIN taskMap : taskMap[i] = taskMap[j] => i = j

\* Nothing has come between a reset and its end.
Sound == "freed" \notin crossed /\ ~ Overlapped

\* The map and m_task_config agree, but for a reset, which is alone then.
Agrees ==
  Sound =>
    /\ ~ Midway => /\ DOMAIN taskMap = Present(taskConfig)
                   /\ \A i \in DOMAIN taskMap : Info(i) = SetTaskInfo(taskConfig[i][1])
    /\ Midway => taskMap = EmptyMap
    /\ Resetting => file = Factory
    /\ \A r \in Requests : pc[r].at \in {"assign", "load"} => pc[r].tasks = Factory

Saved == crossed \cap {"reset", "freed"} = {} /\ ~ Resetting => taskConfig = file

\* While no two additions overlap: what is saved is as addTask wants it, whichever
\* file the device starts from; and what a request has checked still holds.
Checked ==
  "add" \notin crossed =>
    /\ "freed" \notin crossed
    /\ Proper(taskConfig) /\ Proper(file)
    /\ \A r \in Requests :
         /\ pc[r].at \in {"exists", "insert"} => Cardinality(DOMAIN taskMap) < MaxTasks
         /\ pc[r].at = "insert" => ~ TaskExists(pc[r].info)

\* An entry says when the handler at its address runs.
Fits(e, i) ==
  e.addr = taskMap[i] /\ ~ e.stale /\ LocalMinute(now + e.in) = Info(i).at

\* Every entry that is not stale is one of a task in the map.
Owned ==
  Sound =>
    \A e \in Entries : ~ e.stale =>
      \E i \in DOMAIN taskMap : Info(i).active /\ Fits(e, i)

TaskInv ==
  /\ TaskTypeOK /\ OneReset /\ Singles /\ Handlers /\ Mapped
  /\ Agrees /\ Saved /\ Checked /\ ActiveScheduled /\ Owned

-----------------------------------------------------------------------------
(* What a change of the tasks does to the handlers and to the entries.      *)

\* The handlers at the addresses gone are freed; the tasks kept keep theirs, and
\* every other task has a new one, with an entry when it is active.
Replaces(gone, kept) ==
  /\ kept \subseteq DOMAIN taskMap /\ kept \subseteq DOMAIN taskMap'
  /\ \A i \in kept :
       /\ taskMap'[i] = taskMap[i] /\ taskMap[i] \notin gone
       /\ mem'[taskMap[i]] = mem[taskMap[i]]
       /\ taskMap[i] \in wiped => taskMap[i] \in wiped'
  /\ \A i \in DOMAIN taskMap \ kept : taskMap[i] \in gone
  /\ \A i \in DOMAIN taskMap' \ kept :
       /\ mem'[taskMap'[i]].refs > 0
       /\ \A j \in DOMAIN taskMap' : taskMap'[i] = taskMap'[j] => i = j
       /\ mem'[taskMap'[i]].info.active => \E e \in Entries' : Fits(e, i)'
  /\ \A e \in Entries : e.addr \notin gone => e \in Entries'
  /\ Sound =>
       \A e \in Entries' :
         \/ e.stale
         \/ e \in Entries /\ e.addr \notin gone
         \/ \E i \in DOMAIN taskMap' \ kept : mem'[taskMap'[i]].info.active /\ Fits(e, i)'
  /\ now' = now /\ crossed \subseteq crossed'

\* An entry of a task that is kept fits it still.
LEMMA KeptInfo ==
  ASSUME NEW gone, NEW kept, Replaces(gone, kept), NEW i \in kept
  PROVE  Info(i)' = Info(i)
  BY DEF Replaces, Info

LEMMA KeptFits ==
  ASSUME NEW gone, NEW kept, Replaces(gone, kept), NEW i \in kept, NEW e
  PROVE  Fits(e, i) <=> Fits(e, i)'
  <1>1. taskMap'[i] = taskMap[i] /\ mem'[taskMap[i]] = mem[taskMap[i]] /\ now' = now
    BY DEF Replaces
  <1>2. QED
    BY <1>1 DEF Fits, Info, LocalMinute

LEMMA ReplacesKeeps ==
  ASSUME TaskInv, NEW gone, NEW kept, Replaces(gone, kept)
  PROVE  Mapped' /\ ActiveScheduled' /\ Owned'
  <1>1. Mapped'
    <2> SUFFICES ASSUME "freed" \notin crossed'
                 PROVE  /\ \A i \in DOMAIN taskMap' : mem'[taskMap'[i]].refs > 0
                        /\ \A i, j \in DOMAIN taskMap' : taskMap'[i] = taskMap'[j] => i = j
      BY DEF Mapped, Live
    <2>1. "freed" \notin crossed
      BY DEF Replaces
    <2>2. /\ \A i \in DOMAIN taskMap : mem[taskMap[i]].refs > 0
          /\ \A i, j \in DOMAIN taskMap : taskMap[i] = taskMap[j] => i = j
      BY <2>1 DEF TaskInv, Mapped, Live
    <2>3. QED
      BY <2>2 DEF Replaces
  <1>2. ActiveScheduled'
    <2> SUFFICES ASSUME "freed" \notin crossed', NEW i \in DOMAIN taskMap',
                        Info(i)'.active, taskMap'[i] \notin wiped'
                 PROVE  \E e \in Entries' : Fits(e, i)'
      BY DEF ActiveScheduled, Entries, Fits
    <2>1. CASE i \in kept
      <3>1. "freed" \notin crossed /\ i \in DOMAIN taskMap /\ taskMap[i] \notin wiped
        BY <2>1 DEF Replaces
      <3>2. Info(i)' = Info(i)
        BY <2>1, KeptInfo
      <3>3. Info(i).active
        BY <3>2
      <3>4. PICK e \in Entries : Fits(e, i)
        BY <3>1, <3>3 DEF TaskInv, ActiveScheduled, Entries, Fits
      <3>5. e \in Entries'
        BY <2>1, <3>4 DEF Replaces, Fits
      <3>6. QED
        BY <2>1, <3>4, <3>5, KeptFits
    <2>2. CASE i \notin kept
      BY <2>2 DEF Replaces, Info
    <2>3. QED
      BY <2>1, <2>2
  <1>3. Owned'
    <2> SUFFICES ASSUME Sound', NEW e \in Entries', ~ e.stale
                 PROVE  \E i \in DOMAIN taskMap' : Info(i)'.active /\ Fits(e, i)'
      BY DEF Owned
    <2>1. Sound
      BY DEF Replaces, Sound, Overlapped
    <2>2. CASE e \in Entries /\ e.addr \notin gone
      <3>1. PICK i \in DOMAIN taskMap : Info(i).active /\ Fits(e, i)
        BY <2>1, <2>2 DEF TaskInv, Owned
      <3>2. i \in kept
        BY <2>2, <3>1 DEF Replaces, Fits
      <3>3. Info(i)' = Info(i) /\ i \in DOMAIN taskMap'
        BY <3>2, KeptInfo DEF Replaces
      <3>4. Info(i)'.active /\ Fits(e, i)'
        BY <3>1, <3>2, <3>3, KeptFits
      <3>5. QED
        BY <3>3, <3>4
    <2>3. CASE \E i \in DOMAIN taskMap' \ kept : mem'[taskMap'[i]].info.active /\ Fits(e, i)'
      BY <2>3 DEF Info
    <2>4. QED
      BY <2>1, <2>2, <2>3 DEF Replaces
  <1>4. QED
    BY <1>1, <1>2, <1>3

\* Entries of other addresses are not spoilt.
LEMMA SpoiltEntries ==
  ASSUME TaskTypeOK, NEW addrs, NEW new,
         queue' = {Spoilt(e, addrs) : e \in queue} \cup new, SpoilTimer(addrs)
  PROVE  /\ \A e \in Entries : e.addr \notin addrs => e \in Entries'
         /\ \A e \in new : e \in Entries'
         /\ \A e \in Entries' : e.stale \/ (e \in Entries /\ e.addr \notin addrs) \/ e \in new
  <1>1. ASSUME NEW e \in Entry, e.addr \notin addrs PROVE Spoilt(e, addrs) = e
    <2>1. (e.stale \/ e.addr \in addrs) = e.stale
      BY <1>1 DEF Entry
    <2>2. QED
      BY <2>1 DEF Spoilt, Entry
  <1>2. ASSUME NEW e \in Entry PROVE e.addr \in addrs => Spoilt(e, addrs).stale
    BY SpoiltTyped
  <1>3. queue \subseteq Entry /\ (timer.at # "idle" => timer.entry \in Entry)
    BY DEF TaskTypeOK
  <1>4. /\ timer'.at = timer.at
        /\ timer.at # "idle" => timer'.entry = Spoilt(timer.entry, addrs)
    BY SpoilTyped
  <1>5. \A e : e \in Entries' <=>
                 \/ \E d \in Entries : e = Spoilt(d, addrs)
                 \/ e \in new
    BY <1>4 DEF Entries
  <1>6. \A d \in Entries : d \in Entry
    BY <1>3 DEF Entries
  <1>7. QED
    BY <1>1, <1>2, <1>5, <1>6

LEMMA InsertReplaces ==
  ASSUME TaskInv, NEW r \in Requests, InsertTask(r), "freed" \notin crossed
  PROVE  \E id \in Ids \ DOMAIN taskMap :
           /\ taskConfig[id] = <<>>
           /\ Replaces({}, DOMAIN taskMap)
           /\ DOMAIN taskMap' = DOMAIN taskMap \cup {id}
           /\ Info(id)' = SetTaskInfo(pc[r].info)
           /\ SaveTasks([taskConfig EXCEPT ![id] = Append(@, pc[r].info)])
  <1> DEFINE x == SetTaskInfo(pc[r].info)
  <1>1. PICK id, a :
          /\ id \in Fresh /\ a \in Addrs /\ ~ Live(a)
          /\ SaveTasks([taskConfig EXCEPT ![id] = Append(@, pc[r].info)])
          /\ taskMap' = Insert(taskMap, id, a)
          /\ mem' = [mem EXCEPT ![a] = Handler(x, TRUE)]
          /\ queue' = queue \cup AddToScheduleQueue(a, x)
          /\ wiped' = wiped \ {a}
          /\ Cross(r) /\ UNCHANGED <<cancel, timer, now, door>>
    BY DEF InsertTask
  <1>2. /\ TaskTypeOK /\ now \in Minutes
        /\ \A i \in DOMAIN taskMap : Live(taskMap[i])
    BY DEF TaskInv, TaskTypeOK, Mapped
  <1>3. id \in Ids \ DOMAIN taskMap /\ taskConfig[id] = <<>> /\ x \in Tasks
    BY <1>1, <1>2, HeldTyped, SetTyped DEF Fresh, InsertTask, At
  <1> HIDE DEF x
  <1>4. /\ DOMAIN taskMap' = DOMAIN taskMap \cup {id} /\ taskMap'[id] = a
        /\ \A i \in DOMAIN taskMap : taskMap'[i] = taskMap[i]
    BY <1>1, <1>3 DEF Insert
  <1>5. mem'[a] = Handler(x, TRUE) /\ \A b \in Addrs \ {a} : mem'[b] = mem[b]
    BY <1>1, <1>2 DEF TaskTypeOK
  <1>6. mem'[a].info = x /\ mem'[a].refs > 0
    BY <1>3, <1>5, HandlerTyped
  <1>7. ASSUME NEW i \in DOMAIN taskMap
        PROVE  /\ taskMap[i] # a /\ mem'[taskMap[i]] = mem[taskMap[i]]
               /\ taskMap[i] \in wiped => taskMap[i] \in wiped'
    BY <1>1, <1>2, <1>5, MapsValue
  <1>8. \A e : e \in Entries' <=> e \in Entries \/ e \in AddToScheduleQueue(a, x)
    BY <1>1 DEF Entries
  <1>9. ASSUME NEW e \in AddToScheduleQueue(a, x)
        PROVE  mem'[taskMap'[id]].info.active /\ Fits(e, id)'
    <2>1. e.addr = a /\ ~ e.stale /\ x.active /\ LocalMinute(now + e.in) = x.at
      BY <1>1, <1>2, <1>3, EntryTyped
    <2>2. mem'[taskMap'[id]].info = x /\ taskMap'[id] = a
      BY <1>4, <1>6
    <2>3. LocalMinute(now + e.in)' = LocalMinute(now + e.in)
      BY <1>1 DEF LocalMinute
    <2>4. mem'[taskMap'[id]].info.active
      BY <2>1, <2>2
    <2>5. Fits(e, id)'
      BY <2>1, <2>2, <2>3 DEF Fits, Info
    <2>6. QED
      BY <2>4, <2>5
  <1>10. ASSUME mem'[a].info.active
         PROVE  \E e \in Entries' : Fits(e, id)'
    <2>1. PICK e \in AddToScheduleQueue(a, x) : TRUE
      BY <1>1, <1>2, <1>3, <1>6, <1>10, EntryMade
    <2>2. QED
      BY <1>8, <1>9, <2>1
  <1>11. crossed \subseteq crossed'
    BY <1>1 DEF Cross
  <1>12. Replaces({}, DOMAIN taskMap)
    <2>1. DOMAIN taskMap' \ DOMAIN taskMap = {id}
      BY <1>3, <1>4
    <2>2. \A j \in DOMAIN taskMap' : taskMap'[id] = taskMap'[j] => id = j
      BY <1>4, <1>7
    <2>3. Sound =>
            \A e \in Entries' :
              \/ e.stale
              \/ e \in Entries /\ e.addr \notin {}
              \/ \E i \in DOMAIN taskMap' \ DOMAIN taskMap :
                   mem'[taskMap'[i]].info.active /\ Fits(e, i)'
      BY <1>8, <1>9, <2>1
    <2>4. \A i \in DOMAIN taskMap' \ DOMAIN taskMap :
            /\ mem'[taskMap'[i]].refs > 0
            /\ \A j \in DOMAIN taskMap' : taskMap'[i] = taskMap'[j] => i = j
            /\ mem'[taskMap'[i]].info.active => \E e \in Entries' : Fits(e, i)'
      BY <1>4, <1>6, <1>10, <2>1, <2>2
    <2>5. QED
      BY <1>1, <1>4, <1>7, <1>8, <1>11, <2>3, <2>4 DEF Replaces
  <1>13. Info(id)' = x
    BY <1>4, <1>6 DEF Info
  <1>14. QED
    BY <1>1, <1>3, <1>4, <1>12, <1>13 DEF x

LEMMA RemoveReplaces ==
  ASSUME TaskInv, NEW r \in Requests, RemoveTask(r), "freed" \notin crossed
  PROVE  \E id \in DOMAIN taskMap :
           /\ Replaces({taskMap[id]}, DOMAIN taskMap \ {id})
           /\ DOMAIN taskMap' = DOMAIN taskMap \ {id}
           /\ IF id \in Present(taskConfig)
              THEN SaveTasks([taskConfig EXCEPT ![id] = Tail(@)])
              ELSE UNCHANGED <<taskConfig, file>>
  <1>1. PICK id \in DOMAIN taskMap :
          LET a == taskMap[id]
          IN  /\ mem' = Discard({a})
              /\ queue' = {Spoilt(e, {a}) : e \in queue} /\ SpoilTimer({a})
              /\ wiped' = wiped \ {a}
              /\ taskMap' = Erase(taskMap, id)
              /\ IF id \in Present(taskConfig)
                 THEN SaveTasks([taskConfig EXCEPT ![id] = Tail(@)])
                 ELSE UNCHANGED <<taskConfig, file>>
              /\ Cross(r) /\ UNCHANGED <<cancel, now, door>>
    BY DEF RemoveTask
  <1> DEFINE a == taskMap[id]
  <1>2. /\ TaskTypeOK /\ mem \in [Addrs -> MemAt]
        /\ \A i, j \in DOMAIN taskMap : taskMap[i] = taskMap[j] => i = j
    BY DEF TaskInv, TaskTypeOK, Mapped, MemAt
  <1>3. /\ DOMAIN taskMap' = DOMAIN taskMap \ {id}
        /\ \A i \in DOMAIN taskMap \ {id} : taskMap'[i] = taskMap[i] /\ taskMap[i] # a
    BY <1>1, <1>2 DEF Erase, Restrict
  <1>4. \A i \in DOMAIN taskMap \ {id} : mem'[taskMap[i]] = mem[taskMap[i]]
    BY <1>1, <1>2, <1>3, MapsValue, DiscardTyped
  <1>5. /\ \A e \in Entries : e.addr \notin {a} => e \in Entries'
        /\ \A e \in Entries' : e.stale \/ (e \in Entries /\ e.addr \notin {a}) \/ e \in {}
    <2> DEFINE new == {}
    <2>1. queue' = {Spoilt(e, {a}) : e \in queue} \cup new /\ SpoilTimer({a})
      BY <1>1
    <2> HIDE DEF a, new
    <2>2. /\ \A e \in Entries : e.addr \notin {a} => e \in Entries'
          /\ \A e \in Entries' : e.stale \/ (e \in Entries /\ e.addr \notin {a}) \/ e \in new
      BY <1>2, <2>1, SpoiltEntries
    <2>3. QED
      BY <2>2 DEF new
  <1>6. crossed \subseteq crossed'
    BY <1>1 DEF Cross
  <1>7. Replaces({a}, DOMAIN taskMap \ {id})
    BY <1>1, <1>3, <1>4, <1>5, <1>6 DEF Replaces
  <1>8. QED
    BY <1>1, <1>3, <1>7

LEMMA ModifyReplaces ==
  ASSUME TaskInv, NEW r \in Requests, ModifyTask(r), "freed" \notin crossed
  PROVE  \E id \in DOMAIN taskMap, x \in Infos :
           /\ ~ TaskExists(x)
           /\ Replaces({taskMap[id]}, DOMAIN taskMap \ {id})
           /\ DOMAIN taskMap' = DOMAIN taskMap /\ Info(id)' = SetTaskInfo(x)
           /\ IF id \in Present(taskConfig)
              THEN SaveTasks([taskConfig EXCEPT ![id] = <<x>> \o Tail(@)])
              ELSE UNCHANGED <<taskConfig, file>>
  <1>1. PICK id, x, b :
          /\ id \in DOMAIN taskMap /\ x \in Infos /\ b \in Addrs
          /\ LET a == taskMap[id]
             IN  /\ ~ TaskExists(x)
                 /\ Discard({a})[b].refs = 0
                 /\ mem' = [Discard({a}) EXCEPT ![b] = Handler(SetTaskInfo(x), TRUE)]
                 /\ queue' = {Spoilt(e, {a}) : e \in queue}
                                \cup AddToScheduleQueue(b, SetTaskInfo(x))
                 /\ taskMap' = [taskMap EXCEPT ![id] = b]
                 /\ wiped' = wiped \ {a, b}
                 /\ SpoilTimer({a})
                 /\ IF id \in Present(taskConfig)
                    THEN SaveTasks([taskConfig EXCEPT ![id] = <<x>> \o Tail(@)])
                    ELSE UNCHANGED <<taskConfig, file>>
                 /\ Cross(r) /\ UNCHANGED <<cancel, now, door>>
    BY DEF ModifyTask
  <1> DEFINE a == taskMap[id]
             h == SetTaskInfo(x)
             new == AddToScheduleQueue(b, h)
             kept == DOMAIN taskMap \ {id}
  <1>2. /\ TaskTypeOK /\ mem \in [Addrs -> MemAt] /\ now \in Minutes
        /\ taskMap \in [DOMAIN taskMap -> Addrs]
        /\ \A i \in DOMAIN taskMap : mem[taskMap[i]].refs > 0
        /\ \A i, j \in DOMAIN taskMap : taskMap[i] = taskMap[j] => i = j
    BY MapsDef DEF TaskInv, TaskTypeOK, Mapped, MemAt, Live
  <1>3. /\ DOMAIN taskMap' = DOMAIN taskMap /\ taskMap'[id] = b
        /\ \A i \in kept : taskMap'[i] = taskMap[i] /\ taskMap[i] # a
    BY <1>1, <1>2
  <1>4. \A c \in Addrs \ {a} : Discard({a})[c] = mem[c]
    BY <1>2, DiscardTyped
  <1>5. ASSUME NEW i \in kept PROVE taskMap[i] # b
    <2>1. CASE b = a
      BY <1>3, <2>1
    <2>2. CASE b # a
      <3>1. mem[b].refs = 0
        BY <1>1, <1>4, <2>2
      <3>2. QED
        BY <1>2, <3>1
    <2>3. QED
      BY <2>1, <2>2
  <1>6. /\ \A i \in kept : mem'[taskMap[i]] = mem[taskMap[i]]
        /\ mem'[b] = Handler(h, TRUE)
    <2>1. Discard({a}) \in [Addrs -> MemAt]
      BY <1>2, DiscardTyped
    <2>2. QED
      BY <1>1, <1>2, <1>3, <1>4, <1>5, <2>1
  <1>15. h \in Tasks
    BY <1>1, SetTyped
  <1>7. mem'[b].info = h /\ mem'[b].refs > 0
    BY <1>6, <1>15, HandlerTyped
  <1>8. /\ \A e \in Entries : e.addr \notin {a} => e \in Entries'
        /\ \A e \in new : e \in Entries'
        /\ \A e \in Entries' : e.stale \/ (e \in Entries /\ e.addr \notin {a}) \/ e \in new
    <2>1. queue' = {Spoilt(e, {a}) : e \in queue} \cup new /\ SpoilTimer({a})
      BY <1>1
    <2> HIDE DEF a, new
    <2>2. QED
      BY <1>2, <2>1, SpoiltEntries
  <1>9. ASSUME NEW e \in new
        PROVE  mem'[taskMap'[id]].info.active /\ Fits(e, id)'
    <2>1. e.addr = b /\ ~ e.stale /\ h.active /\ LocalMinute(now + e.in) = h.at
      BY <1>1, <1>2, <1>15, EntryTyped
    <2>2. mem'[taskMap'[id]].info = h /\ taskMap'[id] = b
      BY <1>3, <1>7
    <2>3. LocalMinute(now + e.in)' = LocalMinute(now + e.in)
      BY <1>1 DEF LocalMinute
    <2>4. mem'[taskMap'[id]].info.active
      BY <2>1, <2>2
    <2>5. Fits(e, id)'
      BY <2>1, <2>2, <2>3 DEF Fits, Info
    <2>6. QED
      BY <2>4, <2>5
  <1>10. ASSUME mem'[b].info.active
         PROVE  \E e \in Entries' : Fits(e, id)'
    <2>1. PICK e \in AddToScheduleQueue(b, h) : TRUE
      BY <1>1, <1>2, <1>7, <1>10, <1>15, EntryMade
    <2>2. QED
      BY <1>8, <1>9, <2>1
  <1>11. crossed \subseteq crossed'
    BY <1>1 DEF Cross
  <1>12. Replaces({a}, kept)
    <2>1. DOMAIN taskMap' \ kept = {id} /\ DOMAIN taskMap \ kept = {id}
      BY <1>1, <1>3
    <2>2. \A j \in DOMAIN taskMap' : taskMap'[id] = taskMap'[j] => id = j
      BY <1>3, <1>5
    <2>3. \A e \in Entries' :
            \/ e.stale
            \/ e \in Entries /\ e.addr \notin {a}
            \/ \E i \in DOMAIN taskMap' \ kept :
                 mem'[taskMap'[i]].info.active /\ Fits(e, i)'
      BY <1>8, <1>9, <2>1
    <2>4. \A i \in DOMAIN taskMap' \ kept :
            /\ mem'[taskMap'[i]].refs > 0
            /\ \A j \in DOMAIN taskMap' : taskMap'[i] = taskMap'[j] => i = j
            /\ mem'[taskMap'[i]].info.active => \E e \in Entries' : Fits(e, i)'
      BY <1>3, <1>7, <1>10, <2>1, <2>2
    <2>5. \A i \in kept : taskMap[i] \in wiped => taskMap[i] \in wiped'
      BY <1>1, <1>3, <1>5
    <2>6. QED
      BY <1>1, <1>3, <1>6, <1>8, <1>11, <2>1, <2>3, <2>4, <2>5 DEF Replaces
  <1>13. Info(id)' = SetTaskInfo(x)
    BY <1>3, <1>7 DEF Info
  <1>14. QED
    BY <1>1, <1>3, <1>12, <1>13

LEMMA StopReplaces ==
  ASSUME TaskInv, NEW r \in Requests, StopAllTasks(r), "freed" \notin crossed
  PROVE  \E gone : Replaces(gone, {})
  <1> DEFINE gone == {taskMap[i] : i \in DOMAIN taskMap}
             new == {}
  <1>1. /\ queue' = {Spoilt(e, gone) : e \in queue} \cup new /\ SpoilTimer(gone)
        /\ taskMap' = EmptyMap /\ now' = now /\ crossed' = crossed
    BY DEF StopAllTasks
  <1>2. DOMAIN taskMap' = {}
    BY <1>1, EmptyMapTyped
  <1>3. TaskTypeOK
    BY DEF TaskInv
  <1>4. \A i \in DOMAIN taskMap : taskMap[i] \in gone
    OBVIOUS
  <1> HIDE DEF gone, new
  <1>5. /\ \A e \in Entries : e.addr \notin gone => e \in Entries'
        /\ \A e \in Entries' : e.stale \/ (e \in Entries /\ e.addr \notin gone) \/ e \in new
    BY <1>1, <1>3, SpoiltEntries
  <1>6. \A e \in Entries' : e.stale \/ (e \in Entries /\ e.addr \notin gone)
    BY <1>5 DEF new
  <1>7. Replaces(gone, {})
    BY <1>1, <1>2, <1>4, <1>5, <1>6 DEF Replaces
  <1>8. QED
    BY <1>7

LEMMA LoadReplaces ==
  ASSUME TaskInv, NEW r \in Requests, LoadTasks(r), "freed" \notin crossed
  PROVE  /\ Replaces({}, DOMAIN taskMap)
         /\ DOMAIN taskMap' = DOMAIN taskMap \cup Present(pc[r].tasks)
         /\ \A i \in Present(pc[r].tasks) \ DOMAIN taskMap :
              Info(i)' = SetTaskInfo(pc[r].tasks[i][1])
  <1> DEFINE tasks == pc[r].tasks
             ids == Present(tasks) \ DOMAIN taskMap
             A == {b \in Addrs : ~ Live(b)}
  <1>1. PICK g \in Placements(Slots(tasks), A) :
          /\ taskMap' = [i \in DOMAIN taskMap \cup ids |->
                           IF i \in ids THEN g[<<i, 1>>] ELSE taskMap[i]]
          /\ mem' = Loaded(mem, g, tasks, ids)
          /\ queue' = queue \cup Schedule(g, tasks)
          /\ wiped' = wiped \ {g[s] : s \in DOMAIN g}
          /\ UNCHANGED <<file, cancel, timer, now, door>> /\ crossed \subseteq crossed'
    BY DEF LoadTasks
  <1>2. /\ TaskTypeOK /\ mem \in [Addrs -> MemAt] /\ now \in Minutes
        /\ \A i \in DOMAIN taskMap : taskMap[i] \in Addrs /\ Live(taskMap[i])
    BY MapsValue DEF TaskInv, TaskTypeOK, Mapped, MemAt
  <1>3. tasks \in Arrays
    BY <1>2, HeldTyped DEF LoadTasks, At
  <1>4. Sound => DOMAIN taskMap = {} /\ Single(tasks)
    <2>1. Midway /\ pc[r].at = "load"
      BY DEF LoadTasks, At, Midway
    <2>2. QED
      BY <2>1, EmptyMapTyped DEF TaskInv, Agrees, Sound, Singles
  <1> HIDE DEF tasks
  <1>18. /\ \A s \in Slots(tasks) : s[1] \in Present(tasks)
         /\ \A i \in Present(tasks) :
              <<i, 1>> \in Slots(tasks) /\ TaskAt(tasks, <<i, 1>>) = SetTaskInfo(tasks[i][1])
    BY <1>3, SlotTyped
  <1>5. /\ g \in [Slots(tasks) -> A] /\ DOMAIN g = Slots(tasks) /\ A \subseteq Addrs
        /\ g \in [Slots(tasks) -> Addrs]
        /\ \A s, t \in Slots(tasks) : g[s] = g[t] => s = t
    BY <1>1 DEF Placements
  <1>6. /\ \A s \in Slots(tasks) :
             /\ mem'[g[s]].info = TaskAt(tasks, s)
             /\ s[1] \in ids /\ s[2] = 1 => mem'[g[s]].refs > 0
        /\ \A a \in Addrs : (\A s \in Slots(tasks) : g[s] # a) => mem'[a] = mem[a]
    <2>1. g \in Placements(Slots(tasks), A) /\ mem' = Loaded(mem, g, tasks, ids)
      BY <1>1
    <2>2. mem \in [Addrs -> MemAt] /\ tasks \in Arrays /\ A \subseteq Addrs
      BY <1>2, <1>3
    <2> HIDE DEF ids, A
    <2>3. QED
      BY <2>1, <2>2, LoadedTyped
  <1>7. /\ DOMAIN taskMap' = DOMAIN taskMap \cup Present(tasks)
        /\ \A i \in ids : taskMap'[i] = g[<<i, 1>>]
        /\ \A i \in DOMAIN taskMap : taskMap'[i] = taskMap[i]
    BY <1>1
  <1>8. ASSUME NEW i \in ids
        PROVE  /\ mem'[taskMap'[i]].info = TaskAt(tasks, <<i, 1>>)
               /\ mem'[taskMap'[i]].refs > 0
    BY <1>6, <1>7, <1>18
  <1>9. \A i \in DOMAIN taskMap, s \in Slots(tasks) : taskMap[i] # g[s]
    BY <1>2, <1>5
  <1>10. \A i \in DOMAIN taskMap : mem'[taskMap[i]] = mem[taskMap[i]]
    BY <1>2, <1>6, <1>9
  <1>11. \A e : e \in Entries' <=> e \in Entries \/ e \in Schedule(g, tasks)
    BY <1>1 DEF Entries
  <1>12. ASSUME NEW i \in ids, NEW e, e.addr = g[<<i, 1>>], ~ e.stale,
                LocalMinute(now + e.in) = TaskAt(tasks, <<i, 1>>).at
         PROVE  Fits(e, i)'
    <2>1. LocalMinute(now + e.in)' = LocalMinute(now + e.in)
      BY <1>1 DEF LocalMinute
    <2>2. QED
      BY <1>7, <1>8, <1>12, <2>1 DEF Fits, Info
  <1>13. ASSUME Sound, NEW e \in Schedule(g, tasks)
         PROVE  \E i \in ids : mem'[taskMap'[i]].info.active /\ Fits(e, i)'
    <2>1. ~ e.stale
      BY <1>2, <1>3, <1>5, ScheduleEntries
    <2>2. PICK s \in Slots(tasks) :
            /\ e.addr = g[s] /\ TaskAt(tasks, s).active
            /\ LocalMinute(now + e.in) = TaskAt(tasks, s).at
      BY <1>2, <1>3, <1>5, ScheduleEntries
    <2>3. PICK i : i \in Present(tasks) /\ s = <<i, 1>>
      BY <1>3, <1>4, <1>13, SingleSlots
    <2>4. i \in ids
      BY <1>4, <1>13, <2>3
    <2>5. mem'[taskMap'[i]].info.active
      BY <1>8, <2>2, <2>3, <2>4
    <2>6. QED
      BY <1>12, <2>1, <2>2, <2>3, <2>4, <2>5
  <1>14. ASSUME NEW i \in ids, mem'[taskMap'[i]].info.active
         PROVE  \E e \in Entries' : Fits(e, i)'
    <2>1. <<i, 1>> \in Slots(tasks) /\ TaskAt(tasks, <<i, 1>>).active
      BY <1>8, <1>14, <1>18
    <2>2. PICK e \in Schedule(g, tasks) :
            /\ e.addr = g[<<i, 1>>] /\ ~ e.stale
            /\ LocalMinute(now + e.in) = TaskAt(tasks, <<i, 1>>).at
      BY <1>2, <1>3, <1>5, <2>1, ScheduleEntries
    <2>3. QED
      BY <1>11, <1>12, <2>2
  <1>15. Replaces({}, DOMAIN taskMap)
    <2>1. DOMAIN taskMap' \ DOMAIN taskMap = ids
      BY <1>7
    <2>2. \A i \in ids, j \in DOMAIN taskMap' : taskMap'[i] = taskMap'[j] => i = j
      <3>1. ASSUME NEW i \in ids, NEW j \in ids, taskMap'[i] = taskMap'[j] PROVE i = j
        <4>1. g[<<i, 1>>] = g[<<j, 1>>]
          BY <1>7, <3>1
        <4>2. <<i, 1>> \in Slots(tasks) /\ <<j, 1>> \in Slots(tasks)
          BY <1>18
        <4>3. <<i, 1>> = <<j, 1>>
          BY <1>5, <4>1, <4>2
        <4>4. QED
          BY <4>3
      <3>2. ASSUME NEW i \in ids, NEW j \in DOMAIN taskMap PROVE taskMap'[i] # taskMap'[j]
        BY <1>7, <1>9, <1>18
      <3>3. QED
        BY <1>7, <3>1, <3>2
    <2>3. Sound =>
            \A e \in Entries' :
              \/ e.stale
              \/ e \in Entries /\ e.addr \notin {}
              \/ \E i \in DOMAIN taskMap' \ DOMAIN taskMap :
                   mem'[taskMap'[i]].info.active /\ Fits(e, i)'
      BY <1>11, <1>13, <2>1
    <2>4. \A i \in DOMAIN taskMap' \ DOMAIN taskMap :
            /\ mem'[taskMap'[i]].refs > 0
            /\ \A j \in DOMAIN taskMap' : taskMap'[i] = taskMap'[j] => i = j
            /\ mem'[taskMap'[i]].info.active => \E e \in Entries' : Fits(e, i)'
      BY <1>8, <1>14, <2>1, <2>2
    <2>5. \A i \in DOMAIN taskMap : taskMap[i] \in wiped => taskMap[i] \in wiped'
      BY <1>1, <1>5, <1>9
    <2>6. QED
      BY <1>1, <1>7, <1>10, <1>11, <2>3, <2>4, <2>5 DEF Replaces
  <1>16. \A i \in ids : Info(i)' = SetTaskInfo(tasks[i][1])
    BY <1>8, <1>18 DEF Info
  <1>17. QED
    BY <1>7, <1>15, <1>16 DEF tasks

\* What no request touches stays.
LEMMA NothingReplaced ==
  ASSUME UNCHANGED <<taskMap, mem, queue, timer, now, wiped>>, crossed \subseteq crossed'
  PROVE  Replaces({}, DOMAIN taskMap)
  BY DEF Replaces, Entries

LEMMA HandleCrosses ==
  ASSUME TaskInv, NEW r \in Requests, Handle(r)
  PROVE  crossed \subseteq crossed'
  BY DEF Handle, Add, CheckSize, CheckExists, InsertTask, RemoveTask, ModifyTask, Reset,
         StopAllTasks, ReadTasks, Assign, LoadTasks, Cross

LEMMA HandleReplaces ==
  ASSUME TaskInv, NEW r \in Requests, Handle(r), "freed" \notin crossed
  PROVE  \E gone, kept : Replaces(gone, kept)
  <1>1. CASE Add(r) \/ CheckSize(r) \/ CheckExists(r) \/ Reset(r) \/ ReadTasks(r) \/ Assign(r)
    <2>1. UNCHANGED <<taskMap, mem, queue, timer, now, wiped>>
      BY <1>1 DEF Add, CheckSize, CheckExists, Reset, ReadTasks, Assign, tables, timerVars
    <2>2. QED
      BY <2>1, HandleCrosses, NothingReplaced
  <1>2. CASE InsertTask(r)
    BY <1>2, InsertReplaces
  <1>3. CASE RemoveTask(r)
    BY <1>3, RemoveReplaces
  <1>4. CASE ModifyTask(r)
    BY <1>4, ModifyReplaces
  <1>5. CASE StopAllTasks(r)
    BY <1>5, StopReplaces
  <1>6. CASE LoadTasks(r)
    BY <1>6, LoadReplaces
  <1>7. QED
    BY <1>1, <1>2, <1>3, <1>4, <1>5, <1>6 DEF Handle

LEMMA HandleKeeps ==
  ASSUME TaskInv, NEW r \in Requests, Handle(r)
  PROVE  Mapped' /\ ActiveScheduled' /\ Owned'
  <1>1. CASE "freed" \in crossed
    BY <1>1, HandleCrosses DEF Mapped, ActiveScheduled, Owned, Sound
  <1>2. CASE "freed" \notin crossed
    BY <1>2, HandleReplaces, ReplacesKeeps
  <1>3. QED
    BY <1>1, <1>2

-----------------------------------------------------------------------------
(* What is cancelled has no references. *)

LEMMA HandleHandlers ==
  ASSUME TaskInv, NEW r \in Requests, Handle(r)
  PROVE  Handlers'
  <1>1. /\ TaskTypeOK /\ mem \in [Addrs -> MemAt]
        /\ \A a \in Addrs : mem[a].cancelled => mem[a].refs = 0
        /\ timer.at # "idle" => timer.entry \in Entry /\ timer.entry.in = 0
    BY DEF TaskInv, TaskTypeOK, Handlers, MemAt
  <1>2. ASSUME NEW addrs
        PROVE  /\ Discard(addrs) \in [Addrs -> MemAt]
               /\ \A a \in Addrs : Discard(addrs)[a].cancelled => Discard(addrs)[a].refs = 0
    BY <1>1, DiscardTyped, FreedTyped
  <1>3. ASSUME NEW addrs, SpoilTimer(addrs)
        PROVE  timer'.at # "idle" => timer'.entry.in = 0
    BY <1>1, <1>3, SpoilTyped, SpoiltTyped
  <1>4. CASE Add(r) \/ CheckSize(r) \/ CheckExists(r) \/ Reset(r) \/ ReadTasks(r) \/ Assign(r)
    <2>1. UNCHANGED <<mem, timer>>
      BY <1>4 DEF Add, CheckSize, CheckExists, Reset, ReadTasks, Assign, timerVars
    <2>2. QED
      BY <1>1, <2>1 DEF Handlers
  <1>5. CASE InsertTask(r)
    <2> DEFINE h == SetTaskInfo(pc[r].info)
    <2>1. PICK a \in Addrs : mem' = [mem EXCEPT ![a] = Handler(h, TRUE)] /\ timer' = timer
      BY <1>5 DEF InsertTask
    <2>2. h \in Tasks
      BY <1>1, <1>5, HeldTyped, SetTyped DEF InsertTask, At
    <2> HIDE DEF h
    <2>3. ~ Handler(h, TRUE).cancelled
      BY <2>2, HandlerTyped
    <2>4. QED
      BY <1>1, <2>1, <2>3 DEF Handlers
  <1>6. CASE RemoveTask(r)
    <2>1. PICK addrs : mem' = Discard(addrs) /\ SpoilTimer(addrs)
      BY <1>6 DEF RemoveTask
    <2>2. QED
      BY <1>2, <1>3, <2>1 DEF Handlers
  <1>7. CASE ModifyTask(r)
    <2>1. PICK addrs, h, b :
            /\ h \in Tasks /\ b \in Addrs
            /\ mem' = [Discard(addrs) EXCEPT ![b] = Handler(h, TRUE)] /\ SpoilTimer(addrs)
      BY <1>7, SetTyped DEF ModifyTask
    <2>2. ~ Handler(h, TRUE).cancelled
      BY <2>1, HandlerTyped
    <2>3. \A a \in Addrs : mem'[a].cancelled => mem'[a].refs = 0
      BY <1>2, <2>1, <2>2
    <2>4. QED
      BY <1>3, <2>1, <2>3 DEF Handlers
  <1>8. CASE StopAllTasks(r)
    <2>1. PICK addrs : mem' = Discard(addrs) /\ SpoilTimer(addrs)
      BY <1>8 DEF StopAllTasks
    <2>2. QED
      BY <1>2, <1>3, <2>1 DEF Handlers
  <1>9. CASE LoadTasks(r)
    <2> DEFINE tasks == pc[r].tasks
               ids == Present(tasks) \ DOMAIN taskMap
               A == {b \in Addrs : ~ Live(b)}
    <2>1. PICK g \in Placements(Slots(tasks), A) :
            mem' = Loaded(mem, g, tasks, ids) /\ timer' = timer
      BY <1>9 DEF LoadTasks
    <2>2. tasks \in Arrays /\ A \subseteq Addrs
      BY <1>1, <1>9, HeldTyped DEF LoadTasks, At
    <2> HIDE DEF tasks, ids, A
    <2>3. /\ \A s \in Slots(tasks) : ~ mem'[g[s]].cancelled
          /\ \A a \in Addrs : (\A s \in Slots(tasks) : g[s] # a) => mem'[a] = mem[a]
      BY <1>1, <2>1, <2>2, LoadedTyped
    <2>4. \A a \in Addrs : mem'[a].cancelled => mem'[a].refs = 0
      BY <1>1, <2>3
    <2>5. QED
      BY <1>1, <2>1, <2>4 DEF Handlers
  <1>10. QED
    BY <1>4, <1>5, <1>6, <1>7, <1>8, <1>9 DEF Handle

-----------------------------------------------------------------------------
(* Where the requests stand: one reset at most, until there is an overlap.  *)

ResetStages == {"stop", "read", "assign", "load"}

\* A request that is not a reset does not enter one.
LEMMA PlainMoves ==
  ASSUME TaskTypeOK, NEW r \in Requests,
         \/ Add(r) \/ CheckSize(r) \/ CheckExists(r)
         \/ InsertTask(r) \/ RemoveTask(r) \/ ModifyTask(r)
  PROVE  /\ \A q \in Requests \ {r} : pc'[q] = pc[q]
         /\ pc[r].at \notin ResetStages /\ pc'[r].at \notin ResetStages
  <1>1. CASE Add(r)
    <2>1. PICK x \in Infos : Goto(r, [at |-> "size", info |-> x])
      BY <1>1 DEF Add
    <2>2. [at |-> "size", info |-> x] \in Request
      BY DEF Request
    <2>3. QED
      BY <1>1, <2>1, <2>2, GotoTyped DEF Add, At, ResetStages
  <1>2. CASE CheckSize(r)
    <2>1. pc[r].at = "size" /\ (Finish(r) \/ Become(r, "exists"))
      BY <1>2 DEF CheckSize, At
    <2>2. CASE Finish(r)
      BY <2>1, <2>2, FinishTyped DEF ResetStages
    <2>3. CASE Become(r, "exists")
      BY <2>1, <2>3, BecomeTyped DEF ResetStages
    <2>4. QED
      BY <2>1, <2>2, <2>3
  <1>3. CASE CheckExists(r)
    <2>1. pc[r].at = "exists" /\ (Finish(r) \/ Become(r, "insert"))
      BY <1>3 DEF CheckExists, At
    <2>2. CASE Finish(r)
      BY <2>1, <2>2, FinishTyped DEF ResetStages
    <2>3. CASE Become(r, "insert")
      BY <2>1, <2>3, BecomeTyped DEF ResetStages
    <2>4. QED
      BY <2>1, <2>2, <2>3
  <1>4. CASE InsertTask(r) \/ RemoveTask(r) \/ ModifyTask(r)
    BY <1>4, FinishTyped DEF InsertTask, RemoveTask, ModifyTask, At, ResetStages
  <1>5. QED
    BY <1>1, <1>2, <1>3, <1>4

\* Only r moves.
LEMMA Moves ==
  ASSUME TaskInv, NEW r \in Requests, Handle(r)
  PROVE  /\ \A q \in Requests \ {r} : pc'[q] = pc[q]
         /\ \/ pc[r].at \notin ResetStages /\ pc'[r].at \notin ResetStages
            \/ pc[r].at \notin ResetStages /\ pc'[r].at = "stop" /\ Reset(r)
            \/ pc[r].at \in ResetStages /\ pc'[r].at \in {"read", "assign", "load"}
            \/ pc[r].at = "load" /\ pc'[r].at = "done" /\ LoadTasks(r)
  <1>1. TaskTypeOK
    BY DEF TaskInv
  <1>2. CASE \/ Add(r) \/ CheckSize(r) \/ CheckExists(r)
             \/ InsertTask(r) \/ RemoveTask(r) \/ ModifyTask(r)
    BY <1>1, <1>2, PlainMoves
  <1>3. CASE Reset(r)
    <2>1. [at |-> "stop"] \in Request
      BY DEF Request
    <2>2. QED
      BY <1>1, <1>3, <2>1, GotoTyped, FinishTyped DEF Reset, At, ResetStages
  <1>4. CASE StopAllTasks(r) \/ Assign(r)
    BY <1>1, <1>4, BecomeTyped DEF StopAllTasks, Assign, At, ResetStages
  <1>5. CASE ReadTasks(r)
    <2>1. [at |-> "assign", tasks |-> file] \in Request
      BY <1>1 DEF Request, TaskTypeOK
    <2>2. QED
      BY <1>1, <1>5, <2>1, GotoTyped DEF ReadTasks, At, ResetStages
  <1>6. CASE LoadTasks(r)
    BY <1>1, <1>6, FinishTyped DEF LoadTasks, At
  <1>7. QED
    BY <1>2, <1>3, <1>4, <1>5, <1>6 DEF Handle

\* A reset that begins during another overlaps it.
LEMMA ResetCrosses ==
  ASSUME NEW r \in Requests, Reset(r), Resetting
  PROVE  Overlapped'
  BY DEF Reset, Overlapped

LEMMA HandleOneReset ==
  ASSUME TaskInv, NEW r \in Requests, Handle(r)
  PROVE  OneReset'
  <1> SUFFICES ASSUME ~ Overlapped'
               PROVE  \A p, q \in Requests :
                        pc'[p].at \in ResetStages /\ pc'[q].at \in ResetStages => p = q
    BY DEF OneReset, ResetStages
  <1>1. ~ Overlapped
    BY HandleCrosses DEF Overlapped
  <1>2. \A p, q \in Requests : pc[p].at \in ResetStages /\ pc[q].at \in ResetStages => p = q
    BY <1>1 DEF TaskInv, OneReset, ResetStages
  <1>3. Resetting <=> \E q \in Requests : pc[q].at \in ResetStages
    BY DEF Resetting, ResetStages
  <1>4. pc'[r].at \in ResetStages => pc[r].at \in ResetStages \/ ~ Resetting
    BY Moves, ResetCrosses DEF ResetStages
  <1>5. QED
    BY <1>2, <1>3, <1>4, Moves

\* A request that is not in a reset leaves the resets as they are.
LEMMA SameReset ==
  ASSUME TaskInv, NEW r \in Requests, Handle(r),
         pc[r].at \notin ResetStages, pc'[r].at \notin ResetStages
  PROVE  /\ Resetting' <=> Resetting
         /\ Midway' <=> Midway
         /\ \A q \in Requests : pc'[q].at \in ResetStages => q # r /\ pc'[q] = pc[q]
  <1>1. \A q \in Requests \ {r} : pc'[q] = pc[q]
    BY Moves
  <1>2. QED
    BY <1>1 DEF Resetting, Midway, ResetStages

\* While r is in a reset, r is in the only one, if there was no overlap.
LEMMA OnlyReset ==
  ASSUME TaskInv, NEW r \in Requests, Handle(r), pc[r].at \in ResetStages, ~ Overlapped
  PROVE  /\ Resetting
         /\ \A q \in Requests \ {r} : pc[q].at \notin ResetStages /\ pc'[q].at \notin ResetStages
  BY Moves DEF TaskInv, OneReset, ResetStages, Resetting

-----------------------------------------------------------------------------
(* The tables agree. *)

\* A change that overlaps a reset is not sound any more.
LEMMA SoundChange ==
  ASSUME NEW r \in Requests, Cross(r)
  PROVE  /\ ~ Overlapped' => ~ Resetting
         /\ Sound' => ~ Resetting
         /\ crossed' \cap {"reset", "freed"} = {} => ~ Resetting
         /\ "add" \notin crossed' =>
              ~ Resetting /\ \A q \in Requests \ {r} : pc[q].at \notin {"exists", "insert"}
  BY DEF Cross, Sound, Overlapped, Relying

\* The arrays after a request has changed the tasks.
LEMMA Changes ==
  ASSUME TaskInv, NEW r \in Requests, InsertTask(r) \/ RemoveTask(r) \/ ModifyTask(r),
         Single(taskConfig)
  PROVE  /\ pc[r].at \notin ResetStages /\ pc'[r].at \notin ResetStages /\ Cross(r)
         /\ \/ taskConfig' \in Arrays /\ Single(taskConfig') /\ file' = taskConfig'
            \/ UNCHANGED <<taskConfig, file>>
  <1>1. TaskTypeOK /\ taskConfig \in Arrays
    BY DEF TaskInv, TaskTypeOK
  <1>2. pc[r].at \notin ResetStages /\ pc'[r].at \notin ResetStages /\ Cross(r)
    BY <1>1, PlainMoves DEF InsertTask, RemoveTask, ModifyTask
  \* An array that has another element or none at id, and is otherwise the same.
  <1>3. ASSUME NEW n, NEW id, n \in Arrays, n[id] = <<>> \/ \E x : n[id] = <<x>>,
               \A i \in Ids \ {id} : n[i] = taskConfig[i]
        PROVE  Single(n)
    <2>1. Len(<<>>) <= 1 /\ \A x : Len(<<x>>) <= 1
      OBVIOUS
    <2>2. Len(n[id]) <= 1
      BY <1>3, <2>1
    <2>3. QED
      BY <1>3, <2>2 DEF Single
  <1>4. CASE InsertTask(r)
    <2> DEFINE x == pc[r].info
    <2>1. PICK id \in Ids :
            taskConfig[id] = <<>> /\ SaveTasks([taskConfig EXCEPT ![id] = Append(@, x)])
      BY <1>4 DEF InsertTask, Fresh
    <2>2. x \in Infos
      BY <1>1, <1>4, HeldTyped DEF InsertTask, At
    <2> HIDE DEF x
    <2>3. Adds(taskConfig, id, x, taskConfig') /\ file' = taskConfig'
      BY <2>1 DEF SaveTasks, Adds
    <2>4. /\ taskConfig' \in Arrays /\ taskConfig'[id] = <<x>>
          /\ \A i \in Ids \ {id} : taskConfig'[i] = taskConfig[i]
      BY <1>1, <2>1, <2>2, <2>3, ArrayAdds
    <2>5. Single(taskConfig')
      BY <1>3, <2>4
    <2>6. QED
      BY <1>2, <2>3, <2>4, <2>5
  <1>5. CASE RemoveTask(r)
    <2>1. PICK id :
            IF id \in Present(taskConfig)
            THEN SaveTasks([taskConfig EXCEPT ![id] = Tail(@)])
            ELSE UNCHANGED <<taskConfig, file>>
      BY <1>5 DEF RemoveTask
    <2>2. CASE id \in Present(taskConfig)
      <3>1. Removes(taskConfig, id, taskConfig') /\ file' = taskConfig'
        BY <2>1, <2>2 DEF SaveTasks, Removes
      <3>2. /\ taskConfig' \in Arrays /\ taskConfig'[id] = <<>>
            /\ \A i \in Ids \ {id} : taskConfig'[i] = taskConfig[i]
        BY <1>1, <2>2, <3>1, ArrayRemoves
      <3>3. Single(taskConfig')
        BY <1>3, <3>2
      <3>4. QED
        BY <1>2, <3>1, <3>2, <3>3
    <2>3. CASE id \notin Present(taskConfig)
      BY <1>2, <2>1, <2>3
    <2>4. QED
      BY <2>2, <2>3
  <1>6. CASE ModifyTask(r)
    <2>1. PICK id, x :
            /\ x \in Infos
            /\ IF id \in Present(taskConfig)
               THEN SaveTasks([taskConfig EXCEPT ![id] = <<x>> \o Tail(@)])
               ELSE UNCHANGED <<taskConfig, file>>
      BY <1>6 DEF ModifyTask
    <2>2. CASE id \in Present(taskConfig)
      <3>1. Modifies(taskConfig, id, x, taskConfig') /\ file' = taskConfig'
        BY <2>1, <2>2 DEF SaveTasks, Modifies
      <3>2. /\ taskConfig' \in Arrays /\ taskConfig'[id] = <<x>>
            /\ \A i \in Ids \ {id} : taskConfig'[i] = taskConfig[i]
        BY <1>1, <2>1, <2>2, <3>1, ArrayModifies
      <3>3. Single(taskConfig')
        BY <1>3, <3>2
      <3>4. QED
        BY <1>2, <3>1, <3>2, <3>3
    <2>3. CASE id \notin Present(taskConfig)
      BY <1>2, <2>1, <2>3
    <2>4. QED
      BY <2>2, <2>3
  <1>7. QED
    BY <1>4, <1>5, <1>6

\* A reset that fills an empty array fills it with what it has read.
LEMMA LoadsTasks ==
  ASSUME TaskTypeOK, NEW r \in Requests, LoadTasks(r), taskConfig = Nothing
  PROVE  taskConfig' = pc[r].tasks
  <1>1. pc[r].tasks \in Arrays /\ taskConfig \in Arrays
    BY HeldTyped DEF LoadTasks, At, TaskTypeOK
  <1> DEFINE tasks == pc[r].tasks
  <1>2. Joins(taskConfig, tasks, taskConfig')
    BY Zenon DEF LoadTasks, Joins
  <1>3. tasks \in Arrays
    BY <1>1
  <1> HIDE DEF tasks
  <1>4. taskConfig' = tasks
    BY <1>1, <1>2, <1>3, ArrayJoins
  <1>5. QED
    BY <1>4 DEF tasks

LEMMA HandleSingles ==
  ASSUME TaskInv, NEW r \in Requests, Handle(r)
  PROVE  Singles'
  <1> SUFFICES ASSUME ~ Overlapped'
               PROVE  /\ Single(taskConfig') /\ Single(file')
                      /\ \A q \in Requests :
                           /\ pc'[q].at \in {"assign", "load"} => Single(pc'[q].tasks)
                           /\ pc'[q].at = "load" => taskConfig' = Nothing
    BY DEF Singles, Single
  <1>1. TaskTypeOK /\ ~ Overlapped
    BY HandleCrosses DEF TaskInv, Overlapped
  <1>2. /\ Single(taskConfig) /\ Single(file)
        /\ \A q \in Requests :
             /\ pc[q].at \in {"assign", "load"} => Single(pc[q].tasks)
             /\ pc[q].at = "load" => taskConfig = Nothing
    BY <1>1 DEF TaskInv, Singles
  <1>3. \A q \in Requests \ {r} : pc'[q] = pc[q]
    BY Moves
  <1>4. CASE Add(r) \/ CheckSize(r) \/ CheckExists(r)
    <2>1. UNCHANGED <<taskConfig, file>>
      BY <1>4 DEF Add, CheckSize, CheckExists, tables
    <2>2. pc'[r].at \notin {"assign", "load"}
      BY <1>1, <1>4, PlainMoves DEF ResetStages
    <2>3. QED
      BY <1>2, <1>3, <2>1, <2>2
  <1>5. CASE InsertTask(r) \/ RemoveTask(r) \/ ModifyTask(r)
    <2>1. /\ pc'[r].at \notin ResetStages /\ Cross(r)
          /\ Single(taskConfig') /\ Single(file')
      BY <1>2, <1>5, Changes
    <2>2. ~ Resetting
      BY <2>1, SoundChange
    <2>3. \A q \in Requests : pc'[q].at \notin {"assign", "load"}
      BY <1>3, <2>1, <2>2 DEF Resetting, ResetStages
    <2>4. QED
      BY <2>1, <2>3
  <1>6. CASE Reset(r)
    <2>1. [at |-> "stop"] \in Request
      BY DEF Request
    <2>2. pc'[r].at \in {"stop", "done"}
      BY <1>1, <1>6, <2>1, GotoTyped, FinishTyped DEF Reset
    <2>3. file' = Factory /\ taskConfig' = taskConfig
      BY <1>6 DEF Reset
    <2>4. Single(file')
      BY <2>3, FilesAssumption DEF Proper
    <2>5. QED
      BY <1>2, <1>3, <2>2, <2>3, <2>4
  <1>7. CASE StopAllTasks(r)
    <2>1. pc'[r].at = "read" /\ UNCHANGED <<taskConfig, file>>
      BY <1>1, <1>7, BecomeTyped DEF StopAllTasks, At
    <2>2. QED
      BY <1>2, <1>3, <2>1
  <1>8. CASE ReadTasks(r)
    <2>1. [at |-> "assign", tasks |-> file] \in Request
      BY <1>1 DEF Request, TaskTypeOK
    <2>2. pc'[r] = [at |-> "assign", tasks |-> file] /\ UNCHANGED <<taskConfig, file>>
      BY <1>1, <1>8, <2>1, GotoTyped DEF ReadTasks, tables
    <2>3. QED
      BY <1>2, <1>3, <2>2
  <1>9. CASE Assign(r)
    <2>1. pc[r].at = "assign" /\ pc'[r].at = "load" /\ pc'[r].tasks = pc[r].tasks
      BY <1>1, <1>9, BecomeTyped DEF Assign, At
    <2>2. taskConfig' = Nothing /\ file' = file
      BY <1>9 DEF Assign
    <2>3. Single(taskConfig')
      BY <2>2, NothingTyped
    <2>4. QED
      BY <1>2, <1>3, <2>1, <2>2, <2>3
  <1>10. CASE LoadTasks(r)
    <2>1. pc[r].at = "load" /\ pc'[r].at = "done" /\ file' = file
      BY <1>1, <1>10, FinishTyped DEF LoadTasks, At
    <2>2. \A q \in Requests : pc'[q].at \notin {"assign", "load"}
      BY <1>1, <2>1, OnlyReset DEF ResetStages
    <2>3. taskConfig' = pc[r].tasks
      BY <1>1, <1>2, <1>10, <2>1, LoadsTasks
    <2>4. Single(taskConfig')
      BY <1>2, <2>1, <2>3
    <2>5. QED
      BY <1>2, <2>1, <2>2, <2>4
  <1>11. QED
    BY <1>4, <1>5, <1>6, <1>7, <1>8, <1>9, <1>10 DEF Handle

\* The map and m_task_config have the same tasks.
Same ==
  /\ DOMAIN taskMap = Present(taskConfig)
  /\ \A i \in DOMAIN taskMap : Info(i) = SetTaskInfo(taskConfig[i][1])

\* They do still when both have the task x at id now.
LEMMA SameAfter ==
  ASSUME NEW id, NEW x, id \in Ids, Same, DOMAIN taskMap' = DOMAIN taskMap \cup {id},
         Info(id)' = SetTaskInfo(x), \A i \in DOMAIN taskMap \ {id} : Info(i)' = Info(i),
         taskConfig'[id] = <<x>>, \A i \in Ids \ {id} : taskConfig'[i] = taskConfig[i]
  PROVE  Same'
  <1>1. <<x>> # <<>> /\ taskConfig'[id][1] = x
    OBVIOUS
  <1>2. DOMAIN taskMap' = Present(taskConfig')
    BY <1>1 DEF Same, Present
  <1>3. \A i \in DOMAIN taskMap \ {id} : taskConfig'[i] = taskConfig[i]
    BY DEF Same, Present
  <1>4. \A i \in DOMAIN taskMap' : Info(i)' = SetTaskInfo(taskConfig'[i][1])
    BY <1>1, <1>3 DEF Same
  <1>5. QED
    BY <1>2, <1>4 DEF Same

LEMMA HandleAgrees ==
  ASSUME TaskInv, NEW r \in Requests, Handle(r)
  PROVE  Agrees'
  <1> SUFFICES ASSUME Sound'
               PROVE  /\ ~ Midway' => Same'
                      /\ Midway' => taskMap' = EmptyMap
                      /\ Resetting' => file' = Factory
                      /\ \A q \in Requests :
                           pc'[q].at \in {"assign", "load"} => pc'[q].tasks = Factory
    BY DEF Agrees, Same
  <1>1. TaskTypeOK /\ taskConfig \in Arrays /\ Sound /\ "freed" \notin crossed /\ ~ Overlapped
    BY HandleCrosses DEF TaskInv, TaskTypeOK, Sound, Overlapped
  <1>2. /\ ~ Midway => Same
        /\ Midway => taskMap = EmptyMap
        /\ Resetting => file = Factory
        /\ \A q \in Requests :
             pc[q].at \in {"assign", "load"} => pc[q].tasks = Factory
    BY <1>1 DEF TaskInv, Agrees, Same
  <1>15. Single(taskConfig)
    BY <1>1 DEF TaskInv, Singles
  <1>3. Midway => Resetting
    BY DEF Midway, Resetting
  <1>4. CASE Add(r) \/ CheckSize(r) \/ CheckExists(r)
    <2>1. UNCHANGED <<taskMap, taskConfig, file, mem>>
      BY <1>4 DEF Add, CheckSize, CheckExists, tables
    <2>2. Same' <=> Same
      BY <2>1 DEF Same, Info, Present
    <2>3. pc[r].at \notin ResetStages /\ pc'[r].at \notin ResetStages
      BY <1>1, <1>4, PlainMoves
    <2>4. QED
      BY <1>2, <2>1, <2>2, <2>3, SameReset DEF ResetStages
  <1>5. ASSUME Cross(r), pc[r].at \notin ResetStages, pc'[r].at \notin ResetStages
        PROVE  ~ Resetting' /\ ~ Midway' /\ ~ Midway
               /\ \A q \in Requests : pc'[q].at \notin {"assign", "load"}
    <2>1. ~ Resetting
      BY <1>5, SoundChange
    <2>2. ~ Resetting'
      BY <1>5, <2>1, SameReset
    <2>3. QED
      BY <1>3, <2>1, <2>2 DEF Resetting, Midway
  <1>6. CASE InsertTask(r)
    <2>1. pc[r].at \notin ResetStages /\ pc'[r].at \notin ResetStages /\ Cross(r)
      BY <1>1, <1>6, PlainMoves DEF InsertTask
    <2> DEFINE x == pc[r].info
    <2>2. PICK id \in Ids \ DOMAIN taskMap :
            /\ taskConfig[id] = <<>>
            /\ Replaces({}, DOMAIN taskMap)
            /\ DOMAIN taskMap' = DOMAIN taskMap \cup {id} /\ Info(id)' = SetTaskInfo(x)
            /\ SaveTasks([taskConfig EXCEPT ![id] = Append(@, x)])
      BY <1>1, <1>6, InsertReplaces
    <2>3. x \in Infos
      BY <1>1, <1>6, HeldTyped DEF InsertTask, At
    <2> HIDE DEF x
    <2>4. Adds(taskConfig, id, x, taskConfig')
      BY <2>2 DEF SaveTasks, Adds
    <2>5. taskConfig'[id] = <<x>> /\ \A i \in Ids \ {id} : taskConfig'[i] = taskConfig[i]
      BY <1>1, <2>2, <2>3, <2>4, ArrayAdds
    <2>6. \A i \in DOMAIN taskMap : Info(i)' = Info(i)
      BY <2>2, KeptInfo
    <2>7. Same
      BY <1>2, <1>5, <2>1
    <2>8. Same'
      BY <2>2, <2>5, <2>6, <2>7, SameAfter
    <2>9. QED
      BY <1>5, <2>1, <2>8
  <1>7. CASE RemoveTask(r)
    <2>1. pc[r].at \notin ResetStages /\ pc'[r].at \notin ResetStages /\ Cross(r)
      BY <1>1, <1>7, PlainMoves DEF RemoveTask
    <2>2. PICK id \in DOMAIN taskMap :
            /\ Replaces({taskMap[id]}, DOMAIN taskMap \ {id})
            /\ DOMAIN taskMap' = DOMAIN taskMap \ {id}
            /\ IF id \in Present(taskConfig)
               THEN SaveTasks([taskConfig EXCEPT ![id] = Tail(@)])
               ELSE UNCHANGED <<taskConfig, file>>
      BY <1>1, <1>7, RemoveReplaces
    <2>3. \A i \in DOMAIN taskMap \ {id} : Info(i)' = Info(i)
      BY <2>2, KeptInfo
    <2>4. Same /\ id \in Present(taskConfig)
      BY <1>2, <1>5, <2>1, <2>2 DEF Same
    <2>5. Removes(taskConfig, id, taskConfig')
      BY <2>2, <2>4 DEF SaveTasks, Removes
    <2>6. taskConfig'[id] = <<>> /\ \A i \in Ids \ {id} : taskConfig'[i] = taskConfig[i]
      BY <1>1, <1>15, <2>4, <2>5, ArrayRemoves
    <2>7. DOMAIN taskMap' = Present(taskConfig')
      BY <2>2, <2>4, <2>6 DEF Same, Present
    <2>8. Same'
      <3>1. \A i \in DOMAIN taskMap \ {id} : i \in Ids /\ taskConfig'[i] = taskConfig[i]
        BY <2>4, <2>6 DEF Same, Present
      <3>2. QED
        BY <2>2, <2>3, <2>4, <2>7, <3>1 DEF Same
    <2>9. QED
      BY <1>5, <2>1, <2>8
  <1>8. CASE ModifyTask(r)
    <2>1. pc[r].at \notin ResetStages /\ pc'[r].at \notin ResetStages /\ Cross(r)
      BY <1>1, <1>8, PlainMoves DEF ModifyTask
    <2>2. PICK id \in DOMAIN taskMap, x \in Infos :
            /\ Replaces({taskMap[id]}, DOMAIN taskMap \ {id})
            /\ DOMAIN taskMap' = DOMAIN taskMap /\ Info(id)' = SetTaskInfo(x)
            /\ IF id \in Present(taskConfig)
               THEN SaveTasks([taskConfig EXCEPT ![id] = <<x>> \o Tail(@)])
               ELSE UNCHANGED <<taskConfig, file>>
      BY <1>1, <1>8, ModifyReplaces
    <2>3. \A i \in DOMAIN taskMap \ {id} : Info(i)' = Info(i)
      BY <2>2, KeptInfo
    <2>4. Same /\ id \in Present(taskConfig)
      BY <1>2, <1>5, <2>1, <2>2 DEF Same
    <2>5. Modifies(taskConfig, id, x, taskConfig')
      BY <2>2, <2>4 DEF SaveTasks, Modifies
    <2>6. taskConfig'[id] = <<x>> /\ \A i \in Ids \ {id} : taskConfig'[i] = taskConfig[i]
      BY <1>1, <1>15, <2>4, <2>5, ArrayModifies
    <2>7. DOMAIN taskMap' = DOMAIN taskMap \cup {id} /\ id \in Ids
      BY <2>2, <2>4 DEF Present
    <2>8. Same'
      BY <2>2, <2>3, <2>4, <2>6, <2>7, SameAfter
    <2>9. QED
      BY <1>5, <2>1, <2>8
  <1>9. CASE Reset(r)
    <2>1. UNCHANGED <<taskMap, taskConfig, mem>> /\ ~ Resetting /\ file' = Factory
      BY <1>9, ResetCrosses DEF Reset, Sound
    <2>2. Same' <=> Same
      BY <2>1 DEF Same, Info, Present
    <2>3. \A q \in Requests : pc'[q].at \notin {"read", "assign", "load"}
      <3>1. pc'[r].at \in {"stop", "done"}
        <4>1. [at |-> "stop"] \in Request
          BY DEF Request
        <4>2. QED
          BY <1>1, <1>9, <4>1, GotoTyped, FinishTyped DEF Reset
      <3>2. QED
        BY <2>1, <3>1, Moves DEF Resetting
    <2>4. ~ Midway /\ ~ Midway'
      BY <1>3, <2>1, <2>3 DEF Midway
    <2>5. QED
      BY <1>2, <2>1, <2>2, <2>3, <2>4
  <1>10. CASE StopAllTasks(r)
    <2>1. pc[r].at \in ResetStages /\ pc'[r].at = "read" /\ Resetting
      BY <1>1, <1>10, BecomeTyped, OnlyReset DEF StopAllTasks, At, ResetStages
    <2>2. taskMap' = EmptyMap /\ file' = Factory
      BY <1>2, <1>10, <2>1 DEF StopAllTasks
    <2>3. Midway'
      BY <2>1 DEF Midway
    <2>4. \A q \in Requests : pc'[q].at \notin {"assign", "load"}
      BY <1>1, <2>1, OnlyReset DEF ResetStages
    <2>5. QED
      BY <2>2, <2>3, <2>4
  <1>11. CASE ReadTasks(r)
    <2>1. [at |-> "assign", tasks |-> file] \in Request
      BY <1>1 DEF Request, TaskTypeOK
    <2>2. pc'[r] = [at |-> "assign", tasks |-> file]
      BY <1>1, <1>11, <2>1, GotoTyped DEF ReadTasks
    <2>3. pc[r].at \in ResetStages /\ Resetting /\ Midway /\ Midway'
      BY <1>1, <1>11, <2>2, OnlyReset DEF ReadTasks, At, ResetStages, Midway
    <2>4. \A q \in Requests \ {r} : pc'[q].at \notin {"assign", "load"}
      BY <1>1, <2>3, OnlyReset DEF ResetStages
    <2>5. UNCHANGED <<taskMap, taskConfig, file>>
      BY <1>11 DEF ReadTasks, tables
    <2>6. QED
      BY <1>2, <2>2, <2>3, <2>4, <2>5
  <1>12. CASE Assign(r)
    <2>1. pc[r].at = "assign" /\ pc'[r].at = "load" /\ pc'[r].tasks = pc[r].tasks
      BY <1>1, <1>12, BecomeTyped DEF Assign, At
    <2>2. pc[r].at \in ResetStages /\ Resetting /\ Midway /\ Midway'
      BY <1>1, <2>1, OnlyReset DEF ResetStages, Midway
    <2>3. \A q \in Requests \ {r} : pc'[q].at \notin {"assign", "load"}
      BY <1>1, <2>2, OnlyReset DEF ResetStages
    <2>4. UNCHANGED <<taskMap, file>>
      BY <1>12 DEF Assign
    <2>5. QED
      BY <1>2, <2>1, <2>2, <2>3, <2>4
  <1>13. CASE LoadTasks(r)
    <2> DEFINE tasks == pc[r].tasks
    <2>1. pc[r].at = "load" /\ pc'[r].at = "done"
      BY <1>1, <1>13, FinishTyped DEF LoadTasks, At
    <2>2. pc[r].at \in ResetStages /\ Midway
      BY <2>1 DEF ResetStages, Midway
    <2>3. \A q \in Requests : pc'[q].at \notin ResetStages
      BY <1>1, <2>1, <2>2, OnlyReset DEF ResetStages
    <2>4. ~ Resetting' /\ ~ Midway'
      BY <2>3 DEF ResetStages, Resetting, Midway
    <2>5. DOMAIN taskMap = {} /\ taskConfig = Nothing
      BY <1>1, <1>2, <2>1, <2>2, EmptyMapTyped DEF TaskInv, Singles
    <2>6. /\ DOMAIN taskMap' = Present(tasks)
          /\ \A i \in Present(tasks) : Info(i)' = SetTaskInfo(tasks[i][1])
      BY <1>1, <1>13, <2>5, LoadReplaces
    <2>7. taskConfig' = tasks
      BY <1>1, <1>13, <2>5, LoadsTasks
    <2>8. Same'
      BY <2>6, <2>7 DEF Same
    <2>9. QED
      BY <2>3, <2>4, <2>8 DEF ResetStages
  <1>14. QED
    BY <1>4, <1>6, <1>7, <1>8, <1>9, <1>10, <1>11, <1>12, <1>13 DEF Handle

\* What a sound reset loads is the factory's tasks, and nothing else.
LEMMA LoadsFactory ==
  ASSUME TaskInv, NEW r \in Requests, LoadTasks(r), Sound
  PROVE  taskConfig' = Factory /\ file' = Factory
  <1>1. pc[r].at = "load" /\ Resetting
    BY DEF LoadTasks, At, Resetting
  <1>2. pc[r].tasks = Factory /\ file = Factory /\ taskConfig = Nothing
    BY <1>1 DEF TaskInv, Agrees, Singles, Sound
  <1>3. taskConfig' = Factory
    BY <1>2, LoadsTasks DEF TaskInv
  <1>4. file' = file
    BY DEF LoadTasks
  <1>5. QED
    BY <1>2, <1>3, <1>4

LEMMA HandleSaved ==
  ASSUME TaskInv, NEW r \in Requests, Handle(r)
  PROVE  Saved'
  <1> SUFFICES ASSUME crossed' \cap {"reset", "freed"} = {}, ~ Resetting'
               PROVE  taskConfig' = file'
    BY DEF Saved
  <1>1. TaskTypeOK /\ crossed \cap {"reset", "freed"} = {} /\ Sound
    BY HandleCrosses DEF TaskInv, Sound, Overlapped
  <1>2. ~ Resetting => taskConfig = file
    BY <1>1 DEF TaskInv, Saved
  <1>3. CASE Add(r) \/ CheckSize(r) \/ CheckExists(r)
    <2>1. UNCHANGED <<taskConfig, file>>
      BY <1>3 DEF Add, CheckSize, CheckExists, tables
    <2>2. QED
      BY <1>1, <1>2, <1>3, <2>1, PlainMoves, SameReset
  <1>4. CASE InsertTask(r)
    BY <1>4 DEF InsertTask, SaveTasks
  <1>5. CASE RemoveTask(r)
    <2>1. Cross(r) /\ (taskConfig' = file' \/ UNCHANGED <<taskConfig, file>>)
      BY <1>5 DEF RemoveTask, SaveTasks
    <2>2. QED
      BY <1>2, <2>1, SoundChange
  <1>6. CASE ModifyTask(r)
    <2>1. Cross(r) /\ (taskConfig' = file' \/ UNCHANGED <<taskConfig, file>>)
      BY <1>6 DEF ModifyTask, SaveTasks
    <2>2. QED
      BY <1>2, <2>1, SoundChange
  <1>7. CASE Reset(r)
    <2>1. [at |-> "stop"] \in Request
      BY DEF Request
    <2>2. CASE Goto(r, [at |-> "stop"])
      BY <1>1, <2>1, <2>2, GotoTyped DEF Resetting
    <2>3. CASE "reset" \in crossed'
      BY <2>3
    <2>4. QED
      BY <1>7, <2>2, <2>3 DEF Reset
  <1>8. CASE StopAllTasks(r) \/ ReadTasks(r) \/ Assign(r)
    <2>1. pc[r].at \in ResetStages /\ pc[r].at # "load"
      BY <1>8 DEF StopAllTasks, ReadTasks, Assign, At, ResetStages
    <2>2. Resetting
      BY <2>1 DEF ResetStages, Resetting
    <2>3. pc'[r].at \in {"read", "assign", "load"}
      BY <2>1, <2>2, Moves
    <2>4. QED
      BY <2>3 DEF Resetting
  <1>9. CASE LoadTasks(r)
    BY <1>1, <1>9, LoadsFactory
  <1>10. QED
    BY <1>3, <1>4, <1>5, <1>6, <1>7, <1>8, <1>9 DEF Handle

-----------------------------------------------------------------------------
(* What addTask checks. *)

\* A task is added, or changed.
LEMMA ProperAdds ==
  ASSUME NEW t, NEW n, NEW id, NEW x, Proper(t), id \in Ids,
         n[id] = <<x>>, \A i \in Ids \ {id} : n[i] = t[i],
         id \in Present(t) \/ Cardinality(Present(t)) < MaxTasks,
         \A i \in Present(t) : ~ Twin(SetTaskInfo(t[i][1]), x)
  PROVE  Proper(n)
  <1>1. <<x>> # <<>> /\ n[id][1] = x /\ Len(n[id]) <= 1
    OBVIOUS
  <1>2. Present(n) = Present(t) \cup {id}
    BY <1>1 DEF Present
  <1>3. /\ IsFiniteSet(Present(t)) /\ Cardinality(Present(t)) <= MaxTasks
        /\ Cardinality(Present(t)) \in Nat
        /\ \A i, j \in Present(t) :
             Twin(SetTaskInfo(t[i][1]), t[j][1]) /\ Twin(SetTaskInfo(t[j][1]), t[i][1]) => i = j
    BY FS_CardinalityType DEF Proper
  <1>4. /\ IsFiniteSet(Present(n))
        /\ Cardinality(Present(n)) =
             IF id \in Present(t) THEN Cardinality(Present(t)) ELSE Cardinality(Present(t)) + 1
    BY <1>2, <1>3, FS_AddElement
  <1>5. Cardinality(Present(n)) <= MaxTasks
    BY <1>3, <1>4, BoundAssumption
  <1>6. Single(n)
    BY <1>1 DEF Proper, Single
  <1>7. \A i \in Present(n) \ {id} : i \in Present(t) /\ n[i] = t[i]
    BY <1>2 DEF Present
  <1>8. ASSUME NEW i \in Present(n), NEW j \in Present(n),
               Twin(SetTaskInfo(n[i][1]), n[j][1]), Twin(SetTaskInfo(n[j][1]), n[i][1])
        PROVE  i = j
    BY <1>1, <1>3, <1>7, <1>8
  <1>9. QED
    BY <1>4, <1>5, <1>6, <1>8 DEF Proper

LEMMA ProperRemoves ==
  ASSUME NEW t, NEW n, NEW id, Proper(t), n[id] = <<>>, \A i \in Ids \ {id} : n[i] = t[i]
  PROVE  Proper(n)
  <1>1. Present(n) = Present(t) \ {id} /\ \A i \in Present(n) : n[i] = t[i]
    BY DEF Present
  <1>2. /\ IsFiniteSet(Present(n)) /\ Cardinality(Present(n)) <= Cardinality(Present(t))
        /\ Cardinality(Present(n)) \in Nat /\ Cardinality(Present(t)) \in Nat
    BY <1>1, FS_Subset, FS_CardinalityType DEF Proper
  <1>3. Cardinality(Present(n)) <= MaxTasks
    BY <1>2, BoundAssumption DEF Proper
  <1>4. Single(n)
    BY EmptySeq DEF Proper, Single
  <1>5. QED
    BY <1>1, <1>2, <1>3, <1>4 DEF Proper

LEMMA ProperNothing == Proper(Nothing)
  BY NothingTyped, FS_EmptySet, BoundAssumption DEF Proper

\* While no two additions overlap, the tasks in the map are proper: there are none
\* during a reset, and otherwise they are those that are saved.
LEMMA MappedProper ==
  ASSUME TaskInv, "add" \notin crossed
  PROVE  /\ IsFiniteSet(DOMAIN taskMap)
         /\ Cardinality(DOMAIN taskMap) \in Nat /\ Cardinality(DOMAIN taskMap) <= MaxTasks
         /\ \A i, j \in DOMAIN taskMap :
              Twin(Info(i), taskConfig[j][1]) /\ Twin(Info(j), taskConfig[i][1]) => i = j
  <1>1. Sound /\ Proper(taskConfig)
    BY DEF TaskInv, Checked, Sound, Overlapped
  <1>2. CASE Midway
    <2>1. DOMAIN taskMap = {}
      BY <1>1, <1>2, EmptyMapTyped DEF TaskInv, Agrees
    <2>2. QED
      BY <2>1, FS_EmptySet, BoundAssumption
  <1>3. CASE ~ Midway
    <2>1. /\ DOMAIN taskMap = Present(taskConfig)
          /\ \A i \in DOMAIN taskMap : Info(i) = SetTaskInfo(taskConfig[i][1])
      BY <1>1, <1>3 DEF TaskInv, Agrees
    <2>2. QED
      BY <1>1, <2>1, FS_CardinalityType DEF Proper
  <1>4. QED
    BY <1>2, <1>3

\* A task that is not in the map is not among the saved ones.
LEMMA NotSavedEither ==
  ASSUME TaskInv, "add" \notin crossed, ~ Resetting, NEW x, ~ TaskExists(x)
  PROVE  /\ DOMAIN taskMap = Present(taskConfig)
         /\ \A i \in Present(taskConfig) : ~ Twin(SetTaskInfo(taskConfig[i][1]), x)
  <1>1. Sound /\ ~ Midway
    BY DEF TaskInv, Checked, Sound, Overlapped, Midway, Resetting
  <1>2. /\ DOMAIN taskMap = Present(taskConfig)
        /\ \A i \in DOMAIN taskMap : Info(i) = SetTaskInfo(taskConfig[i][1])
    BY <1>1 DEF TaskInv, Agrees
  <1>3. QED
    BY <1>2 DEF TaskExists

LEMMA HandleChecked ==
  ASSUME TaskInv, NEW r \in Requests, Handle(r)
  PROVE  Checked'
  <1> SUFFICES ASSUME "add" \notin crossed'
               PROVE  /\ "freed" \notin crossed'
                      /\ Proper(taskConfig') /\ Proper(file')
                      /\ \A q \in Requests :
                           /\ pc'[q].at \in {"exists", "insert"} =>
                                Cardinality(DOMAIN taskMap') < MaxTasks
                           /\ pc'[q].at = "insert" => ~ TaskExists(pc[q].info)'
    BY DEF Checked, Proper
  <1>1. /\ TaskTypeOK /\ taskConfig \in Arrays /\ Single(taskConfig) /\ "add" \notin crossed /\ "freed" \notin crossed /\ Sound
        /\ Proper(taskConfig) /\ Proper(file)
        /\ \A q \in Requests :
             /\ pc[q].at \in {"exists", "insert"} => Cardinality(DOMAIN taskMap) < MaxTasks
             /\ pc[q].at = "insert" => ~ TaskExists(pc[q].info)
    BY HandleCrosses DEF TaskInv, TaskTypeOK, Singles, Checked, Sound, Overlapped
  <1>2. "freed" \notin crossed'
    <2>1. CASE \/ Add(r) \/ CheckSize(r) \/ CheckExists(r) \/ StopAllTasks(r)
               \/ ReadTasks(r) \/ Assign(r)
      BY <1>1, <2>1 DEF Add, CheckSize, CheckExists, StopAllTasks, ReadTasks, Assign
    <2>2. CASE InsertTask(r) \/ RemoveTask(r) \/ ModifyTask(r)
      <3>1. Cross(r)
        BY <2>2 DEF InsertTask, RemoveTask, ModifyTask
      <3>2. QED
        BY <1>1, <3>1 DEF Cross
    <2>3. CASE Reset(r)
      BY <1>1, <2>3 DEF Reset
    <2>4. CASE LoadTasks(r)
      BY <1>1, <2>4 DEF LoadTasks
    <2>5. QED
      BY <2>1, <2>2, <2>3, <2>4 DEF Handle
  <1>3. ASSUME UNCHANGED <<taskMap, mem>>, NEW q \in Requests, pc'[q].info = pc[q].info
        PROVE  TaskExists(pc[q].info)' <=> TaskExists(pc[q].info)
    BY <1>3 DEF TaskExists, Info
  \* Requests that have checked stand where they stood, and see the same map.
  <1>4. ASSUME UNCHANGED <<taskMap, mem>>, pc'[r].at \notin {"exists", "insert"}
        PROVE  \A q \in Requests :
                 /\ pc'[q].at \in {"exists", "insert"} => Cardinality(DOMAIN taskMap') < MaxTasks
                 /\ pc'[q].at = "insert" => ~ TaskExists(pc[q].info)'
    BY <1>1, <1>3, <1>4, Moves
  \* There are none, when r crosses.
  <1>5. ASSUME pc'[r].at \notin {"exists", "insert"},
               \A q \in Requests \ {r} : pc[q].at \notin {"exists", "insert"}
        PROVE  \A q \in Requests : pc'[q].at \notin {"exists", "insert"}
    BY <1>5, Moves
  <1>6. CASE Add(r)
    <2>1. PICK x \in Infos : Goto(r, [at |-> "size", info |-> x])
      BY <1>6 DEF Add
    <2>2. [at |-> "size", info |-> x] \in Request
      BY DEF Request
    <2>3. pc'[r].at = "size"
      BY <1>1, <2>1, <2>2, GotoTyped
    <2>4. UNCHANGED <<taskMap, taskConfig, file, mem>>
      BY <1>6 DEF Add, tables
    <2>5. QED
      BY <1>1, <1>2, <1>4, <2>3, <2>4
  <1>7. CASE CheckSize(r)
    <2>1. UNCHANGED <<taskMap, taskConfig, file, mem>> /\ pc[r].at = "size"
      BY <1>7 DEF CheckSize, tables, At
    <2>2. CASE Finish(r)
      <3>1. pc'[r].at = "done"
        BY <1>1, <2>2, FinishTyped
      <3>2. QED
        BY <1>1, <1>2, <1>4, <2>1, <3>1
    <2>3. CASE Cardinality(DOMAIN taskMap) # MaxTasks /\ Become(r, "exists")
      <3>1. pc'[r].at = "exists"
        BY <1>1, <2>1, <2>3, BecomeTyped
      <3>2. Cardinality(DOMAIN taskMap) < MaxTasks
        BY <1>1, <2>3, MappedProper
      <3>3. \A q \in Requests \ {r} : pc'[q] = pc[q]
        BY Moves
      <3>4. \A q \in Requests : pc'[q].at = "insert" => ~ TaskExists(pc[q].info)'
        BY <1>1, <1>3, <2>1, <3>1, <3>3
      <3>5. QED
        BY <1>1, <1>2, <2>1, <3>2, <3>4
    <2>4. QED
      BY <1>7, <2>2, <2>3 DEF CheckSize
  <1>8. CASE CheckExists(r)
    <2>1. UNCHANGED <<taskMap, taskConfig, file, mem>> /\ pc[r].at = "exists"
      BY <1>8 DEF CheckExists, tables, At
    <2>2. CASE Finish(r)
      <3>1. pc'[r].at = "done"
        BY <1>1, <2>2, FinishTyped
      <3>2. QED
        BY <1>1, <1>2, <1>4, <2>1, <3>1
    <2>3. CASE ~ TaskExists(pc[r].info) /\ Become(r, "insert")
      <3>1. pc'[r].at = "insert" /\ pc'[r].info = pc[r].info
        BY <1>1, <2>1, <2>3, BecomeTyped
      <3>2. \A q \in Requests \ {r} : pc'[q] = pc[q]
        BY Moves
      <3>3. Cardinality(DOMAIN taskMap) < MaxTasks
        BY <1>1, <2>1
      <3>4. \A q \in Requests : pc'[q].at = "insert" => ~ TaskExists(pc[q].info)'
        BY <1>1, <1>3, <2>1, <2>3, <3>1, <3>2
      <3>5. QED
        BY <1>1, <1>2, <2>1, <3>3, <3>4
    <2>4. QED
      BY <1>8, <2>2, <2>3 DEF CheckExists
  <1>9. CASE InsertTask(r)
    <2> DEFINE x == pc[r].info
    <2>1. pc[r].at = "insert" /\ pc'[r].at = "done" /\ Cross(r)
      BY <1>1, <1>9, FinishTyped DEF InsertTask, At
    <2>2. ~ Resetting /\ \A q \in Requests : pc'[q].at \notin {"exists", "insert"}
      BY <1>5, <2>1, SoundChange
    <2>3. Cardinality(DOMAIN taskMap) < MaxTasks /\ ~ TaskExists(x)
      BY <1>1, <2>1
    <2>4. PICK id \in Ids :
            taskConfig[id] = <<>> /\ SaveTasks([taskConfig EXCEPT ![id] = Append(@, x)])
      BY <1>9 DEF InsertTask, Fresh
    <2>5. x \in Infos
      BY <1>1, <2>1, HeldTyped
    <2> HIDE DEF x
    <2>6. Adds(taskConfig, id, x, taskConfig') /\ file' = taskConfig'
      BY <2>4 DEF SaveTasks, Adds
    <2>7. taskConfig'[id] = <<x>> /\ \A i \in Ids \ {id} : taskConfig'[i] = taskConfig[i]
      BY <1>1, <2>4, <2>5, <2>6, ArrayAdds
    <2>8. /\ DOMAIN taskMap = Present(taskConfig)
          /\ \A i \in Present(taskConfig) : ~ Twin(SetTaskInfo(taskConfig[i][1]), x)
      BY <1>1, <2>2, <2>3, NotSavedEither
    <2>9. Proper(taskConfig')
      BY <1>1, <2>3, <2>7, <2>8, ProperAdds
    <2>10. QED
      BY <1>2, <2>2, <2>6, <2>9
  <1>10. CASE RemoveTask(r)
    <2>1. pc'[r].at = "done" /\ Cross(r)
      BY <1>1, <1>10, FinishTyped DEF RemoveTask
    <2>2. \A q \in Requests : pc'[q].at \notin {"exists", "insert"}
      BY <1>5, <2>1, SoundChange
    <2>3. PICK id :
            IF id \in Present(taskConfig)
            THEN SaveTasks([taskConfig EXCEPT ![id] = Tail(@)])
            ELSE UNCHANGED <<taskConfig, file>>
      BY <1>10 DEF RemoveTask
    <2>4. Proper(taskConfig') /\ Proper(file')
      <3>1. CASE id \in Present(taskConfig)
        <4>1. Removes(taskConfig, id, taskConfig') /\ file' = taskConfig'
          BY <2>3, <3>1 DEF SaveTasks, Removes
        <4>2. taskConfig'[id] = <<>> /\ \A i \in Ids \ {id} : taskConfig'[i] = taskConfig[i]
          BY <1>1, <3>1, <4>1, ArrayRemoves
        <4>3. QED
          BY <1>1, <4>1, <4>2, ProperRemoves
      <3>2. CASE id \notin Present(taskConfig)
        BY <1>1, <2>3, <3>2
      <3>3. QED
        BY <3>1, <3>2
    <2>5. QED
      BY <1>2, <2>2, <2>4
  <1>11. CASE ModifyTask(r)
    <2>1. pc'[r].at = "done" /\ Cross(r)
      BY <1>1, <1>11, FinishTyped DEF ModifyTask
    <2>2. ~ Resetting /\ \A q \in Requests : pc'[q].at \notin {"exists", "insert"}
      BY <1>5, <2>1, SoundChange
    <2>3. PICK id, x :
            /\ ~ TaskExists(x) /\ x \in Infos
            /\ IF id \in Present(taskConfig)
               THEN SaveTasks([taskConfig EXCEPT ![id] = <<x>> \o Tail(@)])
               ELSE UNCHANGED <<taskConfig, file>>
      BY <1>11 DEF ModifyTask
    <2>4. \A i \in Present(taskConfig) : ~ Twin(SetTaskInfo(taskConfig[i][1]), x)
      BY <1>1, <2>2, <2>3, NotSavedEither
    <2>5. CASE id \in Present(taskConfig)
      <3>1. Modifies(taskConfig, id, x, taskConfig') /\ file' = taskConfig'
        BY <2>3, <2>5 DEF SaveTasks, Modifies
      <3>2. taskConfig'[id] = <<x>> /\ \A i \in Ids \ {id} : taskConfig'[i] = taskConfig[i]
        BY <1>1, <2>3, <2>5, <3>1, ArrayModifies
      <3>3. id \in Ids
        BY <2>5 DEF Present
      <3>4. Proper(taskConfig')
        BY <1>1, <2>4, <2>5, <3>2, <3>3, ProperAdds
      <3>5. QED
        BY <1>2, <2>2, <3>1, <3>4
    <2>6. CASE id \notin Present(taskConfig)
      BY <1>1, <1>2, <2>2, <2>3, <2>6
    <2>7. QED
      BY <2>5, <2>6
  <1>12. CASE Reset(r)
    <2>1. [at |-> "stop"] \in Request
      BY DEF Request
    <2>2. pc'[r].at \in {"stop", "done"}
      BY <1>1, <1>12, <2>1, GotoTyped, FinishTyped DEF Reset
    <2>3. UNCHANGED <<taskMap, taskConfig, mem>> /\ file' = Factory
      BY <1>12 DEF Reset
    <2>4. Proper(file')
      BY <2>3, FilesAssumption
    <2>5. QED
      BY <1>1, <1>2, <1>4, <2>2, <2>3, <2>4
  <1>13. CASE StopAllTasks(r)
    <2>1. pc'[r].at = "read"
      BY <1>1, <1>13, BecomeTyped DEF StopAllTasks, At
    <2>2. DOMAIN taskMap' = {} /\ UNCHANGED <<taskConfig, file>>
      BY <1>13, EmptyMapTyped DEF StopAllTasks
    <2>3. \A q \in Requests : pc'[q].at \in {"exists", "insert"} => 0 < MaxTasks
      BY <1>1, <2>1, Moves, MappedProper
    <2>4. Cardinality(DOMAIN taskMap') = 0
      BY <2>2, FS_EmptySet
    <2>5. \A q : ~ TaskExists(pc[q].info)'
      BY <2>2 DEF TaskExists
    <2>6. QED
      BY <1>1, <1>2, <2>2, <2>3, <2>4, <2>5
  <1>14. CASE ReadTasks(r) \/ Assign(r)
    <2>1. pc[r].at \in {"read", "assign"}
      BY <1>14 DEF ReadTasks, Assign, At
    <2>2. Resetting
      BY <2>1 DEF Resetting
    <2>3. pc'[r].at \in {"read", "assign", "load"}
      BY <2>1, <2>2, Moves DEF ResetStages
    <2>4. UNCHANGED <<taskMap, file, mem>> /\ taskConfig' \in {taskConfig, Nothing}
      BY <1>14 DEF ReadTasks, Assign, tables
    <2>5. Proper(taskConfig') /\ Proper(file')
      BY <1>1, <2>4, ProperNothing
    <2>6. QED
      BY <1>2, <1>4, <2>3, <2>4, <2>5
  <1>15. CASE LoadTasks(r)
    <2>1. pc'[r].at = "done"
      BY <1>1, <1>15, FinishTyped DEF LoadTasks
    <2>2. \A q \in Requests \ {r} : pc[q].at \notin {"exists", "insert"}
      BY <1>15 DEF LoadTasks, Relying
    <2>3. \A q \in Requests : pc'[q].at \notin {"exists", "insert"}
      BY <1>5, <2>1, <2>2
    <2>4. Proper(taskConfig') /\ Proper(file')
      BY <1>1, <1>15, LoadsFactory, FilesAssumption
    <2>5. QED
      BY <1>2, <2>3, <2>4
  <1>16. QED
    BY <1>6, <1>7, <1>8, <1>9, <1>10, <1>11, <1>12, <1>13, <1>14, <1>15 DEF Handle

-----------------------------------------------------------------------------
(* The timer's thread, and time.                                            *)

\* The tasks stay what they are, and the entries still say when they run.
Carried ==
  /\ UNCHANGED <<taskMap, taskConfig, file, pc>>
  /\ crossed' = crossed \/ (crossed \subseteq crossed' /\ {"add", "freed"} \subseteq crossed')
  /\ \A i \in DOMAIN taskMap :
       /\ Info(i)' = Info(i)
       /\ "freed" \notin crossed' => mem'[taskMap[i]].refs > 0
       /\ "freed" \notin crossed' /\ taskMap[i] \notin wiped' =>
            /\ taskMap[i] \notin wiped
            /\ \A d \in Entries : Fits(d, i) => \E e \in Entries' : Fits(e, i)'
  /\ \A e \in Entries' : ~ e.stale =>
       \E d \in Entries : ~ d.stale /\ \A i \in DOMAIN taskMap : Fits(d, i) => Fits(e, i)'

LEMMA CarriedTables ==
  ASSUME TaskInv, Carried
  PROVE  OneReset' /\ Singles' /\ Agrees' /\ Saved' /\ Checked'
  <1>1. /\ UNCHANGED <<taskMap, taskConfig, file, pc>>
        /\ crossed' = crossed \/ {"add", "freed"} \subseteq crossed'
        /\ crossed \subseteq crossed'
        /\ \A i \in DOMAIN taskMap : Info(i)' = Info(i)
    BY DEF Carried
  <1>2. OneReset' /\ Singles'
    <2>1. ~ Overlapped' => ~ Overlapped
      BY <1>1 DEF Overlapped
    <2>2. OneReset'
      BY <1>1, <2>1 DEF TaskInv, OneReset
    <2>3. (Single(taskConfig)' <=> Single(taskConfig)) /\ (Single(file)' <=> Single(file))
      BY <1>1 DEF Single
    <2>4. Singles'
      BY <1>1, <2>1, <2>3 DEF TaskInv, Singles
    <2>5. QED
      BY <2>2, <2>4
  <1>3. (Midway' <=> Midway) /\ (Resetting' <=> Resetting)
    BY <1>1 DEF Midway, Resetting
  <1>4. CASE {"add", "freed"} \subseteq crossed'
    BY <1>2, <1>4 DEF Agrees, Saved, Checked, Sound
  <1>5. CASE crossed' = crossed
    <2>1. Agrees'
      <3>1. Sound' <=> Sound
        BY <1>5 DEF Sound, Overlapped
      <3>2. QED
        BY <1>1, <1>3, <3>1 DEF TaskInv, Agrees, Present
    <2>2. Saved'
      BY <1>1, <1>3, <1>5 DEF TaskInv, Saved
    <2>3. \A x : TaskExists(x)' <=> TaskExists(x)
      <3>1. ASSUME NEW i \in DOMAIN taskMap, NEW x
            PROVE  Twin(Info(i), x)' <=> Twin(Info(i), x)
        BY <1>1 DEF Twin
      <3>2. QED
        BY <1>1, <3>1 DEF TaskExists
    <2>4. Checked'
      <3>1. /\ Proper(taskConfig)' <=> Proper(taskConfig)
            /\ Proper(file)' <=> Proper(file)
        BY <1>1 DEF Proper, Present, Single
      <3>2. \A q \in Requests : TaskExists(pc[q].info)' <=> TaskExists(pc[q].info)
        BY <1>1, <2>3
      <3>3. QED
        BY <1>1, <1>5, <3>1, <3>2 DEF TaskInv, Checked
    <2>5. QED
      BY <1>2, <2>1, <2>2, <2>4
  <1>6. QED
    BY <1>1, <1>4, <1>5

LEMMA CarriedKeeps ==
  ASSUME TaskInv, Carried
  PROVE  Mapped' /\ ActiveScheduled' /\ Owned'
  <1>1. /\ taskMap' = taskMap /\ ("freed" \notin crossed' => crossed' = crossed)
        /\ \A i \in DOMAIN taskMap : Info(i)' = Info(i)
    BY DEF Carried
  <1>2. Mapped'
    <2>1. "freed" \notin crossed' => \A i \in DOMAIN taskMap : mem'[taskMap[i]].refs > 0
      BY DEF Carried
    <2>2. "freed" \notin crossed =>
            \A i, j \in DOMAIN taskMap : taskMap[i] = taskMap[j] => i = j
      BY DEF TaskInv, Mapped
    <2>3. QED
      BY <1>1, <2>1, <2>2 DEF Mapped, Live
  <1>3. ActiveScheduled'
    <2> SUFFICES ASSUME "freed" \notin crossed', NEW i \in DOMAIN taskMap,
                        Info(i)'.active, taskMap[i] \notin wiped'
                 PROVE  \E e \in Entries' : Fits(e, i)'
      BY <1>1 DEF ActiveScheduled, Entries, Fits
    <2>1. "freed" \notin crossed /\ taskMap[i] \notin wiped
      BY <1>1 DEF Carried
    <2>2. Info(i)' = Info(i)
      BY <1>1
    <2>3. Info(i).active
      BY <2>2
    <2>4. PICK d \in Entries : Fits(d, i)
      BY <2>1, <2>3 DEF TaskInv, ActiveScheduled, Entries, Fits
    <2>5. QED
      BY <2>4 DEF Carried
  <1>4. Owned'
    <2> SUFFICES ASSUME Sound', NEW e \in Entries', ~ e.stale
                 PROVE  \E i \in DOMAIN taskMap : Info(i)'.active /\ Fits(e, i)'
      BY <1>1 DEF Owned
    <2>1. Sound
      BY <1>1 DEF Sound, Overlapped
    <2>2. PICK d \in Entries :
            ~ d.stale /\ \A i \in DOMAIN taskMap : Fits(d, i) => Fits(e, i)'
      BY DEF Carried
    <2>3. PICK i \in DOMAIN taskMap : Info(i).active /\ Fits(d, i)
      BY <2>1, <2>2 DEF TaskInv, Owned
    <2>4. Info(i)' = Info(i)
      BY <1>1
    <2>5. Info(i)'.active
      BY <2>3, <2>4
    <2>6. QED
      BY <2>2, <2>3, <2>5
  <1>5. QED
    BY <1>2, <1>3, <1>4

\* The timer gives up nothing: what is cancelled has no references left.
LEMMA ForgetsNothing ==
  ASSUME TaskInv, NEW e \in Entry, mem[e.addr].cancelled, Forget(e)
  PROVE  /\ mem' = mem
         /\ "freed" \notin crossed => \A i \in DOMAIN taskMap : taskMap[i] # e.addr
  <1>1. e.addr \in Addrs /\ mem \in [Addrs -> MemAt]
    BY DEF TaskInv, TaskTypeOK, MemAt, Entry
  <1>2. mem[e.addr].refs = 0
    BY <1>1 DEF TaskInv, Handlers
  <1>3. Released(e.addr, 1) = mem[e.addr]
    BY <1>1, <1>2, ReleasedNothing
  <1>4. mem' = mem
    BY <1>1, <1>3 DEF Forget
  <1>5. QED
    BY <1>2, <1>4 DEF TaskInv, Mapped, Live

LEMMA DequeueCarries ==
  ASSUME TaskInv, TimerDequeue
  PROVE  Carried /\ Handlers'
  <1>1. PICK e \in queue :
          /\ Due(e) /\ queue' = queue \ {e}
          /\ \/ mem[e.addr].cancelled /\ Forget(e) /\ UNCHANGED timer
             \/ timer' = [at |-> "run", entry |-> e] /\ UNCHANGED mem
    BY DEF TimerDequeue
  <1>2. /\ UNCHANGED <<taskMap, taskConfig, file, pc, crossed, now, wiped>>
        /\ timer.at = "idle" /\ e \in Entry
    BY DEF TimerDequeue, tables, TaskInv, TaskTypeOK
  <1>3. mem' = mem
    BY <1>1, <1>2, ForgetsNothing
  <1>4. \A i \in DOMAIN taskMap :
          /\ Info(i)' = Info(i)
          /\ "freed" \notin crossed => mem[taskMap[i]].refs > 0
          /\ \A d : Fits(d, i)' <=> Fits(d, i)
    BY <1>2, <1>3 DEF Info, Fits, LocalMinute, TaskInv, Mapped, Live
  <1>5. Entries' \subseteq Entries
    BY <1>1, <1>2 DEF Entries
  <1>6. \A d \in Entries : d \in Entries' \/ d = e
    BY <1>1, <1>2 DEF Entries
  <1>7. CASE mem[e.addr].cancelled /\ Forget(e) /\ UNCHANGED timer
    <2>1. "freed" \notin crossed => \A i \in DOMAIN taskMap : ~ Fits(e, i)
      BY <1>2, <1>7, ForgetsNothing DEF Fits
    <2>2. Carried
      BY <1>2, <1>3, <1>4, <1>5, <1>6, <2>1 DEF Carried
    <2>3. Handlers'
      BY <1>3, <1>7 DEF TaskInv, Handlers
    <2>4. QED
      BY <2>2, <2>3
  <1>8. CASE timer' = [at |-> "run", entry |-> e] /\ UNCHANGED mem
    <2>1. e \in Entries'
      BY <1>8 DEF Entries
    <2>2. Carried
      BY <1>2, <1>3, <1>4, <1>5, <1>6, <2>1 DEF Carried
    <2>3. Handlers'
      BY <1>1, <1>8 DEF TaskInv, Handlers, Due
    <2>4. QED
      BY <2>2, <2>3
  <1>9. QED
    BY <1>1, <1>7, <1>8

LEMMA RunCarries ==
  ASSUME TaskInv, RunTask
  PROVE  Carried /\ Handlers'
  <1>1. /\ UNCHANGED <<taskMap, taskConfig, file, pc, crossed, now, wiped, mem, queue>>
        /\ timer.at = "run" /\ timer' = [timer EXCEPT !.at = "again"]
    BY DEF RunTask, tables
  <1>2. timer'.at = "again" /\ timer'.entry = timer.entry
    BY <1>1 DEF TaskInv, TaskTypeOK
  <1>3. Entries' = Entries
    BY <1>1, <1>2 DEF Entries
  <1>4. \A i \in DOMAIN taskMap :
          /\ Info(i)' = Info(i)
          /\ "freed" \notin crossed => mem[taskMap[i]].refs > 0
          /\ \A d : Fits(d, i)' <=> Fits(d, i)
    BY <1>1 DEF Info, Fits, LocalMinute, TaskInv, Mapped, Live
  <1>5. Carried
    BY <1>1, <1>3, <1>4 DEF Carried
  <1>6. Handlers'
    BY <1>1, <1>2 DEF TaskInv, Handlers
  <1>7. QED
    BY <1>5, <1>6

\* A task that has run is due again at the same time tomorrow.
LEMMA AgainCarries ==
  ASSUME TaskInv, TimerAgain
  PROVE  Carried /\ Handlers'
  <1> DEFINE e == timer.entry
             f == [e EXCEPT !.in = DayLength]
  <1>1. /\ UNCHANGED <<taskMap, taskConfig, file, pc, crossed, now, wiped>>
        /\ timer.at = "again" /\ timer'.at = "idle" /\ now \in Minutes
        /\ e \in Entry /\ e.in = 0
    BY DEF TimerAgain, tables, TaskInv, TaskTypeOK, Handlers
  <1>2. \/ mem[e.addr].cancelled /\ Forget(e) /\ queue' = queue
        \/ queue' = queue \cup {f} /\ mem' = mem
    BY DEF TimerAgain
  <1>3. f.addr = e.addr /\ f.stale = e.stale /\ f.in = DayLength
    BY <1>1 DEF Entry
  <1> HIDE DEF e, f
  <1>4. mem' = mem
    BY <1>1, <1>2, ForgetsNothing
  <1>5. \A i \in DOMAIN taskMap :
          /\ Info(i)' = Info(i)
          /\ "freed" \notin crossed => mem[taskMap[i]].refs > 0
          /\ \A d : Fits(d, i)' <=> Fits(d, i)
    BY <1>1, <1>4 DEF Info, Fits, LocalMinute, TaskInv, Mapped, Live
  <1>6. \A d : d \in Entries <=> d \in queue \/ d = e
    BY <1>1 DEF Entries, e
  <1>7. \A d : d \in Entries' <=> d \in queue'
    BY <1>1 DEF Entries
  <1>8. Handlers'
    BY <1>1, <1>4 DEF TaskInv, Handlers
  <1>9. CASE mem[e.addr].cancelled /\ Forget(e) /\ queue' = queue
    <2>1. "freed" \notin crossed => \A i \in DOMAIN taskMap : ~ Fits(e, i)
      BY <1>1, <1>9, ForgetsNothing DEF Fits
    <2>2. Entries' \subseteq Entries /\ \A d \in Entries : d \in Entries' \/ d = e
      BY <1>6, <1>7, <1>9
    <2>3. \A i \in DOMAIN taskMap :
            "freed" \notin crossed => \A d \in Entries : Fits(d, i) => d \in Entries' /\ Fits(d, i)'
      BY <1>5, <2>1, <2>2
    <2>4. \A d \in Entries' : d \in Entries /\ \A i \in DOMAIN taskMap : Fits(d, i) => Fits(d, i)'
      BY <1>5, <2>2
    <2>5. \A i \in DOMAIN taskMap :
            Info(i)' = Info(i) /\ ("freed" \notin crossed => mem'[taskMap[i]].refs > 0)
      BY <1>4, <1>5
    <2>6. Carried
      BY <1>1, <2>3, <2>4, <2>5 DEF Carried
    <2>7. QED
      BY <1>8, <2>6
  <1>10. CASE queue' = queue \cup {f} /\ mem' = mem
    <2>1. LocalMinute(now + f.in) = LocalMinute(now + e.in)
      BY <1>1, <1>3, NextDay
    <2>2. \A i \in DOMAIN taskMap : Fits(e, i) <=> Fits(f, i)
      BY <1>3, <2>1 DEF Fits
    <2>3. Carried
      BY <1>1, <1>3, <1>5, <1>6, <1>7, <1>10, <2>2 DEF Carried
    <2>4. QED
      BY <1>8, <2>3
  <1>11. QED
    BY <1>2, <1>9, <1>10

LEMMA ClearCarries ==
  ASSUME TaskInv, TimerClear
  PROVE  Carried /\ Handlers'
  <1>1. /\ UNCHANGED <<taskMap, taskConfig, file, pc, now, timer>>
        /\ timer.at = "idle" /\ queue' = {}
        /\ mem' = [a \in Addrs |-> Released(a, Cardinality({e \in queue : e.addr = a}))]
        /\ wiped' = wiped \cup {e.addr : e \in {d \in queue : ~ d.stale}}
        /\ crossed' = crossed \cup
             (IF \E i \in DOMAIN taskMap : Live(taskMap[i]) /\ mem'[taskMap[i]].refs = 0
              THEN {"add", "freed"} ELSE {})
    BY DEF TimerClear, tables
  <1>2. mem \in [Addrs -> MemAt] /\ queue \subseteq Entry
    BY DEF TaskInv, TaskTypeOK, MemAt
  <1>3. ASSUME NEW a \in Addrs
        PROVE  /\ mem'[a] \in MemAt
               /\ mem'[a].info = mem[a].info /\ mem'[a].cancelled = mem[a].cancelled
               /\ mem[a].refs = 0 => mem'[a].refs = 0
    <2> DEFINE n == Cardinality({e \in queue : e.addr = a})
    <2>1. n \in Nat /\ mem[a] \in MemAt
      BY <1>2, FewEntries
    <2>2. mem'[a] = Released(a, n)
      BY <1>1
    <2> HIDE DEF n
    <2>3. QED
      BY <2>1, <2>2, ReleasedTyped
  <1>4. Handlers'
    BY <1>1, <1>3 DEF TaskInv, Handlers
  <1>5. Entries' = {} /\ Entries = queue
    BY <1>1 DEF Entries
  <1>6. ASSUME NEW i \in DOMAIN taskMap
        PROVE  /\ Info(i)' = Info(i)
               /\ "freed" \notin crossed' => mem'[taskMap[i]].refs > 0
               /\ taskMap[i] \notin wiped' =>
                    taskMap[i] \notin wiped /\ \A d \in queue : ~ Fits(d, i)
    <2>1. taskMap[i] \in Addrs
      BY MapsValue DEF TaskInv
    <2>2. Info(i)' = Info(i)
      BY <1>1, <1>3, <2>1 DEF Info
    <2>3. ASSUME "freed" \notin crossed' PROVE mem'[taskMap[i]].refs > 0
      <3>1. Live(taskMap[i]) /\ mem'[taskMap[i]].refs # 0
        BY <1>1, <2>3 DEF TaskInv, Mapped
      <3>2. mem'[taskMap[i]].refs \in Nat
        BY <1>3, <2>1 DEF MemAt
      <3>3. QED
        BY <3>1, <3>2
    <2>4. ASSUME taskMap[i] \notin wiped'
          PROVE  taskMap[i] \notin wiped /\ \A d \in queue : ~ Fits(d, i)
      BY <1>1, <2>4 DEF Fits
    <2>5. QED
      BY <2>2, <2>3, <2>4
  <1>7. crossed' = crossed \/ (crossed \subseteq crossed' /\ {"add", "freed"} \subseteq crossed')
    BY <1>1
  <1>8. Carried
    BY <1>1, <1>5, <1>6, <1>7 DEF Carried
  <1>9. QED
    BY <1>4, <1>8

LEMMA TickCarries ==
  ASSUME TaskInv, Tick
  PROVE  Carried /\ Handlers'
  <1> DEFINE Later(d) == [d EXCEPT !.in = @ - 1]
  <1>1. /\ UNCHANGED <<taskMap, taskConfig, file, pc, crossed, wiped, mem, timer>>
        /\ timer.at = "idle" /\ now' = (now + 1) % (DayLength * WeekLength)
        /\ queue' = {Later(e) : e \in queue}
    BY DEF Tick, tables
  <1>2. now \in Minutes /\ queue \subseteq Entry
    BY DEF TaskInv, TaskTypeOK
  <1>3. Entries = queue /\ Entries' = queue'
    BY <1>1 DEF Entries
  <1>4. \A i \in DOMAIN taskMap :
          /\ Info(i)' = Info(i)
          /\ "freed" \notin crossed => mem[taskMap[i]].refs > 0
    BY <1>1 DEF Info, TaskInv, Mapped, Live
  <1>5. ASSUME NEW d \in queue
        PROVE  /\ Later(d) \in queue' /\ Later(d).stale = d.stale
               /\ \A i \in DOMAIN taskMap : Fits(d, i) => Fits(Later(d), i)'
    <2> DEFINE e == Later(d)
    <2>1. e \in queue'
      BY <1>1
    <2>2. d \in Entry
      BY <1>2
    <2>3. e.addr = d.addr /\ e.stale = d.stale /\ e.in = d.in - 1 /\ d.in \in Int
      BY <2>2 DEF Entry
    <2> HIDE DEF e
    <2>4. LocalMinute(now' + (d.in - 1)) = LocalMinute(now + d.in)
      BY <1>1, <1>2, <2>3, MinutePasses
    <2>5. LocalMinute(now' + e.in) = LocalMinute(now + d.in)
      BY <2>3, <2>4
    <2>6. \A i \in DOMAIN taskMap : Fits(d, i) => Fits(e, i)'
      <3> SUFFICES ASSUME NEW i \in DOMAIN taskMap, Fits(d, i) PROVE Fits(e, i)'
        OBVIOUS
      <3>1. LocalMinute(now + e.in)' = LocalMinute(now + d.in)
        BY <2>5 DEF LocalMinute
      <3>2. Info(i)' = Info(i) /\ taskMap' = taskMap
        BY <1>1, <1>4
      <3>3. QED
        BY <2>3, <3>1, <3>2 DEF Fits
    <2>7. QED
      BY <2>1, <2>3, <2>6 DEF e
  <1>6. \A e \in queue' : \E d \in queue : e = Later(d)
    BY <1>1
  <1> HIDE DEF Later
  <1>7. Carried
    BY <1>1, <1>3, <1>4, <1>5, <1>6 DEF Carried
  <1>8. Handlers'
    BY <1>1 DEF TaskInv, Handlers
  <1>9. QED
    BY <1>7, <1>8

-----------------------------------------------------------------------------
(* A start of the device. *)

\* Every task of the file has its handler, and its entry; requests that were cut
\* short do not go on.
Started ==
  /\ file \in Arrays /\ taskConfig = file
  /\ \E g \in Placements(Slots(file), Addrs) :
       /\ taskMap = MapOf(g, Present(file))
       /\ mem = Loaded(Blank, g, file, Present(file))
       /\ queue = Schedule(g, file)
  /\ cancel = FALSE /\ timer = [at |-> "idle"] /\ wiped = {}
  /\ now \in Minutes /\ door \in {"open", "close"}
  /\ pc \in [Requests -> [at : {"idle", "done"}]]
  /\ crossed \subseteq {"add", "reset"}
  /\ "add" \notin crossed => Proper(file)
  /\ Overlapped \/ Single(file)

LEMMA StartedInv == Started => TaskInv
  <1> SUFFICES ASSUME Started PROVE TaskInv
    OBVIOUS
  <1>1. /\ file \in Arrays /\ taskConfig = file
        /\ cancel = FALSE /\ timer = [at |-> "idle"] /\ wiped = {}
        /\ now \in Minutes /\ door \in {"open", "close"}
        /\ pc \in [Requests -> [at : {"idle", "done"}]]
        /\ crossed \subseteq {"add", "reset"}
        /\ "add" \notin crossed => Proper(file)
        /\ Overlapped \/ Single(file)
    BY DEF Started
  <1>2. PICK g \in Placements(Slots(file), Addrs) :
          /\ taskMap = MapOf(g, Present(file))
          /\ mem = Loaded(Blank, g, file, Present(file))
          /\ queue = Schedule(g, file)
    BY DEF Started
  <1>3. /\ g \in [Slots(file) -> Addrs]
        /\ \A s, t \in Slots(file) : g[s] = g[t] => s = t
    BY <1>2 DEF Placements
  <1>4. /\ \A s \in Slots(file) : TaskAt(file, s) \in Tasks
        /\ \A i \in Present(file) :
             <<i, 1>> \in Slots(file) /\ TaskAt(file, <<i, 1>>) = SetTaskInfo(file[i][1])
    BY <1>1, SlotTyped
  <1>5. DOMAIN taskMap = Present(file) /\ \A i \in Present(file) : taskMap[i] = g[<<i, 1>>]
    BY <1>2 DEF MapOf
  <1>6. Blank \in [Addrs -> MemAt] /\ \A a \in Addrs : Blank[a] = Freed
    BY FreedTyped DEF Blank
  <1>7. /\ mem \in [Addrs -> MemAt]
        /\ \A s \in Slots(file) :
             /\ mem[g[s]].info = TaskAt(file, s)
             /\ ~ mem[g[s]].cancelled
             /\ s[1] \in Present(file) /\ s[2] = 1 => mem[g[s]].refs > 0
        /\ \A a \in Addrs : (\A s \in Slots(file) : g[s] # a) => mem[a] = Blank[a]
    BY <1>1, <1>2, <1>6, LoadedTyped
  <1>8. /\ queue \subseteq Entry
        /\ \A e \in queue :
             /\ ~ e.stale
             /\ \E s \in Slots(file) :
                  /\ e.addr = g[s] /\ TaskAt(file, s).active
                  /\ LocalMinute(now + e.in) = TaskAt(file, s).at
        /\ \A s \in Slots(file) :
             TaskAt(file, s).active =>
               \E e \in queue :
                 e.addr = g[s] /\ ~ e.stale /\ LocalMinute(now + e.in) = TaskAt(file, s).at
    BY <1>1, <1>2, <1>3, ScheduleEntries
  <1>9. ASSUME NEW i \in DOMAIN taskMap
        PROVE  /\ Info(i) = TaskAt(file, <<i, 1>>) /\ mem[taskMap[i]].refs > 0
               /\ Info(i) = SetTaskInfo(file[i][1])
    BY <1>4, <1>5, <1>7 DEF Info
  <1>10. \A i, j \in DOMAIN taskMap : taskMap[i] = taskMap[j] => i = j
    <2> SUFFICES ASSUME NEW i \in DOMAIN taskMap, NEW j \in DOMAIN taskMap,
                        taskMap[i] = taskMap[j]
                 PROVE  i = j
      OBVIOUS
    <2>1. <<i, 1>> \in Slots(file) /\ <<j, 1>> \in Slots(file) /\ g[<<i, 1>>] = g[<<j, 1>>]
      BY <1>4, <1>5
    <2>2. <<i, 1>> = <<j, 1>>
      BY <1>3, <2>1
    <2>3. QED
      BY <2>2
  <1>11. \A r \in Requests : pc[r].at \in {"idle", "done"}
    BY <1>1
  <1>12. ~ Resetting /\ ~ Midway
    BY <1>11 DEF Resetting, Midway
  <1>13. TaskTypeOK
    <2>1. taskMap \in Maps(Ids, Addrs)
      <3>1. \A i \in Present(file) : g[<<i, 1>>] \in Addrs
        BY <1>3, <1>4
      <3>2. MapOf(g, Present(file)) \in [Present(file) -> Addrs]
        BY <3>1 DEF MapOf
      <3>3. Present(file) \subseteq Ids
        BY DEF Present
      <3>4. QED
        BY <1>2, <3>2, <3>3, MapsDef
    <2>2. pc \in [Requests -> Request]
      BY <1>1 DEF Request
    <2>3. QED
      BY <1>1, <1>7, <1>8, <2>1, <2>2 DEF TaskTypeOK, MemAt
  <1>14. OneReset /\ Singles
    BY <1>1, <1>11 DEF OneReset, Singles
  <1>15. Handlers
    <2>1. ASSUME NEW a \in Addrs, mem[a].cancelled PROVE mem[a].refs = 0
      <3>1. \A s \in Slots(file) : g[s] # a
        BY <1>7, <2>1
      <3>2. QED
        BY <1>6, <1>7, <3>1, FreedTyped
    <2>2. QED
      BY <1>1, <2>1 DEF Handlers
  <1>16. Mapped
    BY <1>9, <1>10 DEF Mapped, Live
  <1>17. Agrees
    BY <1>1, <1>5, <1>9, <1>11, <1>12 DEF Agrees
  <1>18. Saved
    BY <1>1 DEF Saved
  <1>19. Checked
    BY <1>1, <1>11 DEF Checked
  <1>20. ActiveScheduled
    <2> SUFFICES ASSUME NEW i \in DOMAIN taskMap, Info(i).active
                 PROVE  \E e \in queue :
                          e.addr = taskMap[i] /\ ~ e.stale /\ LocalMinute(now + e.in) = Info(i).at
      BY <1>1 DEF ActiveScheduled
    <2>1. <<i, 1>> \in Slots(file) /\ TaskAt(file, <<i, 1>>).active
      BY <1>4, <1>5, <1>9
    <2>2. QED
      BY <1>5, <1>8, <1>9, <2>1
  <1>21. Owned
    <2> SUFFICES ASSUME Single(file), NEW e \in queue
                 PROVE  \E i \in DOMAIN taskMap : Info(i).active /\ Fits(e, i)
      BY <1>1 DEF Owned, Sound, Entries
    <2>1. PICK s \in Slots(file) :
            /\ e.addr = g[s] /\ TaskAt(file, s).active
            /\ LocalMinute(now + e.in) = TaskAt(file, s).at
      BY <1>8
    <2>2. PICK i : i \in Present(file) /\ s = <<i, 1>>
      BY <1>1, SingleSlots
    <2>3. i \in DOMAIN taskMap /\ Info(i) = TaskAt(file, s) /\ taskMap[i] = g[s]
      BY <1>5, <1>9, <2>2
    <2>4. Info(i).active
      BY <2>1, <2>3
    <2>5. QED
      BY <1>8, <2>1, <2>3, <2>4 DEF Fits
  <1>22. QED
    BY <1>13, <1>14, <1>15, <1>16, <1>17, <1>18, <1>19, <1>20, <1>21 DEF TaskInv

LEMMA InitStarted == Init => Started
  <1> SUFFICES ASSUME Init PROVE Started
    OBVIOUS
  <1>1. file \in Arrays /\ Proper(file) /\ Single(file)
    BY FilesAssumption DEF Init, Proper
  <1>2. now \in Minutes
    <2>1. DayLength * WeekLength \in Nat \ {0}
      BY TimeAssumption
    <2>2. QED
      BY <2>1 DEF Init, Minutes
  <1>3. QED
    BY <1>1, <1>2 DEF Init, Started

LEMMA RestartStarted == TaskInv /\ Restart => Started'
  <1> SUFFICES ASSUME TaskInv, Restart PROVE Started'
    OBVIOUS
  <1>1. TaskTypeOK
    BY DEF TaskInv
  <1>2. /\ UNCHANGED <<file, now, door>> /\ taskConfig' = file
        /\ cancel' = FALSE /\ timer' = [at |-> "idle"] /\ wiped' = {}
        /\ crossed' = crossed \cap (IF Single(file) THEN {"add"} ELSE {"add", "reset"})
    BY DEF Restart
  <1>3. PICK g \in Placements(Slots(file), Addrs) :
          /\ taskMap' = MapOf(g, Present(file))
          /\ mem' = Loaded(Blank, g, file, Present(file))
          /\ queue' = Schedule(g, file)
    BY DEF Restart
  <1>4. pc' \in [Requests -> [at : {"idle", "done"}]]
    <2>1. ASSUME NEW r \in Requests, pc[r].at = "idle" PROVE pc[r] \in [at : {"idle", "done"}]
      <3>1. pc[r] \in Request
        BY <1>1 DEF TaskTypeOK
      <3>2. QED
        BY <2>1, <3>1 DEF Request
    <2>2. QED
      BY <2>1 DEF Restart
  <1>5. \E h \in Placements(Slots(file), Addrs)' :
          /\ taskMap' = MapOf(h, Present(file))'
          /\ mem' = Loaded(Blank, h, file, Present(file))'
          /\ queue' = Schedule(h, file)'
    <2>1. file' = file /\ now' = now
      BY <1>2
    <2>2. g \in Placements(Slots(file), Addrs)'
      BY <2>1 DEF Placements, Slots
    <2>3. taskMap' = MapOf(g, Present(file))'
      BY <1>3, <2>1 DEF MapOf, Present
    <2>4. mem' = Loaded(Blank, g, file, Present(file))'
      BY <1>3, <2>1 DEF Loaded, Blank, Present, Element
    <2>5. queue' = Schedule(g, file)'
      BY <1>3, <2>1 DEF Schedule, AddToScheduleQueue, Wait, LocalMinute, Element
    <2>6. QED
      BY <2>2, <2>3, <2>4, <2>5
  <1>6. "add" \notin crossed' => Proper(file)'
    <2>1. "add" \notin crossed' => Proper(file)
      BY <1>2 DEF TaskInv, Checked
    <2>2. QED
      BY <1>2, <2>1 DEF Proper, Present, Single
  <1>7. Overlapped' \/ Single(file)'
    <2>1. Overlapped \/ Single(file)
      BY DEF TaskInv, Singles
    <2>2. CASE Single(file)
      BY <1>2, <2>2 DEF Single
    <2>3. CASE ~ Single(file)
      BY <1>2, <2>1, <2>3 DEF Overlapped
    <2>4. QED
      BY <2>2, <2>3
  <1>8. crossed' \subseteq {"add", "reset"}
    BY <1>2
  <1>9. file' \in Arrays /\ now' \in Minutes /\ door' \in {"open", "close"}
    BY <1>1, <1>2 DEF TaskTypeOK
  <1>10. QED
    BY <1>2, <1>4, <1>5, <1>6, <1>7, <1>8, <1>9 DEF Started

-----------------------------------------------------------------------------
(* Every step keeps the invariant. *)

LEMMA HandleInv ==
  ASSUME TaskInv, NEW r \in Requests, Handle(r)
  PROVE  TaskInv'
  <1>1. TaskTypeOK'
    BY RequestTypeOK DEF TaskInv
  <1>2. QED
    BY <1>1, HandleOneReset, HandleSingles, HandleHandlers, HandleAgrees, HandleSaved,
       HandleChecked, HandleKeeps
       DEF TaskInv

LEMMA TimerInv ==
  ASSUME TaskInv, TimerThread \/ Tick
  PROVE  TaskInv'
  <1>1. TaskTypeOK'
    BY TimerTypeOK DEF TaskInv
  <1>2. Carried /\ Handlers'
    BY DequeueCarries, RunCarries, AgainCarries, ClearCarries, TickCarries DEF TimerThread
  <1>3. QED
    BY <1>1, <1>2, CarriedTables, CarriedKeeps DEF TaskInv

LEMMA StutterInv ==
  ASSUME TaskInv, UNCHANGED vars
  PROVE  TaskInv'
  <1>1. UNCHANGED <<taskMap, mem, queue, cancel, timer, taskConfig, file, now, door, pc, crossed, wiped>>
    BY DEF vars
  <1>2. TaskTypeOK' /\ Handlers'
    BY <1>1 DEF TaskInv, TaskTypeOK, Handlers
  <1>3. Carried
    <2>1. \A i \in DOMAIN taskMap :
            /\ Info(i)' = Info(i)
            /\ "freed" \notin crossed => mem[taskMap[i]].refs > 0
            /\ \A d : Fits(d, i)' <=> Fits(d, i)
      BY <1>1 DEF Info, Fits, LocalMinute, TaskInv, Mapped, Live
    <2>2. Entries' = Entries
      BY <1>1 DEF Entries
    <2>3. QED
      BY <1>1, <2>1, <2>2 DEF Carried
  <1>4. QED
    BY <1>2, <1>3, CarriedTables, CarriedKeeps DEF TaskInv

\* The invariant holds always; Restart, from the start it is.
THEOREM TaskInvariant == Spec => []TaskInv
  <1>1. Init => TaskInv
    BY InitStarted, StartedInv
  <1>2. TaskInv /\ [(\E r \in Requests : Handle(r)) \/ TimerThread \/ Tick]_vars => TaskInv'
    BY HandleInv, TimerInv, StutterInv
  <1>3. TaskInv /\ Restart => Started'
    BY RestartStarted
  <1>4. Started => TaskInv
    BY StartedInv
  <1>5. Next => ((\E r \in Requests : Handle(r)) \/ TimerThread \/ Tick) \/ Restart
    BY DEF Next
  <1>6. QED
    BY <1>1, <1>2, <1>3, <1>4, <1>5, PTL DEF Spec

-----------------------------------------------------------------------------
(* The properties. *)

\* The variables keep their types, whatever the requests, the timer and restarts
\* do to the handlers: no count of references leaves 0 .. 2.
THEOREM TypeCorrect == Spec => []TaskTypeOK
  <1>1. TaskInv => TaskTypeOK
    BY DEF TaskInv
  <1>2. QED
    BY <1>1, TaskInvariant, PTL

\* The map, m_task_config and the file hold the same tasks, each once, outside of a
\* reset, unless one failed half-way or was overlapped by another change, another
\* reset included (TaskManager.cpp:82-106), or the timer freed a handler in the map.
THEOREM TasksAgree == Spec => []ConfigAgrees
  <1>1. TaskInv => ConfigAgrees
    <2> SUFFICES ASSUME TaskInv, ~ Resetting, crossed \cap {"reset", "freed"} = {}
                 PROVE  /\ taskConfig = file /\ Single(file)
                        /\ DOMAIN taskMap = Present(file)
                        /\ \A i \in DOMAIN taskMap : Info(i) = SetTaskInfo(file[i][1])
      BY DEF ConfigAgrees
    <2>1. Sound /\ ~ Overlapped /\ ~ Midway
      BY DEF Sound, Overlapped, Midway, Resetting
    <2>2. taskConfig = file /\ Single(file)
      BY <2>1 DEF TaskInv, Saved, Singles
    <2>3. QED
      BY <2>1, <2>2 DEF TaskInv, Agrees
  <1>2. QED
    BY <1>1, TaskInvariant, PTL

\* There are never more tasks than addTask lets in, and no two for the same time and
\* days of which each would be refused next to the other (an active that is neither 0
\* nor 1 is not refused, TaskManager.cpp:170); unless an addition or a reset overlapped
\* another change (TaskManager.cpp:179-217).
THEOREM ChecksHold == Spec => []AddChecksHold
  <1>1. TaskInv => AddChecksHold
    BY MappedProper DEF AddChecksHold
  <1>2. QED
    BY <1>1, TaskInvariant, PTL

\* Every active task has an entry that runs its handler at its time, unless the
\* timer cleared its queue after the handler was made (TaskManager.cpp:45).
THEOREM EveryTaskScheduled == Spec => []ActiveScheduled
  <1>1. TaskInv => ActiveScheduled
    BY DEF TaskInv
  <1>2. QED
    BY <1>1, TaskInvariant, PTL

\* The task of the file that moves the door.
Says(x) ==
  /\ x.active = 1 /\ x.option = door'
  /\ x.at = LocalMinute(now)
  /\ LocalDay(now) \in x.days \/ LocalDay(now) # UtcDay(now)

\* What a step of the timer's thread may do to the door.
LEMMA RunAllowed ==
  ASSUME TaskInv, RunTask, door' # door, ~ timer.entry.stale,
         crossed \cap {"reset", "freed"} = {}, ~ Resetting
  PROVE  \E s \in Slots(file) : Says(Element(file, s))
  <1> DEFINE e == timer.entry
  <1>1. timer.at = "run" /\ e \in Entries /\ e.in = 0 /\ ~ e.stale
    BY DEF RunTask, Entries, TaskInv, Handlers
  <1>2. Sound /\ ~ Midway
    BY DEF Sound, Overlapped, Midway, Resetting
  <1>3. PICK i \in DOMAIN taskMap : Info(i).active /\ Fits(e, i)
    BY <1>1, <1>2 DEF TaskInv, Owned
  <1> DEFINE x == file[i][1]
  <1>4. i \in Present(file) /\ Info(i) = SetTaskInfo(x)
    BY <1>2 DEF TaskInv, Agrees, Saved
  <1>10. <<i, 1>> \in Slots(file) /\ Element(file, <<i, 1>>) = x /\ x \in Infos
    BY <1>4, SlotTyped DEF TaskInv, TaskTypeOK, Element
  <1> HIDE DEF x
  <1>5. Live(e.addr) /\ mem[e.addr].info = Info(i)
    BY <1>2, <1>3 DEF TaskInv, Mapped, Sound, Fits, Info
  <1>6. door' = IF UtcDay(now) \in Info(i).days THEN Info(i).option ELSE door
    BY <1>5 DEF RunTask
  <1>7. Info(i).at = LocalMinute(now)
    <2>1. Info(i).at = LocalMinute(now + e.in)
      BY <1>3 DEF Fits
    <2>2. now + 0 = now
      BY DEF TaskInv, TaskTypeOK, Minutes
    <2>3. QED
      BY <1>1, <2>1, <2>2
  <1>8. x.active = 1
    BY <1>3, <1>4, <1>10, SetTyped
  <1>9. x.at = Info(i).at /\ x.days = Info(i).days /\ x.option = Info(i).option
    BY <1>4, <1>10, SetTyped
  <1>11. Says(x)
    BY <1>6, <1>7, <1>8, <1>9 DEF Says
  <1>12. QED
    BY <1>10, <1>11

\* The timer moves the door only as an active task of the file says, at that task's
\* minute, and on its day where Greenwich has the same (TaskHandler.cpp:21); but for an
\* entry whose handler was freed, and during or after a reset that failed, or was
\* overlapped by another change or another reset (TaskManager.cpp:98-106).
THEOREM DoorAsConfigured == Spec => RunsAsConfigured
  <1>1. ASSUME TaskInv, Next, door' # door
        PROVE  \/ timer.entry.stale
               \/ crossed \cap {"reset", "freed"} # {} \/ Resetting
               \/ \E s \in Slots(file) : Says(Element(file, s))
    <2>1. ASSUME NEW r \in Requests, Handle(r) PROVE FALSE
      <3>1. door' = door
        BY <2>1 DEF Handle, Add, CheckSize, CheckExists, InsertTask, RemoveTask, ModifyTask,
                    Reset, StopAllTasks, ReadTasks, Assign, LoadTasks, timerVars
      <3>2. QED
        BY <1>1, <3>1
    <2>2. CASE TimerDequeue \/ TimerAgain \/ TimerClear \/ Tick \/ Restart
      BY <1>1, <2>2 DEF TimerDequeue, TimerAgain, TimerClear, Tick, Restart
    <2>3. CASE RunTask
      BY <1>1, <2>3, RunAllowed
    <2>4. QED
      BY <1>1, <2>1, <2>2, <2>3 DEF Next, TimerThread
  <1>2. UNCHANGED vars => door' = door
    BY DEF vars
  <1>3. QED
    BY <1>1, <1>2, TaskInvariant, PTL DEF Spec, RunsAsConfigured, Says
=============================================================================
