-------------------------- MODULE UserManager_proofs --------------------------
(***************************************************************************)
(* What the runs of MCUserManager check on a small instance, proved for    *)
(* every set of users, requests, tokens and challenges and every bound.    *)
(* A request works on copies of rows, so the invariant says of every copy  *)
(* what the properties say of the table: its authority, its token and its  *)
(* name belong together.                                                   *)
(***************************************************************************)
EXTENDS UserManager, StdMapTheorems, FiniteSetTheorems, TLAPS

USE NullAssumption

\* A row or a copy of one.
RowOK(x) ==
  /\ x \in UserRecordNode
  /\ x.authority = USER_AUTHORITY_ADMIN <=> x.username = Admin
  /\ x.token # Null =>
       x.token \in DOMAIN owner /\ owner[x.token] = x.username

CopyOK(x) == x = NoRow \/ RowOK(x)

\* A row to insert.  When the SELECT threw, addUser takes a name for free that
\* is not, so this may even be named after the administrator.
NewOK(x) ==
  x \in UserRecordNode /\ x.authority # USER_AUTHORITY_ADMIN /\ x.token = Null

TableOK ==
  /\ Admin \in DOMAIN rows
  /\ \A u \in DOMAIN rows : RowOK(rows[u]) /\ rows[u].username = u

\* What a request knows where it is.
TaskOK(k) ==
  /\ k \in Task
  /\ k.pc # "insert" => CopyOK(k.row)
  /\ k.pc = "insert" => NewOK(k.row)
  /\ CopyOK(k.login)
  /\ k.token # Null => k.token \in DOMAIN owner
  /\ k.op = "login" /\ k.pc = "challenge" =>
       k.row # NoRow /\ k.row.username = k.username
  /\ k.pc \in {"challenge", "check"} /\ k.op # "login" /\ k.row = NoRow =>
       k.username = Null
  /\ k.op = "delete" /\ k.pc = "load" => k.row # NoRow
  /\ k.pc = "remove" => k.row # NoRow /\ k.row.username # Admin

TasksOK == \A r \in Requests : TaskOK(task[r])

FlushOK ==
  /\ CopyOK(flush.row)
  /\ flush.pc = "write" => flush.row # NoRow /\ flush.token \in DOMAIN cache

Inv == TypeOK /\ TableOK /\ TasksOK /\ FlushOK

-----------------------------------------------------------------------------
(* What the statements find, and what they leave.                           *)

LEMMA NoRowIsNone == NoRow \notin UserRecordNode
  BY DEF NoRow

LEMMA RowsTyped ==
  ASSUME TypeOK
  PROVE  rows \in Maps(Users, UserRecordNode)
  BY MapsDef DEF TypeOK, IsMap

\* A SELECT by name finds the user's row or nothing.
LEMMA SelectedByName ==
  ASSUME Inv, NEW u, NEW x \in SelectByName(u), x # NoRow
  PROVE  u \in DOMAIN rows /\ x = rows[u] /\ RowOK(x) /\ x.username = u
  BY DEF Inv, TableOK, SelectByName, Unread

\* A SELECT by token finds the row of a user or nothing.
LEMMA SelectedByToken ==
  ASSUME Inv, NEW t, NEW x \in SelectByToken(t), x # NoRow
  PROVE  RowOK(x) /\ x.username \in DOMAIN rows
  BY DEF Inv, TableOK, SelectByToken, Unread

LEMMA CopyTyped ==
  ASSUME NEW x, CopyOK(x)
  PROVE  x \in MaybeRow
  BY DEF CopyOK, RowOK, MaybeRow

\* Tokens are handed out, and stay their users'.
OwnerKept ==
  /\ DOMAIN owner \subseteq DOMAIN owner'
  /\ \A t \in DOMAIN owner : owner'[t] = owner[t]

LEMMA CopiesKept ==
  ASSUME OwnerKept, NEW x
  PROVE  (RowOK(x) => RowOK(x)') /\ (CopyOK(x) => CopyOK(x)')
  BY DEF OwnerKept, RowOK, CopyOK

LEMMA TaskKept ==
  ASSUME OwnerKept, NEW k, TaskOK(k)
  PROVE  TaskOK(k)'
  BY CopiesKept DEF OwnerKept, TaskOK, NewOK

\* An UPDATE with a proper copy leaves a proper table of the same users.
LEMMA Updated ==
  ASSUME Inv, OwnerKept, NEW x, CopyOK(x)', UpdateRow(x)
  PROVE  IsMap(rows', Users, UserRecordNode) /\ TableOK'
  <1>1. CASE UNCHANGED rows
    <2>1. \A u \in DOMAIN rows : RowOK(rows[u])' /\ rows'[u].username = u
      BY <1>1 DEF Inv, TableOK, RowOK, OwnerKept
    <2>2. QED
      BY <1>1, <2>1 DEF Inv, TypeOK, TableOK, IsMap
  <1>2. CASE HasRow(x) /\ rows' = [rows EXCEPT ![x.username] = x]
    <2>1. RowOK(x)' /\ x \in UserRecordNode /\ x.username \in DOMAIN rows
      BY <1>2 DEF HasRow, CopyOK, RowOK
    <2>2. /\ rows' \in Maps(Users, UserRecordNode)
          /\ DOMAIN rows' = DOMAIN rows
          /\ rows'[x.username] = x
          /\ \A v \in DOMAIN rows \ {x.username} : rows'[v] = rows[v]
      BY <1>2, <2>1, RowsTyped, UpdateMap DEF Inv
    <2>3. IsMap(rows', Users, UserRecordNode)
      BY <2>2, MapsDef DEF IsMap
    <2>4. ASSUME NEW u \in DOMAIN rows'
          PROVE  RowOK(rows[u])' /\ rows'[u].username = u
      BY <2>1, <2>2 DEF Inv, TableOK, RowOK, OwnerKept
    <2>5. QED
      BY <2>2, <2>3, <2>4 DEF Inv, TableOK
  <1>3. QED
    BY <1>1, <1>2 DEF UpdateRow

\* An INSERT leaves a proper table: the administrator's name is not free.
LEMMA Inserted ==
  ASSUME Inv, UNCHANGED owner, NEW x, NewOK(x), InsertRow(x)
  PROVE  IsMap(rows', Users, UserRecordNode) /\ TableOK'
  <1>1. CASE UNCHANGED rows
    BY <1>1 DEF Inv, TypeOK, TableOK, RowOK, IsMap
  <1>2. CASE rows' = Insert(rows, x.username, x)
    <2>1. x.username \in Users /\ x \in UserRecordNode
      BY DEF NewOK, UserRecordNode
    <2>2. rows' \in Maps(Users, UserRecordNode)
      <3>1. Insert(rows, x.username, x) \in Maps(Users, UserRecordNode)
        BY <2>1, RowsTyped, InsertMap DEF Inv
      <3>2. QED
        BY <1>2, <3>1
    <2>3. /\ DOMAIN rows' = DOMAIN rows \cup {x.username}
          /\ \A v \in DOMAIN rows : rows'[v] = rows[v]
          /\ x.username \notin DOMAIN rows => rows'[x.username] = x
      BY <1>2 DEF Insert
    <2>4. IsMap(rows', Users, UserRecordNode)
      BY <2>2, MapsDef DEF IsMap
    <2>5. ASSUME NEW u \in DOMAIN rows'
          PROVE  RowOK(rows[u])' /\ rows'[u].username = u
      BY <2>1, <2>3 DEF Inv, TableOK, RowOK, NewOK
    <2>6. QED
      BY <2>3, <2>4, <2>5 DEF Inv, TableOK
  <1>3. QED
    BY <1>1, <1>2 DEF InsertRow

\* A DELETE of any row but the administrator's leaves a proper table.
LEMMA Deleted ==
  ASSUME Inv, UNCHANGED owner, NEW x, x.username # Admin, DeleteRow(x)
  PROVE  IsMap(rows', Users, UserRecordNode) /\ TableOK'
  <1>1. CASE UNCHANGED rows
    BY <1>1 DEF Inv, TypeOK, TableOK, RowOK, IsMap
  <1>2. CASE rows' = Erase(rows, x.username)
    <2>1. rows' \in Maps(Users, UserRecordNode)
      <3>1. Erase(rows, x.username) \in Maps(Users, UserRecordNode)
        BY RowsTyped, EraseMap DEF Inv
      <3>2. QED
        BY <1>2, <3>1
    <2>2. /\ DOMAIN rows' = DOMAIN rows \ {x.username}
          /\ \A v \in DOMAIN rows \ {x.username} : rows'[v] = rows[v]
      BY <1>2 DEF Erase, Restrict
    <2>3. IsMap(rows', Users, UserRecordNode)
      BY <2>1, MapsDef DEF IsMap
    <2>4. ASSUME NEW u \in DOMAIN rows'
          PROVE  RowOK(rows[u])' /\ rows'[u].username = u
      BY <2>2 DEF Inv, TableOK, RowOK
    <2>5. QED
      BY <2>2, <2>3, <2>4 DEF Inv, TableOK
  <1>3. QED
    BY <1>1, <1>2 DEF DeleteRow

-----------------------------------------------------------------------------
(* A step that changes one task, and perhaps the table.                     *)

LEMMA OwnerSame == UNCHANGED owner => OwnerKept
  BY DEF OwnerKept

LEMMA TaskChanges ==
  ASSUME Inv, OwnerKept, NEW r \in Requests,
         \E k : Become(r, k) /\ TaskOK(k)
  PROVE  task' \in [Requests -> Task] /\ TasksOK'
  <1>1. PICK k : Become(r, k) /\ TaskOK(k)
    OBVIOUS
  <1>2. task \in [Requests -> Task] /\ k \in Task
    BY <1>1 DEF Inv, TypeOK, TaskOK
  <1>3. task' = [task EXCEPT ![r] = k]
    BY <1>1 DEF Become
  <1>4. ASSUME NEW q \in Requests PROVE TaskOK(task[q])'
    <2>1. PICK t : t = task'[q]
      OBVIOUS
    <2>2. TaskOK(t)
      BY <1>1, <1>2, <1>3, <2>1 DEF Inv, TasksOK
    <2>3. TaskOK(t)'
      BY <2>2, TaskKept
    <2>4. QED
      BY <2>1, <2>3 DEF TaskOK, CopyOK, RowOK, NewOK
  <1>5. QED
    BY <1>2, <1>3, <1>4 DEF TasksOK

LEMMA IdleOK == TaskOK(Idle)
  BY DEF TaskOK, Idle, Task, PC, CopyOK, MaybeRow, NoRow

\* A step that only changes what one request knows.
LEMMA LocalStep ==
  ASSUME Inv, UNCHANGED shared, NEW r \in Requests,
         \E k : Become(r, k) /\ TaskOK(k)
  PROVE  Inv'
  <1>1. UNCHANGED <<rows, challenges, cache, flush, now, owner, used, opens,
                    ended>>
    BY DEF shared, histories
  <1>2. task' \in [Requests -> Task] /\ TasksOK'
    BY <1>1, OwnerSame, TaskChanges
  <1>3. TypeOK'
    BY <1>1, <1>2 DEF Inv, TypeOK, IsMap
  <1>4. TableOK' /\ FlushOK'
    BY <1>1 DEF Inv, TableOK, FlushOK, RowOK, CopyOK
  <1>5. QED
    BY <1>2, <1>3, <1>4 DEF Inv

LEMMA TaskOKNow ==
  ASSUME Inv, NEW r \in Requests
  PROVE  TaskOK(task[r]) /\ task[r] \in Task
  BY DEF Inv, TasksOK, TaskOK

\* A request may always be answered.
LEMMA FinishOK ==
  ASSUME NEW r \in Requests, Finish(r)
  PROVE  \E k : Become(r, k) /\ TaskOK(k)
  BY IdleOK DEF Finish

-----------------------------------------------------------------------------
(* The steps of a request that only read.                                   *)

LEMMA SentTyped ==
  ASSUME Inv, NEW t \in SentTokens
  PROVE  /\ t \in Tokens \cup {Null}
         /\ t # Null => t \in DOMAIN owner /\ owner[t] \in Users
  BY MapsDef DEF Inv, TypeOK, SentTokens

LEMMA BeginStep ==
  ASSUME Inv, NEW r \in Requests, Begin(r)
  PROVE  Inv'
  <1>1. \E k : Become(r, k) /\ TaskOK(k)
    <2>1. TaskOK(task[r]) /\ task[r] \in Task /\ task[r] = Idle
      BY TaskOKNow DEF Begin
    <2>2. CASE \E op \in Ops, u \in Users :
                 /\ op = "login"
                 /\ Become(r, [task[r] EXCEPT !.op = op, !.pc = "find",
                                              !.username = u])
      <3>1. PICK u \in Users :
              Become(r, [task[r] EXCEPT !.op = "login", !.pc = "find",
                                        !.username = u])
        BY <2>2
      <3>2. TaskOK([task[r] EXCEPT !.op = "login", !.pc = "find",
                                   !.username = u])
        <4>1. PICK k : k = [task[r] EXCEPT !.op = "login", !.pc = "find",
                                           !.username = u]
          OBVIOUS
        <4>2. k \in Task
          BY <2>1, <4>1 DEF Task, PC, AllOps
        <4>3. /\ k.op = "login" /\ k.pc = "find" /\ k.row = NoRow
              /\ k.login = NoRow /\ k.token = Null
          BY <2>1, <4>1 DEF Idle
        <4>4. QED
          BY <4>1, <4>2, <4>3 DEF TaskOK, CopyOK
      <3>3. QED
        BY <3>1, <3>2
    <2>3. CASE \E op \in Ops, t \in SentTokens :
                 /\ op # "login"
                 /\ Become(r, [task[r] EXCEPT !.op = op, !.pc = "verify",
                                              !.token = t])
      <3>1. PICK op \in Ops, t \in SentTokens :
              /\ op # "login"
              /\ Become(r, [task[r] EXCEPT !.op = op, !.pc = "verify",
                                           !.token = t])
        BY <2>3
      <3>2. op \in AllOps /\ t \in Tokens \cup {Null} /\ (t # Null => t \in DOMAIN owner)
        BY OpsAssumption, SentTyped
      <3>3. TaskOK([task[r] EXCEPT !.op = op, !.pc = "verify", !.token = t])
        <4>1. PICK k : k = [task[r] EXCEPT !.op = op, !.pc = "verify",
                                           !.token = t]
          OBVIOUS
        <4>2. k \in Task
          BY <2>1, <3>2, <4>1 DEF Task, PC
        <4>3. /\ k.op # "login" /\ k.pc = "verify" /\ k.row = NoRow
              /\ k.login = NoRow /\ k.token = t
          BY <2>1, <3>1, <4>1 DEF Idle
        <4>4. QED
          BY <3>2, <4>1, <4>2, <4>3 DEF TaskOK, CopyOK
      <3>4. QED
        BY <3>1, <3>3
    <2>4. QED
      BY <2>2, <2>3 DEF Begin
  <1>2. QED
    BY <1>1, LocalStep DEF Begin

LEMMA VerifyStep ==
  ASSUME Inv, NEW r \in Requests, Verify(r)
  PROVE  Inv'
  <1>1. \E k : Become(r, k) /\ TaskOK(k)
    <2>1. CASE Finish(r)
      BY <2>1, FinishOK
    <2>2. CASE ~ Finish(r)
      <3>1. PICK pc \in {"target", "quota", "load"} :
              /\ pc = CASE task[r].op = "delete" -> "target"
                        [] task[r].op = "open"   -> "quota"
                        [] OTHER                 -> "load"
              /\ Become(r, [task[r] EXCEPT !.pc = pc])
        BY <2>2 DEF Verify
      <3>2. task[r].pc = "verify"
        BY DEF Verify
      <3>3. TaskOK([task[r] EXCEPT !.pc = pc])
        BY <3>1, <3>2, TaskOKNow DEF TaskOK, Task, PC
      <3>4. QED
        BY <3>1, <3>3
    <2>3. QED
      BY <2>1, <2>2
  <1>2. QED
    BY <1>1, LocalStep DEF Verify

LEMMA FindStep ==
  ASSUME Inv, NEW r \in Requests, Find(r)
  PROVE  Inv'
  <1>1. \E k : Become(r, k) /\ TaskOK(k)
    <2>1. CASE Finish(r)
      BY <2>1, FinishOK
    <2>2. CASE ~ Finish(r)
      <3>1. PICK x \in SelectByName(task[r].username) :
              /\ x # NoRow
              /\ Become(r, [task[r] EXCEPT !.pc = "challenge", !.row = x])
        BY <2>2 DEF Find
      <3>2. RowOK(x) /\ x.username = task[r].username
        BY <3>1, SelectedByName
      <3>3. TaskOK([task[r] EXCEPT !.pc = "challenge", !.row = x])
        BY <3>1, <3>2, TaskOKNow
        DEF Find, At, TaskOK, Task, PC, CopyOK, RowOK, MaybeRow
      <3>4. QED
        BY <3>1, <3>3
    <2>3. QED
      BY <2>1, <2>2
  <1>2. QED
    BY <1>1, LocalStep DEF Find

LEMMA SessionStep ==
  ASSUME Inv, NEW r \in Requests, Session(r)
  PROVE  Inv'
  <1>1. \E k : Become(r, k) /\ TaskOK(k)
    <2>1. CASE Finish(r)
      BY <2>1, FinishOK
    <2>2. CASE ~ Finish(r)
      <3>1. PICK x \in SelectByToken(task[r].token) :
              Become(r, [task[r] EXCEPT !.pc = "check", !.row = x])
        BY <2>2 DEF Session
      <3>2. CopyOK(x) /\ x \in MaybeRow
        BY SelectedByToken DEF CopyOK, RowOK, MaybeRow, NoRow
      <3>3. TaskOK([task[r] EXCEPT !.pc = "check", !.row = x])
        BY <3>2, TaskOKNow DEF Session, At, TaskOK, Task, PC
      <3>4. QED
        BY <3>1, <3>3
    <2>3. QED
      BY <2>1, <2>2
  <1>2. QED
    BY <1>1, LocalStep DEF Session

\* A copy whose token is dropped is still a proper copy.
LEMMA TokenDropped ==
  ASSUME NEW x, RowOK(x)
  PROVE  RowOK([x EXCEPT !.token = Null])
  BY DEF RowOK, UserRecordNode

LEMMA CheckLoginStep ==
  ASSUME Inv, NEW r \in Requests, CheckLogin(r)
  PROVE  Inv'
  <1>1. \E k : Become(r, k) /\ TaskOK(k)
    <2>1. PICK x :
            /\ x \in {task[r].row, [task[r].row EXCEPT !.token = Null]}
            /\ task[r].row = NoRow => x = NoRow
            /\ Become(r, [task[r] EXCEPT !.pc = "write", !.row = x])
      BY DEF CheckLogin
    <2>2. CopyOK(x)
      BY <2>1, TaskOKNow, TokenDropped DEF CheckLogin, At, TaskOK, CopyOK
    <2>3. TaskOK([task[r] EXCEPT !.pc = "write", !.row = x])
      BY <2>2, CopyTyped, TaskOKNow DEF CheckLogin, At, TaskOK, Task, PC
    <2>4. QED
      BY <2>1, <2>3
  <1>2. QED
    BY <1>1, LocalStep DEF CheckLogin

LEMMA LoadOwnRowStep ==
  ASSUME Inv, NEW r \in Requests, LoadOwnRow(r)
  PROVE  Inv'
  <1>1. \E k : Become(r, k) /\ TaskOK(k)
    <2>1. PICK x, y, u, pc :
            /\ x \in SelectByToken(task[r].token)
            /\ u = IF x = NoRow THEN Null ELSE x.username
            /\ pc = IF task[r].op = "passwd" THEN "challenge" ELSE "write"
            /\ y = IF x = NoRow \/ task[r].op = "passwd" THEN x
                   ELSE [x EXCEPT !.token = Null, !.binduser = Null]
            /\ Become(r, [task[r] EXCEPT !.username = u, !.pc = pc, !.row = y])
      BY DEF LoadOwnRow
    <2>2. x # NoRow => RowOK(x)
      BY <2>1, SelectedByToken
    <2>3. u \in Users \cup {Null}
      BY <2>1, <2>2 DEF RowOK, UserRecordNode
    <2>4. CopyOK(y) /\ y \in MaybeRow
      BY <2>1, <2>2 DEF CopyOK, RowOK, UserRecordNode, MaybeRow, NoRow
    <2>5. y = NoRow => u = Null
      BY <2>1, <2>2, <2>4, NoRowIsNone DEF RowOK, UserRecordNode
    <2>6. task[r].pc = "load" /\ task[r].op \in {"passwd", "logout"}
      BY DEF LoadOwnRow
    <2>7. PICK k : k = [task[r] EXCEPT !.username = u, !.pc = pc, !.row = y]
      OBVIOUS
    <2>8. pc \in {"challenge", "write"} /\ (pc = "challenge" => task[r].op # "login")
      BY <2>1, <2>6
    <2>9. k \in Task
      BY <2>3, <2>4, <2>7, <2>8, TaskOKNow DEF Task, PC
    <2>10. /\ k.username = u /\ k.pc = pc /\ k.row = y
           /\ k.op = task[r].op /\ k.token = task[r].token
           /\ k.login = task[r].login
      BY <2>7, TaskOKNow DEF Task
    <2>11. TaskOK(k)
      BY <2>4, <2>5, <2>6, <2>8, <2>9, <2>10, TaskOKNow DEF TaskOK
    <2>12. QED
      BY <2>1, <2>7, <2>11
  <1>2. QED
    BY <1>1, LocalStep DEF LoadOwnRow

LEMMA CheckPasswdStep ==
  ASSUME Inv, NEW r \in Requests, CheckPasswd(r)
  PROVE  Inv'
  <1>1. \E k : Become(r, k) /\ TaskOK(k)
    <2>1. CASE Finish(r)
      BY <2>1, FinishOK
    <2>2. CASE ~ Finish(r)
      <3>1. PICK new \in Passwords :
              Become(r, [task[r] EXCEPT !.pc = "write", !.row =
                           IF @ = NoRow THEN @ ELSE [@ EXCEPT !.password = new, !.token = Null]])
        BY <2>2 DEF CheckPasswd
      <3>2. task[r] \in Task /\ TaskOK(task[r]) /\ CopyOK(task[r].row) /\ task[r].pc = "check"
        BY TaskOKNow DEF CheckPasswd, At, TaskOK
      <3>3. PICK y : y = IF task[r].row = NoRow THEN NoRow
                         ELSE [task[r].row EXCEPT !.password = new, !.token = Null]
        OBVIOUS
      <3>4. CopyOK(y)
        BY <3>2, <3>3 DEF CopyOK, RowOK, UserRecordNode
      <3>5. y \in MaybeRow
        BY <3>4, CopyTyped
      <3>6. TaskOK([task[r] EXCEPT !.pc = "write", !.row = y])
        BY <3>2, <3>4, <3>5 DEF TaskOK, Task, PC
      <3>7. [task[r] EXCEPT !.pc = "write", !.row =
               IF @ = NoRow THEN @ ELSE [@ EXCEPT !.password = new, !.token = Null]]
            = [task[r] EXCEPT !.pc = "write", !.row = y]
        BY <3>2, <3>3 DEF Task
      <3>8. QED
        BY <3>1, <3>6, <3>7
    <2>3. QED
      BY <2>1, <2>2
  <1>2. QED
    BY <1>1, LocalStep DEF CheckPasswd

LEMMA LoadLoginStep ==
  ASSUME Inv, NEW r \in Requests, LoadLogin(r)
  PROVE  Inv'
  <1>1. \E k : Become(r, k) /\ TaskOK(k)
    <2>1. CASE Finish(r)
      BY <2>1, FinishOK
    <2>2. CASE ~ Finish(r)
      <3>1. PICK x, pc :
              /\ x \in SelectByToken(task[r].token)
              /\ pc = IF task[r].op = "delete" THEN "remove" ELSE "target"
              /\ task[r].op = "delete" => MayDelete(x, task[r].row)
              /\ Become(r, [task[r] EXCEPT !.login = x, !.pc = pc])
        BY <2>2 DEF LoadLogin
      <3>2. task[r].pc = "load" /\ task[r].op \in {"add", "delete", "topup"}
        BY DEF LoadLogin
      <3>3. CopyOK(x) /\ x \in MaybeRow
        BY <3>1, SelectedByToken DEF CopyOK, RowOK, MaybeRow, NoRow
      <3>4. pc = "remove" =>
              task[r].row # NoRow /\ task[r].row.username # Admin
        BY <3>1, <3>2, TaskOKNow
        DEF TaskOK, CopyOK, RowOK, MayDelete, USER_AUTHORITY_ADMIN,
            USER_AUTHORITY_LONG
      <3>5. TaskOK([task[r] EXCEPT !.login = x, !.pc = pc])
        BY <3>1, <3>2, <3>3, <3>4, TaskOKNow DEF TaskOK, Task, PC
      <3>6. QED
        BY <3>1, <3>5
    <2>3. QED
      BY <2>1, <2>2
  <1>2. QED
    BY <1>1, LocalStep DEF LoadLogin

LEMMA AddTargetStep ==
  ASSUME Inv, NEW r \in Requests, AddTarget(r)
  PROVE  Inv'
  <1>1. \E k : Become(r, k) /\ TaskOK(k)
    <2>1. CASE Finish(r)
      BY <2>1, FinishOK
    <2>2. CASE ~ Finish(r)
      <3>1. PICK u, new :
              /\ u \in Users
              /\ new \in [username : {u}, password : Passwords,
                          binduser : Phones \cup {Null},
                          authority : Authorities, timeOfValidity : Times,
                          remainOpen : RemainOpens, token : {Null}]
              /\ MayAdd(task[r].login, new.authority)
              /\ \E x \in SelectByName(u) : x = NoRow
              /\ Become(r, [task[r] EXCEPT !.pc = "insert", !.row = new])
        BY <2>2 DEF AddTarget
      <3>2. new \in UserRecordNode /\ new.token = Null
        BY <3>1, RemainAssumption DEF UserRecordNode
      <3>3. NewOK(new)
        BY <3>1, <3>2
        DEF NewOK, MayAdd, USER_AUTHORITY_TEMP, USER_AUTHORITY_LONG,
            USER_AUTHORITY_ADMIN
      <3>4. TaskOK([task[r] EXCEPT !.pc = "insert", !.row = new])
        <4>1. PICK k : k = [task[r] EXCEPT !.pc = "insert", !.row = new]
          OBVIOUS
        <4>2. k \in Task
          <5>1. new \in MaybeRow
            BY <3>2 DEF MaybeRow
          <5>2. QED
            BY <4>1, <5>1, TaskOKNow DEF Task, PC
        <4>3. /\ k.op = "add" /\ k.pc = "insert" /\ k.row = new
              /\ k.login = task[r].login /\ k.token = task[r].token
          BY <4>1, TaskOKNow DEF AddTarget, At, Task
        <4>4. QED
          <5>1. CopyOK(k.login) /\ (k.token # Null => k.token \in DOMAIN owner)
            BY <4>3, TaskOKNow DEF AddTarget, At, TaskOK
          <5>2. QED
            BY <3>3, <4>1, <4>2, <4>3, <5>1 DEF TaskOK
      <3>5. QED
        BY <3>1, <3>4
    <2>3. QED
      BY <2>1, <2>2
  <1>2. QED
    BY <1>1, LocalStep DEF AddTarget

LEMMA DeleteTargetStep ==
  ASSUME Inv, NEW r \in Requests, DeleteTarget(r)
  PROVE  Inv'
  <1>1. \E k : Become(r, k) /\ TaskOK(k)
    <2>1. CASE Finish(r)
      BY <2>1, FinishOK
    <2>2. CASE ~ Finish(r)
      <3>1. PICK u, x :
              /\ x \in SelectByName(u) /\ x # NoRow
              /\ Become(r, [task[r] EXCEPT !.pc = "load", !.row = x])
        BY <2>2 DEF DeleteTarget
      <3>2. CopyOK(x)
        BY <3>1, SelectedByName DEF CopyOK
      <3>3. TaskOK([task[r] EXCEPT !.pc = "load", !.row = x])
        BY <3>1, <3>2, CopyTyped, TaskOKNow
        DEF DeleteTarget, At, TaskOK, Task, PC
      <3>4. QED
        BY <3>1, <3>3
    <2>3. QED
      BY <2>1, <2>2
  <1>2. QED
    BY <1>1, LocalStep DEF DeleteTarget

LEMMA TopUpTargetStep ==
  ASSUME Inv, NEW r \in Requests, TopUpTarget(r)
  PROVE  Inv'
  <1>1. \E k : Become(r, k) /\ TaskOK(k)
    <2>1. CASE Finish(r)
      BY <2>1, FinishOK
    <2>2. CASE ~ Finish(r)
      <3>1. PICK u, x, y, time, remain :
              /\ time \in Times /\ remain \in RemainOpens
              /\ x \in SelectByName(u) /\ x # NoRow
              /\ y = TopUp(x, task[r].login, time, remain)
              /\ Become(r, [task[r] EXCEPT !.pc = "write", !.row = y])
        BY <2>2 DEF TopUpTarget
      <3>2. RowOK(x)
        BY <3>1, SelectedByName
      <3>3. RowOK(y)
        BY <3>1, <3>2, RemainAssumption DEF RowOK, UserRecordNode, TopUp
      <3>4. CopyOK(y)
        BY <3>3 DEF CopyOK
      <3>5. TaskOK([task[r] EXCEPT !.pc = "write", !.row = y])
        BY <3>4, CopyTyped, TaskOKNow DEF TopUpTarget, At, TaskOK, Task, PC
      <3>6. QED
        BY <3>1, <3>5
    <2>3. QED
      BY <2>1, <2>2
  <1>2. QED
    BY <1>1, LocalStep DEF TopUpTarget

-----------------------------------------------------------------------------
(* Opening the door.                                                        *)

\* A request that opens the door moves on without reading or forgetting.
LEMMA OpenMoves ==
  ASSUME Inv, NEW r \in Requests, task[r].op = "open",
         task[r].pc \notin {"idle", "insert"},
         NEW pc \in {"lookup", "entry", "freed", "count"}
  PROVE  TaskOK([task[r] EXCEPT !.pc = pc])
  BY TaskOKNow DEF TaskOK, Task, PC

LEMMA QuotaStep ==
  ASSUME Inv, NEW r \in Requests, Quota(r)
  PROVE  Inv'
  <1>1. \E k : Become(r, k) /\ TaskOK(k)
    <2>1. PICK x \in SelectByToken(task[r].token), pc \in {"count", "lookup"} :
            Become(r, [task[r] EXCEPT !.row = x, !.pc = pc])
      BY DEF Quota
    <2>2. CopyOK(x)
      BY SelectedByToken DEF CopyOK
    <2>3. TaskOK([task[r] EXCEPT !.row = x, !.pc = pc])
      BY <2>2, CopyTyped, TaskOKNow DEF Quota, At, TaskOK, Task, PC
    <2>4. QED
      BY <2>1, <2>3
  <1>2. QED
    BY <1>1, LocalStep DEF Quota

LEMMA LookUpStep ==
  ASSUME Inv, NEW r \in Requests, LookUp(r)
  PROVE  Inv'
  <1>1. \/ Finish(r)
        \/ Become(r, [task[r] EXCEPT !.pc = "entry"])
        \/ Become(r, [task[r] EXCEPT !.pc = "count"])
    BY DEF LookUp
  <1>2. \E k : Become(r, k) /\ TaskOK(k)
    BY <1>1, FinishOK, OpenMoves DEF LookUp, At
  <1>3. QED
    BY <1>2, LocalStep DEF LookUp

LEMMA ReadEntryStep ==
  ASSUME Inv, NEW r \in Requests, ReadEntry(r)
  PROVE  Inv'
  <1>1. \E k : Become(r, k) /\ TaskOK(k)
    BY OpenMoves DEF ReadEntry
  <1>2. QED
    BY <1>1, LocalStep DEF ReadEntry

LEMMA AnswerStep ==
  ASSUME Inv, NEW r \in Requests, ReadEntryUsedUp(r) \/ RefuseOpen(r)
  PROVE  Inv'
  <1>1. Finish(r) /\ UNCHANGED shared
    BY DEF ReadEntryUsedUp, RefuseOpen
  <1>2. QED
    BY <1>1, FinishOK, LocalStep

-----------------------------------------------------------------------------
(* The steps of a request that change what requests share.                  *)

LEMMA ChallengeTyped ==
  ASSUME Inv, NEW u \in DOMAIN challenges
  PROVE  challenges[u] \in Challenges
  BY MapsDef DEF Inv, TypeOK

\* Step 2 leaves the other entries.
LEMMA ChallengeTaken ==
  ASSUME Inv, NEW u, TakeChallenge(u)
  PROVE  /\ challenges' \in Maps(Users \cup {Null}, Challenges)
         /\ used' \subseteq Challenges
  <1>1. Erase(challenges, u) \in Maps(Users \cup {Null}, Challenges)
    BY EraseMap DEF Inv, TypeOK
  <1>2. QED
    BY <1>1, ChallengeTyped DEF Inv, TypeOK, TakeChallenge

\* A step that changes one task, and of the shared state the challenges only.
LEMMA ChallengeStep ==
  ASSUME Inv, NEW r \in Requests,
         UNCHANGED <<rows, cache, flush, now, owner, opens, ended>>,
         challenges' \in Maps(Users \cup {Null}, Challenges),
         used' \subseteq Challenges,
         \E k : Become(r, k) /\ TaskOK(k)
  PROVE  Inv'
  <1>1. task' \in [Requests -> Task] /\ TasksOK'
    BY OwnerSame, TaskChanges
  <1>2. TypeOK'
    BY <1>1 DEF Inv, TypeOK, IsMap
  <1>3. TableOK' /\ FlushOK'
    BY DEF Inv, TableOK, FlushOK, RowOK, CopyOK
  <1>4. QED
    BY <1>1, <1>2, <1>3 DEF Inv

LEMMA UserOrNone ==
  ASSUME Inv, NEW r \in Requests
  PROVE  task[r].username \in Users \cup {Null}
  BY TaskOKNow DEF Task

LEMMA PasswdStep1Step ==
  ASSUME Inv, NEW r \in Requests, PasswdStep1(r)
  PROVE  Inv'
  <1>1. PICK u, c :
          /\ c \in Challenges
          /\ u = task[r].username
          /\ challenges' = Insert(challenges, u, c)
    BY DEF PasswdStep1
  <1>2. u \in Users \cup {Null}
    BY <1>1, UserOrNone
  <1>3. Insert(challenges, u, c) \in Maps(Users \cup {Null}, Challenges)
    BY <1>1, <1>2, InsertMap DEF Inv, TypeOK
  <1>4. used' \subseteq Challenges
    BY DEF PasswdStep1, histories, Inv, TypeOK
  <1>5. QED
    BY <1>1, <1>3, <1>4, FinishOK, ChallengeStep DEF PasswdStep1, histories

LEMMA PasswdStep2Step ==
  ASSUME Inv, NEW r \in Requests, PasswdStep2(r)
  PROVE  Inv'
  <1>1. PICK u : u = task[r].username
    OBVIOUS
  <1>2. TakeChallenge(u)
    BY <1>1 DEF PasswdStep2
  <1>3. challenges[u] \in Challenges
    BY <1>2, ChallengeTyped DEF TakeChallenge
  <1>4. TaskOK([task[r] EXCEPT !.pc = "check", !.challenge = challenges[u]])
    BY <1>3, TaskOKNow DEF PasswdStep2, At, TaskOK, Task, PC
  <1>5. \E k : Become(r, k) /\ TaskOK(k)
    BY <1>1, <1>4, FinishOK DEF PasswdStep2
  <1>6. QED
    BY <1>2, <1>5, ChallengeTaken, ChallengeStep DEF PasswdStep2

LEMMA LoginStep2Step ==
  ASSUME Inv, NEW r \in Requests, LoginStep2(r)
  PROVE  Inv'
  <1>1. PICK u : u = task[r].username
    OBVIOUS
  <1>2. TakeChallenge(u)
    BY <1>1 DEF LoginStep2
  <1>3. challenges[u] \in Challenges
    BY <1>2, ChallengeTyped DEF TakeChallenge
  <1>4. ASSUME NEW t \in SentTokens
        PROVE  TaskOK([task[r] EXCEPT !.pc = "session", !.token = t,
                                      !.row = NoRow,
                                      !.challenge = challenges[u]])
    <2>1. t \in Tokens \cup {Null} /\ (t # Null => t \in DOMAIN owner)
      BY SentTyped
    <2>2. CopyOK(NoRow)
      BY DEF CopyOK
    <2>3. QED
      BY <1>3, <2>1, <2>2, CopyTyped, TaskOKNow
      DEF LoginStep2, At, TaskOK, Task, PC
  <1>5. \E k : Become(r, k) /\ TaskOK(k)
    BY <1>1, <1>4, FinishOK DEF LoginStep2
  <1>6. QED
    BY <1>2, <1>5, ChallengeTaken, ChallengeStep DEF LoginStep2

\* The write at the end of a request puts a copy back.
LEMMA WriteStep ==
  ASSUME Inv, NEW r \in Requests, Write(r)
  PROVE  Inv'
  <1>1. PICK x : x = task[r].row
    OBVIOUS
  <1>2. UNCHANGED <<challenges, cache, flush, now, owner, used, opens>>
    BY DEF Write
  <1>3. CopyOK(x) /\ UpdateRow(x)
    BY <1>1, TaskOKNow DEF Write, TaskOK
  <1>4. IsMap(rows', Users, UserRecordNode) /\ TableOK'
    BY <1>2, <1>3, OwnerSame, CopiesKept, Updated
  <1>5. task' \in [Requests -> Task] /\ TasksOK'
    BY <1>2, OwnerSame, FinishOK, TaskChanges DEF Write
  <1>6. ended' \subseteq Tokens
    <2>1. task[r].op = "passwd" => task[r].token \in Tokens \cup {Null}
      BY TaskOKNow DEF Write, TaskOK, Task
    <2>2. QED
      BY <2>1 DEF Write, Inv, TypeOK
  <1>7. TypeOK'
    BY <1>2, <1>4, <1>5, <1>6 DEF Inv, TypeOK, IsMap
  <1>8. FlushOK'
    BY <1>2 DEF Inv, FlushOK, RowOK, CopyOK
  <1>9. QED
    BY <1>4, <1>5, <1>7, <1>8 DEF Inv

\* login step 1 writes the row it read with a token handed out to the row's user.
LEMMA LoginStep1Step ==
  ASSUME Inv, NEW r \in Requests, LoginStep1(r)
  PROVE  Inv'
  <1>1. UNCHANGED <<cache, flush, now, used, opens, ended>> /\ Finish(r)
    BY DEF LoginStep1
  <1>2. CASE UNCHANGED <<rows, challenges, owner>>
    BY <1>1, <1>2, FinishOK, LocalStep DEF shared, histories
  <1>3. CASE ~ UNCHANGED <<rows, challenges, owner>>
    <2>1. PICK u, x, t, c, phone :
            /\ u = task[r].username
            /\ phone \in Phones \cup {Null}
            /\ t \in Tokens \ DOMAIN owner /\ c \in Challenges
            /\ x = [task[r].row EXCEPT !.token = t, !.binduser = phone]
            /\ UpdateRow(x)
            /\ owner' = Insert(owner, t, u)
            /\ challenges' = Insert(challenges, u, c)
      BY <1>3 DEF LoginStep1
    <2>2. RowOK(task[r].row) /\ task[r].row.username = u
      BY <2>1, TaskOKNow DEF LoginStep1, At, TaskOK, CopyOK
    <2>3. u \in Users
      BY <2>2 DEF RowOK, UserRecordNode
    <2>4. owner' \in Maps(Tokens, Users)
      <3>1. Insert(owner, t, u) \in Maps(Tokens, Users)
        BY <2>1, <2>3, InsertMap DEF Inv, TypeOK
      <3>2. QED
        BY <2>1, <3>1
    <2>5. challenges' \in Maps(Users \cup {Null}, Challenges)
      <3>1. Insert(challenges, u, c) \in Maps(Users \cup {Null}, Challenges)
        BY <2>1, <2>3, InsertMap DEF Inv, TypeOK
      <3>2. QED
        BY <2>1, <3>1
    <2>6. OwnerKept /\ t \in DOMAIN owner' /\ owner'[t] = u
      BY <2>1 DEF Insert, OwnerKept
    <2>7. CopyOK(x)'
      <3>1. x \in UserRecordNode
        BY <2>1, <2>2 DEF RowOK, UserRecordNode
      <3>2. /\ x.username = u /\ x.token = t
            /\ x.authority = task[r].row.authority
        BY <2>1, <2>2 DEF RowOK, UserRecordNode
      <3>3. QED
        BY <2>2, <2>6, <3>1, <3>2 DEF CopyOK, RowOK
    <2>8. IsMap(rows', Users, UserRecordNode) /\ TableOK'
      BY <2>1, <2>6, <2>7, Updated
    <2>9. task' \in [Requests -> Task] /\ TasksOK'
      BY <1>1, <2>6, FinishOK, TaskChanges
    <2>10. TypeOK'
      BY <1>1, <2>4, <2>5, <2>8, <2>9 DEF Inv, TypeOK, IsMap
    <2>11. FlushOK'
      <3>1. PICK y : y = flush.row
        OBVIOUS
      <3>2. CopyOK(y)'
        BY <2>6, <3>1, CopiesKept DEF Inv, FlushOK
      <3>3. QED
        BY <1>1, <3>1, <3>2 DEF Inv, FlushOK, CopyOK, RowOK
    <2>12. QED
      BY <2>8, <2>9, <2>10, <2>11 DEF Inv
  <1>4. QED
    BY <1>2, <1>3

LEMMA AddInsertStep ==
  ASSUME Inv, NEW r \in Requests, AddInsert(r)
  PROVE  Inv'
  <1>1. PICK x : x = task[r].row
    OBVIOUS
  <1>2. UNCHANGED <<challenges, cache, flush, now, owner, used, opens, ended>>
    BY DEF AddInsert, histories
  <1>3. NewOK(x) /\ InsertRow(x)
    BY <1>1, TaskOKNow DEF AddInsert, At, TaskOK
  <1>4. IsMap(rows', Users, UserRecordNode) /\ TableOK'
    BY <1>2, <1>3, Inserted
  <1>5. task' \in [Requests -> Task] /\ TasksOK'
    BY <1>2, OwnerSame, FinishOK, TaskChanges DEF AddInsert
  <1>6. TypeOK' /\ FlushOK'
    BY <1>2, <1>4, <1>5 DEF Inv, TypeOK, IsMap, FlushOK, RowOK, CopyOK
  <1>7. QED
    BY <1>4, <1>5, <1>6 DEF Inv

LEMMA DeleteRemoveStep ==
  ASSUME Inv, NEW r \in Requests, DeleteRemove(r)
  PROVE  Inv'
  <1>1. PICK x : x = task[r].row
    OBVIOUS
  <1>2. UNCHANGED <<challenges, cache, flush, now, owner, used, opens, ended>>
    BY DEF DeleteRemove, histories
  <1>3. x.username # Admin /\ DeleteRow(x)
    BY <1>1, TaskOKNow DEF DeleteRemove, At, TaskOK
  <1>4. IsMap(rows', Users, UserRecordNode) /\ TableOK'
    BY <1>2, <1>3, Deleted
  <1>5. task' \in [Requests -> Task] /\ TasksOK'
    BY <1>2, OwnerSame, FinishOK, TaskChanges DEF DeleteRemove
  <1>6. TypeOK' /\ FlushOK'
    BY <1>2, <1>4, <1>5 DEF Inv, TypeOK, IsMap, FlushOK, RowOK, CopyOK
  <1>7. QED
    BY <1>4, <1>5, <1>6 DEF Inv

-----------------------------------------------------------------------------
(* The door's counter and the timer.                                        *)

LEMMA CacheTyped ==
  ASSUME Inv
  PROVE  cache \in Maps(Tokens \cup {Null}, Nat)
  BY MapsDef DEF Inv, TypeOK, IsMap

LEMMA CountStep ==
  ASSUME Inv, NEW r \in Requests, Count(r)
  PROVE  Inv'
  <1>1. PICK t : t = task[r].token
    OBVIOUS
  <1>2. UNCHANGED <<rows, challenges, flush, now, owner, used, ended>>
    BY DEF Count
  <1>3. t \in Tokens \cup {Null} /\ Opener(t) \in Users \cup {Null}
    <2>1. t \in SentTokens
      BY <1>1, TaskOKNow DEF Count, At, TaskOK, SentTokens
    <2>2. QED
      BY <2>1, SentTyped DEF Opener
  <1>4. IsMap(cache', Tokens \cup {Null}, Nat) /\ DOMAIN cache \subseteq DOMAIN cache'
    <2>1. CASE t \in DOMAIN cache
      <3>1. cache' = [cache EXCEPT ![t] = @ + 1]
        BY <1>1, <2>1 DEF Count
      <3>2. cache \in [DOMAIN cache -> Nat] /\ DOMAIN cache \subseteq Tokens \cup {Null}
        BY DEF Inv, TypeOK, IsMap
      <3>3. QED
        BY <2>1, <3>1, <3>2 DEF IsMap
    <2>2. CASE t \notin DOMAIN cache
      <3>1. cache' = Insert(cache, t, 1)
        BY <1>1, <2>2 DEF Count
      <3>2. Insert(cache, t, 1) \in Maps(Tokens \cup {Null}, Nat)
        BY <1>3, CacheTyped, InsertMap
      <3>3. DOMAIN cache' = DOMAIN cache \cup {t}
        BY <3>1 DEF Insert
      <3>4. QED
        BY <3>1, <3>2, <3>3, MapsDef DEF IsMap
    <2>3. QED
      BY <2>1, <2>2
  <1>5. opens' \in [Users \cup {Null} -> Nat]
    BY <1>1, <1>3 DEF Count, Inv, TypeOK
  <1>6. task' \in [Requests -> Task] /\ TasksOK'
    BY <1>2, OwnerSame, FinishOK, TaskChanges DEF Count
  <1>7. TypeOK'
    BY <1>2, <1>4, <1>5, <1>6 DEF Inv, TypeOK, IsMap
  <1>8. TableOK' /\ FlushOK'
    BY <1>2, <1>4 DEF Inv, TableOK, FlushOK, RowOK, CopyOK
  <1>9. QED
    BY <1>6, <1>7, <1>8 DEF Inv

\* A request that has found an entry may lose it.
LEMMA EntryErased ==
  ASSUME Inv, UNCHANGED owner, NEW t, EraseEntry(t)
  PROVE  /\ IsMap(cache', Tokens \cup {Null}, Nat)
         /\ task' \in [Requests -> Task] /\ TasksOK'
  <1>1. Erase(cache, t) \in Maps(Tokens \cup {Null}, Nat)
    BY CacheTyped, EraseMap
  <1>2. IsMap(cache', Tokens \cup {Null}, Nat)
    BY <1>1, MapsDef DEF EraseEntry, IsMap
  <1>3. ASSUME NEW r \in Requests
        PROVE  task'[r] \in Task /\ TaskOK(task[r])'
    <2>1. PICK k : k = task'[r]
      OBVIOUS
    <2>2. TaskOK(k)
      <3>1. CASE k = task[r]
        BY <3>1, TaskOKNow
      <3>2. CASE task[r].pc = "entry" /\ k = [task[r] EXCEPT !.pc = "freed"]
        BY <3>2, TaskOKNow DEF TaskOK, Task, PC
      <3>3. QED
        BY <2>1, <3>1, <3>2 DEF EraseEntry
    <2>3. TaskOK(k)'
      BY <2>2, OwnerSame, TaskKept
    <2>4. QED
      BY <2>1, <2>3 DEF TaskOK, CopyOK, RowOK, NewOK
  <1>4. QED
    BY <1>2, <1>3 DEF EraseEntry, TasksOK

LEMMA FlushReadStep ==
  ASSUME Inv, FlushRead
  PROVE  Inv'
  <1>1. UNCHANGED <<rows, challenges, now, owner, used, opens, ended>>
    BY DEF FlushRead, histories
  <1>2. TableOK'
    BY <1>1 DEF Inv, TableOK, RowOK
  <1>3. PICK t, x :
          /\ t \in DOMAIN cache /\ x \in SelectByToken(t)
          /\ \/ /\ RemainOpen(x) > 0
                /\ flush' = [flush EXCEPT !.pc = "write", !.token = t,
                                          !.row = x]
                /\ UNCHANGED <<cache, task>>
             \/ EraseEntry(t) /\ UNCHANGED flush
    BY DEF FlushRead
  <1>4. CASE EraseEntry(t) /\ UNCHANGED flush
    <2>1. FlushOK'
      BY <1>1, <1>4 DEF Inv, FlushOK, FlushRead, RowOK, CopyOK
    <2>2. TypeOK'
      BY <1>1, <1>4, EntryErased DEF Inv, TypeOK, IsMap
    <2>3. QED
      BY <1>1, <1>2, <1>4, <2>1, <2>2, EntryErased DEF Inv
  <1>5. CASE /\ RemainOpen(x) > 0
             /\ flush' = [flush EXCEPT !.pc = "write", !.token = t, !.row = x]
             /\ UNCHANGED <<cache, task>>
    <2>1. x # NoRow
      BY <1>5 DEF RemainOpen
    <2>2. RowOK(x) /\ t \in Tokens \cup {Null}
      BY <1>3, <2>1, SelectedByToken DEF Inv, TypeOK, IsMap
    <2>3. flush' \in Flush
      <3>1. x \in MaybeRow
        BY <2>2 DEF RowOK, MaybeRow
      <3>2. QED
        BY <1>5, <2>2, <3>1 DEF Inv, TypeOK, Flush
    <2>4. flush'.row = x /\ flush'.token = t
      BY <1>5 DEF Inv, TypeOK, Flush
    <2>5. RowOK(x)'
      BY <1>1, <2>2 DEF RowOK
    <2>6. FlushOK'
      BY <1>3, <1>5, <2>1, <2>4, <2>5 DEF FlushOK, CopyOK, RowOK
    <2>7. TypeOK' /\ TasksOK'
      BY <1>1, <1>5, <2>3 DEF Inv, TypeOK, IsMap, TasksOK, TaskOK, CopyOK,
         RowOK, NewOK
    <2>8. QED
      BY <1>2, <2>6, <2>7 DEF Inv
  <1>6. QED
    BY <1>3, <1>4, <1>5

LEMMA FlushWriteStep ==
  ASSUME Inv, FlushWrite
  PROVE  Inv'
  <1>1. UNCHANGED <<challenges, now, owner, used, opens, ended>>
    BY DEF FlushWrite, histories
  <1>2. PICK x : x = [flush.row EXCEPT !.remainOpen = @ - cache[flush.token]]
    OBVIOUS
  <1>3. RowOK(flush.row) /\ cache[flush.token] \in Nat
    BY DEF FlushWrite, Inv, TypeOK, IsMap, FlushOK, CopyOK
  <1>4. RowOK(x)
    BY <1>2, <1>3 DEF RowOK, UserRecordNode
  <1>5. CopyOK(x)' /\ UpdateRow(x)
    BY <1>1, <1>2, <1>4 DEF FlushWrite, CopyOK, RowOK
  <1>6. IsMap(rows', Users, UserRecordNode) /\ TableOK'
    BY <1>1, <1>5, OwnerSame, Updated
  <1>7. /\ IsMap(cache', Tokens \cup {Null}, Nat)
        /\ task' \in [Requests -> Task] /\ TasksOK'
    BY <1>1, EntryErased DEF FlushWrite
  <1>8. flush' \in Flush /\ flush'.row = NoRow /\ flush'.pc = "scan"
    BY DEF FlushWrite, Inv, TypeOK, Flush, MaybeRow
  <1>9. FlushOK'
    BY <1>8 DEF FlushOK, CopyOK
  <1>10. TypeOK'
    BY <1>1, <1>6, <1>7, <1>8 DEF Inv, TypeOK, IsMap
  <1>11. QED
    BY <1>6, <1>7, <1>9, <1>10 DEF Inv

\* What the flush and the clock leave alone.
LEMMA SameTasks ==
  ASSUME Inv, UNCHANGED <<rows, task, owner>>
  PROVE  TableOK' /\ TasksOK' /\ task' \in [Requests -> Task]
  BY DEF Inv, TypeOK, TableOK, TasksOK, TaskOK, CopyOK, RowOK, NewOK

LEMMA FlushBeginStep ==
  ASSUME Inv, FlushBegin
  PROVE  Inv'
  <1>1. UNCHANGED <<rows, challenges, cache, now, task, owner, used, opens,
                    ended>>
    BY DEF FlushBegin, histories
  <1>2. flush' \in Flush /\ flush'.row = flush.row /\ flush'.pc = "scan"
    BY DEF FlushBegin, Inv, TypeOK, Flush
  <1>3. TypeOK' /\ FlushOK'
    BY <1>1, <1>2 DEF Inv, TypeOK, IsMap, FlushOK, CopyOK, RowOK
  <1>4. QED
    BY <1>1, <1>3, SameTasks DEF Inv

LEMMA NoFlushOK ==
  NoFlush \in Flush /\ NoFlush.row = NoRow /\ NoFlush.pc = "idle"
  BY DEF NoFlush, Flush, MaybeRow

LEMMA FlushEndStep ==
  ASSUME Inv, FlushEnd
  PROVE  Inv'
  <1>1. UNCHANGED <<rows, challenges, cache, now, task, owner, used, opens,
                    ended>>
    BY DEF FlushEnd, histories
  <1>2. /\ flush' \in Flush /\ flush'.pc # "write"
        /\ flush'.row \in {flush.row, NoRow}
    BY NoFlushOK DEF FlushEnd, Inv, TypeOK, Flush
  <1>3. TypeOK' /\ FlushOK'
    BY <1>1, <1>2 DEF Inv, TypeOK, IsMap, FlushOK, CopyOK, RowOK
  <1>4. QED
    BY <1>1, <1>3, SameTasks DEF Inv

LEMMA ExpireChallengesStep ==
  ASSUME Inv, ExpireChallenges
  PROVE  Inv'
  <1>1. UNCHANGED <<rows, cache, now, task, owner, used, opens, ended>>
    BY DEF ExpireChallenges, histories
  <1>2. challenges' \in Maps(Users \cup {Null}, Challenges)
    <2>1. PICK D \in SUBSET DOMAIN challenges :
            challenges' = Restrict(challenges, D)
      BY DEF ExpireChallenges
    <2>2. /\ challenges \in [DOMAIN challenges -> Challenges]
          /\ DOMAIN challenges \subseteq Users \cup {Null}
      BY MapsDef DEF Inv, TypeOK
    <2>3. DOMAIN challenges' = D /\ challenges' \in [D -> Challenges]
      BY <2>1, <2>2 DEF Restrict
    <2>4. QED
      BY <2>2, <2>3, MapsDef
  <1>3. TypeOK' /\ FlushOK'
    BY <1>1, <1>2, NoFlushOK
    DEF ExpireChallenges, Inv, TypeOK, IsMap, FlushOK, CopyOK
  <1>4. QED
    BY <1>1, <1>3, SameTasks DEF Inv

LEMMA TickStep ==
  ASSUME Inv, Tick
  PROVE  Inv'
  <1>1. UNCHANGED <<rows, challenges, cache, flush, task, owner, used, opens,
                    ended>>
    BY DEF Tick, histories
  <1>2. now' \in Times
    BY BoundsAssumption DEF Tick, Inv, TypeOK, Times
  <1>3. TypeOK' /\ FlushOK'
    BY <1>1, <1>2 DEF Inv, TypeOK, IsMap, FlushOK, CopyOK, RowOK
  <1>4. QED
    BY <1>1, <1>3, SameTasks DEF Inv

-----------------------------------------------------------------------------
(* The invariant, and the theorems.                                         *)

LEMMA InitOwner ==
  ASSUME Init
  PROVE  /\ owner \in Maps(Tokens, Users)
         /\ \A u \in DOMAIN InitRows :
              InitRows[u].token # Null =>
                /\ InitRows[u].token \in DOMAIN owner
                /\ owner[InitRows[u].token] = u
  <1>1. ProperRows(InitRows)
    BY InitRowsAssumption
  <1>2. ASSUME NEW t \in InitTokens
        PROVE  t \in Tokens /\ owner[t] \in Users
               /\ \A u \in DOMAIN InitRows : InitRows[u].token = t => owner[t] = u
    <2>1. PICK u \in DOMAIN InitRows : InitRows[u].token = t /\ t # Null
      BY DEF InitTokens
    <2>2. u \in Users /\ t \in Tokens
      BY <1>1, <2>1 DEF ProperRows, IsMap, UserRecordNode
    <2>3. owner[t] = CHOOSE v \in DOMAIN InitRows : InitRows[v].token = t
      BY DEF Init
    <2>4. owner[t] \in DOMAIN InitRows /\ InitRows[owner[t]].token = t
      BY <2>1, <2>3
    <2>5. QED
      BY <1>1, <2>1, <2>2, <2>4 DEF ProperRows, IsMap
  <1>3. DOMAIN owner = InitTokens /\ owner \in [InitTokens -> Users]
    <2>1. owner = [t \in InitTokens |->
                     CHOOSE u \in DOMAIN InitRows : InitRows[u].token = t]
      BY DEF Init
    <2>2. QED
      BY <1>2, <2>1
  <1>4. QED
    BY <1>2, <1>3, MapsDef DEF InitTokens

LEMMA InitInv == Init => Inv
  <1> SUFFICES ASSUME Init PROVE Inv
    OBVIOUS
  <1>1. TypeOK
    <2>1. IsMap(rows, Users, UserRecordNode)
      BY InitRowsAssumption DEF Init, ProperRows
    <2>2. challenges \in Maps(Users \cup {Null}, Challenges)
      BY EmptyMapTyped DEF Init
    <2>3. IsMap(cache, Tokens \cup {Null}, Nat)
      <3>1. EmptyMap \in Maps(Tokens \cup {Null}, Nat)
        BY EmptyMapTyped
      <3>2. QED
        BY <3>1, MapsDef DEF Init, IsMap
    <2>4. flush \in Flush /\ now \in Times
      BY NoFlushOK, BoundsAssumption DEF Init, Times
    <2>5. task \in [Requests -> Task]
      BY IdleOK DEF Init, TaskOK
    <2>6. QED
      BY <2>1, <2>2, <2>3, <2>4, <2>5, InitOwner DEF Init, TypeOK
  <1>2. TableOK
    BY InitRowsAssumption, InitOwner DEF Init, ProperRows, IsMap, TableOK, RowOK
  <1>3. TasksOK /\ FlushOK
    BY IdleOK, NoFlushOK DEF Init, TasksOK, FlushOK, CopyOK
  <1>4. QED
    BY <1>1, <1>2, <1>3 DEF Inv

LEMMA RequestStep ==
  ASSUME Inv, NEW r \in Requests, Request(r)
  PROVE  Inv'
  BY BeginStep, VerifyStep, WriteStep, FindStep, LoginStep1Step, LoginStep2Step,
     SessionStep, CheckLoginStep, LoadOwnRowStep, PasswdStep1Step,
     PasswdStep2Step, CheckPasswdStep, LoadLoginStep, AddTargetStep,
     AddInsertStep, DeleteTargetStep, DeleteRemoveStep, TopUpTargetStep,
     QuotaStep, LookUpStep, ReadEntryStep, AnswerStep, CountStep
  DEF Request

LEMMA NextInv == Inv /\ [Next]_vars => Inv'
  <1> SUFFICES ASSUME Inv, [Next]_vars PROVE Inv'
    OBVIOUS
  <1>1. CASE \E r \in Requests : Request(r)
    BY <1>1, RequestStep
  <1>2. CASE WriteCache \/ ExpireChallenges \/ Tick
    BY <1>2, FlushBeginStep, FlushReadStep, FlushWriteStep, FlushEndStep,
       ExpireChallengesStep, TickStep
    DEF WriteCache
  <1>3. CASE UNCHANGED vars
    <2>1. UNCHANGED <<rows, challenges, cache, flush, now, task, owner, used,
                      opens, ended>>
      BY <1>3 DEF vars
    <2>2. TypeOK' /\ FlushOK'
      BY <2>1 DEF Inv, TypeOK, IsMap, FlushOK, CopyOK, RowOK
    <2>3. QED
      BY <2>1, <2>2, SameTasks DEF Inv
  <1>4. QED
    BY <1>1, <1>2, <1>3 DEF Next

\* Every reachable state is proper: what the requests copied, too.
THEOREM Invariant == Spec => []Inv
  BY InitInv, NextInv, PTL DEF Spec

\* The table, the two maps, the flush and every request always have the type
\* the code gives them.
THEOREM TypeCorrect == Spec => []TypeOK
  <1>1. Inv => TypeOK
    BY DEF Inv
  <1>2. QED
    BY <1>1, Invariant, PTL

\* Whatever requests and flushes overlap, and whichever statements fail, the
\* administrator stays in the table and stays the only one.
THEOREM AdminStays == Spec => []AdminKept
  <1>1. Inv => AdminKept
    BY DEF Inv, TableOK, RowOK, AdminKept
  <1>2. QED
    BY <1>1, Invariant, PTL

\* Whatever requests and flushes overlap, a row never gets a token that was
\* handed out to another user.
THEOREM TokensStayOwn == Spec => []TokensOwn
  <1>1. Inv => TokensOwn
    BY DEF Inv, TableOK, RowOK, TokensOwn
  <1>2. QED
    BY <1>1, Invariant, PTL

\* No challenge is pending for two users, or pending after it was taken.
Fresh ==
  /\ ChallengeOnce
  /\ \A u, v \in DOMAIN challenges : challenges[u] = challenges[v] => u = v

LEMMA GivenFresh ==
  ASSUME Fresh, NEW u, NEW c, FreshChallenge(c), u \notin DOMAIN challenges,
         challenges' = Insert(challenges, u, c), UNCHANGED used
  PROVE  Fresh'
  <1>1. /\ DOMAIN challenges' = DOMAIN challenges \cup {u}
        /\ challenges'[u] = c
        /\ \A v \in DOMAIN challenges : challenges'[v] = challenges[v]
    BY DEF Insert
  <1>2. QED
    BY <1>1 DEF Fresh, ChallengeOnce, FreshChallenge

LEMMA TakenFresh ==
  ASSUME Fresh, NEW u, TakeChallenge(u)
  PROVE  Fresh'
  <1>1. /\ DOMAIN challenges' = DOMAIN challenges \ {u}
        /\ \A v \in DOMAIN challenges' : challenges'[v] = challenges[v]
    BY DEF TakeChallenge, Erase, Restrict
  <1>2. QED
    BY <1>1 DEF Fresh, ChallengeOnce, TakeChallenge

LEMMA SameFresh ==
  ASSUME Fresh, UNCHANGED <<challenges, used>>
  PROVE  Fresh'
  BY DEF Fresh, ChallengeOnce

LEMMA RequestFresh ==
  ASSUME Fresh, NEW r \in Requests, Request(r)
  PROVE  Fresh'
  <1>1. PICK u : u = task[r].username
    OBVIOUS
  <1>2. CASE LoginStep1(r)
    BY <1>1, <1>2, GivenFresh, SameFresh DEF LoginStep1
  <1>3. CASE PasswdStep1(r)
    BY <1>1, <1>3, GivenFresh DEF PasswdStep1, histories
  <1>4. CASE LoginStep2(r) \/ PasswdStep2(r)
    BY <1>1, <1>4, TakenFresh DEF LoginStep2, PasswdStep2
  <1>5. CASE Begin(r) \/ Verify(r) \/ Find(r) \/ Session(r) \/ CheckLogin(r)
             \/ LoadOwnRow(r) \/ CheckPasswd(r) \/ LoadLogin(r) \/ AddTarget(r)
             \/ DeleteTarget(r) \/ TopUpTarget(r) \/ Quota(r) \/ LookUp(r)
             \/ ReadEntry(r) \/ ReadEntryUsedUp(r) \/ RefuseOpen(r)
    <2>1. UNCHANGED shared
      BY <1>5 DEF Begin, Verify, Find, Session, CheckLogin, LoadOwnRow,
         CheckPasswd, LoadLogin, AddTarget, DeleteTarget, TopUpTarget, Quota,
         LookUp, ReadEntry, ReadEntryUsedUp, RefuseOpen
    <2>2. QED
      BY <2>1, SameFresh DEF shared, histories
  <1>6. CASE Write(r) \/ AddInsert(r) \/ DeleteRemove(r) \/ Count(r)
    BY <1>6, SameFresh DEF Write, AddInsert, DeleteRemove, Count, histories
  <1>7. QED
    BY <1>2, <1>3, <1>4, <1>5, <1>6 DEF Request

LEMMA NextFresh == Fresh /\ [Next]_vars => Fresh'
  <1> SUFFICES ASSUME Fresh, [Next]_vars PROVE Fresh'
    OBVIOUS
  <1>1. CASE \E r \in Requests : Request(r)
    BY <1>1, RequestFresh
  <1>2. CASE ExpireChallenges
    <2>1. PICK D \in SUBSET DOMAIN challenges :
            challenges' = Restrict(challenges, D)
      BY <1>2 DEF ExpireChallenges
    <2>2. DOMAIN challenges' = D /\ \A v \in D : challenges'[v] = challenges[v]
      BY <2>1 DEF Restrict
    <2>3. UNCHANGED used
      BY <1>2 DEF ExpireChallenges, histories
    <2>4. QED
      BY <2>2, <2>3 DEF Fresh, ChallengeOnce
  <1>3. CASE WriteCache \/ Tick \/ UNCHANGED vars
    BY <1>3, SameFresh DEF WriteCache, FlushBegin, FlushRead, FlushWrite,
       FlushEnd, Tick, vars, histories
  <1>4. QED
    BY <1>1, <1>2, <1>3 DEF Next

\* Whatever logins and changes of passwords overlap, a challenge is taken once.
THEOREM ChallengesOnce == Spec => []ChallengeOnce
  <1>1. Init => Fresh
    BY DEF Init, EmptyMap, Fresh, ChallengeOnce
  <1>2. Fresh => ChallengeOnce
    BY DEF Fresh
  <1>3. QED
    BY <1>1, <1>2, NextFresh, PTL DEF Spec

-----------------------------------------------------------------------------
(* Openings are charged once.  A row, or a copy of one, is charged for      *)
(* openings that the cache has given up; the ones it still has are charged  *)
(* to no copy, however old.  They are counted as a set, one element for     *)
(* each.                                                                    *)

\* Who may be charged for openings under a token, the empty one included.
MayPay(t, u) == t = Null \/ owner[t] = u

\* The openings in the cache that may be charged to u.
Pending(u) ==
  {p \in (DOMAIN cache) \X Nat : MayPay(p[1], u) /\ p[2] \in 1 .. cache[p[1]]}

Bill(u) == opens[u] + opens[Null]

\* With what is pending added, a copy is charged for no more than was opened.
Paid(x) ==
  x # NoRow /\ x.username \in DOMAIN InitRows =>
    InitRows[x.username].remainOpen - x.remainOpen + Cardinality(Pending(x.username))
      <= Bill(x.username)

CachePaid ==
  /\ DOMAIN cache \subseteq SentTokens
  /\ \A u \in Users : IsFiniteSet(Pending(u))

CopiesPaid ==
  /\ \A u \in DOMAIN rows : Paid(rows[u])
  /\ \A r \in Requests : Paid(task[r].row)

FlushPaid ==
  /\ Paid(flush.row)
  /\ flush.pc = "write" => flush.row.token = flush.token

\* Requests do what clients may ask for.
OpsKept == \A r \in Requests : task[r].pc # "idle" => task[r].op \in Ops

PaidInv == CachePaid /\ CopiesPaid /\ FlushPaid /\ OpsKept

LEMMA InitRowTyped ==
  ASSUME NEW u \in DOMAIN InitRows
  PROVE  u \in Users /\ InitRows[u].remainOpen \in Int
  BY InitRowsAssumption DEF ProperRows, IsMap, UserRecordNode

\* A copy that differs in other columns is charged the same.
LEMMA SamePaid ==
  ASSUME NEW x, NEW y, Paid(x), x # NoRow, y.username = x.username,
         y.remainOpen = x.remainOpen
  PROVE  Paid(y)
  BY DEF Paid

LEMMA NonePaid == Paid(NoRow)
  BY DEF Paid

LEMMA SelectedPaid ==
  ASSUME CopiesPaid, NEW u, NEW x \in SelectByName(u) \cup SelectByToken(u)
  PROVE  Paid(x)
  BY NonePaid DEF CopiesPaid, SelectByName, SelectByToken, Unread

\* What is pending stays so while tokens are handed out.
LEMMA PendingSame ==
  ASSUME CachePaid, UNCHANGED cache, OwnerKept, NEW u
  PROVE  Pending(u)' = Pending(u)
  BY DEF CachePaid, OwnerKept, Pending, MayPay, SentTokens

LEMMA PaidSame ==
  ASSUME CachePaid, UNCHANGED <<cache, opens>>, OwnerKept
  PROVE  CachePaid' /\ \A x : Paid(x) => Paid(x)'
  <1>1. \A u : Pending(u)' = Pending(u)
    BY PendingSame
  <1>2. CachePaid'
    BY <1>1 DEF CachePaid, OwnerKept, SentTokens
  <1>3. ASSUME NEW x, Paid(x) PROVE Paid(x)'
    BY <1>1, <1>3 DEF Paid, Bill
  <1>4. QED
    BY <1>2, <1>3

\* An UPDATE with a copy that is charged no more.
LEMMA UpdatedPaid ==
  ASSUME CopiesPaid, NEW x, Paid(x), UpdateRow(x)
  PROVE  \A u \in DOMAIN rows' : Paid(rows'[u])
  BY DEF CopiesPaid, UpdateRow, HasRow

\* A request that is now at k, which is charged no more than it may be.
Charges(r, k) == Become(r, k) /\ Paid(k.row) /\ (k.pc # "idle" => k.op \in Ops)

LEMMA ChargedStep ==
  ASSUME Inv, PaidInv, OwnerKept, UNCHANGED <<cache, opens, flush>>,
         NEW r \in Requests, NEW k, Charges(r, k),
         \A u \in DOMAIN rows' : Paid(rows'[u])
  PROVE  PaidInv'
  <1>1. task' = [task EXCEPT ![r] = k] /\ task \in [Requests -> Task]
    BY DEF Charges, Become, Inv, TypeOK
  <1>2. \A q \in Requests : Paid(task'[q].row) /\ (task'[q].pc # "idle" => task'[q].op \in Ops)
    BY <1>1 DEF Charges, PaidInv, CopiesPaid, OpsKept
  <1>3. CachePaid' /\ \A x : Paid(x) => Paid(x)'
    BY PaidSame DEF PaidInv
  <1>4. CopiesPaid'
    <2>1. ASSUME NEW u \in DOMAIN rows' PROVE Paid(rows[u])'
      <3>1. PICK x : x = rows'[u]
        OBVIOUS
      <3>2. Paid(x)'
        BY <1>3, <3>1
      <3>3. QED
        BY <3>1, <3>2 DEF Paid
    <2>2. ASSUME NEW q \in Requests PROVE Paid(task[q].row)'
      <3>1. PICK x : x = task'[q].row
        OBVIOUS
      <3>2. Paid(x)'
        BY <1>2, <1>3, <3>1
      <3>3. QED
        BY <3>1, <3>2 DEF Paid
    <2>3. QED
      BY <2>1, <2>2 DEF CopiesPaid
  <1>5. FlushPaid'
    <2>1. PICK x : x = flush.row
      OBVIOUS
    <2>2. Paid(x)'
      BY <1>3, <2>1 DEF PaidInv, FlushPaid
    <2>3. QED
      BY <2>1, <2>2 DEF PaidInv, FlushPaid, Paid
  <1>6. OpsKept'
    BY <1>2 DEF OpsKept
  <1>7. QED
    BY <1>3, <1>4, <1>5, <1>6 DEF PaidInv

LEMMA FinishCharges ==
  ASSUME NEW r \in Requests, Finish(r)
  PROVE  \E k : Charges(r, k)
  <1>1. Charges(r, Idle)
    BY NonePaid DEF Finish, Charges, Idle
  <1>2. QED
    BY <1>1

\* The request goes on with the row it has, or with one a SELECT found.
LEMMA GoOnCharges ==
  ASSUME Inv, PaidInv, NEW r \in Requests, NEW k, Become(r, k), task[r].pc # "idle",
         k.op = task[r].op, Paid(k.row)
  PROVE  Charges(r, k)
  BY DEF Charges, PaidInv, OpsKept

LEMMA OwnRowPaid ==
  ASSUME PaidInv, NEW r \in Requests
  PROVE  Paid(task[r].row)
  BY DEF PaidInv, CopiesPaid

LEMMA BeginCharges ==
  ASSUME Inv, PaidInv, NEW r \in Requests, Begin(r)
  PROVE  \E k : Charges(r, k)
  <1>1. task[r] \in Task /\ Paid(task[r].row)
    BY OwnRowPaid, TaskOKNow
  <1>2. CASE \E u \in Users : "login" \in Ops
               /\ Become(r, [task[r] EXCEPT !.op = "login", !.pc = "find", !.username = u])
    <2>1. PICK u \in Users : "login" \in Ops
            /\ Become(r, [task[r] EXCEPT !.op = "login", !.pc = "find", !.username = u])
      BY <1>2
    <2>2. Charges(r, [task[r] EXCEPT !.op = "login", !.pc = "find", !.username = u])
      BY <1>1, <2>1 DEF Charges, Task
    <2>3. QED
      BY <2>2
  <1>3. CASE \E op \in Ops, t \in SentTokens :
               Become(r, [task[r] EXCEPT !.op = op, !.pc = "verify", !.token = t])
    <2>1. PICK op \in Ops, t \in SentTokens :
            Become(r, [task[r] EXCEPT !.op = op, !.pc = "verify", !.token = t])
      BY <1>3
    <2>2. Charges(r, [task[r] EXCEPT !.op = op, !.pc = "verify", !.token = t])
      BY <1>1, <2>1 DEF Charges, Task
    <2>3. QED
      BY <2>2
  <1>4. QED
    BY <1>2, <1>3 DEF Begin

LEMMA VerifyCharges ==
  ASSUME Inv, PaidInv, NEW r \in Requests, Verify(r)
  PROVE  \E k : Charges(r, k)
  <1>1. task[r] \in Task /\ Paid(task[r].row)
    BY OwnRowPaid, TaskOKNow
  <1>2. CASE \E at : Become(r, [task[r] EXCEPT !.pc = at])
    <2>1. PICK at : Become(r, [task[r] EXCEPT !.pc = at])
      BY <1>2
    <2>2. Charges(r, [task[r] EXCEPT !.pc = at])
      BY <1>1, <2>1, GoOnCharges DEF Verify, Task
    <2>3. QED
      BY <2>2
  <1>3. QED
    BY <1>2, FinishCharges DEF Verify

LEMMA FindCharges ==
  ASSUME Inv, PaidInv, NEW r \in Requests, Find(r)
  PROVE  \E k : Charges(r, k)
  <1>1. PICK x \in SelectByName(task[r].username) :
          IF x = NoRow THEN Finish(r)
          ELSE Become(r, [task[r] EXCEPT !.pc = "challenge", !.row = x])
    BY DEF Find
  <1>2. Paid(x) /\ task[r] \in Task /\ task[r].pc # "idle"
    BY SelectedPaid, TaskOKNow DEF PaidInv, Find, At
  <1>3. CASE Become(r, [task[r] EXCEPT !.pc = "challenge", !.row = x])
    <2>1. Charges(r, [task[r] EXCEPT !.pc = "challenge", !.row = x])
      BY <1>2, <1>3, GoOnCharges DEF Task
    <2>2. QED
      BY <2>1
  <1>4. QED
    BY <1>1, <1>3, FinishCharges

LEMMA SessionCharges ==
  ASSUME Inv, PaidInv, NEW r \in Requests, Session(r)
  PROVE  \E k : Charges(r, k)
  <1>1. CASE \E x \in SelectByToken(task[r].token) :
               Become(r, [task[r] EXCEPT !.pc = "check", !.row = x])
    <2>1. PICK x \in SelectByToken(task[r].token) :
            Become(r, [task[r] EXCEPT !.pc = "check", !.row = x])
      BY <1>1
    <2>2. Paid(x) /\ task[r] \in Task /\ task[r].pc # "idle"
      BY SelectedPaid, TaskOKNow DEF PaidInv, Session, At
    <2>3. Charges(r, [task[r] EXCEPT !.pc = "check", !.row = x])
      BY <2>1, <2>2, GoOnCharges DEF Task
    <2>4. QED
      BY <2>3
  <1>2. QED
    BY <1>1, FinishCharges DEF Session

LEMMA CheckLoginCharges ==
  ASSUME Inv, PaidInv, NEW r \in Requests, CheckLogin(r)
  PROVE  \E k : Charges(r, k)
  <1>1. Paid(task[r].row) /\ task[r] \in Task /\ task[r].pc # "idle" /\ CopyOK(task[r].row)
    BY OwnRowPaid, TaskOKNow DEF CheckLogin, At, TaskOK
  <1>2. PICK y : /\ y \in {task[r].row, [task[r].row EXCEPT !.token = Null]}
                 /\ task[r].row = NoRow => y = NoRow
                 /\ Become(r, [task[r] EXCEPT !.pc = "write", !.row = y])
    BY <1>1 DEF CheckLogin, Task
  <1>3. Paid(y)
    <2>1. CASE y = task[r].row
      BY <1>1, <2>1
    <2>2. CASE y # task[r].row
      <3>1. y = [task[r].row EXCEPT !.token = Null] /\ task[r].row # NoRow
        BY <1>2, <2>2
      <3>2. y.username = task[r].row.username /\ y.remainOpen = task[r].row.remainOpen
        BY <1>1, <3>1 DEF CopyOK, RowOK, UserRecordNode
      <3>3. QED
        BY <1>1, <3>1, <3>2, SamePaid
    <2>3. QED
      BY <2>1, <2>2
  <1>4. Charges(r, [task[r] EXCEPT !.pc = "write", !.row = y])
    BY <1>1, <1>2, <1>3, GoOnCharges DEF Task
  <1>5. QED
    BY <1>4

LEMMA LoadOwnRowCharges ==
  ASSUME Inv, PaidInv, NEW r \in Requests, LoadOwnRow(r)
  PROVE  \E k : Charges(r, k)
  <1>1. PICK x, u, at, y :
          /\ x \in SelectByToken(task[r].token)
          /\ y \in {x, [x EXCEPT !.token = Null, !.binduser = Null]}
          /\ x = NoRow => y = NoRow
          /\ Become(r, [task[r] EXCEPT !.username = u, !.pc = at, !.row = y])
    BY DEF LoadOwnRow
  <1>2. Paid(x) /\ task[r] \in Task /\ task[r].pc # "idle"
    BY <1>1, SelectedPaid, TaskOKNow DEF PaidInv, LoadOwnRow
  <1>3. Paid(y)
    <2>1. CASE y # x
      <3>1. y = [x EXCEPT !.token = Null, !.binduser = Null] /\ x # NoRow
        BY <1>1, <2>1
      <3>2. RowOK(x)
        BY <1>1, <3>1, SelectedByToken
      <3>3. y.username = x.username /\ y.remainOpen = x.remainOpen
        BY <3>1, <3>2 DEF RowOK, UserRecordNode
      <3>4. QED
        BY <1>2, <3>1, <3>3, SamePaid
    <2>2. QED
      BY <1>2, <2>1
  <1>4. Charges(r, [task[r] EXCEPT !.username = u, !.pc = at, !.row = y])
    BY <1>1, <1>2, <1>3, GoOnCharges DEF Task
  <1>5. QED
    BY <1>4

LEMMA CheckPasswdCharges ==
  ASSUME Inv, PaidInv, NEW r \in Requests, CheckPasswd(r)
  PROVE  \E k : Charges(r, k)
  <1>1. Paid(task[r].row) /\ task[r] \in Task /\ task[r].pc # "idle" /\ CopyOK(task[r].row)
    BY OwnRowPaid, TaskOKNow DEF CheckPasswd, At, TaskOK
  <1>2. ASSUME NEW new \in Passwords,
               Become(r, [task[r] EXCEPT !.pc = "write", !.row =
                            IF @ = NoRow THEN @ ELSE [@ EXCEPT !.password = new, !.token = Null]])
        PROVE  \E k : Charges(r, k)
    <2>1. PICK y : y = IF task[r].row = NoRow THEN NoRow
                       ELSE [task[r].row EXCEPT !.password = new, !.token = Null]
      OBVIOUS
    <2>2. CASE task[r].row = NoRow
      <3>1. Become(r, [task[r] EXCEPT !.pc = "write", !.row = NoRow])
        BY <1>1, <1>2, <2>2 DEF Task
      <3>2. Charges(r, [task[r] EXCEPT !.pc = "write", !.row = NoRow])
        BY <1>1, <3>1, GoOnCharges, NonePaid DEF Task
      <3>3. QED
        BY <3>2
    <2>3. CASE task[r].row # NoRow
      <3>1. y.username = task[r].row.username /\ y.remainOpen = task[r].row.remainOpen
        BY <1>1, <2>1, <2>3 DEF CopyOK, RowOK, UserRecordNode
      <3>2. Paid(y)
        BY <1>1, <2>3, <3>1, SamePaid
      <3>3. Become(r, [task[r] EXCEPT !.pc = "write", !.row = y])
        BY <1>1, <1>2, <2>1, <2>3 DEF Task
      <3>4. Charges(r, [task[r] EXCEPT !.pc = "write", !.row = y])
        BY <1>1, <3>2, <3>3, GoOnCharges DEF Task
      <3>5. QED
        BY <3>4
    <2>4. QED
      BY <2>2, <2>3
  <1>3. QED
    BY <1>2, FinishCharges DEF CheckPasswd

LEMMA LoadLoginCharges ==
  ASSUME Inv, PaidInv, NEW r \in Requests, LoadLogin(r)
  PROVE  \E k : Charges(r, k)
  <1>1. Paid(task[r].row) /\ task[r] \in Task /\ task[r].pc # "idle"
    BY OwnRowPaid, TaskOKNow DEF LoadLogin
  <1>2. CASE \E x, at : Become(r, [task[r] EXCEPT !.login = x, !.pc = at])
    <2>1. PICK x, at : Become(r, [task[r] EXCEPT !.login = x, !.pc = at])
      BY <1>2
    <2>2. Charges(r, [task[r] EXCEPT !.login = x, !.pc = at])
      BY <1>1, <2>1, GoOnCharges DEF Task
    <2>3. QED
      BY <2>2
  <1>3. QED
    BY <1>2, FinishCharges DEF LoadLogin

LEMMA DeleteTargetCharges ==
  ASSUME Inv, PaidInv, NEW r \in Requests, DeleteTarget(r)
  PROVE  \E k : Charges(r, k)
  <1>1. CASE \E u \in Users : \E x \in SelectByName(u) :
               Become(r, [task[r] EXCEPT !.pc = "load", !.row = x])
    <2>1. PICK u, x : /\ x \in SelectByName(u)
                      /\ Become(r, [task[r] EXCEPT !.pc = "load", !.row = x])
      BY <1>1
    <2>2. Paid(x) /\ task[r] \in Task /\ task[r].pc # "idle"
      BY <2>1, SelectedPaid, TaskOKNow DEF PaidInv, DeleteTarget, At
    <2>3. Charges(r, [task[r] EXCEPT !.pc = "load", !.row = x])
      BY <2>1, <2>2, GoOnCharges DEF Task
    <2>4. QED
      BY <2>3
  <1>2. QED
    BY <1>1, FinishCharges DEF DeleteTarget

\* The steps of "open" before the opening is counted.
LEMMA OpenCharges ==
  ASSUME Inv, PaidInv, NEW r \in Requests,
         Quota(r) \/ LookUp(r) \/ ReadEntry(r) \/ ReadEntryUsedUp(r) \/ RefuseOpen(r)
  PROVE  \E k : Charges(r, k)
  <1>1. Paid(task[r].row) /\ task[r] \in Task
    BY OwnRowPaid, TaskOKNow
  <1>2. task[r].pc # "idle"
    BY DEF Quota, LookUp, ReadEntry, ReadEntryUsedUp, RefuseOpen, At
  <1>3. CASE \E x, at : /\ x \in SelectByToken(task[r].token)
                       /\ Become(r, [task[r] EXCEPT !.row = x, !.pc = at])
    <2>1. PICK x, at : /\ x \in SelectByToken(task[r].token)
                       /\ Become(r, [task[r] EXCEPT !.row = x, !.pc = at])
      BY <1>3
    <2>2. Charges(r, [task[r] EXCEPT !.row = x, !.pc = at])
      BY <1>1, <1>2, <2>1, SelectedPaid, GoOnCharges DEF Task, PaidInv
    <2>3. QED
      BY <2>2
  <1>4. CASE \E at : Become(r, [task[r] EXCEPT !.pc = at])
    <2>1. PICK at : Become(r, [task[r] EXCEPT !.pc = at])
      BY <1>4
    <2>2. Charges(r, [task[r] EXCEPT !.pc = at])
      BY <1>1, <1>2, <2>1, GoOnCharges DEF Task
    <2>3. QED
      BY <2>2
  <1>5. QED
    BY <1>3, <1>4, FinishCharges DEF Quota, LookUp, ReadEntry, ReadEntryUsedUp, RefuseOpen

\* The steps that take a challenge.
LEMMA ChallengeCharges ==
  ASSUME Inv, PaidInv, NEW r \in Requests, LoginStep2(r) \/ PasswdStep1(r) \/ PasswdStep2(r)
  PROVE  \E k : Charges(r, k)
  <1>1. Paid(task[r].row) /\ task[r] \in Task /\ task[r].pc # "idle"
    BY OwnRowPaid, TaskOKNow DEF LoginStep2, PasswdStep1, PasswdStep2, At
  <1>2. CASE \E t, c : Become(r, [task[r] EXCEPT !.pc = "session", !.token = t,
                                                !.row = NoRow, !.challenge = c])
    <2>1. PICK t, c : Become(r, [task[r] EXCEPT !.pc = "session", !.token = t,
                                                !.row = NoRow, !.challenge = c])
      BY <1>2
    <2>2. Charges(r, [task[r] EXCEPT !.pc = "session", !.token = t, !.row = NoRow,
                                     !.challenge = c])
      BY <1>1, <2>1, NonePaid, GoOnCharges DEF Task
    <2>3. QED
      BY <2>2
  <1>3. CASE \E c : Become(r, [task[r] EXCEPT !.pc = "check", !.challenge = c])
    <2>1. PICK c : Become(r, [task[r] EXCEPT !.pc = "check", !.challenge = c])
      BY <1>3
    <2>2. Charges(r, [task[r] EXCEPT !.pc = "check", !.challenge = c])
      BY <1>1, <2>1, GoOnCharges DEF Task
    <2>3. QED
      BY <2>2
  <1>4. QED
    BY <1>2, <1>3, FinishCharges DEF LoginStep2, PasswdStep1, PasswdStep2

-----------------------------------------------------------------------------
(* The steps that write, and the theorem.                                   *)

LEMMA WritePaid ==
  ASSUME Inv, PaidInv, NEW r \in Requests, Write(r)
  PROVE  PaidInv'
  <1>1. UNCHANGED <<cache, flush, owner, opens>> /\ Finish(r) /\ UpdateRow(task[r].row)
    BY DEF Write
  <1>2. \A u \in DOMAIN rows' : Paid(rows'[u])
    BY <1>1, OwnRowPaid, UpdatedPaid DEF PaidInv
  <1>3. QED
    BY <1>1, <1>2, OwnerSame, FinishCharges, ChargedStep

LEMMA LoginStep1Paid ==
  ASSUME Inv, PaidInv, NEW r \in Requests, LoginStep1(r)
  PROVE  PaidInv'
  <1>1. UNCHANGED <<cache, flush, opens>> /\ Finish(r)
    BY DEF LoginStep1
  <1>2. OwnerKept
    BY OwnerSame DEF LoginStep1, Insert, OwnerKept
  <1>3. \A u \in DOMAIN rows' : Paid(rows'[u])
    <2>1. CASE UNCHANGED rows
      BY <2>1 DEF PaidInv, CopiesPaid
    <2>2. CASE ~ UNCHANGED rows
      <3>1. PICK t, phone, x :
              /\ x = [task[r].row EXCEPT !.token = t, !.binduser = phone]
              /\ UpdateRow(x)
        BY <2>2 DEF LoginStep1
      <3>2. RowOK(task[r].row) /\ task[r].row # NoRow
        BY TaskOKNow DEF LoginStep1, At, TaskOK, CopyOK
      <3>3. x.username = task[r].row.username /\ x.remainOpen = task[r].row.remainOpen
        BY <3>1, <3>2 DEF RowOK, UserRecordNode
      <3>4. Paid(x)
        BY <3>2, <3>3, OwnRowPaid, SamePaid
      <3>5. QED
        BY <3>1, <3>4, UpdatedPaid DEF PaidInv
    <2>3. QED
      BY <2>1, <2>2
  <1>4. QED
    BY <1>1, <1>2, <1>3, FinishCharges, ChargedStep

LEMMA DeleteRemovePaid ==
  ASSUME Inv, PaidInv, NEW r \in Requests, DeleteRemove(r)
  PROVE  PaidInv'
  <1>1. UNCHANGED <<cache, flush, owner, opens>> /\ Finish(r) /\ DeleteRow(task[r].row)
    BY DEF DeleteRemove, histories
  <1>2. \A u \in DOMAIN rows' : Paid(rows'[u])
    BY <1>1 DEF DeleteRow, Erase, Restrict, PaidInv, CopiesPaid
  <1>3. QED
    BY <1>1, <1>2, OwnerSame, FinishCharges, ChargedStep

\* The steps that leave the table alone.
LEMMA ReadsPaid ==
  ASSUME Inv, PaidInv, NEW r \in Requests,
         UNCHANGED <<rows, cache, flush, owner, opens>>, \E k : Charges(r, k)
  PROVE  PaidInv'
  <1>1. \A u \in DOMAIN rows' : Paid(rows'[u])
    BY DEF PaidInv, CopiesPaid
  <1>2. QED
    BY <1>1, OwnerSame, ChargedStep

\* An opening is counted in the cache and in the history.
LEMMA CountPaid ==
  ASSUME Inv, PaidInv, NEW r \in Requests, Count(r)
  PROVE  PaidInv'
  <1>1. PICK t : t = task[r].token
    OBVIOUS
  <1>2. UNCHANGED <<rows, flush, owner>> /\ Finish(r)
    BY DEF Count
  <1>3. /\ t \in SentTokens /\ (t # Null => owner[t] \in Users)
        /\ Opener(t) \in Users \cup {Null} /\ opens \in [Users \cup {Null} -> Nat]
    <2>1. t \in SentTokens
      BY <1>1, TaskOKNow DEF Count, At, TaskOK, SentTokens
    <2>2. QED
      BY <2>1, SentTyped DEF Opener, Inv, TypeOK
  <1>4. PICK n \in Nat :
          /\ n = IF t \in DOMAIN cache THEN cache[t] ELSE 0
          /\ DOMAIN cache' = DOMAIN cache \cup {t}
          /\ cache'[t] = n + 1
          /\ \A q \in DOMAIN cache \ {t} : cache'[q] = cache[q]
    <2>1. CASE t \in DOMAIN cache
      <3>1. cache' = [cache EXCEPT ![t] = @ + 1] /\ cache[t] \in Nat
        BY <1>1, <2>1 DEF Count, Inv, TypeOK, IsMap
      <3>2. QED
        BY <2>1, <3>1
    <2>2. CASE t \notin DOMAIN cache
      <3>1. cache' = Insert(cache, t, 1)
        BY <1>1, <2>2 DEF Count
      <3>2. QED
        BY <2>2, <3>1 DEF Insert
    <2>3. QED
      BY <2>1, <2>2
  <1>5. opens' = [opens EXCEPT ![Opener(t)] = @ + 1]
    BY <1>1 DEF Count
  <1>6. ASSUME NEW u \in Users, ~ MayPay(t, u)
        PROVE  Pending(u)' = Pending(u) /\ Bill(u)' = Bill(u)
    <2>1. Pending(u)' = Pending(u)
      BY <1>2, <1>4, <1>6 DEF Pending, MayPay
    <2>2. Opener(t) \notin {u, Null}
      BY <1>3, <1>6 DEF MayPay, Opener
    <2>3. QED
      BY <1>3, <1>5, <2>1, <2>2 DEF Bill
  <1>7. ASSUME NEW u \in Users, MayPay(t, u)
        PROVE  /\ Bill(u) \in Nat /\ Bill(u)' = Bill(u) + 1
               /\ Cardinality(Pending(u)) \in Nat /\ IsFiniteSet(Pending(u)')
               /\ Cardinality(Pending(u)') = Cardinality(Pending(u)) + 1
    <2>1. <<t, n + 1>> \notin Pending(u)
      BY <1>4 DEF Pending
    <2>2. ASSUME NEW p \in Pending(u)' PROVE p \in Pending(u) \cup {<<t, n + 1>>}
      BY <1>2, <1>4, <2>2 DEF Pending, MayPay
    <2>3. ASSUME NEW p \in Pending(u) PROVE p \in Pending(u)'
      BY <1>2, <1>4, <2>3 DEF Pending, MayPay
    <2>4. <<t, n + 1>> \in Pending(u)'
      BY <1>2, <1>4, <1>7 DEF Pending, MayPay
    <2>5. Pending(u)' = Pending(u) \cup {<<t, n + 1>>}
      BY <2>2, <2>3, <2>4
    <2>6. IsFiniteSet(Pending(u))
      BY DEF PaidInv, CachePaid
    <2>7. Opener(t) \in {u, Null}
      BY <1>7 DEF MayPay, Opener
    <2>8. Bill(u) \in Nat /\ Bill(u)' = Bill(u) + 1
      BY <1>3, <1>5, <2>7, NullAssumption DEF Bill
    <2>9. QED
      BY <2>1, <2>5, <2>6, <2>8, FS_AddElement, FS_CardinalityType
  <1>8. \A u \in Users : IsFiniteSet(Pending(u)')
    BY <1>6, <1>7 DEF PaidInv, CachePaid
  <1>9. CachePaid'
    BY <1>2, <1>3, <1>4, <1>8 DEF PaidInv, CachePaid, SentTokens
  <1>11. ASSUME NEW x, x = NoRow \/ x.remainOpen \in Int, Paid(x) PROVE Paid(x)'
    <2> DEFINE u == x.username
    <2>1. CASE x # NoRow /\ u \in DOMAIN InitRows
      <3>1. u \in Users /\ InitRows[u].remainOpen \in Int /\ x.remainOpen \in Int
        BY <1>11, <2>1, InitRowTyped
      <3>2. InitRows[u].remainOpen - x.remainOpen + Cardinality(Pending(u)) <= Bill(u)
        BY <1>11, <2>1 DEF Paid
      <3>3. InitRows[u].remainOpen - x.remainOpen + Cardinality(Pending(u)') <= Bill(u)'
        <4> HIDE DEF u
        <4>1. CASE MayPay(t, u)
          BY <1>7, <3>1, <3>2, <4>1
        <4>2. CASE ~ MayPay(t, u)
          BY <1>6, <3>1, <3>2, <4>2
        <4>3. QED
          BY <4>1, <4>2
      <3>4. QED
        BY <3>3 DEF Paid
    <2>2. QED
      BY <2>1 DEF Paid
  <1>12. QED
    <2>1. \A q \in Requests : task'[q] \in {task[q], Idle}
      BY <1>2 DEF Finish, Become, Inv, TypeOK
    <2>2. OpsKept'
      BY <2>1 DEF OpsKept, PaidInv, Idle
    <2>3. ASSUME NEW u \in DOMAIN rows' PROVE Paid(rows[u])'
      <3>1. PICK x : x = rows[u]
        OBVIOUS
      <3>2. Paid(x) /\ x.remainOpen \in Int
        BY <1>2, <3>1 DEF PaidInv, CopiesPaid, Inv, TypeOK, IsMap, UserRecordNode
      <3>3. Paid(x)'
        BY <1>11, <3>2
      <3>4. QED
        BY <1>2, <3>1, <3>3 DEF Paid
    <2>4. ASSUME NEW q \in Requests PROVE Paid(task[q].row)'
      <3>1. PICK x : x = task'[q].row
        OBVIOUS
      <3>2. Paid(x) /\ (x = NoRow \/ x.remainOpen \in Int)
        BY <2>1, <3>1, OwnRowPaid, NonePaid, TaskOKNow DEF Idle, Task, MaybeRow, UserRecordNode
      <3>3. Paid(x)'
        BY <1>11, <3>2
      <3>4. QED
        BY <3>1, <3>3 DEF Paid
    <2>5. FlushPaid'
      <3>1. PICK x : x = flush.row
        OBVIOUS
      <3>2. Paid(x) /\ (x = NoRow \/ x.remainOpen \in Int)
        BY <3>1 DEF PaidInv, FlushPaid, Inv, TypeOK, Flush, MaybeRow, UserRecordNode
      <3>3. Paid(x)'
        BY <1>11, <3>2
      <3>4. QED
        BY <1>2, <3>1, <3>3 DEF PaidInv, FlushPaid, Paid
    <2>6. QED
      BY <1>9, <2>2, <2>3, <2>4, <2>5 DEF PaidInv, CopiesPaid

\* While the cache loses entries, and requests only learn that theirs is gone.
LEMMA ErasedPaid ==
  ASSUME Inv, PaidInv, NEW t \in DOMAIN cache, EraseEntry(t), UNCHANGED <<owner, opens>>
  PROVE  /\ CachePaid' /\ OpsKept'
         /\ \A u \in Users : /\ Pending(u)' \subseteq Pending(u)
                             /\ Cardinality(Pending(u)') <= Cardinality(Pending(u))
                             /\ Cardinality(Pending(u)) \in Nat /\ Cardinality(Pending(u)') \in Nat
         /\ \A x : Paid(x) /\ (x = NoRow \/ x.remainOpen \in Int) => Paid(x)'
         /\ \A r \in Requests : Paid(task[r].row)'
  <1>1. DOMAIN cache' = DOMAIN cache \ {t} /\ \A q \in DOMAIN cache' : cache'[q] = cache[q]
    BY DEF EraseEntry, Erase, Restrict
  <1>2. ASSUME NEW u \in Users
        PROVE  /\ Pending(u)' \subseteq Pending(u) /\ IsFiniteSet(Pending(u)')
               /\ Cardinality(Pending(u)') <= Cardinality(Pending(u))
               /\ Cardinality(Pending(u)) \in Nat /\ Cardinality(Pending(u)') \in Nat
    <2>1. Pending(u)' \subseteq Pending(u)
      BY <1>1 DEF Pending, MayPay
    <2>2. IsFiniteSet(Pending(u))
      BY DEF PaidInv, CachePaid
    <2>3. QED
      BY <2>1, <2>2, FS_Subset, FS_CardinalityType
  <1>3. CachePaid'
    BY <1>1, <1>2 DEF PaidInv, CachePaid, SentTokens
  <1>4. ASSUME NEW x, Paid(x), x = NoRow \/ x.remainOpen \in Int PROVE Paid(x)'
    <2>1. CASE x # NoRow /\ x.username \in DOMAIN InitRows
      <3>1. x.username \in Users /\ InitRows[x.username].remainOpen \in Int
        BY <2>1, InitRowTyped
      <3>2. Bill(x.username) \in Nat
        BY <3>1 DEF Bill, Inv, TypeOK
      <3>3. InitRows[x.username].remainOpen - x.remainOpen + Cardinality(Pending(x.username)')
              <= Bill(x.username)
        BY <1>2, <1>4, <2>1, <3>1, <3>2 DEF Paid
      <3>4. QED
        BY <3>3 DEF Paid, Bill
    <2>2. QED
      BY <2>1 DEF Paid
  <1>5. ASSUME NEW r \in Requests
        PROVE  /\ task'[r].row = task[r].row
               /\ task'[r].pc # "idle" => task'[r].op \in Ops
    BY TaskOKNow DEF EraseEntry, Task, PaidInv, OpsKept
  <1>6. ASSUME NEW r \in Requests PROVE Paid(task[r].row)'
    <2>1. PICK x : x = task[r].row
      OBVIOUS
    <2>2. Paid(x)'
      BY <1>4, <2>1, OwnRowPaid, TaskOKNow DEF Task, MaybeRow, UserRecordNode
    <2>3. QED
      BY <1>5, <2>1, <2>2 DEF Paid
  <1>7. QED
    BY <1>2, <1>3, <1>4, <1>5, <1>6 DEF OpsKept

LEMMA FlushReadPaid ==
  ASSUME Inv, PaidInv, FlushRead
  PROVE  PaidInv'
  <1>1. UNCHANGED <<rows, owner, opens>>
    BY DEF FlushRead, histories
  <1>2. PICK t, x :
          /\ t \in DOMAIN cache /\ x \in SelectByToken(t)
          /\ \/ /\ RemainOpen(x) > 0
                /\ flush' = [flush EXCEPT !.pc = "write", !.token = t, !.row = x]
                /\ UNCHANGED <<cache, task>>
             \/ EraseEntry(t) /\ UNCHANGED flush
    BY DEF FlushRead
  <1>3. CASE EraseEntry(t) /\ UNCHANGED flush
    <2>1. \A y : Paid(y) /\ (y = NoRow \/ y.remainOpen \in Int) => Paid(y)'
      BY <1>1, <1>2, <1>3, ErasedPaid
    <2>2. ASSUME NEW u \in DOMAIN rows' PROVE Paid(rows[u])'
      <3>1. PICK y : y = rows[u]
        OBVIOUS
      <3>2. Paid(y)'
        BY <1>1, <2>1, <3>1 DEF PaidInv, CopiesPaid, Inv, TypeOK, IsMap, UserRecordNode
      <3>3. QED
        BY <1>1, <3>1, <3>2 DEF Paid
    <2>3. FlushPaid'
      <3>1. PICK y : y = flush.row
        OBVIOUS
      <3>2. Paid(y)'
        BY <2>1, <3>1 DEF PaidInv, FlushPaid, Inv, TypeOK, Flush, MaybeRow, UserRecordNode
      <3>3. QED
        BY <1>3, <3>1, <3>2 DEF PaidInv, FlushPaid, Paid
    <2>4. QED
      BY <1>1, <1>2, <1>3, <2>2, <2>3, ErasedPaid DEF PaidInv, CopiesPaid
  <1>4. CASE /\ RemainOpen(x) > 0
             /\ flush' = [flush EXCEPT !.pc = "write", !.token = t, !.row = x]
             /\ UNCHANGED <<cache, task>>
    <2>1. x # NoRow
      BY <1>4 DEF RemainOpen
    <2>2. x.token = t
      BY <1>2, <2>1 DEF SelectByToken, Unread
    <2>3. Paid(x)
      BY <1>2, SelectedPaid DEF PaidInv
    <2>4. flush'.row = x /\ flush'.token = t
      BY <1>4 DEF Inv, TypeOK, Flush
    <2>5. QED
      BY <1>1, <1>4, <2>2, <2>3, <2>4
      DEF PaidInv, CachePaid, CopiesPaid, FlushPaid, OpsKept, Paid, Pending, MayPay, Bill,
          SentTokens
  <1>5. QED
    BY <1>2, <1>3, <1>4

\* What the cache gives up is what the row is charged.
LEMMA FlushWritePaid ==
  ASSUME Inv, PaidInv, FlushWrite
  PROVE  PaidInv'
  <1>1. UNCHANGED <<owner, opens>> /\ EraseEntry(flush.token)
    BY DEF FlushWrite, histories
  <1>2. PICK t, n, u, x :
          /\ t = flush.token /\ n = cache[t] /\ u = flush.row.username
          /\ x = [flush.row EXCEPT !.remainOpen = @ - cache[flush.token]]
    OBVIOUS
  <1>3. RowOK(flush.row) /\ n \in Nat /\ t \in DOMAIN cache /\ UpdateRow(x)
    BY <1>2 DEF FlushWrite, Inv, TypeOK, IsMap, FlushOK, CopyOK
  <1>4. x.username = u /\ x.remainOpen = flush.row.remainOpen - n
        /\ flush.row.remainOpen \in Int /\ x.remainOpen \in Int /\ u \in Users
    BY <1>2, <1>3 DEF RowOK, UserRecordNode
  <1>5. MayPay(t, u)
    <2>1. flush.row.token = t
      BY <1>2, <1>3 DEF FlushWrite, PaidInv, FlushPaid, Inv, TypeOK, IsMap
    <2>2. QED
      BY <1>2, <1>3, <2>1 DEF RowOK, MayPay
  <1>6. \A y : Paid(y) /\ (y = NoRow \/ y.remainOpen \in Int) => Paid(y)'
    BY <1>1, <1>2, <1>3, ErasedPaid
  <1>7. Cardinality(Pending(u)') + n = Cardinality(Pending(u)) /\ Cardinality(Pending(u)') \in Nat
    <2>1. DOMAIN cache' = DOMAIN cache \ {t} /\ \A q \in DOMAIN cache' : cache'[q] = cache[q]
      BY <1>1, <1>2 DEF EraseEntry, Erase, Restrict
    <2>2. Pending(u) = Pending(u)' \cup ({t} \X (1 .. n)) /\ Pending(u)' \cap ({t} \X (1 .. n)) = {}
      <3>1. ASSUME NEW p \in Pending(u) PROVE p \in Pending(u)' \cup ({t} \X (1 .. n))
        BY <1>1, <1>2, <2>1, <3>1 DEF Pending, MayPay
      <3>2. ASSUME NEW p \in Pending(u)' PROVE p \in Pending(u) /\ p \notin {t} \X (1 .. n)
        BY <1>1, <1>2, <2>1, <3>2 DEF Pending, MayPay
      <3>3. ASSUME NEW p \in {t} \X (1 .. n) PROVE p \in Pending(u)
        BY <1>2, <1>3, <1>5, <3>3 DEF Pending
      <3>4. QED
        BY <3>1, <3>2, <3>3
    <2>3. IsFiniteSet(Pending(u)') /\ IsFiniteSet({t} \X (1 .. n)) /\ Cardinality({t} \X (1 .. n)) = n
      <3>1. IsFiniteSet(1 .. n) /\ Cardinality(1 .. n) = n
        BY <1>3, FS_Interval
      <3>2. IsFiniteSet({t}) /\ Cardinality({t}) = 1
        BY FS_Singleton
      <3>3. /\ IsFiniteSet({t} \X (1 .. n))
            /\ Cardinality({t} \X (1 .. n)) = Cardinality({t}) * Cardinality(1 .. n)
        BY <3>1, <3>2, FS_Product
      <3>4. IsFiniteSet(Pending(u)')
        BY <1>1, <1>2, <1>3, <1>4, ErasedPaid DEF CachePaid
      <3>5. Cardinality({t} \X (1 .. n)) = n
        <4>1. Cardinality({t} \X (1 .. n)) = 1 * n
          BY <3>1, <3>2, <3>3
        <4>2. 1 * n = n
          BY <1>3
        <4>3. QED
          BY <4>1, <4>2
      <3>6. QED
        BY <3>3, <3>4, <3>5
    <2>4. Cardinality(Pending(u)) = Cardinality(Pending(u)') + n - Cardinality({})
      BY <2>2, <2>3, FS_Union
    <2>5. QED
      BY <1>3, <2>3, <2>4, FS_EmptySet, FS_CardinalityType
  <1>8. Paid(x)'
    <2>1. Paid(flush.row) /\ flush.row # NoRow
      BY <1>3 DEF PaidInv, FlushPaid, Inv, FlushOK, FlushWrite
    <2>2. CASE u \in DOMAIN InitRows
      <3>1. InitRows[u].remainOpen \in Int /\ Bill(u) \in Nat
        BY <1>4, <2>2, InitRowTyped DEF Bill, Inv, TypeOK
      <3>2. InitRows[u].remainOpen - flush.row.remainOpen + Cardinality(Pending(u)) <= Bill(u)
        BY <1>2, <2>1, <2>2 DEF Paid
      <3>3. InitRows[u].remainOpen - x.remainOpen + Cardinality(Pending(u)') <= Bill(u)
        BY <1>3, <1>4, <1>7, <3>1, <3>2
      <3>4. QED
        BY <1>1, <1>4, <3>3 DEF Paid, Bill
    <2>3. QED
      BY <1>4, <2>2 DEF Paid
  <1>9. ASSUME NEW v \in DOMAIN rows' PROVE Paid(rows[v])'
    <2>1. PICK y : y = rows'[v]
      OBVIOUS
    <2>2. y = x \/ (v \in DOMAIN rows /\ y = rows[v])
      BY <1>3, <2>1 DEF UpdateRow, HasRow
    <2>3. Paid(y)'
      BY <1>6, <1>8, <2>2 DEF PaidInv, CopiesPaid, Inv, TypeOK, IsMap, UserRecordNode
    <2>4. QED
      BY <2>1, <2>3 DEF Paid
  <1>10. FlushPaid'
    <2>1. flush'.row = NoRow /\ flush'.pc = "scan"
      BY DEF FlushWrite, Inv, TypeOK, Flush
    <2>2. QED
      BY <2>1 DEF FlushPaid, Paid
  <1>11. QED
    BY <1>1, <1>2, <1>3, <1>9, <1>10, ErasedPaid DEF PaidInv, CopiesPaid

\* The other steps of the timer, and the clock.
LEMMA OthersPaid ==
  ASSUME Inv, PaidInv, UNCHANGED <<rows, cache, task, owner, opens>>,
         flush'.row \in {flush.row, NoRow},
         flush'.pc = "write" => UNCHANGED flush
  PROVE  PaidInv'
  BY DEF PaidInv, CachePaid, CopiesPaid, FlushPaid, OpsKept, Paid, Pending, MayPay, Bill,
         SentTokens

LEMMA RequestPaid ==
  ASSUME Ops \cap {"add", "topup"} = {}, Inv, PaidInv, NEW r \in Requests, Request(r)
  PROVE  PaidInv'
  <1>1. CASE Begin(r) \/ Verify(r) \/ Find(r) \/ Session(r) \/ CheckLogin(r)
             \/ LoadOwnRow(r) \/ CheckPasswd(r) \/ LoadLogin(r) \/ DeleteTarget(r)
             \/ Quota(r) \/ LookUp(r) \/ ReadEntry(r) \/ ReadEntryUsedUp(r) \/ RefuseOpen(r)
    <2>1. UNCHANGED <<rows, cache, flush, owner, opens>>
      BY <1>1 DEF Begin, Verify, Find, Session, CheckLogin, LoadOwnRow, CheckPasswd, LoadLogin,
         DeleteTarget, Quota, LookUp, ReadEntry, ReadEntryUsedUp, RefuseOpen, shared, histories
    <2>2. \E k : Charges(r, k)
      BY <1>1, BeginCharges, VerifyCharges, FindCharges, SessionCharges, CheckLoginCharges,
         LoadOwnRowCharges, CheckPasswdCharges, LoadLoginCharges, DeleteTargetCharges, OpenCharges
    <2>3. QED
      BY <2>1, <2>2, ReadsPaid
  <1>2. CASE LoginStep2(r) \/ PasswdStep1(r) \/ PasswdStep2(r)
    <2>1. UNCHANGED <<rows, cache, flush, owner, opens>>
      BY <1>2 DEF LoginStep2, PasswdStep1, PasswdStep2, histories
    <2>2. QED
      BY <1>2, <2>1, ChallengeCharges, ReadsPaid
  <1>3. CASE AddTarget(r) \/ AddInsert(r) \/ TopUpTarget(r)
    <2>1. task[r].op \in {"add", "topup"} /\ task[r].pc # "idle"
      BY <1>3 DEF AddTarget, AddInsert, TopUpTarget, At
    <2>2. QED
      BY <2>1 DEF PaidInv, OpsKept
  <1>4. QED
    BY <1>1, <1>2, <1>3, WritePaid, LoginStep1Paid, DeleteRemovePaid, CountPaid DEF Request

LEMMA NextPaid ==
  ASSUME Ops \cap {"add", "topup"} = {}, Inv, PaidInv, [Next]_vars
  PROVE  PaidInv'
  <1>1. CASE \E r \in Requests : Request(r)
    BY <1>1, RequestPaid
  <1>2. CASE FlushRead \/ FlushWrite
    BY <1>2, FlushReadPaid, FlushWritePaid
  <1>3. CASE FlushBegin \/ FlushEnd \/ ExpireChallenges \/ Tick \/ UNCHANGED vars
    <2>1. UNCHANGED <<rows, cache, task, owner, opens>>
      BY <1>3 DEF FlushBegin, FlushEnd, ExpireChallenges, Tick, vars, histories
    <2>2. flush'.row \in {flush.row, NoRow} /\ (flush'.pc = "write" => UNCHANGED flush)
      BY <1>3, NoFlushOK DEF FlushBegin, FlushEnd, ExpireChallenges, Tick, vars, Inv, TypeOK, Flush
    <2>3. QED
      BY <2>1, <2>2, OthersPaid
  <1>4. QED
    BY <1>1, <1>2, <1>3 DEF Next, WriteCache

LEMMA InitPaid == Init => PaidInv
  <1> SUFFICES ASSUME Init PROVE PaidInv
    OBVIOUS
  <1>1. \A u : Pending(u) = {}
    BY DEF Init, EmptyMap, Pending
  <1>2. CachePaid
    BY <1>1, FS_EmptySet DEF Init, EmptyMap, CachePaid
  <1>3. ASSUME NEW u \in DOMAIN rows PROVE Paid(rows[u])
    <2>1. u \in DOMAIN InitRows /\ rows[u] = InitRows[u] /\ InitRows[u].username = u
      BY InitRowsAssumption DEF Init, ProperRows
    <2>2. u \in Users /\ InitRows[u].remainOpen \in Int
      BY <2>1, InitRowTyped
    <2>3. opens[u] = 0 /\ opens[Null] = 0
      BY <2>2 DEF Init
    <2>4. Bill(u) = 0 /\ Cardinality(Pending(u)) = 0
      BY <1>1, <2>3, FS_EmptySet DEF Bill
    <2>5. QED
      BY <2>1, <2>2, <2>4 DEF Paid
  <1>4. CopiesPaid /\ FlushPaid /\ OpsKept
    BY <1>3, NonePaid, NoFlushOK DEF Init, CopiesPaid, FlushPaid, OpsKept, Idle
  <1>5. QED
    BY <1>2, <1>4 DEF PaidInv

\* While nobody adds or tops up users, whatever logins, changes of passwords,
\* deletions, openings and write-backs overlap, and whichever statements fail,
\* no user is charged for more openings than the user made and, with the empty
\* token, anybody.
THEOREM NoneOvercharged ==
  ASSUME Ops \cap {"add", "topup"} = {}
  PROVE  Spec => []NotOvercharged
  <1>1. Inv /\ PaidInv => NotOvercharged
    <2> SUFFICES ASSUME Inv, PaidInv, NEW u \in DOMAIN rows \cap DOMAIN InitRows
                 PROVE  InitRows[u].remainOpen - rows[u].remainOpen <= Bill(u)
      BY DEF NotOvercharged, Bill
    <2>1. Paid(rows[u]) /\ RowOK(rows[u]) /\ rows[u].username = u
      BY DEF PaidInv, CopiesPaid, Inv, TableOK
    <2>2. rows[u] # NoRow /\ rows[u].remainOpen \in Int
      BY <2>1, NoRowIsNone DEF RowOK, UserRecordNode
    <2>3. /\ u \in Users /\ InitRows[u].remainOpen \in Int /\ Bill(u) \in Nat
          /\ Cardinality(Pending(u)) \in Nat
      BY InitRowTyped, FS_CardinalityType DEF Bill, PaidInv, CachePaid, Inv, TypeOK
    <2>4. QED
      BY <2>1, <2>2, <2>3 DEF Paid
  <1>2. Init => Inv /\ PaidInv
    BY InitInv, InitPaid
  <1>3. Inv /\ PaidInv /\ [Next]_vars => (Inv /\ PaidInv)'
    BY NextInv, NextPaid
  <1>4. QED
    BY <1>1, <1>2, <1>3, PTL DEF Spec
=============================================================================
