----------------------------- MODULE UserManager -----------------------------
(***************************************************************************)
(* The users of a device: who is logged in, and how often each may open    *)
(* the door.  The rows are in a database that every request reads and      *)
(* writes one statement at a time: a request reads a whole row, changes    *)
(* its copy and writes the whole copy back, and any other request or the   *)
(* minute timer may run in between.  Openings are counted in a cache under *)
(* the user's token and subtracted from the row by the timer.              *)
(*                                                                         *)
(* The empty token is a token like any other: nothing refuses it, and it   *)
(* is found in the row of whoever is not logged in.                        *)
(*                                                                         *)
(* A request runs as one task of the RPC server's pool; Requests are the   *)
(* pool's threads.  The push configuration login and logout also write is  *)
(* left out, and so are the columns LastVerify and LastLogin, which are    *)
(* never read.  Dates are numbers the clock runs through.                  *)
(***************************************************************************)
EXTENDS Integers, StdMap

CONSTANTS
  Requests,      \* threads of the RPC server's pool
  Ops,           \* the operations clients ask for, some of AllOps
  Users, Admin,  \* user names; the administrator's
  Passwords,
  Phones,        \* what a user can be bound to
  Tokens,        \* login tokens
  Challenges,    \* challenges of login and passwd
  RemainOpens,   \* numbers of openings a user can be granted, < 0 for no limit
  InitRows,      \* the User table the program finds
  MaxTime,       \* bound on the clock
  MaxOpens,      \* bound on the openings of each user
  DbMayFail,     \* can a statement throw?
  Null           \* the empty string, and a record nothing was read into

USER_AUTHORITY_ADMIN == 9
USER_AUTHORITY_LONG == 8
USER_AUTHORITY_TEMP == 7
Authorities ==
  {USER_AUTHORITY_TEMP, USER_AUTHORITY_LONG, USER_AUTHORITY_ADMIN}

AllOps == {"login", "passwd", "logout", "add", "delete", "topup", "open"}
Times == 0..MaxTime

UserRecordNode ==
  [username : Users, password : Passwords, binduser : Phones \cup {Null},
   authority : Authorities, timeOfValidity : Times, remainOpen : Int,
   token : Tokens \cup {Null}]

\* What the table the program finds is assumed to be; the program does not
\* create it.  Names are unique, a row is the administrator's if and only if it
\* has the administrator's authority, and no two have the same token.
ProperRows(rs) ==
  /\ IsMap(rs, Users, UserRecordNode)
  /\ Admin \in DOMAIN rs
  /\ \A u \in DOMAIN rs :
       /\ rs[u].username = u
       /\ rs[u].authority = USER_AUTHORITY_ADMIN <=> u = Admin
       /\ \A v \in DOMAIN rs :
            rs[u].token # Null /\ rs[u].token = rs[v].token => u = v

ASSUME OpsAssumption == Ops \subseteq AllOps
ASSUME NullAssumption ==
  Null \notin Users \cup Tokens \cup Challenges /\ Null \notin UserRecordNode
ASSUME RemainAssumption == RemainOpens \subseteq Int
ASSUME InitRowsAssumption == ProperRows(InitRows)
ASSUME BoundsAssumption ==
  MaxTime \in Nat /\ MaxOpens \in Nat /\ DbMayFail \in BOOLEAN

VARIABLES
  rows,          \* the User table
  challenges,    \* m_challenge_map: from user names to challenges
  cache,         \* m_cache_map: from tokens to openings not yet in the table
  flush,         \* writeCache, which holds m_cache_mutex unless it is "idle"
  now,           \* the clock
  task,          \* what each thread of the pool is doing
  owner,         \* history: the tokens handed out, and to whom
  used,          \* history: the challenges taken to verify a password
  opens,         \* history: how often each user opened the door, and (Null) whoever
                 \* sent the empty token
  ended          \* history: the tokens a change of the password has ended

vars == <<rows, challenges, cache, flush, now, task, owner, used, opens, ended>>
histories == <<owner, used, opens, ended>>
shared == <<rows, challenges, cache, flush, now, histories>>

PC == {"idle", "find", "challenge", "session", "check", "verify", "load",
       "target", "insert", "remove", "write", "quota", "lookup", "entry",
       "freed", "count"}

NoRow == Null
MaybeRow == UserRecordNode \cup {NoRow}

\* A request: its parameters, the rows it has read, the challenge it took.
Task ==
  [pc : PC, op : AllOps \cup {Null}, username : Users \cup {Null},
   token : Tokens \cup {Null}, row : MaybeRow, login : MaybeRow,
   challenge : Challenges \cup {Null}]

Idle ==
  [pc |-> "idle", op |-> Null, username |-> Null, token |-> Null,
   row |-> NoRow, login |-> NoRow, challenge |-> Null]

Flush == [pc : {"idle", "scan", "write", "expire"}, timer : BOOLEAN,
          token : Tokens \cup {Null}, row : MaybeRow]

NoFlush == [pc |-> "idle", timer |-> FALSE, token |-> Null, row |-> NoRow]

TypeOK ==
  /\ IsMap(rows, Users, UserRecordNode)
  /\ challenges \in Maps(Users \cup {Null}, Challenges)
  /\ IsMap(cache, Tokens \cup {Null}, Nat)
  /\ flush \in Flush
  /\ now \in Times
  /\ task \in [Requests -> Task]
  /\ owner \in Maps(Tokens, Users)
  /\ used \subseteq Challenges
  /\ opens \in [Users \cup {Null} -> Nat]
  /\ ended \subseteq Tokens

InitTokens == {InitRows[u].token : u \in DOMAIN InitRows} \ {Null}

Init ==
  /\ rows = InitRows
  /\ challenges = EmptyMap
  /\ cache = EmptyMap
  /\ flush = NoFlush
  /\ now = 0
  /\ task = [r \in Requests |-> Idle]
  /\ owner = [t \in InitTokens |->
                CHOOSE u \in DOMAIN InitRows : InitRows[u].token = t]
  /\ used = {}
  /\ opens = [u \in Users \cup {Null} |-> 0]
  /\ ended = {}

-----------------------------------------------------------------------------
(* CUserRecord: one SQL statement each.                                     *)

\* What a SELECT can find: the row, or nothing; nothing also when it throws.
Unread == IF DbMayFail THEN {NoRow} ELSE {}

SelectByName(u) ==
  (IF u \in DOMAIN rows THEN {rows[u]} ELSE {NoRow}) \cup Unread

\* Several rows may have the empty token; which of them SQLite gives last is its
\* choice.
SelectByToken(t) ==
  LET hits == {u \in DOMAIN rows : rows[u].token = t}
  IN  (IF hits = {} THEN {NoRow} ELSE {rows[u] : u \in hits}) \cup Unread

\* The UPDATE of a whole row.  A record nothing was read into has no name and
\* is refused; a user who was deleted has no row to change.
HasRow(x) == x # NoRow /\ x.username \in DOMAIN rows

UpdateRow(x) ==
  \/ HasRow(x) /\ rows' = [rows EXCEPT ![x.username] = x]
  \/ (HasRow(x) => DbMayFail) /\ UNCHANGED rows

\* The INSERT of a new user; a name that is there is refused by the table.
InsertRow(x) ==
  \/ rows' = Insert(rows, x.username, x)
  \/ DbMayFail /\ UNCHANGED rows

\* The DELETE of a user by name.
DeleteRow(x) ==
  \/ rows' = Erase(rows, x.username)
  \/ DbMayFail /\ UNCHANGED rows

-----------------------------------------------------------------------------
(* A request, from the dispatcher to its answer.                            *)

At(r, op, pc) == task[r].op = op /\ task[r].pc = pc

\* The request is answered and its thread back in the pool.
Become(r, t) == task' = [task EXCEPT ![r] = t]

Finish(r) == Become(r, Idle)

\* checkUserValidity
Valid(x) == x.timeOfValidity >= now

\* What clients send: a token that was handed out, or the empty one.
SentTokens == DOMAIN owner \cup {Null}

\* A request arrives.
Begin(r) ==
  /\ task[r] = Idle
  /\ \E op \in Ops :
       \/ /\ op = "login"
          /\ \E u \in Users :
               Become(r, [task[r] EXCEPT !.op = op, !.pc = "find",
                                         !.username = u])
       \/ /\ op # "login"
          /\ \E t \in SentTokens :
               Become(r, [task[r] EXCEPT !.op = op, !.pc = "verify",
                                         !.token = t])
  /\ UNCHANGED shared

\* verifyUser: the token is some user's, who is not out of validity.
Verify(r) ==
  /\ task[r].pc = "verify"
  /\ \E x \in SelectByToken(task[r].token) :
       IF x # NoRow /\ Valid(x)
       THEN Become(r, [task[r] EXCEPT !.pc =
              CASE task[r].op = "delete" -> "target"
                [] task[r].op = "open"   -> "quota"
                [] OTHER                 -> "load"])
       ELSE Finish(r)
  /\ UNCHANGED shared

\* The write that ends login, passwd, logout and topUpUser.  Whether it changed
\* a row is looked at by topUpUser only, for its answer.
Write(r) ==
  /\ task[r].pc = "write"
  /\ UpdateRow(task[r].row)
  /\ ended' = IF task[r].op = "passwd" THEN ended \cup ({task[r].token} \ {Null}) ELSE ended
  /\ Finish(r)
  /\ UNCHANGED <<challenges, cache, flush, now, owner, used, opens>>

-----------------------------------------------------------------------------
(* login, and the challenges it shares with passwd.                         *)

\* login: the user must exist.
Find(r) ==
  /\ At(r, "login", "find")
  /\ \E x \in SelectByName(task[r].username) :
       IF x = NoRow
       THEN Finish(r)
       ELSE Become(r, [task[r] EXCEPT !.pc = "challenge", !.row = x])
  /\ UNCHANGED shared

\* The administrator may bind any phone when none is bound; the others have
\* the one they were added with.
BoundElsewhere(x, phone) ==
  x.binduser # phone /\ (x.username = Admin => x.binduser # Null)

FreshChallenge(c) ==
  c \notin used /\ \A u \in DOMAIN challenges : challenges[u] # c

\* Mutant: the challenge is written where the token belongs.
LoginStep1Swapped(r) ==
  LET u == task[r].username IN
  /\ At(r, "login", "challenge")
  /\ u \notin DOMAIN challenges
  /\ \E phone \in Phones \cup {Null} :
       IF ~ Valid(task[r].row) \/ BoundElsewhere(task[r].row, phone)
       THEN UNCHANGED <<rows, challenges, owner>>
       ELSE \E t \in Tokens \ DOMAIN owner, c \in Challenges :
              /\ FreshChallenge(c)
              /\ UpdateRow([task[r].row EXCEPT !.token = c, !.binduser = phone])
              /\ owner' = Insert(owner, t, u)
              /\ challenges' = Insert(challenges, u, c)
  /\ Finish(r)
  /\ UNCHANGED <<cache, flush, now, used, opens, ended>>

\* login step 1, under m_challenge_mutex: a new token, written with the row read
\* before, and a new challenge.
LoginStep1(r) ==
  LET u == task[r].username IN
  /\ At(r, "login", "challenge")
  /\ u \notin DOMAIN challenges
  /\ \E phone \in Phones \cup {Null} :
       IF ~ Valid(task[r].row) \/ BoundElsewhere(task[r].row, phone)
       THEN UNCHANGED <<rows, challenges, owner>>
       ELSE \E t \in Tokens \ DOMAIN owner, c \in Challenges :
              /\ FreshChallenge(c)
              /\ UpdateRow([task[r].row EXCEPT !.token = t, !.binduser = phone])
              /\ owner' = Insert(owner, t, u)
              /\ challenges' = Insert(challenges, u, c)
  /\ Finish(r)
  /\ UNCHANGED <<cache, flush, now, used, opens, ended>>

\* Mutant: the challenge stays until it is a minute old.
TakeChallengeKeeps(u) ==
  /\ u \in DOMAIN challenges
  /\ UNCHANGED challenges
  /\ used' = used \cup {challenges[u]}

\* Step 2 of login and passwd takes the challenge away before it verifies.
TakeChallenge(u) ==
  /\ u \in DOMAIN challenges
  /\ challenges' = Erase(challenges, u)
  /\ used' = used \cup {challenges[u]}

\* login step 2: a request without token is refused, but has used the challenge.
LoginStep2(r) ==
  LET u == task[r].username IN
  /\ At(r, "login", "challenge")
  /\ TakeChallenge(u)
  /\ \/ Finish(r)
     \/ \E t \in SentTokens :
          Become(r, [task[r] EXCEPT !.pc = "session", !.token = t,
                                    !.row = NoRow, !.challenge = challenges[u]])
  /\ UNCHANGED <<rows, cache, flush, now, owner, opens, ended>>

\* The row of the token; a request without password is refused then.
Session(r) ==
  /\ At(r, "login", "session")
  /\ \/ Finish(r)
     \/ \E x \in SelectByToken(task[r].token) :
          Become(r, [task[r] EXCEPT !.pc = "check", !.row = x])
  /\ UNCHANGED shared

\* verifyUserPassword, of what a client made of a password and a challenge.  A
\* row that was not found has the empty password.
Verified(r, x, password, challenge) ==
  /\ password = IF x = NoRow THEN Null ELSE x.password
  /\ challenge = task[r].challenge

SentPasswords == Passwords \cup {Null}

\* Mutant: the row that is written is the one the request names.
CheckLoginRenames(r) ==
  /\ At(r, "login", "check")
  /\ \E x \in SelectByName(task[r].username), p \in SentPasswords, c \in used :
       Become(r, [task[r] EXCEPT !.pc = "write", !.row =
                  IF @ = NoRow THEN @
                  ELSE IF Verified(r, x, p, c)
                  THEN [@ EXCEPT !.username = task[r].username]
                  ELSE [@ EXCEPT !.token = Null]])
  /\ UNCHANGED shared

\* A wrong password costs the row its token.
CheckLogin(r) ==
  /\ At(r, "login", "check")
  /\ \E x \in SelectByName(task[r].username), p \in SentPasswords, c \in used :
       Become(r, [task[r] EXCEPT !.pc = "write", !.row =
                  IF @ = NoRow \/ Verified(r, x, p, c) THEN @
                  ELSE [@ EXCEPT !.token = Null]])
  /\ UNCHANGED shared

-----------------------------------------------------------------------------
(* passwd and logout.                                                       *)

\* The row of the request's own user.
LoadOwnRow(r) ==
  /\ task[r].pc = "load" /\ task[r].op \in {"passwd", "logout"}
  /\ \E x \in SelectByToken(task[r].token) :
       Become(r, [task[r] EXCEPT
         !.username = IF x = NoRow THEN Null ELSE x.username,
         !.pc = IF task[r].op = "passwd" THEN "challenge" ELSE "write",
         !.row = IF x = NoRow \/ task[r].op = "passwd" THEN x
                    ELSE [x EXCEPT !.token = Null, !.binduser = Null]])
  /\ UNCHANGED shared

\* passwd step 1
PasswdStep1(r) ==
  LET u == task[r].username IN
  /\ At(r, "passwd", "challenge")
  /\ u \notin DOMAIN challenges
  /\ \E c \in Challenges :
       FreshChallenge(c) /\ challenges' = Insert(challenges, u, c)
  /\ Finish(r)
  /\ UNCHANGED <<rows, cache, flush, now, histories>>

\* passwd step 2: a request without the passwords is refused, but has used the
\* challenge.
PasswdStep2(r) ==
  LET u == task[r].username IN
  /\ At(r, "passwd", "challenge")
  /\ TakeChallenge(u)
  /\ \/ Finish(r)
     \/ Become(r, [task[r] EXCEPT !.pc = "check", !.challenge = challenges[u]])
  /\ UNCHANGED <<rows, cache, flush, now, owner, opens, ended>>

\* The new password, and no token: the user must log in again.
CheckPasswd(r) ==
  /\ At(r, "passwd", "check")
  /\ \E x \in SelectByName(task[r].username), p \in SentPasswords, new \in Passwords,
        c \in used :
       IF Verified(r, x, p, c)
       THEN Become(r, [task[r] EXCEPT !.pc = "write", !.row =
                       IF @ = NoRow THEN @ ELSE [@ EXCEPT !.password = new, !.token = Null]])
       ELSE Finish(r)
  /\ UNCHANGED shared

-----------------------------------------------------------------------------
(* addUser, deleteUser and topUpUser: only with the administrator's token.  *)

IsAdmin(login) == login # NoRow /\ login.authority = USER_AUTHORITY_ADMIN

\* Mutant: the administrator may delete whom they like.
MayDeleteAnyone(login, x) == IsAdmin(login)

MayDelete(login, x) == IsAdmin(login) /\ x.authority <= USER_AUTHORITY_LONG

\* The row of the request's own user; addUser looks at it later.
LoadLogin(r) ==
  LET op == task[r].op IN
  /\ task[r].pc = "load" /\ op \in {"add", "delete", "topup"}
  /\ \E x \in SelectByToken(task[r].token) :
       IF \/ op = "delete" /\ ~ MayDelete(x, task[r].row)
          \/ op = "topup" /\ ~ IsAdmin(x)
       THEN Finish(r)
       ELSE Become(r, [task[r] EXCEPT !.login = x, !.pc =
                         IF op = "delete" THEN "remove" ELSE "target"])
  /\ UNCHANGED shared

MayAdd(login, authority) ==
  /\ IsAdmin(login)
  /\ authority \in USER_AUTHORITY_TEMP..USER_AUTHORITY_LONG

\* addUser: the name must be free.
AddTarget(r) ==
  /\ At(r, "add", "target")
  /\ \E u \in Users : \E x \in SelectByName(u) :
       \E new \in [username : {u}, password : Passwords,
                   binduser : Phones \cup {Null}, authority : Authorities,
                   timeOfValidity : Times, remainOpen : RemainOpens,
                   token : {Null}] :
         IF x = NoRow /\ MayAdd(task[r].login, new.authority)
         THEN Become(r, [task[r] EXCEPT !.pc = "insert", !.row = new])
         ELSE Finish(r)
  /\ UNCHANGED shared

AddInsert(r) ==
  /\ At(r, "add", "insert")
  /\ InsertRow(task[r].row)
  /\ Finish(r)
  /\ UNCHANGED <<challenges, cache, flush, now, histories>>

\* deleteUser: the user must exist.
DeleteTarget(r) ==
  /\ At(r, "delete", "target")
  /\ \E u \in Users : \E x \in SelectByName(u) :
       IF x = NoRow
       THEN Finish(r)
       ELSE Become(r, [task[r] EXCEPT !.pc = "load", !.row = x])
  /\ UNCHANGED shared

DeleteRemove(r) ==
  /\ At(r, "delete", "remove")
  /\ DeleteRow(task[r].row)
  /\ Finish(r)
  /\ UNCHANGED <<challenges, cache, flush, now, histories>>

\* topUpUser: a date that is over, or not before the administrator's own, is
\* ignored; the number of openings replaces the old one.
TopUp(x, login, time, remain) ==
  [x EXCEPT !.remainOpen = remain,
            !.timeOfValidity = IF time > now /\ time < login.timeOfValidity
                               THEN time ELSE @]

TopUpTarget(r) ==
  /\ At(r, "topup", "target")
  /\ \E u \in Users : \E x \in SelectByName(u) :
       IF x = NoRow
       THEN Finish(r)
       ELSE \E time \in Times, remain \in RemainOpens :
              Become(r, [task[r] EXCEPT !.pc = "write",
                                        !.row = TopUp(x, task[r].login, time, remain)])
  /\ UNCHANGED shared

-----------------------------------------------------------------------------
(* Opening the door: canUserOpenDoor, then what the door's controller does  *)
(* with its answer, then userOpenDoor.                                      *)

RemainOpen(x) == IF x = NoRow THEN 0 ELSE x.remainOpen

\* m_cache_mutex is held by writeCache from its start to its end.
CacheFree == flush.pc \in {"idle", "expire"}

Quota(r) ==
  /\ At(r, "open", "quota")
  /\ \E x \in SelectByToken(task[r].token) :
       Become(r, [task[r] EXCEPT !.row = x, !.pc =
                  IF RemainOpen(x) < 0 THEN "count" ELSE "lookup"])
  /\ UNCHANGED shared

\* The mutex protects the search only: the entry found is read after it.
LookUp(r) ==
  /\ At(r, "open", "lookup")
  /\ CacheFree
  /\ IF task[r].token \in DOMAIN cache
     THEN Become(r, [task[r] EXCEPT !.pc = "entry"])
     ELSE IF RemainOpen(task[r].row) > 0
          THEN Become(r, [task[r] EXCEPT !.pc = "count"])
          ELSE Finish(r)
  /\ UNCHANGED shared

\* Once writeCache has erased the entry, what is read there is anything.
ReadEntry(r) ==
  /\ task[r].op = "open"
  /\ \/ task[r].pc = "freed"
     \/ task[r].pc = "entry"
        /\ RemainOpen(task[r].row) - cache[task[r].token] > 0
  /\ Become(r, [task[r] EXCEPT !.pc = "count"])
  /\ UNCHANGED shared

ReadEntryUsedUp(r) ==
  /\ task[r].op = "open"
  /\ \/ task[r].pc = "freed"
     \/ task[r].pc = "entry"
        /\ RemainOpen(task[r].row) - cache[task[r].token] <= 0
  /\ Finish(r)
  /\ UNCHANGED shared

\* The controller opens the door for administrators only.
RefuseOpen(r) ==
  /\ At(r, "open", "count")
  /\ Finish(r)
  /\ UNCHANGED shared

Opener(t) == IF t = Null THEN Null ELSE owner[t]

\* The door is open; userOpenDoor counts it.
Count(r) ==
  LET t == task[r].token IN
  /\ At(r, "open", "count")
  /\ CacheFree
  /\ opens[Opener(t)] < MaxOpens
  /\ cache' = IF t \in DOMAIN cache THEN [cache EXCEPT ![t] = @ + 1]
              ELSE Insert(cache, t, 1)
  /\ opens' = [opens EXCEPT ![Opener(t)] = @ + 1]
  /\ Finish(r)
  /\ UNCHANGED <<rows, challenges, flush, now, owner, used, ended>>

-----------------------------------------------------------------------------
(* writeCache, called by the minute timer and before a reboot.              *)

FlushBegin ==
  /\ flush.pc = "idle"
  /\ \E timer \in BOOLEAN :
       flush' = [flush EXCEPT !.pc = "scan", !.timer = timer]
  /\ UNCHANGED <<rows, challenges, cache, now, task, histories>>

\* The entry is gone, also for a request that has found it before.
EraseEntry(t) ==
  /\ cache' = Erase(cache, t)
  /\ task' = [r \in Requests |->
                IF task[r].pc = "entry" /\ task[r].token = t
                THEN [task[r] EXCEPT !.pc = "freed"] ELSE task[r]]

\* A row without limit, used up, or with another token is left alone.
FlushRead ==
  /\ flush.pc = "scan"
  /\ \E t \in DOMAIN cache : \E x \in SelectByToken(t) :
       IF RemainOpen(x) > 0
       THEN /\ flush' = [flush EXCEPT !.pc = "write", !.token = t, !.row = x]
            /\ UNCHANGED <<cache, task>>
       ELSE EraseEntry(t) /\ UNCHANGED flush
  /\ UNCHANGED <<rows, challenges, now, histories>>

\* Mutant: the entry stays in the cache.
FlushWriteKeepsEntry ==
  /\ flush.pc = "write"
  /\ UpdateRow([flush.row EXCEPT !.remainOpen = @ - cache[flush.token]])
  /\ flush' = [flush EXCEPT !.pc = "scan", !.token = Null, !.row = NoRow]
  /\ UNCHANGED <<challenges, cache, now, task, histories>>

FlushWrite ==
  /\ flush.pc = "write"
  /\ UpdateRow([flush.row EXCEPT !.remainOpen = @ - cache[flush.token]])
  /\ EraseEntry(flush.token)
  /\ flush' = [flush EXCEPT !.pc = "scan", !.token = Null, !.row = NoRow]
  /\ UNCHANGED <<challenges, now, histories>>

FlushEnd ==
  /\ flush.pc = "scan" /\ DOMAIN cache = {}
  /\ flush' = IF flush.timer THEN [flush EXCEPT !.pc = "expire"] ELSE NoFlush
  /\ UNCHANGED <<rows, challenges, cache, now, task, histories>>

\* The rest of timerCallback drops the challenges older than a minute.
ExpireChallenges ==
  /\ flush.pc = "expire"
  /\ \E old \in SUBSET DOMAIN challenges :
       challenges' = Restrict(challenges, DOMAIN challenges \ old)
  /\ flush' = NoFlush
  /\ UNCHANGED <<rows, cache, now, task, histories>>

Tick ==
  /\ now < MaxTime
  /\ now' = now + 1
  /\ UNCHANGED <<rows, challenges, cache, flush, task, histories>>

Request(r) ==
  \/ Begin(r) \/ Verify(r) \/ Write(r)
  \/ Find(r) \/ LoginStep1(r) \/ LoginStep2(r) \/ Session(r) \/ CheckLogin(r)
  \/ LoadOwnRow(r) \/ PasswdStep1(r) \/ PasswdStep2(r) \/ CheckPasswd(r)
  \/ LoadLogin(r) \/ AddTarget(r) \/ AddInsert(r)
  \/ DeleteTarget(r) \/ DeleteRemove(r) \/ TopUpTarget(r)
  \/ Quota(r) \/ LookUp(r) \/ ReadEntry(r) \/ ReadEntryUsedUp(r)
  \/ RefuseOpen(r) \/ Count(r)

WriteCache == FlushBegin \/ FlushRead \/ FlushWrite \/ FlushEnd

Next ==
  \/ \E r \in Requests : Request(r)
  \/ WriteCache \/ ExpireChallenges \/ Tick

Spec == Init /\ [][Next]_vars

-----------------------------------------------------------------------------
(* What must hold.                                                          *)

\* Whatever requests read, change and write back at the same time, the table
\* keeps an administrator, nobody else has an administrator's authority, and a
\* row is the row of the user it is named after (deleteUser, addUser and the
\* whole-row UPDATE, UserManager.cpp:459-594).
AdminKept ==
  /\ Admin \in DOMAIN rows
  /\ \A u \in DOMAIN rows :
       /\ rows[u].username = u
       /\ rows[u].authority = USER_AUTHORITY_ADMIN <=> u = Admin

\* A token in a user's row was handed out to that user: no request writes the
\* row it read under one user's token into another user's (login step 2 finds
\* the row by the token it is sent, UserManager.cpp:329-346).
TokensOwn ==
  \A u \in DOMAIN rows :
    rows[u].token # Null =>
      rows[u].token \in DOMAIN owner /\ owner[rows[u].token] = u

\* A challenge verifies one password: once a request has taken it, no other can,
\* though login and passwd of a user share one entry (UserManager.cpp:321, 426).
ChallengeOnce ==
  \A u \in DOMAIN challenges : challenges[u] \notin used

\* While nobody tops up or adds users, no row is charged for more openings than
\* its user made and, with the empty token, anybody: those are charged to someone
\* who is not logged in.  The cache is charged once, no user pays for another's
\* session, and the rows other requests write back are not charged for what they
\* did not see (UserManager.cpp:73-93).
NotOvercharged ==
  \A u \in DOMAIN rows \cap DOMAIN InitRows :
    InitRows[u].remainOpen - rows[u].remainOpen <= opens[u] + opens[Null]

\* "when change password successfully, need to login again"
\* (UserManager.cpp:442): the token with which the password was changed is in
\* no row any more.
LoginAgainAfterPasswd ==
  \A u \in DOMAIN rows : rows[u].token \notin ended
=============================================================================
