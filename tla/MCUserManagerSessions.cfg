\* Two requests at a time log in, change passwords and open the door,
\* while the cache is written back.
SPECIFICATION Spec
CONSTANTS
  Requests = {r1, r2}
  Ops = {"login", "passwd", "open"}
  u1 = u1
  p1 = p1
  p2 = p2
  ph1 = ph1
  t1 = t1
  t2 = t2
  Users = {Admin, u1}
  Admin = Admin
  Passwords = {p1, p2}
  Phones = {ph1}
  Tokens = {t1, t2, t3}
  Challenges = {c1}
  RemainOpens = {1}
  InitRows <- MCRows
  MaxTime = 0
  MaxOpens = 1
  DbMayFail = FALSE
  Null = Null
SYMMETRY Symmetry
INVARIANTS
  TypeOK
  TokensOwn
  ChallengeOnce
  NotOvercharged
\* Tokens and challenges run out.
CHECK_DEADLOCK FALSE
