\* Two requests at a time add, delete and top up users, while statements may
\* fail and users run out of validity.
SPECIFICATION Spec
CONSTANTS
  Requests = {r1, r2}
  Ops = {"add", "delete", "topup", "logout"}
  u1 = u1
  p1 = p1
  p2 = p2
  ph1 = ph1
  t1 = t1
  t2 = t2
  Users = {Admin, u1}
  Admin = Admin
  Passwords = {p1}
  Phones = {ph1}
  Tokens = {t1, t2}
  Challenges = {c1}
  RemainOpens = {1}
  InitRows <- MCRows
  MaxTime = 1
  MaxOpens = 0
  DbMayFail = TRUE
  Null = Null
SYMMETRY Symmetry
INVARIANTS
  AdminKept
\* In the end every token may be gone.
CHECK_DEADLOCK FALSE
