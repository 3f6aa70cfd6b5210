--------------------------- MODULE MCUserManager ---------------------------
(* Instances of UserManager for TLC. *)
EXTENDS UserManager, TLC

CONSTANTS u1, p1, p2, ph1, t1, t2

Row(u, level, remain, t) ==
  [username |-> u, password |-> p1, binduser |-> ph1, authority |-> level,
   timeOfValidity |-> MaxTime, remainOpen |-> remain, token |-> t]

\* The administrator and a user with two openings, both logged in.
MCRows ==
  [u \in {Admin, u1} |->
     IF u = Admin THEN Row(Admin, USER_AUTHORITY_ADMIN, -1, t1)
     ELSE Row(u1, USER_AUTHORITY_LONG, 2, t2)]

Symmetry ==
  Permutations(Requests) \cup Permutations(Challenges)
    \cup Permutations(Tokens \ {t1, t2})
=============================================================================
