----------------------------- MODULE Connections -----------------------------
(***************************************************************************)
(* What CRegServer promises about a device connection: it is either listed *)
(* (waiting for data), handled by exactly one task, or gone; whatever a    *)
(* peer sends on a listed connection is eventually handled.  SelectLoop    *)
(* shows that the accept thread, the select thread, the pool's tasks and   *)
(* the inner socket between them keep the promise.                         *)
(***************************************************************************)

CONSTANT Socks       \* addresses of the connections' socket objects

VARIABLES
  conn,              \* the state of the connection at each address
  waiting            \* connections with something to read: data or an end

connVars == <<conn, waiting>>

States == {"free", "listed", "handled", "lost"}

ConnTypeOK ==
  /\ conn \in [Socks -> States]
  /\ waiting \subseteq Socks

ConnInit ==
  /\ conn = [s \in Socks |-> "free"]
  /\ waiting = {}

Move(s, from, to) ==
  /\ conn[s] = from
  /\ conn' = [conn EXCEPT ![s] = to]

Open(s) == Move(s, "free", "listed") /\ UNCHANGED waiting

Send(s) ==
  /\ conn[s] \in {"listed", "handled"}
  /\ waiting' = waiting \cup {s}
  /\ UNCHANGED conn

Handle(s) == s \in waiting /\ Move(s, "listed", "handled") /\ UNCHANGED waiting

Read(s) ==
  /\ conn[s] = "handled"
  /\ waiting' = waiting \ {s}
  /\ UNCHANGED conn

Release(s) == Move(s, "handled", "listed") /\ UNCHANGED waiting

Close(s) ==
  /\ \/ Move(s, "handled", "free")
     \/ Move(s, "listed", "free")
  /\ waiting' = waiting \ {s}

\* No thread was left to handle the connection.
Lose(s) == s \in waiting /\ Move(s, "listed", "lost") /\ UNCHANGED waiting

ConnNext ==
  \E s \in Socks :
    \/ Open(s) \/ Send(s) \/ Handle(s) \/ Read(s) \/ Release(s) \/ Close(s) \/ Lose(s)

ConnSpec == ConnInit /\ [][ConnNext]_connVars

\* What a peer sent is read, unless the server closes the connection first.
ConnFairSpec == ConnSpec /\ \A s \in Socks : WF_connVars(Handle(s))
=============================================================================
