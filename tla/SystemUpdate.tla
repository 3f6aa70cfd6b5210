---------------------------- MODULE SystemUpdate ----------------------------
(***************************************************************************)
(* CSystemManager's update: startUpdate, run by the threads of requests,   *)
(* starts a timer whose thread runs handleUpdate once, which fetches the   *)
(* program, checks it and reboots the device.  What it reads and writes    *)
(* there is left out: each step may go wrong, or throw where nothing       *)
(* catches it.                                                             *)
(***************************************************************************)
EXTENDS Naturals, FiniteSets

CONSTANT Timers      \* the timers startUpdate makes

ASSUME TimersAssumption == "null" \notin Timers /\ "deleted" \notin Timers

VARIABLES
  updating,    \* m_updating
  timer,       \* m_timer; "deleted" while it points to nothing
  job,         \* where the handler of each timer stands
  starting,    \* history: requests past the check of m_updating
  stuck,       \* history: m_updating was left set
  overlapped   \* history: two requests were past the check at a time

updateVars == <<updating, timer, job, starting, stuck, overlapped>>

Working == {"fetch", "verify"}
Rebooting == {"reboot", "stop", "rest"}
Busy(t) == job[t] \in {"start"} \cup Working \cup Rebooting

UpdateTypeOK(R) ==
  /\ updating \in BOOLEAN /\ stuck \in BOOLEAN /\ overlapped \in BOOLEAN
  /\ timer \in Timers \cup {"null", "deleted"}
  /\ job \in [Timers -> {"none", "start", "over"} \cup Working \cup Rebooting]
  /\ starting \subseteq R

\* No update runs; one that failed has left its timer.
UpdateInit ==
  /\ updating = FALSE /\ timer \in {"null"} \cup Timers
  /\ job = [t \in Timers |-> "none"]
  /\ starting = {} /\ stuck = FALSE /\ overlapped = FALSE

-----------------------------------------------------------------------------
(* startUpdate, step by step. *)

MayStart == ~ updating

Enter(r) ==
  /\ MayStart
  /\ starting' = starting \cup {r}
  /\ overlapped' = (overlapped \/ starting # {})
  /\ UNCHANGED <<updating, timer, job, stuck>>

\* m_updating is set, and stays set if the request names no version.
SetUpdating(r, versioned) ==
  /\ updating' = TRUE
  /\ starting' = IF versioned THEN starting ELSE starting \ {r}
  /\ stuck' = (stuck \/ ~ versioned)
  /\ UNCHANGED <<timer, job, overlapped>>

\* The old timer is deleted once its handler is through.
DeleteTimer ==
  /\ timer \in Timers => ~ Busy(timer)
  /\ timer # "deleted"
  /\ timer' = IF timer = "null" THEN "null" ELSE "deleted"
  /\ UNCHANGED <<updating, job, starting, stuck, overlapped>>

NewTimer(r) ==
  /\ \E t \in Timers :
       /\ ~ Busy(t) /\ timer' = t
       /\ job' = [job EXCEPT ![t] = "start"]
  /\ starting' = starting \ {r}
  /\ UNCHANGED <<updating, stuck, overlapped>>

-----------------------------------------------------------------------------
(* handleUpdate. *)

Step(t, from, to) == job[t] = from /\ job' = [job EXCEPT ![t] = to]

\* An update that is not wanted any more.
SkipUpdate(t) ==
  /\ ~ updating /\ Step(t, "start", "over")
  /\ UNCHANGED <<updating, timer, starting, stuck, overlapped>>

\* What Info says of the program is fetched, and it is looked at.
FetchInfo(t) ==
  /\ updating /\ Step(t, "start", "fetch")
  /\ UNCHANGED <<updating, timer, starting, stuck, overlapped>>

FetchProgram(t) ==
  /\ Step(t, "fetch", "verify")
  /\ UNCHANGED <<updating, timer, starting, stuck, overlapped>>

\* The checksum is the one Info gives.
Install(t) ==
  /\ Step(t, "verify", "reboot")
  /\ updating' = FALSE
  /\ UNCHANGED <<timer, starting, stuck, overlapped>>

\* What is missing or wrong: the settings, the login, a file, its contents, its
\* date, its checksum.
Fails(t) ==
  (updating /\ Step(t, "start", "over")) \/ Step(t, "fetch", "over") \/ Step(t, "verify", "over")

\* Mutant: the flag is not reset.
UpdateFailsSet(t) == Fails(t) /\ UNCHANGED <<updating, timer, starting, stuck, overlapped>>

UpdateFails(t) ==
  /\ Fails(t)
  /\ updating' = FALSE
  /\ UNCHANGED <<timer, starting, stuck, overlapped>>

\* An exception outside the try blocks: the connection, or the file system.
UpdateThrows(t) ==
  /\ Fails(t)
  /\ stuck' = TRUE
  /\ UNCHANGED <<updating, timer, starting, overlapped>>

-----------------------------------------------------------------------------
(* Properties. *)

\* m_updating is set as long as an update runs, of which there is one at a time,
\* and no longer; unless it was left set, by a request without version or an
\* exception, or requests overlapped (SystemManager.cpp:77-86).
UpdateFlag ==
  ~ overlapped =>
    /\ \A t \in Timers : job[t] \in {"start"} \cup Working => updating
    /\ updating => stuck \/ starting # {} \/ \E t \in Timers : job[t] \in {"start"} \cup Working
    /\ \A t, u \in Timers : Busy(t) /\ Busy(u) => t = u
=============================================================================
