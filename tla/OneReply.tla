------------------------------- MODULE OneReply -------------------------------
(***************************************************************************)
(* What the HTTP side of the transmit server promises for each request it  *)
(* relays to a device: one outcome, decided once; an answer only after the *)
(* device the request was passed to has given one.                         *)
(***************************************************************************)

CONSTANT Reqs

VARIABLES
  outcome,     \* what has become of each request
  answers      \* requests the device has answered

replyVars == <<outcome, answers>>

Outcomes ==
  {"looking",      \* the device's connection is being looked up
   "asked",        \* the request is on its way to the device
   "answered", "404", "timeout",
   "aborted"}      \* sending to the device failed: the HTTP connection is dropped

ReplyTypeOK ==
  /\ outcome \in [Reqs -> Outcomes]
  /\ answers \subseteq Reqs

ReplyInit ==
  /\ outcome = [r \in Reqs |-> "looking"]
  /\ answers = {}

Become(r, from, to) ==
  /\ outcome[r] = from
  /\ outcome' = [outcome EXCEPT ![r] = to]
  /\ UNCHANGED answers

NotFound(r) == Become(r, "looking", "404")
Ask(r) == Become(r, "looking", "asked")
Answer(r) == r \in answers /\ Become(r, "asked", "answered")
GiveUp(r) == Become(r, "asked", "timeout")
Abort(r) == Become(r, "asked", "aborted")

DeviceAnswers(r) ==
  /\ outcome[r] # "looking"
  /\ answers' = answers \cup {r}
  /\ UNCHANGED outcome

Settle(r) == NotFound(r) \/ Ask(r) \/ Answer(r) \/ GiveUp(r) \/ Abort(r)

ReplyNext == \E r \in Reqs : Settle(r) \/ DeviceAnswers(r)

ReplySpec == ReplyInit /\ [][ReplyNext]_replyVars

\* Every request comes to an end.
ReplyFairSpec == ReplySpec /\ \A r \in Reqs : WF_replyVars(Settle(r))
=============================================================================
