----------------------------- MODULE RpcServer -----------------------------
(***************************************************************************)
(* CRPCServer: requests are queued with the address of the socket they     *)
(* came by, and one thread hands each to a CRPCClient that runs in a pool. *)
(* When the pool is full TaskManager::start throws, which ends that        *)
(* thread: nothing is served any more.                                     *)
(***************************************************************************)
EXTENDS Naturals, FiniteSets, Sequences

CONSTANTS
  Requests,      \* requests the server may send, each at most once
  MaxThreads,    \* threads of the pool (16)
  Ports          \* what identifies a connection: the address of its socket

VARIABLES
  queue,         \* m_queue
  serving,       \* does the thread run?
  client         \* where the client of each request stands

rpcVars == <<queue, serving, client>>

\* Clients at work; startUpdate has points of its own.
Stage == {"run", "set", "delete", "new", "finish", "send"}

Client == [at : {"unsent", "done"}] \cup [at : Stage \cup {"queued"}, id : Ports]

RpcTypeOK ==
  /\ queue \in Seq(Requests) /\ serving \in BOOLEAN
  /\ client \in [Requests -> Client]

RpcInit ==
  /\ queue = <<>> /\ serving = TRUE
  /\ client = [r \in Requests |-> [at |-> "unsent"]]

At(r, stage) == client[r].at = stage
Move(r, stage) == client' = [client EXCEPT ![r].at = stage]
Finish(r) == client' = [client EXCEPT ![r] = [at |-> "done"]]
Running == {r \in Requests : client[r].at \in Stage}

AddRequest(r, id) ==
  /\ At(r, "unsent")
  /\ queue' = Append(queue, r)
  /\ client' = [client EXCEPT ![r] = [at |-> "queued", id |-> id]]
  /\ UNCHANGED serving

\* run: the request at the head of the queue; it is lost when there is no thread
\* left for it.
Serve ==
  /\ serving /\ queue # <<>>
  /\ LET r == Head(queue)
     IN  IF Cardinality(Running) < MaxThreads
         THEN Move(r, "run") /\ UNCHANGED serving
         ELSE Finish(r) /\ serving' = FALSE
  /\ queue' = Tail(queue)

\* The client has a response, or none: an exception, or the answer to a
\* keep-alive.
Respond(r) == At(r, "run") /\ Move(r, "finish") /\ UNCHANGED <<queue, serving>>
NoResponse(r) == At(r, "run") /\ Finish(r) /\ UNCHANGED <<queue, serving>>
=============================================================================
