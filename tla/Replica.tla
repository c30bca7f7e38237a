------------------------------ MODULE Replica ------------------------------
(***************************************************************************)
(* One embedding replica and its clients (embedding/replica.py and         *)
(* embedding/client.py).  A call encodes its prompts as separate requests  *)
(* of vLLM's engine, named after the call's id and the prompt's position,  *)
(* and gathers their embeddings; the engine finishes them in any order.    *)
(* Calls run interleaved, may carry the same id, and may be abandoned.     *)
(***************************************************************************)
EXTENDS Integers, FiniteSets

CONSTANTS
  Calls,        \* the Encode calls of the clients
  Ids,          \* the request ids clients choose
  MaxPrompts,   \* bound: prompts of a call
  MaxAborts,    \* bound: Abort calls
  None          \* no id was given, no answer yet, no call

Verdicts == {"not ready", "wrong model", "wrong count", "no result", "ok", "exception"}

ReplicaAssumption == None \notin Calls \cup Ids \cup Verdicts /\ MaxPrompts \in Nat

VARIABLES
  server,       \* the gRPC server: "loading", "serving" or "stopped"
  ready,        \* InferenceServicer.ready
  call,         \* call -> its request, its phase and what it was answered
  task,         \* call -> position -> its _encode_one_prompt task
  engine,       \* the engine's requests: <<id, position>> -> the call they are of
  aborted       \* the ids a client was told are aborted, while in the engine

vars == <<server, ready, call, task, engine, aborted>>

Positions == 0..MaxPrompts - 1
EngineIds == (Ids \cup Calls) \X Positions
Requests == [id : Ids \cup {None}, n : 0..MaxPrompts, given : 0..MaxPrompts,
             model : BOOLEAN]
Answers == {None} \cup Verdicts

\* request.request_id or a fresh uuid
Id(c) == IF call[c].request.id = None THEN c ELSE call[c].request.id
Prompts(c) == 0..call[c].request.n - 1

Init ==
  /\ server = "loading" /\ ready = FALSE
  /\ call \in [Calls -> {[request |-> q, phase |-> "new", answer |-> None,
                           embeddings |-> {}] : q \in Requests}]
  /\ task = [c \in Calls |-> [i \in Positions |-> "none"]]
  /\ engine = [e \in EngineIds |-> None]
  /\ aborted = {}

-----------------------------------------------------------------------------
(* InferenceServer.                                                        *)

\* The servicer is started before the server.
Open ==
  /\ server = "loading"
  /\ server' = "serving" /\ ready' = TRUE
  /\ UNCHANGED <<call, task, engine, aborted>>

Abandoned(c) == [call[c] EXCEPT !.phase = "abandoned"]
Freed(C) == [e \in EngineIds |-> IF engine[e] \in C THEN None ELSE engine[e]]
Cancelled(C) == [c \in Calls |-> IF c \in C THEN [i \in Positions |-> "none"]
                                 ELSE task[c]]

\* stop(0) cancels the calls that run, then the engine is shut down.
Stop ==
  /\ server = "serving"
  /\ server' = "stopped"
  /\ call' = [c \in Calls |-> IF call[c].phase \in {"sent", "encoding"}
                              THEN Abandoned(c) ELSE call[c]]
  /\ task' = Cancelled(Calls) /\ engine' = Freed(Calls)
  /\ UNCHANGED <<ready, aborted>>

-----------------------------------------------------------------------------
(* InferenceClient.embed and InferenceServicer.Encode.                     *)

Send(c) ==
  /\ call[c].phase = "new" /\ server = "serving"
  /\ call' = [call EXCEPT ![c].phase = "sent"]
  /\ UNCHANGED <<server, ready, task, engine, aborted>>

Answered(c, answer) ==
  [call EXCEPT ![c].phase = "answered", ![c].answer = answer]

Refusal(q) == CASE ~ready         -> "not ready"
                [] ready /\ ~q.model -> "wrong model"
                [] ready /\ q.model /\ q.given # q.n -> "wrong count"
                [] OTHER          -> None

EncodeStarts(c) ==
  /\ server = "serving" /\ call[c].phase = "sent"
  /\ LET refusal == Refusal(call[c].request)
     IN  IF refusal # None
         THEN call' = Answered(c, refusal) /\ UNCHANGED task
         ELSE /\ call' = [call EXCEPT ![c].phase = "encoding"]
              /\ task' = [task EXCEPT ![c] = [i \in Positions |->
                   IF i \in Prompts(c) THEN "created" ELSE "none"]]
  /\ UNCHANGED <<server, ready, engine, aborted>>

\* A task's first step: the engine refuses an id it is working on.
Submit(c, i) ==
  /\ task[c][i] = "created"
  /\ IF engine[<<Id(c), i>>] = None
     THEN /\ engine' = [engine EXCEPT ![<<Id(c), i>>] = c]
          /\ task' = [task EXCEPT ![c][i] = "running"]
     ELSE /\ task' = [task EXCEPT ![c][i] = "failed"]
          /\ UNCHANGED engine
  /\ UNCHANGED <<server, ready, call, aborted>>

\* The engine is done with a request: an embedding, nothing, or an exception.
Complete(c, i) ==
  /\ task[c][i] = "running"
  /\ engine' = [engine EXCEPT ![<<Id(c), i>>] = None]
  /\ \E outcome \in {"embedded", "empty", "failed"} :
       task' = [task EXCEPT ![c][i] = outcome]
  /\ UNCHANGED <<server, ready, call, aborted>>

\* wrong: prompts without an embedding are passed over
GatherSkippingEmpty(c) ==
  /\ call[c].phase = "encoding"
  /\ IF Prompts(c) = {} \/ \E i \in Prompts(c) : task[c][i] = "failed"
     THEN call' = Answered(c, "exception")
     ELSE /\ \A i \in Prompts(c) : task[c][i] \in {"embedded", "empty"}
          /\ call' = [Answered(c, "ok") EXCEPT ![c].embeddings =
                        {i \in Prompts(c) : task[c][i] = "embedded"}]
  /\ UNCHANGED <<server, ready, task, engine, aborted>>

\* asyncio.gather: the first exception is raised at once, the other tasks go
\* on; otherwise all are waited for.  embedding_tensors[0] raises on an empty
\* list.  The embeddings are listed in the order of the prompts.
Gather(c) ==
  /\ call[c].phase = "encoding"
  /\ \/ /\ \/ \E i \in Prompts(c) : task[c][i] = "failed"
           \/ Prompts(c) = {}
        /\ call' = Answered(c, "exception")
     \/ /\ Prompts(c) # {}
        /\ \A i \in Prompts(c) : task[c][i] \in {"embedded", "empty"}
        /\ call' = IF \E i \in Prompts(c) : task[c][i] = "empty"
                   THEN Answered(c, "no result")
                   ELSE [Answered(c, "ok") EXCEPT ![c].embeddings = Prompts(c)]
  /\ UNCHANGED <<server, ready, task, engine, aborted>>

\* The client goes away: the handler and the tasks of gather are cancelled,
\* and vLLM's encode aborts the request of a cancelled task.
Abandon(c) ==
  /\ call[c].phase \in {"sent", "encoding"}
  /\ call' = [call EXCEPT ![c] = Abandoned(c)]
  /\ task' = Cancelled({c}) /\ engine' = Freed({c})
  /\ UNCHANGED <<server, ready, aborted>>

\* Abort hands the call's id to the engine, which has no request of that name,
\* and reports success.  (An Abort that comes when no prompt of the call is in
\* the engine changes nothing either, and is left out.)
Abort(c) ==
  /\ server = "serving" /\ \E e \in EngineIds : engine[e] = c
  /\ Cardinality(aborted) < MaxAborts
  /\ aborted' = aborted \cup {c}
  /\ UNCHANGED <<server, ready, call, task, engine>>

Next ==
  \/ Open \/ Stop
  \/ \E c \in Calls :
       \/ Send(c) \/ EncodeStarts(c) \/ Gather(c) \/ Abandon(c) \/ Abort(c)
       \/ \E i \in Positions : Submit(c, i) \/ Complete(c, i)

Spec == Init /\ [][Next]_vars

\* The event loop runs every task that can run, and the engine answers.
Fairness ==
  \A c \in Calls :
    /\ WF_vars(EncodeStarts(c)) /\ WF_vars(Gather(c))
    /\ \A i \in Positions : WF_vars(Submit(c, i)) /\ WF_vars(Complete(c, i))
FairSpec == Spec /\ Fairness

-----------------------------------------------------------------------------

TypeOK ==
  /\ server \in {"loading", "serving", "stopped"} /\ ready \in BOOLEAN
  /\ \A c \in Calls :
       /\ call[c].phase \in {"new", "sent", "encoding", "answered", "abandoned"}
       /\ call[c].answer \in Answers
  /\ engine \in [EngineIds -> Calls \cup {None}]
  /\ aborted \subseteq Calls

\* A call answered without an error holds one embedding for each of its own
\* prompts, whatever other call was given the same id: embed accepts it.
AnswersAreComplete ==
  \A c \in Calls : call[c].answer = "ok" =>
    /\ call[c].request.given = call[c].request.n
    /\ call[c].embeddings = Prompts(c) /\ Prompts(c) # {}

\* The engine works for calls that wait for it, or for what a failed prompt
\* left of its call: never for one that was abandoned or fully answered.
WorkHasACaller ==
  \A e \in EngineIds : engine[e] # None =>
    \/ call[engine[e]].phase = "encoding"
    \/ call[engine[e]].answer = "exception"

\* Two tasks that the engine runs are two of its requests.
TasksAreDistinctRequests ==
  \A c \in Calls : \A i \in Positions :
    task[c][i] = "running" <=> engine[<<Id(c), i>>] = c

\* The replica opens its port with the engine loaded, so that no client is
\* ever told that the model is not ready.
NeverNotReady == \A c \in Calls : call[c].answer # "not ready"

\* A call that reached the replica is answered or given up.
CallsEnd ==
  \A c \in Calls :
    call[c].phase = "sent" ~> call[c].phase \in {"answered", "abandoned"}

\* Once an Abort has reported success nothing of the call is in the engine.
AbortStopsTheCall ==
  \A c \in aborted : \A e \in EngineIds : engine[e] # c
=============================================================================
