-------------------------- MODULE SafeRetryImplements --------------------------
(***************************************************************************)
(* SafeRetry implements RunOnce: connections, retries, Idempotency-Keys    *)
(* and the API's store together keep the promise made to the agent.        *)
(***************************************************************************)
EXTENDS SafeRetryInv

\* The agent's key stands for one operation; without it every call is one.
OperationOf(c) ==
  IF Keyed(args[c]) /\ args[c].key # NoKey THEN <<"key", args[c].key>> ELSE <<"call", c>>

RunOf(m) == <<m.call, m.try>>

OperationsOfCalls == ({"key"} \X AgentKeys) \cup ({"call"} \X Calls)

ASSUME NoneIsNotTold ==
  /\ None \notin Results
  /\ None \notin [operation: OperationsOfCalls, request: Requests]
  /\ None \notin [how: {"first"}, run: Calls \X Nat]

Asked ==
  [c \in Calls |->
    IF ~Dispatched(c) THEN None
    ELSE [operation |-> OperationOf(c), request |-> args[c].request]]

Performed ==
  {[operation |-> OperationOf(m.call), request |-> m.request, run |-> RunOf(m)] : m \in ran}

\* The replay note, or its absence, is what tells the agent whose run it was.
HowTold(c) ==
  IF result[c].answer.body = "empty" THEN "silent" ELSE IF result[c].note THEN "again" ELSE "first"

Told ==
  [c \in Calls |->
    IF result[c] = None THEN None
    ELSE IF result[c].ok THEN [how |-> HowTold(c), run |-> RunOf(result[c].answer.run)]
    ELSE [how |-> "failed", run |-> None]]

Promise ==
  INSTANCE RunOnce WITH
    Operations <- OperationsOfCalls,
    Runs <- Calls \X (1..MaxAttempts),
    Nothing <- None,
    asked <- Asked,
    performed <- Performed,
    told <- Told

\* Every behaviour of the retrying system is one that RunOnce allows (README "Safe
\* retries": at most once, the first answer again, and a note when it is a replay).
KeepsThePromise == Promise!Spec
===============================================================================
