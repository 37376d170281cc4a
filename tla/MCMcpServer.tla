------------------------------ MODULE MCMcpServer ------------------------------
(* Small instances of McpServer for TLC. *)
EXTENDS McpServer, TLC

CONSTANTS r1, k1

\* deploy_service: idempotent, gated, and its answer carries a credential.
Deploy(k, confirm) ==
  [tool |-> [idempotent |-> TRUE, covered |-> TRUE, gated |-> TRUE, secret |-> TRUE],
   request |-> r1, key |-> k, confirm |-> confirm, valid |-> TRUE, path |-> TRUE]

\* The same operation asked for again with the agent's key, in the same process or
\* in another one; a call refused at the confirm gate.
RepeatArgs == {Deploy(k1, TRUE), Deploy(NoKey, FALSE)}

\* Calls that the server itself repeats: after a drop, or after a wait.
RetryArgs == {Deploy(NoKey, TRUE), Deploy(k1, TRUE)}

LongRetryAfter == {600}

McpSymmetry == Permutations(Calls) \cup Permutations(UUIDs) \cup Permutations(Servers)
===============================================================================
