------------------------------ MODULE MCSafeRetry ------------------------------
(* Small instances of SafeRetry for TLC. *)
EXTENDS SafeRetryImplements, ToolCatalog, TLC

CONSTANTS r1, r2, r3, r4, k1, k2

\* The class of a tool of the catalogue.
ClassOf(name) ==
  LET tool == CHOOSE t \in WriteTools : t.name = name
  IN  [idempotent |-> tool.idempotent,
       covered |-> tool.method = "POST" /\ isIdempotentPostPath([i \in DOMAIN tool.path |-> <<tool.path[i]>>]),
       gated |-> tool.kind \in GatedKinds,
       secret |-> tool.secret]

KeyedTool == ClassOf("deploy_service")
PlainTool == ClassOf("set_service_hostname")
GatedTool == ClassOf("destroy_service")

Good(tool, request, k) ==
  [tool |-> tool, request |-> request, key |-> k, confirm |-> TRUE, valid |-> TRUE, path |-> TRUE]

\* Calls that share the agent's key, for the same request or for another one.
SharedKeyArgs == {Good(KeyedTool, r1, k1), Good(KeyedTool, r2, k1)}

\* Calls without a key, on a route that takes one and on one that does not.
NoKeyArgs == {Good(KeyedTool, r1, NoKey), Good(PlainTool, r2, NoKey)}

MixedArgs == {Good(KeyedTool, r1, k1), Good(KeyedTool, r1, NoKey), Good(PlainTool, r3, NoKey)}

\* Every combination of arguments the handler tells apart.
AllArgs ==
  {[tool |-> t[1], request |-> t[2], key |-> k, confirm |-> b[1], valid |-> b[2], path |-> b[3]] :
     t \in {<<KeyedTool, r1>>, <<PlainTool, r3>>, <<GatedTool, r4>>},
     k \in {k1, NoKey, BadKey}, b \in BOOLEAN \X BOOLEAN \X BOOLEAN}

\* And the same key for two requests.
PromiseArgs == AllArgs \cup {Good(KeyedTool, r2, k1)}

SomeRetryAfters == {NoRetryAfter, 1, 600}
LongRetryAfter == {600}

SafetySymmetry == Permutations(Calls) \cup Permutations(UUIDs)
===============================================================================
