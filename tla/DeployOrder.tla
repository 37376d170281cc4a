------------------------------ MODULE DeployOrder ------------------------------
(***************************************************************************)
(* The two tools that take an order (tools/services-write.ts):             *)
(* deploy_service, a write tool of the factory, and check_order, a         *)
(* hand-written read that asks whether the same order would be accepted.   *)
(* Both validate the order before anything leaves.                         *)
(*                                                                         *)
(* An order is the JSON body.  A field is the set of the values given for  *)
(* it: {} when it is absent, a singleton otherwise.                        *)
(***************************************************************************)
EXTENDS WriteTool, Integers

CONSTANTS
  Sizes,   \* values of sizeGb an agent may try
  Others   \* categories outside the schema

VOLUME_MAX_GB == 2048

SKU_LESS_CATEGORIES == {"cloud-loadbalancer", "cloud-volume", "cloud-network"}

DEPLOY_CATEGORY ==
  {"server", "hosting", "proxy", "domain", "cloud-vm", "cloud-k8s"} \cup SKU_LESS_CATEGORIES

ASSUME OthersAreOther == Others \cap DEPLOY_CATEGORY = {}

\* What the rules tell apart in a text: "symbols" has no letter or digit, "word" has one.
Texts == {"empty", "blank", "symbols", "word"}

Optional(values) == {{}} \cup {{v} : v \in values}

Orders ==
  [category: Optional(DEPLOY_CATEGORY \cup Others),
   productId: Optional({"empty", "word"}), plan: Optional({"empty", "word"}),
   name: Optional(Texts), hostname: Optional(Texts),
   sizeGb: Optional(Sizes), memberServerIds: Optional(SUBSET {"empty", "word"})]

VARIABLES
  order,    \* the order the agent is about to place
  check,    \* how its last check_order ended
  deploy    \* how its last deploy_service ended

orderVars == <<order, check, deploy>>

-------------------------------------------------------------------------------

\* The object schema: each field on its own.
DeployFields(o) ==
  /\ o.category \subseteq DEPLOY_CATEGORY
  /\ "empty" \notin o.productId \cup o.plan \cup UNION o.memberServerIds
  /\ o.sizeGb \subseteq 1..VOLUME_MAX_GB

\* Mutant: a blank name gives way to the alias.
NetworkNameUnlessBlank(o) ==
  IF o.name \cap {"symbols", "word"} # {} THEN o.name ELSE o.hostname

\* name ?? hostname: a name that is there, even a blank one, hides the alias.
NetworkName(o) == IF o.name # {} THEN o.name ELSE o.hostname

\* Mutant: an empty list of members counts as one.
SomeListOfMembers(o) == o.memberServerIds # {}

HasMembers(o) == \E ids \in o.memberServerIds : ids # {}

\* The rules across fields: one per category without a SKU, one for all the others.
CategoryRules(o) ==
  /\ o.category = {"cloud-loadbalancer"} => HasMembers(o)
  /\ o.category = {"cloud-volume"} => o.sizeGb # {}
  /\ o.category = {"cloud-network"} =>
       /\ NetworkName(o) \notin {{}, {"empty"}, {"blank"}}
       /\ "word" \in NetworkName(o)
  /\ o.category \cap SKU_LESS_CATEGORIES = {} => o.productId # {} \/ o.plan # {}

DeployInput(o) == DeployFields(o) /\ CategoryRules(o)

DeployTool == [idempotent |-> TRUE, covered |-> TRUE, gated |-> TRUE, secret |-> TRUE]

\* deploy_service: the factory's handler with this schema; what it accepts goes out whole.
DeployService(key, confirm) ==
  /\ deploy' = [key |-> key,
                refusal |-> Refusal([tool |-> DeployTool, request |-> order, key |-> key,
                                     confirm |-> confirm, valid |-> DeployInput(order),
                                     path |-> TRUE])]
  /\ UNCHANGED <<order, check>>

\* Mutant: the check looks at each field on its own only.
CheckFieldsOnly(extras) ==
  /\ check' = [extras |-> extras,
               refusal |-> IF DeployFields(order) /\ ~extras THEN "NONE" ELSE "INVALID_INPUT"]
  /\ UNCHANGED <<order, deploy>>

\* check_order: no factory splits `confirm` or `idempotency_key` off here, so the
\* strict schema refuses a body that still has one of them.
CheckOrder(extras) ==
  /\ check' = [extras |-> extras,
               refusal |-> IF DeployInput(order) /\ ~extras THEN "NONE" ELSE "INVALID_INPUT"]
  /\ UNCHANGED <<order, deploy>>

NotCalled == "NOT_CALLED"

OrderInit ==
  /\ order \in Orders
  /\ check = [extras |-> FALSE, refusal |-> NotCalled]
  /\ deploy = [key |-> NoKey, refusal |-> NotCalled]

OrderNext ==
  \/ \E key \in AgentKeys \cup {NoKey, BadKey}, confirm \in BOOLEAN : DeployService(key, confirm)
  \/ \E extras \in BOOLEAN : CheckOrder(extras)

OrderSpec == OrderInit /\ [][OrderNext]_orderVars

-------------------------------------------------------------------------------
(* What must hold. *)

\* What POST /v1/services takes, as its callers in this repository know it: a load
\* balancer has members, a volume a size, a network a name, all else a product.
ApiRequires(o) ==
  /\ o.category \subseteq DEPLOY_CATEGORY /\ o.sizeGb \subseteq 1..VOLUME_MAX_GB
  /\ "empty" \notin o.productId /\ "empty" \notin o.plan
  /\ \A ids \in o.memberServerIds : "empty" \notin ids
  /\ \/ "cloud-loadbalancer" \in o.category /\ {} \notin o.memberServerIds /\ o.memberServerIds # {}
     \/ "cloud-volume" \in o.category /\ o.sizeGb # {}
     \/ /\ "cloud-network" \in o.category
        /\ \/ o.name = {"word"}
           \/ o.name = {} /\ o.hostname = {"word"}
     \/ ~(o.category \subseteq SKU_LESS_CATEGORIES) /\ o.productId \cup o.plan # {}
     \/ o.category = {} /\ o.productId \cup o.plan # {}

Left(call) == call.refusal = "NONE"

\* An order is placed, or put before the user for approval, only if the API can place
\* it, and none that it can place is refused for its fields: the two ways a rule across
\* fields can be wrong.  The second one was
\* (CHANGELOG: "deploy_service refused load balancers, volumes and networks").
ExactlyPlaceableOrdersLeave ==
  /\ Left(deploy) \/ deploy.refusal = "NOT_CONFIRMED" => ApiRequires(order)
  /\ deploy.refusal = "INVALID_INPUT" /\ deploy.key # BadKey => ~ApiRequires(order)

\* A check speaks for the deploy that follows it: an order the check let out is never
\* refused for its fields by deploy_service, and one it refused never leaves, though
\* the two handlers share no code but the schema ("takes the same body").
CheckSpeaksForDeploy ==
  /\ Left(check) /\ deploy.refusal = "INVALID_INPUT" => deploy.key = BadKey
  /\ check.refusal = "INVALID_INPUT" /\ ~check.extras => ~Left(deploy)
===============================================================================
