-------------------------- MODULE DeployOrder_proofs --------------------------
(***************************************************************************)
(* For any sizes and any keys: the schema shared by deploy_service and     *)
(* check_order is what the API requires, and both tools go by it.          *)
(***************************************************************************)
EXTENDS DeployOrder, TLAPS

\* The schema and the rules across fields say of every order what the API says.
LEMMA SchemaIsTheApis ==
  ASSUME NEW o \in Orders
  PROVE  DeployInput(o) <=> ApiRequires(o)
<1> DEFINE Sku == o.productId # {} \/ o.plan # {}
<1>1. DeployFields(o) <=>
        /\ o.category \subseteq DEPLOY_CATEGORY /\ o.sizeGb \subseteq 1..VOLUME_MAX_GB
        /\ "empty" \notin o.productId /\ "empty" \notin o.plan
        /\ \A ids \in o.memberServerIds : "empty" \notin ids
  BY DEF DeployFields
<1>2. HasMembers(o) <=> {} \notin o.memberServerIds /\ o.memberServerIds # {}
  <2>1. o.memberServerIds \in Optional(SUBSET {"empty", "word"})
    BY DEF Orders
  <2>2. CASE o.memberServerIds = {}
    BY <2>2 DEF HasMembers
  <2>3. ASSUME NEW ids \in SUBSET {"empty", "word"}, o.memberServerIds = {ids}
        PROVE  HasMembers(o) <=> {} \notin o.memberServerIds /\ o.memberServerIds # {}
    BY <2>3 DEF HasMembers
  <2> QED BY <2>1, <2>2, <2>3 DEF Optional
<1>3. (NetworkName(o) \notin {{}, {"empty"}, {"blank"}} /\ "word" \in NetworkName(o)) <=>
        (o.name = {"word"} \/ (o.name = {} /\ o.hostname = {"word"}))
  <2>1. o.name \in Optional(Texts) /\ o.hostname \in Optional(Texts)
    BY DEF Orders
  <2>2. NetworkName(o) \in Optional(Texts)
    BY <2>1 DEF NetworkName
  <2>3. "word" \in NetworkName(o) <=> NetworkName(o) = {"word"}
    BY <2>2 DEF Optional, Texts
  <2>4. NetworkName(o) = {"word"} <=> (o.name = {"word"} \/ (o.name = {} /\ o.hostname = {"word"}))
    BY DEF NetworkName
  <2>5. {"word"} \notin {{}, {"empty"}, {"blank"}}
    OBVIOUS
  <2> QED BY <2>3, <2>4, <2>5
<1>4. o.productId \cup o.plan # {} <=> Sku
  OBVIOUS
<1>5. o.category = {} \/ \E c \in DEPLOY_CATEGORY \cup Others : o.category = {c}
  BY DEF Orders, Optional
<1>6. CASE o.category = {}
  BY <1>1, <1>4, <1>6 DEF DeployInput, CategoryRules, ApiRequires
<1>7. CASE o.category = {"cloud-loadbalancer"}
  BY <1>1, <1>2, <1>7 DEF DeployInput, CategoryRules, ApiRequires, SKU_LESS_CATEGORIES
<1>8. CASE o.category = {"cloud-volume"}
  BY <1>1, <1>8 DEF DeployInput, CategoryRules, ApiRequires, SKU_LESS_CATEGORIES
<1>9. CASE o.category = {"cloud-network"}
  BY <1>1, <1>3, <1>9 DEF DeployInput, CategoryRules, ApiRequires, SKU_LESS_CATEGORIES
<1>10. ASSUME NEW c \in (DEPLOY_CATEGORY \cup Others) \ SKU_LESS_CATEGORIES, o.category = {c}
       PROVE  DeployInput(o) <=> ApiRequires(o)
  BY <1>1, <1>4, <1>10 DEF DeployInput, CategoryRules, ApiRequires, SKU_LESS_CATEGORIES
<1> QED BY <1>5, <1>6, <1>7, <1>8, <1>9, <1>10 DEF SKU_LESS_CATEGORIES

-------------------------------------------------------------------------------

\* What each handler's last answer says of the order at hand.
OrderInv ==
  /\ order \in Orders
  /\ check.refusal = "NONE" => DeployInput(order)
  /\ check.refusal = "INVALID_INPUT" /\ ~check.extras => ~DeployInput(order)
  /\ deploy.refusal \in {"NONE", "NOT_CONFIRMED"} => DeployInput(order)
  /\ deploy.refusal = "INVALID_INPUT" /\ deploy.key # BadKey => ~DeployInput(order)

LEMMA OrderInvHolds == OrderSpec => []OrderInv
<1>1. OrderInit => OrderInv
  BY DEF OrderInit, OrderInv, NotCalled
<1>2. OrderInv /\ [OrderNext]_orderVars => OrderInv'
  <2> SUFFICES ASSUME OrderInv, [OrderNext]_orderVars PROVE OrderInv'
    OBVIOUS
  <2>1. ASSUME NEW key \in AgentKeys \cup {NoKey, BadKey}, NEW confirm \in BOOLEAN,
               DeployService(key, confirm)
        PROVE  OrderInv'
    <3> DEFINE a == [tool |-> DeployTool, request |-> order, key |-> key,
                     confirm |-> confirm, valid |-> DeployInput(order), path |-> TRUE]
    <3>1. deploy' = [key |-> key, refusal |-> Refusal(a)] /\ order' = order /\ check' = check
      BY <2>1 DEF DeployService
    <3>2. InputAccepted(a) <=> DeployInput(order) /\ key # BadKey
      BY DEF InputAccepted, DomainArgumentsParse, KeyAccepted, DeployTool
    <3>3. Refusal(a) \in {"NONE", "NOT_CONFIRMED"} => InputAccepted(a)
      BY DEF Refusal
    <3>4. Refusal(a) = "INVALID_INPUT" => ~InputAccepted(a)
      BY DEF Refusal
    <3> QED BY <3>1, <3>2, <3>3, <3>4 DEF OrderInv, DeployInput, DeployFields, CategoryRules,
                                          HasMembers, NetworkName
  <2>2. ASSUME NEW extras \in BOOLEAN, CheckOrder(extras)
        PROVE  OrderInv'
    BY <2>2 DEF CheckOrder, OrderInv
  <2>3. CASE UNCHANGED orderVars
    BY <2>3 DEF orderVars, OrderInv
  <2> QED BY <2>1, <2>2, <2>3 DEF OrderNext
<1> QED BY <1>1, <1>2, PTL DEF OrderSpec

\* No order leaves that the API cannot place, and none it can place is refused for its
\* fields, whatever sizes, categories and keys the agent tries.
THEOREM PlaceableOrdersCorrect == OrderSpec => []ExactlyPlaceableOrdersLeave
<1>1. OrderInv => ExactlyPlaceableOrdersLeave
  BY SchemaIsTheApis DEF OrderInv, ExactlyPlaceableOrdersLeave, Left
<1> QED BY <1>1, OrderInvHolds, PTL

\* check_order and deploy_service never disagree about the fields of one order.
THEOREM CheckCorrect == OrderSpec => []CheckSpeaksForDeploy
<1>1. OrderInv => CheckSpeaksForDeploy
  BY DEF OrderInv, CheckSpeaksForDeploy, Left
<1> QED BY <1>1, OrderInvHolds, PTL
===============================================================================
