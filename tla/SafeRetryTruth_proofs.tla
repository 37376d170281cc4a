------------------------ MODULE SafeRetryTruth_proofs ------------------------
(***************************************************************************)
(* What the agent is told is true, proved: a refusal by the API means that *)
(* nothing was run or will be (NoMeansNotRun), and a credential is shown   *)
(* once or its absence explained (CredentialShownOrExplained).             *)
(***************************************************************************)
EXTENDS SafeRetry_proofs

-------------------------------------------------------------------------------
(* NoMeansNotRun. *)

\* A call that has not gone out has no request anywhere.
LEMMA NotDispatchedNoneLeft ==
  ASSUME IInv, NEW c \in Calls, ~Dispatched(c)
  PROVE  NoneLeft(c)
BY DEF IInv, TypeOK, AttemptsAgree, Messages, Dispatched, NoneLeft

\* A dropped connection is not a word of the API.
LEMMA DroppedSaysNothing == ~SaysNo(Dropped)
BY DEF SaysNo, Do, EmptyAnswer, Dropped, Page, Failed, RefusalCodes

\* Nor is a page of the gateway.
LEMMA PagesSayNothing == ASSUME NEW a \in GatewayPages PROVE ~SaysNo(a)
<1>1. PICK status \in Statuses, body \in Bodies \ {"dropped"} :
        a = Page(status, body) /\ (body = "empty" => status # 200)
  BY DEF GatewayPages, Statuses, GATEWAY_STATUSES, Bodies
<1>2. Do(Page(status, body)).code \in {"HTTP_STATUS", "INVALID_RESPONSE", "TYPE_ERROR", "UNKNOWN"}
  BY <1>1 DEF Page, Do, EmptyAnswer, InvalidResponse, Failed, IsSuccessStatus, Bodies
<1>3. QED
  BY <1>1, <1>2 DEF SaysNo, RefusalCodes

\* The answer of a run is no refusal.
LEMMA DoneSaysNoNo == ASSUME NEW m, NEW body \in {"envelope", "empty"}, NEW replayed
                      PROVE  ~SaysNo(Done(m, body, replayed))
BY DEF SaysNo, Do, EmptyAnswer, Done, Succeeded, Failed, IsSuccessStatus, RefusalCodes

\* What is known of a call stays known as long as nothing about the call changes.
LEMMA QuietCall ==
  ASSUME NoIsTrue, NEW d \in Calls,
         phase'[d] = phase[d], args'[d] = args[d], sent'[d] = sent[d],
         transportRetries'[d] = transportRetries[d], inbox'[d] = inbox[d], result'[d] = result[d],
         \A m \in wire' \cup ran' : m.call = d => m \in wire \cup ran
  PROVE  /\ RetriesWithinLimit(d)'
         /\ (Dispatched(d) /\ NothingSpent(d) => LastAttemptOnly(d))'
<1>1. RetriesWithinLimit(d)'
  BY DEF NoIsTrue, RetriesWithinLimit, Dispatched
<1>2. ASSUME Dispatched(d)', NothingSpent(d)' PROVE LastAttemptOnly(d)'
  <2>1. LastAttemptOnly(d)
    BY <1>2 DEF NoIsTrue, Dispatched, NothingSpent
  <2>2. NoneLeft(d) => NoneLeft(d)'
    BY DEF NoneLeft
  <2>3. QED
    BY <2>1, <2>2 DEF LastAttemptOnly, SaysNo
<1>3. QED
  BY <1>1, <1>2

\* A fetch() of call c: alone on its way when nothing was left of the call before.
LEMMA SendKeepsNoTrue ==
  ASSUME IInv, NoIsTrue, NEW c \in Calls, NEW k, NEW r, Send(c, k, r),
         phase[c] # "answered",
         NotToldYet',
         UNCHANGED <<result, ran>>,
         \A d \in Calls \ {c} : args'[d] = args[d] /\ transportRetries'[d] = transportRetries[d],
         RetriesWithinLimit(c)',
         NothingSpent(c)' => NoneLeft(c)
  PROVE  NoIsTrue'
<1>1. PICK m : m = Message(c, k, r)
  OBVIOUS
<1>2. /\ m.call = c /\ m.try = sent[c] + 1
      /\ wire' = wire \cup {m} /\ ran' = ran
      /\ sent' = [sent EXCEPT ![c] = @ + 1]
      /\ inbox' = [inbox EXCEPT ![c] = None]
      /\ phase' = [phase EXCEPT ![c] = "waiting"]
  BY <1>1 DEF Send, Message
<1>3. /\ sent'[c] = m.try /\ inbox'[c] = None /\ phase'[c] = "waiting" /\ result'[c] = None
      /\ \A d \in Calls \ {c} : sent'[d] = sent[d] /\ inbox'[d] = inbox[d] /\ phase'[d] = phase[d]
  BY <1>2 DEF IInv, TypeOK, NoIsTrue, NotToldYet
<1>4. m \notin ran
  BY <1>2 DEF IInv, TypeOK, AttemptsAgree, Messages
<1>5. (wire \cap ran = {})'
  BY <1>2, <1>4 DEF NoIsTrue
<1>6. ASSUME NothingSpent(c)' PROVE LastAttemptOnly(c)'
  BY <1>2, <1>3, <1>6 DEF LastAttemptOnly, NoneLeft
<1>7. ASSUME NEW d \in Calls \ {c}
      PROVE  RetriesWithinLimit(d)' /\ (Dispatched(d) /\ NothingSpent(d) => LastAttemptOnly(d))'
  BY <1>2, <1>3, <1>7, QuietCall
<1>8. QED
  BY <1>5, <1>6, <1>7 DEF NoIsTrue

\* A step of call c that sends nothing.
LEMMA PauseKeepsNoTrue ==
  ASSUME IInv, NoIsTrue, NEW c \in Calls, NEW p,
         phase' = [phase EXCEPT ![c] = p],
         inbox' = [inbox EXCEPT ![c] = None],
         UNCHANGED <<args, sent, transportRetries, wire, ran>>,
         NotToldYet',
         \A d \in Calls \ {c} : result'[d] = result[d],
         p = "sleeping" => (NothingSpent(c) => NoneLeft(c)),
         result'[c] # None /\ result'[c].code \in RefusalCodes => (NothingSpent(c) => NoneLeft(c)),
         Dispatched(c)
  PROVE  NoIsTrue'
<1>1. /\ inbox'[c] = None /\ phase'[c] = p
      /\ \A d \in Calls \ {c} : inbox'[d] = inbox[d] /\ phase'[d] = phase[d]
  BY DEF IInv, TypeOK
<1>2. ASSUME NEW d \in Calls \ {c}
      PROVE  RetriesWithinLimit(d)' /\ (Dispatched(d) /\ NothingSpent(d) => LastAttemptOnly(d))'
  BY <1>1, <1>2, QuietCall
<1>3. RetriesWithinLimit(c)'
  BY DEF NoIsTrue, RetriesWithinLimit, Dispatched
<1>4. ASSUME NothingSpent(c)' PROVE LastAttemptOnly(c)'
  <2>1. NothingSpent(c) /\ LastAttemptOnly(c)
    BY <1>4 DEF NothingSpent, NoIsTrue
  <2>2. QED
    BY <1>1, <2>1 DEF LastAttemptOnly, NoneLeft
<1>5. QED
  BY <1>2, <1>3, <1>4 DEF NoIsTrue

LEMMA CallKeepsNoTrue ==
  ASSUME IInv, NoIsTrue, NEW c \in Calls, Call(c), NotToldYet'
  PROVE  NoIsTrue'
<1>1. PICK a \in CallArgs : Refuse(c, a) \/ CallPlain(c, a) \/ CallKeyed(c, a)
  BY DEF Call
<1>2. phase[c] = "idle" /\ ~Dispatched(c) /\ sent[c] = 0
  BY <1>1 DEF Refuse, CallPlain, CallKeyed, IInv, KeysSettled, Dispatched
<1>3. NoneLeft(c)
  BY <1>2, NotDispatchedNoneLeft
<1>4. CASE Refuse(c, a)
  <2>1. /\ UNCHANGED <<sent, transportRetries, inbox, wire, ran>>
        /\ \A d \in Calls \ {c} : phase'[d] = phase[d] /\ args'[d] = args[d] /\ result'[d] = result[d]
    BY <1>4 DEF Refuse, IInv, TypeOK, apiVars
  <2>2. ASSUME NEW d \in Calls \ {c}
        PROVE  RetriesWithinLimit(d)' /\ (Dispatched(d) /\ NothingSpent(d) => LastAttemptOnly(d))'
    BY <2>1, <2>2, QuietCall
  <2>3. ~Dispatched(c)'
    BY <1>2, <2>1 DEF Dispatched
  <2>4. RetriesWithinLimit(c)'
    BY <2>3 DEF RetriesWithinLimit
  <2>5. QED
    BY <2>1, <2>2, <2>3, <2>4 DEF NoIsTrue
<1>5. CASE CallPlain(c, a)
  <2>1. /\ args' = [args EXCEPT ![c] = a] /\ Send(c, NoKey, a.request) /\ ~Keyed(a)
        /\ UNCHANGED <<result, ran, transportRetries>>
    BY <1>5 DEF CallPlain, apiVars
  <2>2. args'[c] = a /\ \A d \in Calls \ {c} : args'[d] = args[d]
    BY <2>1 DEF IInv, TypeOK
  <2>3. RetriesWithinLimit(c)'
    BY <2>1, <2>2 DEF RetriesWithinLimit
  <2>4. QED
    BY <1>2, <1>3, <2>1, <2>2, <2>3, SendKeepsNoTrue
<1>6. CASE CallKeyed(c, a)
  <2>1. PICK k : Send(c, k, a.request)
    BY <1>6 DEF CallKeyed
  <2>2. /\ args' = [args EXCEPT ![c] = a]
        /\ transportRetries' = [transportRetries EXCEPT ![c] = TransportRetriesFor(a)]
        /\ UNCHANGED <<result, ran>>
    BY <1>6 DEF CallKeyed, apiVars
  <2>3. /\ args'[c] = a /\ \A d \in Calls \ {c} : args'[d] = args[d]
        /\ transportRetries'[c] = TransportRetriesFor(a)
        /\ \A d \in Calls \ {c} : transportRetries'[d] = transportRetries[d]
    BY <2>2 DEF IInv, TypeOK
  <2>4. RetriesWithinLimit(c)'
    BY <2>3, LimitsAreNaturals DEF RetriesWithinLimit, TransportRetriesFor
  <2>5. QED
    BY <1>2, <1>3, <2>1, <2>2, <2>3, <2>4, SendKeepsNoTrue
<1>7. QED
  BY <1>1, <1>4, <1>5, <1>6

\* A refusal that the handler acts on is the API's own: nothing of the call is left.
LEMMA RefusalIsTheApis ==
  ASSUME IInv, NoIsTrue, NEW c \in Calls, phase[c] = "waiting", NEW a \in Settled(c), SaysNo(a)
  PROVE  NothingSpent(c) => NoneLeft(c)
<1>1. a = inbox[c] /\ a # None
  BY DroppedSaysNothing DEF Settled
<1>2. Dispatched(c)
  BY DEF IInv, KeysSettled
<1>3. QED
  BY <1>1, <1>2 DEF NoIsTrue, LastAttemptOnly

LEMMA SettleKeepsNoTrue ==
  ASSUME IInv, NoIsTrue, NEW c \in Calls, Settle(c), NotToldYet'
  PROVE  NoIsTrue'
<1>1. PICK a \in Settled(c) : RetryDropped(c, a) \/ AwaitInProgress(c, a) \/ Return(c, a)
  BY DEF Settle
<1>2. phase[c] = "waiting" /\ Dispatched(c) /\ result[c] = None
  BY <1>1 DEF RetryDropped, AwaitInProgress, Return, IInv, KeysSettled, NoIsTrue, NotToldYet
<1>3. CASE RetryDropped(c, a)
  <2>1. /\ Keyed(args[c]) /\ transportRetries[c] > 0
        /\ transportRetries' = [transportRetries EXCEPT ![c] = @ - 1]
        /\ Send(c, key[c], args[c].request)
        /\ UNCHANGED <<args, result, ran>>
    BY <1>3 DEF RetryDropped, MayRetryDropped, Resend, apiVars
  <2>2. /\ transportRetries[c] \in Nat
        /\ transportRetries'[c] = transportRetries[c] - 1
        /\ \A d \in Calls \ {c} : transportRetries'[d] = transportRetries[d]
    BY <2>1 DEF IInv, TypeOK
  <2>3. TransportRetriesFor(args[c]) \in Nat /\ transportRetries[c] <= TransportRetriesFor(args[c])
    BY <1>2, <2>1, LimitsAreNaturals DEF NoIsTrue, RetriesWithinLimit, TransportRetriesFor
  <2>4. RetriesWithinLimit(c)' /\ ~NothingSpent(c)'
    BY <2>1, <2>2, <2>3 DEF RetriesWithinLimit, NothingSpent, TransportRetriesFor
  <2>5. QED
    BY <1>2, <2>1, <2>2, <2>4, SendKeepsNoTrue
<1>4. CASE AwaitInProgress(c, a)
  <2>1. /\ Do(a).code = "IDEMPOTENCY_IN_PROGRESS"
        /\ phase' = [phase EXCEPT ![c] = "sleeping"] /\ inbox' = [inbox EXCEPT ![c] = None]
        /\ UNCHANGED <<args, sent, transportRetries, wire, ran, result>>
    BY <1>4 DEF AwaitInProgress, MayAwaitInProgress, apiVars
  <2>2. NothingSpent(c) => NoneLeft(c)
    BY <1>2, <2>1, RefusalIsTheApis DEF SaysNo
  <2>3. QED
    BY <1>2, <2>1, <2>2, PauseKeepsNoTrue
<1>5. CASE Return(c, a)
  <2>1. /\ phase' = [phase EXCEPT ![c] = "answered"] /\ inbox' = [inbox EXCEPT ![c] = None]
        /\ result' = [result EXCEPT ![c] = ResultOf(c, a)]
        /\ UNCHANGED <<args, sent, transportRetries, wire, ran>>
    BY <1>5 DEF Return, apiVars
  <2>2. /\ result'[c].code = Do(a).code
        /\ \A d \in Calls \ {c} : result'[d] = result[d]
    BY <2>1 DEF IInv, TypeOK, ResultOf
  <2>3. result'[c].code \in RefusalCodes => (NothingSpent(c) => NoneLeft(c))
    BY <1>2, <2>2, RefusalIsTheApis DEF SaysNo
  <2>4. QED
    BY <1>2, <2>1, <2>2, <2>3, PauseKeepsNoTrue
<1>6. QED
  BY <1>1, <1>3, <1>4, <1>5

LEMMA WakeKeepsNoTrue ==
  ASSUME IInv, NoIsTrue, NEW c \in Calls, Wake(c), NotToldYet'
  PROVE  NoIsTrue'
<1>1. /\ phase[c] = "sleeping" /\ Send(c, key[c], args[c].request)
      /\ UNCHANGED <<args, transportRetries, result, ran>>
  BY DEF Wake, Resend, apiVars
<1>2. Dispatched(c)
  BY <1>1 DEF IInv, KeysSettled
<1>3. RetriesWithinLimit(c)'
  BY <1>1, <1>2 DEF NoIsTrue, RetriesWithinLimit
<1>4. NothingSpent(c)' => NoneLeft(c)
  BY <1>1, <1>2 DEF NothingSpent, NoIsTrue, LastAttemptOnly
<1>5. QED
  BY <1>1, <1>3, <1>4, SendKeepsNoTrue

\* Two requests of one attempt are one request.
LEMMA OneRequestPerAttempt ==
  ASSUME IInv, NEW m \in wire \cup ran, NEW n \in wire \cup ran, m.call = n.call, m.try = n.try
  PROVE  m = n
BY DEF IInv, TypeOK, AttemptsAgree, Messages

\* A request reaches the API, which may answer the attempt it belongs to.
LEMMA DeliveryKeepsNoTrue ==
  ASSUME IInv, NoIsTrue, NEW m \in wire, NEW a,
         wire' = wire \ {m},
         UNCHANGED clientVars,
         ran' = ran \/ (ran' = ran \cup {m} /\ ~SaysNo(a)),
         \A d \in Calls : inbox'[d] = inbox[d] \/ (d = m.call /\ sent[d] = m.try /\ inbox'[d] = a)
  PROVE  NoIsTrue'
<1>1. UNCHANGED <<phase, args, key, sent, transportRetries, result>>
  BY DEF clientVars
<1>2. NotToldYet' /\ (wire \cap ran = {})'
  BY <1>1 DEF NoIsTrue, NotToldYet
<1>3. wire' \cup ran' \subseteq wire \cup ran
  OBVIOUS
<1>4. ASSUME NEW d \in Calls
      PROVE  RetriesWithinLimit(d)'
  BY <1>1 DEF NoIsTrue, RetriesWithinLimit, Dispatched
<1>5. ASSUME NEW d \in Calls, Dispatched(d)', NothingSpent(d)'
      PROVE  LastAttemptOnly(d)'
  <2>1. LastAttemptOnly(d)
    BY <1>1, <1>5 DEF NoIsTrue, Dispatched, NothingSpent
  <2>2. NoneLeft(d) => NoneLeft(d)'
    BY <1>3 DEF NoneLeft
  <2>3. (inbox[d] # None /\ SaysNo(inbox[d]) => NoneLeft(d))'
    <3>1. CASE inbox'[d] = inbox[d]
      BY <2>1, <2>2, <3>1 DEF LastAttemptOnly, SaysNo
    <3>2. CASE d = m.call /\ sent[d] = m.try /\ inbox'[d] = a
      <4> SUFFICES ASSUME SaysNo(a) PROVE NoneLeft(d)'
        BY <3>2 DEF SaysNo
      <4>1. ran' = ran
        OBVIOUS
      <4>2. ASSUME NEW n \in wire' \cup ran', n.call = d PROVE FALSE
        <5>1. n \in wire \cup ran /\ n.try = m.try
          BY <2>1, <3>2, <4>1, <4>2 DEF LastAttemptOnly
        <5>2. n = m
          BY <3>2, <4>2, <5>1, OneRequestPerAttempt
        <5>3. m \notin ran
          BY DEF NoIsTrue
        <5>4. QED
          BY <4>1, <4>2, <5>2, <5>3
      <4>3. QED
        BY <4>2 DEF NoneLeft
    <3>3. QED
      BY <3>1, <3>2
  <2>4. QED
    BY <1>1, <1>3, <2>1, <2>2, <2>3 DEF LastAttemptOnly
<1>6. QED
  BY <1>2, <1>4, <1>5 DEF NoIsTrue

\* An answer reaches the waiting attempt or nobody.
LEMMA AnswerReaches ==
  ASSUME IInv, NEW m \in Messages, NEW a, AnswerTo(m, a)
  PROVE  \A d \in Calls : inbox'[d] = inbox[d] \/ (d = m.call /\ sent[d] = m.try /\ inbox'[d] = a)
BY DEF AnswerTo, IInv, TypeOK, Messages

LEMMA DeliverKeepsNoTrue ==
  ASSUME IInv, NoIsTrue, NEW m \in wire, Deliver(m)
  PROVE  NoIsTrue'
<1>1. wire' = wire \ {m} /\ UNCHANGED clientVars /\ m \in Messages
  BY OnTheWire DEF Deliver
<1>2. ASSUME NEW a, AnswerTo(m, a), UNCHANGED ran PROVE NoIsTrue'
  BY <1>1, <1>2, AnswerReaches, DeliveryKeepsNoTrue
<1>3. CASE ApiRefuse(m) \/ ApiKeyReused(m) \/ \E s \in RetryAfters : ApiInProgress(m, s)
  BY <1>2, <1>3 DEF ApiRefuse, ApiKeyReused, ApiInProgress, apiVars
<1>4. CASE \E body \in {"envelope", "empty"} : ApiReplay(m, body)
  BY <1>2, <1>4 DEF ApiReplay, apiVars
<1>5. ASSUME NEW body \in {"envelope", "empty"}, ApiRunPlain(m, body) PROVE NoIsTrue'
  <2>1. PICK a : a = Done(m, body, FALSE)
    OBVIOUS
  <2>2. ~SaysNo(a)
    BY <2>1, DoneSaysNoNo
  <2>3. ran' = ran \cup {m} /\ AnswerTo(m, a)
    BY <1>5, <2>1 DEF ApiRunPlain
  <2>4. QED
    BY <1>1, <2>2, <2>3, AnswerReaches, DeliveryKeepsNoTrue
<1>6. CASE ApiStart(m)
  <2>1. ran' = ran \cup {m} /\ inbox' = inbox
    BY <1>6 DEF ApiStart
  <2>2. QED
    BY <1>1, <2>1, DroppedSaysNothing, DeliveryKeepsNoTrue
<1>7. QED
  BY <1>3, <1>4, <1>5, <1>6 DEF Deliver

\* An answer that refuses nothing.
LEMMA HarmlessAnswerKeepsNoTrue ==
  ASSUME NoIsTrue, NEW a, ~SaysNo(a),
         UNCHANGED <<clientVars, wire, ran>>,
         \A d \in Calls : inbox'[d] = inbox[d] \/ inbox'[d] = a
  PROVE  NoIsTrue'
<1>1. UNCHANGED <<phase, args, key, sent, transportRetries, result>>
  BY DEF clientVars
<1>2. \A d \in Calls : RetriesWithinLimit(d)'
  BY <1>1 DEF NoIsTrue, RetriesWithinLimit, Dispatched
<1>3. ASSUME NEW d \in Calls, Dispatched(d)', NothingSpent(d)'
      PROVE  LastAttemptOnly(d)'
  <2>1. LastAttemptOnly(d)
    BY <1>1, <1>3 DEF NoIsTrue, Dispatched, NothingSpent
  <2>2. NoneLeft(d) => NoneLeft(d)'
    BY DEF NoneLeft
  <2>3. (inbox[d] # None /\ SaysNo(inbox[d]) => NoneLeft(d))'
    BY <2>1, <2>2 DEF LastAttemptOnly, SaysNo
  <2>4. QED
    BY <1>1, <2>1, <2>2, <2>3 DEF LastAttemptOnly
<1>4. NotToldYet' /\ (wire \cap ran = {})'
  BY <1>1 DEF NoIsTrue, NotToldYet
<1>5. QED
  BY <1>2, <1>3, <1>4 DEF NoIsTrue

LEMMA ApiFinishKeepsNoTrue ==
  ASSUME IInv, NoIsTrue, NEW k \in Keys, ApiFinish(k)
  PROVE  NoIsTrue'
<1>1. PICK body \in {"envelope", "empty"} : AnswerTo(store[k].run, Done(store[k].run, body, FALSE))
  BY DEF ApiFinish
<1>2. store[k].run \in Messages
  BY DEF ApiFinish, IInv, TypeOK, Records
<1>3. PICK a : a = Done(store[k].run, body, FALSE)
  OBVIOUS
<1>4. ~SaysNo(a)
  BY <1>3, DoneSaysNoNo
<1>5. \A d \in Calls : inbox'[d] = inbox[d] \/ inbox'[d] = a
  BY <1>1, <1>2, <1>3, AnswerReaches
<1>6. UNCHANGED <<clientVars, wire, ran>>
  BY DEF ApiFinish
<1>7. QED
  BY <1>4, <1>5, <1>6, HarmlessAnswerKeepsNoTrue

LEMMA GatewayKeepsNoTrue ==
  ASSUME IInv, NoIsTrue, NEW c \in Calls, GatewayAnswer(c)
  PROVE  NoIsTrue'
<1>1. PICK a \in GatewayPages : inbox' = [inbox EXCEPT ![c] = a]
  BY DEF GatewayAnswer
<1>2. \A d \in Calls : inbox'[d] = inbox[d] \/ inbox'[d] = a
  BY <1>1 DEF IInv, TypeOK
<1>3. UNCHANGED <<clientVars, wire, ran>>
  BY DEF GatewayAnswer, apiVars
<1>4. QED
  BY <1>2, <1>3, PagesSayNothing, HarmlessAnswerKeepsNoTrue

LEMMA StepKeepsNoTrue == IInv /\ NoIsTrue /\ [Next]_vars => NoIsTrue'
<1> SUFFICES ASSUME IInv, NoIsTrue, [Next]_vars PROVE NoIsTrue'
  OBVIOUS
<1>1. NotToldYet'
  BY NotToldYetPreserved DEF NoIsTrue
<1>2. CASE \E c \in Calls : Call(c) \/ Settle(c) \/ Wake(c)
  BY <1>1, <1>2, CallKeepsNoTrue, SettleKeepsNoTrue, WakeKeepsNoTrue
<1>3. CASE \/ \E c \in Calls : GatewayAnswer(c)
           \/ \E m \in wire : Deliver(m)
           \/ \E k \in Keys : ApiFinish(k)
  BY <1>3, GatewayKeepsNoTrue, DeliverKeepsNoTrue, ApiFinishKeepsNoTrue
<1>4. CASE UNCHANGED vars
  <2>1. UNCHANGED <<clientVars, wire, ran, inbox>>
    BY <1>4 DEF vars, apiVars
  <2>2. QED
    BY <2>1, DroppedSaysNothing, HarmlessAnswerKeepsNoTrue
<1>5. QED
  BY <1>2, <1>3, <1>4 DEF Next

\* A call told "refused" has nothing that ran and nothing that may still run, unless
\* one of its attempts was given up as dropped before (client.ts, postIdempotent).
THEOREM NoMeansNotRunCorrect == Spec => []NoMeansNotRun
<1>1. Init => NoIsTrue
  BY DEF Init, NoIsTrue, NotToldYet, RetriesWithinLimit, Dispatched
<1>2. IInv /\ NoIsTrue => NoMeansNotRun
  <2> SUFFICES ASSUME IInv, NoIsTrue, NEW c \in Calls,
                      result[c] # None, result[c].code \in RefusalCodes, NothingSpent(c)
               PROVE  NoneLeft(c)
    BY DEF NoMeansNotRun, RefusalCodes, NothingSpent, NoneLeft
  <2>1. CASE Dispatched(c)
    BY <2>1 DEF NoIsTrue, LastAttemptOnly
  <2>2. CASE ~Dispatched(c)
    BY <2>2, NotDispatchedNoneLeft
  <2>3. QED
    BY <2>1, <2>2
<1>3. QED
  BY <1>1, <1>2, InvariantHolds, StepKeepsNoTrue, PTL DEF Spec

-------------------------------------------------------------------------------
(* CredentialShownOrExplained. *)

\* Every success carries a known answer's secrets, whoever of the operation asks.
LEMMA DoneCarries ==
  ASSUME NEW c \in Calls, NEW m, NEW body \in {"envelope", "empty"}, NEW replayed \in BOOLEAN,
         args[m.call].tool = args[c].tool,
         replayed => key[c] # NoKey
  PROVE  CarriesItsSecret(c, Done(m, body, replayed))
BY DEF CarriesItsSecret, Done, Do, EmptyAnswer, Succeeded, Failed, IsSuccessStatus

\* A failure carries none.
LEMMA FailureCarries == ASSUME NEW c, NEW a, ~Do(a).ok PROVE CarriesItsSecret(c, a)
BY DEF CarriesItsSecret

\* A run of the same request is a run of the same tool.
LEMMA SameRequestSameTool ==
  ASSUME IInv, NEW m \in ran \cup wire, NEW n \in ran \cup wire, m.request = n.request
  PROVE  args[m.call].tool = args[n.call].tool
<1>1. /\ Dispatched(m.call) /\ Dispatched(n.call) /\ m.call \in Calls /\ n.call \in Calls
      /\ args[m.call].request = args[n.call].request
  BY DEF IInv, TypeOK, AttemptsAgree, Messages, Dispatched
<1>2. args[m.call] \in CallArgs /\ args[n.call] \in CallArgs
  BY <1>1 DEF IInv, KeysSettled
<1>3. QED
  BY <1>1, <1>2, RequestNamesItsTool

\* Nothing changes for a call that is told nothing and gets no answer.
LEMMA SecretsStay ==
  ASSUME IInv, SecretsAccounted, NEW d \in Calls,
         Dispatched(d) => args'[d] = args[d] /\ key'[d] = key[d],
         inbox'[d] \in {inbox[d], None}, result'[d] = result[d]
  PROVE  /\ (inbox[d] # None => CarriesItsSecret(d, inbox[d]))'
         /\ (Succeeds(d) => CarriesItsSecret(d, result[d].answer)
                              /\ result[d].secrets = Do(result[d].answer).secrets)'
BY DEF IInv, AnswersReportTheRun, SecretsAccounted, CarriesItsSecret, Succeeds

\* An answer that comes in with the right secrets.
LEMMA AnswerKeepsSecrets ==
  ASSUME IInv, SecretsAccounted, UNCHANGED clientVars, NEW a,
         NEW c \in Calls, CarriesItsSecret(c, a),
         \A d \in Calls : inbox'[d] = inbox[d] \/ (d = c /\ inbox'[d] = a)
  PROVE  SecretsAccounted'
<1>1. UNCHANGED <<args, key, result>>
  BY DEF clientVars
<1>2. ASSUME NEW d \in Calls PROVE (inbox[d] # None => CarriesItsSecret(d, inbox[d]))'
  BY <1>1 DEF SecretsAccounted, CarriesItsSecret
<1>3. ASSUME NEW d \in Calls
      PROVE  (Succeeds(d) => CarriesItsSecret(d, result[d].answer)
                               /\ result[d].secrets = Do(result[d].answer).secrets)'
  BY <1>1 DEF SecretsAccounted, CarriesItsSecret, Succeeds
<1>4. QED
  BY <1>2, <1>3 DEF SecretsAccounted

LEMMA ServerKeepsSecrets ==
  ASSUME IInv, SecretsAccounted, NEW c \in Calls, Call(c) \/ Settle(c) \/ Wake(c)
  PROVE  SecretsAccounted'
<1>1. ASSUME \A d \in Calls : /\ Dispatched(d) => args'[d] = args[d] /\ key'[d] = key[d]
                              /\ inbox'[d] \in {inbox[d], None} /\ result'[d] = result[d]
      PROVE  SecretsAccounted'
  BY <1>1, SecretsStay DEF SecretsAccounted
<1>2. ASSUME NEW a \in CallArgs, CallPlain(c, a) \/ CallKeyed(c, a) PROVE SecretsAccounted'
  <2>1. ~Dispatched(c)
    BY <1>2 DEF CallPlain, CallKeyed, IInv, KeysSettled, Dispatched
  <2>2. \A d \in Calls \ {c} : args'[d] = args[d] /\ key'[d] = key[d]
    BY <1>2 DEF CallPlain, CallKeyed, IInv, TypeOK
  <2>3. inbox' = [inbox EXCEPT ![c] = None] /\ result' = result
    BY <1>2 DEF CallPlain, CallKeyed, Send
  <2>4. QED
    BY <1>1, <2>1, <2>2, <2>3 DEF IInv, TypeOK
<1>3. ASSUME NEW a \in CallArgs, Refuse(c, a) PROVE SecretsAccounted'
  <2>1. ~Dispatched(c) /\ inbox' = inbox
    BY <1>3 DEF Refuse, IInv, KeysSettled, Dispatched
  <2>2. /\ \A d \in Calls \ {c} : args'[d] = args[d] /\ key'[d] = key[d] /\ result'[d] = result[d]
        /\ ~result'[c].ok
    BY <1>3 DEF Refuse, IInv, TypeOK
  <2>3. ASSUME NEW d \in Calls \ {c}
        PROVE  /\ (inbox[d] # None => CarriesItsSecret(d, inbox[d]))'
               /\ (Succeeds(d) => CarriesItsSecret(d, result[d].answer)
                                    /\ result[d].secrets = Do(result[d].answer).secrets)'
    BY <2>1, <2>2, <2>3, SecretsStay
  <2>4. inbox'[c] = None
    BY <2>1 DEF IInv, AnswersReportTheRun
  <2>5. QED
    BY <2>2, <2>3, <2>4 DEF SecretsAccounted, Succeeds
<1>4. ASSUME NEW a \in Settled(c), RetryDropped(c, a) \/ AwaitInProgress(c, a) PROVE SecretsAccounted'
  <2>1. inbox' = [inbox EXCEPT ![c] = None] /\ UNCHANGED <<args, key, result>>
    BY <1>4 DEF RetryDropped, AwaitInProgress, Resend, Send
  <2>2. QED
    BY <1>1, <2>1 DEF IInv, TypeOK
<1>5. ASSUME NEW a \in Settled(c), Return(c, a) PROVE SecretsAccounted'
  <2>1. /\ inbox' = [inbox EXCEPT ![c] = None] /\ UNCHANGED <<args, key>>
        /\ result' = [result EXCEPT ![c] = ResultOf(c, a)]
    BY <1>5 DEF Return
  <2>2. /\ inbox'[c] = None /\ result'[c] = ResultOf(c, a)
        /\ \A d \in Calls \ {c} : inbox'[d] = inbox[d] /\ result'[d] = result[d]
    BY <2>1 DEF IInv, TypeOK
  <2>3. ASSUME NEW d \in Calls \ {c}
        PROVE  /\ (inbox[d] # None => CarriesItsSecret(d, inbox[d]))'
               /\ (Succeeds(d) => CarriesItsSecret(d, result[d].answer)
                                    /\ result[d].secrets = Do(result[d].answer).secrets)'
    BY <2>1, <2>2, <2>3, SecretsStay
  <2>4. CarriesItsSecret(c, a)
    BY DroppedFails, FailureCarries DEF Settled, SecretsAccounted
  <2>5. CarriesItsSecret(c, a)'
    BY <2>1, <2>4 DEF CarriesItsSecret
  <2>6. QED
    BY <2>2, <2>3, <2>5 DEF SecretsAccounted, ResultOf, Succeeds
<1>6. ASSUME Wake(c) PROVE SecretsAccounted'
  <2>1. inbox' = [inbox EXCEPT ![c] = None] /\ UNCHANGED <<args, key, result>>
    BY <1>6 DEF Wake, Resend, Send
  <2>2. QED
    BY <1>1, <2>1 DEF IInv, TypeOK
<1>7. QED
  BY <1>2, <1>3, <1>4, <1>5, <1>6 DEF Call, Settle

LEMMA DeliverKeepsSecrets ==
  ASSUME IInv, SecretsAccounted, NEW m \in wire, Deliver(m)
  PROVE  SecretsAccounted'
<1>1. UNCHANGED clientVars /\ m \in Messages /\ m.call \in Calls /\ m.key = key[m.call]
  BY OnTheWire DEF Deliver
<1>2. ASSUME NEW a, AnswerTo(m, a), CarriesItsSecret(m.call, a) PROVE SecretsAccounted'
  BY <1>1, <1>2, AnswerReaches, AnswerKeepsSecrets
<1>3. ASSUME NEW status, NEW code, NEW s PROVE CarriesItsSecret(m.call, Refused(status, code, s))
  <2>1. ~Do(Refused(status, code, s)).ok
    BY DEF Refused, Do, EmptyAnswer, Failed
  <2>2. QED
    BY <2>1, FailureCarries
<1>4. CASE ApiRefuse(m) \/ ApiKeyReused(m) \/ \E s \in RetryAfters : ApiInProgress(m, s)
  BY <1>2, <1>3, <1>4 DEF ApiRefuse, ApiKeyReused, ApiInProgress
<1>5. ASSUME NEW body \in {"envelope", "empty"}, ApiReplay(m, body) PROVE SecretsAccounted'
  <2>1. PICK r : r = store[m.key].run
    OBVIOUS
  <2>2. r \in ran /\ r.request = m.request /\ m.key # NoKey
    BY <1>1, <1>5, <2>1, OnTheWire DEF ApiReplay, IInv, StoreKeepsTheRun
  <2>3. args[r.call].tool = args[m.call].tool
    BY <2>2, SameRequestSameTool
  <2>4. CarriesItsSecret(m.call, Done(r, body, TRUE))
    BY <1>1, <2>2, <2>3, DoneCarries
  <2>5. QED
    BY <1>2, <1>5, <2>1, <2>4 DEF ApiReplay
<1>6. ASSUME NEW body \in {"envelope", "empty"}, ApiRunPlain(m, body) PROVE SecretsAccounted'
  BY <1>1, <1>2, <1>6, DoneCarries DEF ApiRunPlain
<1>7. CASE ApiStart(m)
  <2>1. inbox' = inbox
    BY <1>7 DEF ApiStart
  <2>2. QED
    BY <1>1, <2>1, FailureCarries, DroppedFails, AnswerKeepsSecrets
<1>8. QED
  BY <1>4, <1>5, <1>6, <1>7 DEF Deliver

LEMMA ApiFinishKeepsSecrets ==
  ASSUME IInv, SecretsAccounted, NEW k \in Keys, ApiFinish(k)
  PROVE  SecretsAccounted'
<1>1. PICK r : r = store[k].run
  OBVIOUS
<1>2. r \in Messages /\ r.call \in Calls
  BY <1>1 DEF ApiFinish, IInv, TypeOK, Records, Messages
<1>3. PICK body \in {"envelope", "empty"} : AnswerTo(r, Done(r, body, FALSE))
  BY <1>1 DEF ApiFinish
<1>4. PICK a : a = Done(r, body, FALSE)
  OBVIOUS
<1>5. CarriesItsSecret(r.call, a)
  BY <1>2, <1>4, DoneCarries
<1>6. \A d \in Calls : inbox'[d] = inbox[d] \/ (d = r.call /\ inbox'[d] = a)
  BY <1>2, <1>3, <1>4, AnswerReaches
<1>7. UNCHANGED clientVars
  BY DEF ApiFinish
<1>8. QED
  BY <1>2, <1>5, <1>6, <1>7, AnswerKeepsSecrets

LEMMA StepKeepsSecrets == IInv /\ SecretsAccounted /\ [Next]_vars => SecretsAccounted'
<1> SUFFICES ASSUME IInv, SecretsAccounted, [Next]_vars PROVE SecretsAccounted'
  OBVIOUS
<1>1. ASSUME NEW c \in Calls, GatewayAnswer(c) PROVE SecretsAccounted'
  <2>1. PICK a \in GatewayPages : inbox' = [inbox EXCEPT ![c] = a]
    BY <1>1 DEF GatewayAnswer
  <2>2. \A d \in Calls : inbox'[d] = inbox[d] \/ (d = c /\ inbox'[d] = a)
    BY <2>1 DEF IInv, TypeOK
  <2>3. CarriesItsSecret(c, a)
    BY GatewayPagesFacts, FailureCarries
  <2>4. QED
    BY <1>1, <2>2, <2>3, AnswerKeepsSecrets DEF GatewayAnswer
<1>2. CASE UNCHANGED vars
  BY <1>2 DEF vars, clientVars, SecretsAccounted, CarriesItsSecret, Succeeds
<1>3. QED
  BY <1>1, <1>2, ServerKeepsSecrets, DeliverKeepsSecrets, ApiFinishKeepsSecrets DEF Next

\* A credential is shown to one call at most; the other successes say that it is
\* missing (factories.ts, replayed-result note; client.ts, onReplay).
THEOREM CredentialCorrect == Spec => []CredentialShownOrExplained
<1>1. Init => SecretsAccounted
  BY DEF Init, SecretsAccounted, Succeeds
<1>2. ASSUME IInv, SecretsAccounted, NEW c \in Calls, Succeeds(c)
      PROVE  LET a == result[c].answer
             IN  /\ result[c].secrets = Do(a).secrets /\ CarriesItsSecret(c, a) /\ Do(a).ok
                 /\ result[c].note = Do(a).replayed
  <2>1. /\ Do(result[c].answer).ok /\ Dispatched(c)
        /\ result[c].note = (Keyed(args[c]) /\ Do(result[c].answer).replayed)
    BY <1>2 DEF IInv, AnswersReportTheRun, TellsTheRun
  <2>2. result[c].answer \in Answers(Messages \cup {None})
    BY <1>2 DEF IInv, TypeOK, Results, AnswersReportTheRun, TellsTheRun, Succeeds
  <2>3. Do(result[c].answer).replayed \in BOOLEAN
    BY <2>2, DoType DEF Outcomes
  <2>4. /\ result[c].secrets = Do(result[c].answer).secrets /\ CarriesItsSecret(c, result[c].answer)
        /\ Do(result[c].answer).replayed => Keyed(args[c])
    BY <1>2, <2>1 DEF SecretsAccounted, CarriesItsSecret, IInv, KeysSettled
  <2>5. QED
    BY <2>1, <2>3, <2>4
<1>3. ASSUME IInv, SecretsAccounted, NEW c \in Calls, Succeeds(c), HasBody(c), args[c].tool.secret
      PROVE  \/ result[c].secrets = "shown"
             \/ result[c].secrets = "omitted" /\ result[c].note
  BY <1>2, <1>3 DEF HasBody, CarriesItsSecret
<1>4. ASSUME IInv, SecretsAccounted, NEW c \in Calls, Succeeds(c), result[c].secrets = "shown"
      PROVE  HasBody(c) /\ ~result[c].note
  <2>1. /\ Do(result[c].answer).ok /\ Do(result[c].answer).secrets = "shown"
        /\ CarriesItsSecret(c, result[c].answer) /\ result[c].note = Do(result[c].answer).replayed
    BY <1>2, <1>4
  <2>2. result[c].answer \in Answers(Messages \cup {None})
    BY <1>4 DEF IInv, TypeOK, Results, AnswersReportTheRun, TellsTheRun, Succeeds
  <2>3. result[c].answer.body \in Bodies
    BY <2>2 DEF Answers
  <2>4. HasBody(c)
    BY <2>1, <2>3 DEF HasBody, Do, EmptyAnswer, Succeeded, Failed, InvalidResponse, Bodies
  <2>5. QED
    BY <2>1, <2>4 DEF HasBody, CarriesItsSecret
<1>5. IInv /\ SecretsAccounted => CredentialShownOrExplained
  BY <1>3, <1>4, RunBehindSuccess DEF CredentialShownOrExplained
<1>6. QED
  BY <1>1, <1>5, InvariantHolds, StepKeepsSecrets, PTL DEF Spec
=============================================================================
