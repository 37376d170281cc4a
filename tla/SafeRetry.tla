------------------------------- MODULE SafeRetry -------------------------------
(***************************************************************************)
(* Write-tool calls from the agent to the RareCloud API and back:          *)
(* the writeTool handler (tools/factories.ts), RareCloudClient.post and    *)
(* postIdempotent (client.ts), the network, and the API's store of         *)
(* Idempotency-Keys.                                                       *)
(*                                                                         *)
(* The server is one Node.js event loop serving many calls at once, each   *)
(* with a client of its own.  A handler runs from one await to the next    *)
(* without interruption, so a step of the server is "from an answer, a     *)
(* dropped connection or a timer to the next fetch(), sleep or return".    *)
(*                                                                         *)
(* A request given up by the client may still be on its way and reach the  *)
(* API later; a request that is never delivered is lost.  The API and the  *)
(* gateway in front of it are external: they do what idempotency.ts and    *)
(* client.ts rely on, and nothing more orderly.                            *)
(***************************************************************************)
EXTENDS HttpAnswer, WriteTool

CONSTANTS
  Calls,        \* tool calls the agent makes
  None,         \* the value of what is not there: no answer, no result, no record
  CallArgs,     \* the arguments it may make them with
  UUIDs,        \* what randomUUID() may return
  RetryAfters,  \* values of Retry-After on an in-progress answer
  GENERATED_KEY_TRANSPORT_RETRIES,
  IN_PROGRESS_MAX_RETRIES,
  IN_PROGRESS_RETRY_AFTER_CAP_SECONDS,
  DEFAULT_IN_PROGRESS_WAIT_SECONDS

ASSUME CallArgsAreArguments == CallArgs \subseteq Arguments

\* The same request is the same route with the same body, and a route has one tool
\* (RequestsNameTheirTools in ToolCalls_proofs).
ASSUME RequestNamesItsTool ==
  \A a, b \in CallArgs : a.request = b.request => a.tool = b.tool

ASSUME UUIDsAreFresh == UUIDs \cap (AgentKeys \cup {NoKey, BadKey}) = {}

ASSUME RetryAfterIsNumber == RetryAfters \subseteq Int

ASSUME LimitsAreNaturals ==
  /\ GENERATED_KEY_TRANSPORT_RETRIES \in Nat
  /\ IN_PROGRESS_MAX_RETRIES \in Nat
  /\ IN_PROGRESS_RETRY_AFTER_CAP_SECONDS \in Nat
  /\ DEFAULT_IN_PROGRESS_WAIT_SECONDS \in Nat

VARIABLES
  phase,              \* where the handler of a call stands
  args,               \* the arguments of a call, None before it is made
  key,                \* postIdempotent's const `key`, NoKey for any other request
  sent,               \* how many requests the call has sent
  transportRetries,   \* postIdempotent's counters
  inProgressRetries,
  waited,             \* seconds slept so far
  inbox,              \* the answer on its way to the call
  result,             \* what the tool returned to the agent, or None
  minted,             \* UUIDs handed out so far
  wire,               \* requests on their way to the API
  store,              \* the API's record of each Idempotency-Key
  ran                 \* the requests whose operation the API has run (history)

clientVars == <<phase, args, key, sent, transportRetries, inProgressRetries, waited, result, minted>>
apiVars == <<store, ran>>
vars == <<clientVars, apiVars, inbox, wire>>

Keys == AgentKeys \cup UUIDs

Messages == [call: Calls, try: Nat, key: Keys \cup {NoKey}, request: Requests]

\* The API's record of a key: the request it belongs to, its run, and whether that is over.
Records == [request: Requests, done: BOOLEAN, run: Messages]

ASSUME NoneIsNoRecord == None \notin Records

Phases == {"idle", "waiting", "sleeping", "answered"}

\* What the agent is told: `note` is the replay note in front of the result, `answer`
\* the HTTP answer behind it (history, None when no request was made).
Results ==
  [ok: BOOLEAN, code: EnvelopeCodes \cup ClientCodes \cup {"INVALID_INPUT", "NOT_CONFIRMED", "BAD_SEGMENT"},
   note: BOOLEAN, secrets: Secrets, answer: Answers(Messages \cup {None}) \cup {None}]

-------------------------------------------------------------------------------
(* The server: writeTool's handler and the client it drives. *)

Message(c, k, r) == [call |-> c, try |-> sent[c] + 1, key |-> k, request |-> r]

\* One fetch(): the request goes out and whatever answers the previous one is void.
Send(c, k, r) ==
  /\ wire' = wire \cup {Message(c, k, r)}
  /\ sent' = [sent EXCEPT ![c] = @ + 1]
  /\ inbox' = [inbox EXCEPT ![c] = None]
  /\ phase' = [phase EXCEPT ![c] = "waiting"]

\* Mutant: every attempt makes a key of its own.
ResendWithFreshKey(c) == \E k \in UUIDs \ {key[c]} : Send(c, k, args[c].request)

\* Mutant: a call is repeated only while transport retries are left, whatever for.
ResendWhileRetriesLeft(c) == transportRetries[c] > 0 /\ Send(c, key[c], args[c].request)

\* The same key, the same body, the next attempt.
Resend(c) == Send(c, key[c], args[c].request)

\* A refusal is an answer that costs no request.
Refuse(c, a) ==
  /\ phase[c] = "idle"
  /\ Refusal(a) # "NONE"
  /\ phase' = [phase EXCEPT ![c] = "answered"]
  /\ args' = [args EXCEPT ![c] = a]
  /\ result' = [result EXCEPT ![c] =
       [ok |-> FALSE, code |-> Refusal(a), note |-> FALSE, secrets |-> "none", answer |-> None]]
  /\ UNCHANGED <<key, sent, transportRetries, inProgressRetries, waited, minted, inbox, wire, apiVars>>

\* Any write that is not an idempotent POST: one request, no key.
CallPlain(c, a) ==
  /\ phase[c] = "idle"
  /\ Refusal(a) = "NONE" /\ ~Keyed(a)
  /\ args' = [args EXCEPT ![c] = a]
  /\ Send(c, NoKey, a.request)
  /\ UNCHANGED <<key, transportRetries, inProgressRetries, waited, result, minted, apiVars>>

\* Mutant: the agent's key is not passed on.
AlwaysFreshKeyFor(a) == UUIDs \ minted

\* Mutant: generated keys are not unique.
AnyKeyFor(a) == IF a.key # NoKey THEN {a.key} ELSE UUIDs

\* The key a call uses for all its attempts: the agent's own or a fresh UUID.
KeyFor(a) == IF a.key # NoKey THEN {a.key} ELSE UUIDs \ minted

TransportRetriesFor(a) == IF a.key = NoKey THEN GENERATED_KEY_TRANSPORT_RETRIES ELSE 0

\* postIdempotent up to its first fetch().
CallKeyed(c, a) ==
  /\ phase[c] = "idle"
  /\ Refusal(a) = "NONE" /\ Keyed(a)
  /\ args' = [args EXCEPT ![c] = a]
  /\ transportRetries' = [transportRetries EXCEPT ![c] = TransportRetriesFor(a)]
  /\ inProgressRetries' = [inProgressRetries EXCEPT ![c] = IN_PROGRESS_MAX_RETRIES]
  /\ \E k \in KeyFor(a) :
       /\ key' = [key EXCEPT ![c] = k]
       /\ minted' = minted \cup ({k} \cap UUIDs)
       /\ Send(c, k, a.request)
  /\ UNCHANGED <<waited, result, apiVars>>

\* An answer that is not the API's.
Page(status, body) ==
  [status |-> status, body |-> body, ok |-> FALSE, code |-> "NONE", replayed |-> FALSE,
   retryAfter |-> NoRetryAfter, secrets |-> "none", run |-> None]

Dropped == Page(0, "dropped")

\* What a waiting fetch() may settle with: the answer that came, or a drop.  The
\* connection can break, or fetch() time out, with the answer already on its way.
Settled(c) == {Dropped} \cup ({inbox[c]} \ {None})

\* Mutant: one retry too many.
MayRetryDroppedOnceMore(c, a) == Keyed(args[c]) /\ Do(a).transport /\ transportRetries[c] >= 0

\* An attempt is repeated at once after a transport error ...
MayRetryDropped(c, a) == Keyed(args[c]) /\ Do(a).transport /\ transportRetries[c] > 0

\* Mutant: every failure is waited out.
MayAwaitAnyFailure(c, a) == Keyed(args[c]) /\ ~Do(a).ok /\ inProgressRetries[c] > 0

\* ... and after a wait when the first request with the key is still running.
MayAwaitInProgress(c, a) ==
  /\ Keyed(args[c])
  /\ Do(a).code = "IDEMPOTENCY_IN_PROGRESS"
  /\ inProgressRetries[c] > 0

Min2(m, n) == IF m <= n THEN m ELSE n

\* Mutant: Retry-After is obeyed without a cap.
WaitAsTold(a) == IF Do(a).retryAfter # NoRetryAfter THEN Do(a).retryAfter ELSE DEFAULT_IN_PROGRESS_WAIT_SECONDS

WaitSeconds(a) ==
  Min2(IF Do(a).retryAfter # NoRetryAfter THEN Do(a).retryAfter ELSE DEFAULT_IN_PROGRESS_WAIT_SECONDS,
       IN_PROGRESS_RETRY_AFTER_CAP_SECONDS)

\* Mutant: the retry is not counted.
RetryDroppedUncounted(c, a) ==
  /\ phase[c] = "waiting"
  /\ MayRetryDropped(c, a)
  /\ Resend(c)
  /\ UNCHANGED <<args, key, transportRetries, inProgressRetries, waited, result, minted, apiVars>>

RetryDropped(c, a) ==
  /\ phase[c] = "waiting"
  /\ MayRetryDropped(c, a)
  /\ transportRetries' = [transportRetries EXCEPT ![c] = @ - 1]
  /\ Resend(c)
  /\ UNCHANGED <<args, key, inProgressRetries, waited, result, minted, apiVars>>

AwaitInProgress(c, a) ==
  /\ phase[c] = "waiting"
  /\ ~MayRetryDropped(c, a) /\ MayAwaitInProgress(c, a)
  /\ inProgressRetries' = [inProgressRetries EXCEPT ![c] = @ - 1]
  /\ waited' = [waited EXCEPT ![c] = @ + WaitSeconds(a)]
  /\ phase' = [phase EXCEPT ![c] = "sleeping"]
  /\ inbox' = [inbox EXCEPT ![c] = None]
  /\ UNCHANGED <<args, key, sent, transportRetries, result, minted, wire, apiVars>>

\* The timer of sleep() fires.
Wake(c) ==
  /\ phase[c] = "sleeping"
  /\ Resend(c)
  /\ UNCHANGED <<args, key, transportRetries, inProgressRetries, waited, result, minted, apiVars>>

\* Mutant: the replay goes unnoticed.
ResultWithoutNote(c, a) ==
  [ok |-> Do(a).ok, code |-> Do(a).code, note |-> FALSE, secrets |-> Do(a).secrets, answer |-> a]

\* Mutant: no note for a replay that leaves a credential out.
ResultForgettingOmission(c, a) ==
  [ok |-> Do(a).ok, code |-> Do(a).code, secrets |-> Do(a).secrets, answer |-> a,
   note |-> Keyed(args[c]) /\ Do(a).replayed /\ Do(a).secrets # "omitted"]

\* The handler's result: the data behind a replay note, or the error.  onReplay is
\* the only way a replay is noticed, and only postIdempotent calls it.
ResultOf(c, a) ==
  [ok |-> Do(a).ok, code |-> Do(a).code, note |-> Keyed(args[c]) /\ Do(a).replayed,
   secrets |-> Do(a).secrets, answer |-> a]

Return(c, a) ==
  /\ phase[c] = "waiting"
  /\ ~MayRetryDropped(c, a) /\ ~MayAwaitInProgress(c, a)
  /\ phase' = [phase EXCEPT ![c] = "answered"]
  /\ result' = [result EXCEPT ![c] = ResultOf(c, a)]
  /\ inbox' = [inbox EXCEPT ![c] = None]
  /\ UNCHANGED <<args, key, sent, transportRetries, inProgressRetries, waited, minted, wire, apiVars>>

Settle(c) ==
  \E a \in Settled(c) : RetryDropped(c, a) \/ AwaitInProgress(c, a) \/ Return(c, a)

-------------------------------------------------------------------------------
(* The API and the gateway in front of it (external). *)

\* An answer reaches the call only while it waits for that very attempt.
AnswerTo(m, a) ==
  inbox' = IF phase[m.call] = "waiting" /\ sent[m.call] = m.try /\ inbox[m.call] = None
           THEN [inbox EXCEPT ![m.call] = a]
           ELSE inbox

Refused(status, code, retryAfter) ==
  [status |-> status, body |-> "envelope", ok |-> FALSE, code |-> code, replayed |-> FALSE,
   retryAfter |-> retryAfter, secrets |-> "none", run |-> None]

\* The answer of a run: the first one carries the credential, a replay leaves it out.
Done(m, body, replayed) ==
  [status |-> 200, body |-> body, ok |-> TRUE, code |-> "NONE", replayed |-> replayed,
   retryAfter |-> NoRetryAfter, run |-> m,
   secrets |-> IF ~args[m.call].tool.secret THEN "none" ELSE IF replayed THEN "omitted" ELSE "shown"]

\* The API refuses this request and leaves no record of it: bad input, no funds, a
\* protected resource, too many requests.  It may do so whatever it knows of the key.
ApiRefuse(m) ==
  /\ AnswerTo(m, Refused(400, "REFUSED", NoRetryAfter))
  /\ UNCHANGED apiVars

\* A request without a key runs every time it arrives.
ApiRunPlain(m, body) ==
  /\ m.key = NoKey
  /\ ran' = ran \cup {m}
  /\ AnswerTo(m, Done(m, body, FALSE))
  /\ UNCHANGED store

\* The first request with a key starts to run; its answer comes when it is done.
ApiStart(m) ==
  /\ m.key # NoKey /\ store[m.key] = None
  /\ store' = [store EXCEPT ![m.key] = [request |-> m.request, done |-> FALSE, run |-> m]]
  /\ ran' = ran \cup {m}
  /\ UNCHANGED inbox

ApiInProgress(m, retryAfter) ==
  /\ m.key # NoKey /\ store[m.key] # None
  /\ store[m.key].request = m.request /\ ~store[m.key].done
  /\ AnswerTo(m, Refused(409, "IDEMPOTENCY_IN_PROGRESS", retryAfter))
  /\ UNCHANGED apiVars

ApiKeyReused(m) ==
  /\ m.key # NoKey /\ store[m.key] # None
  /\ store[m.key].request # m.request
  /\ AnswerTo(m, Refused(422, "IDEMPOTENCY_KEY_REUSED", NoRetryAfter))
  /\ UNCHANGED apiVars

ApiReplay(m, body) ==
  /\ m.key # NoKey /\ store[m.key] # None
  /\ store[m.key].request = m.request /\ store[m.key].done
  /\ AnswerTo(m, Done(store[m.key].run, body, TRUE))
  /\ UNCHANGED apiVars

\* A request arrives at the API.
Deliver(m) ==
  /\ m \in wire
  /\ wire' = wire \ {m}
  /\ \/ ApiRefuse(m)
     \/ \E body \in {"envelope", "empty"} : ApiRunPlain(m, body) \/ ApiReplay(m, body)
     \/ ApiStart(m)
     \/ \E s \in RetryAfters : ApiInProgress(m, s)
     \/ ApiKeyReused(m)
  /\ UNCHANGED clientVars

\* The operation behind a key completes and is answered for the first time.
ApiFinish(k) ==
  /\ store[k] # None /\ ~store[k].done
  /\ store' = [store EXCEPT ![k].done = TRUE]
  /\ \E body \in {"envelope", "empty"} : AnswerTo(store[k].run, Done(store[k].run, body, FALSE))
  /\ UNCHANGED <<clientVars, ran, wire>>

\* Something that is not the API answers in its place, whatever became of the request:
\* a gateway's page, empty or JSON body, or a page that is no gateway error at all.
GatewayPages ==
  {Page(502, "text"), Page(503, "empty"), Page(504, "envelope"), Page(200, "text"), Page(200, "null")}

GatewayAnswer(c) ==
  /\ phase[c] = "waiting" /\ inbox[c] = None
  /\ \E a \in GatewayPages : inbox' = [inbox EXCEPT ![c] = a]
  /\ UNCHANGED <<clientVars, apiVars, wire>>

-------------------------------------------------------------------------------
Init ==
  /\ phase = [c \in Calls |-> "idle"]
  /\ args = [c \in Calls |-> None]
  /\ key = [c \in Calls |-> NoKey]
  /\ sent = [c \in Calls |-> 0]
  /\ transportRetries = [c \in Calls |-> 0]
  /\ inProgressRetries = [c \in Calls |-> 0]
  /\ waited = [c \in Calls |-> 0]
  /\ inbox = [c \in Calls |-> None]
  /\ result = [c \in Calls |-> None]
  /\ minted = {}
  /\ wire = {}
  /\ store = [k \in Keys |-> None]
  /\ ran = {}

Call(c) == \E a \in CallArgs : Refuse(c, a) \/ CallPlain(c, a) \/ CallKeyed(c, a)

Next ==
  \/ \E c \in Calls : Call(c) \/ Settle(c) \/ Wake(c) \/ GatewayAnswer(c)
  \/ \E m \in wire : Deliver(m)
  \/ \E k \in Keys : ApiFinish(k)

Spec == Init /\ [][Next]_vars

\* fetch() settles in the end (undici gives up on a silent connection) and timers
\* fire.  Nothing is assumed of the agent, the network or the API.
Fairness == \A c \in Calls : WF_vars(Settle(c)) /\ WF_vars(Wake(c))

FairSpec == Spec /\ Fairness

-------------------------------------------------------------------------------
(* What must hold. *)

\* The values the variables range over.
TypeOK ==
  /\ phase \in [Calls -> Phases]
  /\ args \in [Calls -> CallArgs \cup {None}]
  /\ key \in [Calls -> Keys \cup {NoKey}]
  /\ sent \in [Calls -> Nat]
  /\ transportRetries \in [Calls -> Nat]
  /\ inProgressRetries \in [Calls -> Nat]
  /\ waited \in [Calls -> Nat]
  /\ inbox \in [Calls -> Answers(Messages \cup {None}) \cup {None}]
  /\ result \in [Calls -> Results \cup {None}]
  /\ minted \subseteq UUIDs
  /\ wire \subseteq Messages
  /\ store \in [Keys -> Records \cup {None}]
  /\ ran \subseteq Messages

\* One logical operation: one call, or the calls that share the agent's own key.
SameOperation(c, d) ==
  \/ c = d
  \/ /\ Keyed(args[c]) /\ Keyed(args[d])
     /\ args[c].key \in AgentKeys /\ args[c].key = args[d].key

\* Whatever is dropped, late, repeated or concurrent, an operation runs at most
\* once: README "the API runs it at most once", client.ts "One logical operation =
\* one key".  A write without a key is covered too, since it is never repeated.
AtMostOnce == \A m, n \in ran : SameOperation(m.call, n.call) => m = n

Succeeds(c) == result[c] # None /\ result[c].ok

\* A success is the answer of the one run of this very request, by this call or by
\* another call with the same key: never an answer to something else.
SuccessReportsTheRun ==
  \A c \in Calls : Succeeds(c) =>
    LET m == result[c].answer.run
    IN  m \in ran /\ SameOperation(m.call, c) /\ m.request = args[c].request

HasBody(c) == result[c].answer.body = "envelope"

\* Of all the calls told about one run, at most one is told without the replay
\* note, and only that one may take the run for its own (README: a replayed answer
\* says so).  An answer without a body cannot carry the note and is left out.
FirstAnswerOnce ==
  \A c, d \in Calls :
    /\ Succeeds(c) /\ Succeeds(d) /\ HasBody(c) /\ HasBody(d)
    /\ result[c].answer.run = result[d].answer.run
    /\ ~result[c].note /\ ~result[d].note
    => c = d

\* A credential is shown to one call at most, and every other success of that
\* operation names the credential it lacks in its note.
CredentialShownOrExplained ==
  /\ \A c \in Calls : Succeeds(c) /\ HasBody(c) /\ args[c].tool.secret =>
       \/ result[c].secrets = "shown"
       \/ result[c].secrets = "omitted" /\ result[c].note
  /\ \A c, d \in Calls :
       /\ Succeeds(c) /\ Succeeds(d)
       /\ result[c].secrets = "shown" /\ result[d].secrets = "shown"
       /\ result[c].answer.run = result[d].answer.run
       => c = d

\* Both transport and in-progress retries are bounded, and so is the time asleep.
BoundedEffort ==
  \A c \in Calls :
    /\ waited[c] <= IN_PROGRESS_MAX_RETRIES * IN_PROGRESS_RETRY_AFTER_CAP_SECONDS
    /\ sent[c] <= 1 + GENERATED_KEY_TRANSPORT_RETRIES + IN_PROGRESS_MAX_RETRIES

\* The API's own no is the truth about the call ("Nothing was run"): none of its
\* requests has run, and none is still on its way to run later.  The exception is a
\* call that spent a transport retry: the dropped first request may still arrive.
NoMeansNotRun ==
  \A c \in Calls :
    /\ result[c] # None
    /\ result[c].code \in {"REFUSED", "IDEMPOTENCY_KEY_REUSED"}
    /\ Keyed(args[c]) => transportRetries[c] = TransportRetriesFor(args[c])
    => \A m \in ran \cup wire : m.call # c

\* A gateway's error in place of the API's answer counts as a dropped answer
\* (CHANGELOG, "a gateway 502/503/504 page counts as a dropped answer"; client.ts,
\* `transport`: "The answer never arrived ... or a gateway replaced it"), so a call
\* does not end on one with its transport retry unspent.
GatewayErrorIsADrop ==
  \A c \in Calls :
    /\ result[c] # None /\ Keyed(args[c])
    /\ result[c].answer # None
    => (result[c].answer.status \in GATEWAY_STATUSES => transportRetries[c] = 0)

\* No request leaves the server for a gated tool without confirm:true, nor for
\* arguments that do not parse or a path that cannot be built.
NothingBeforeTheGate ==
  \A m \in ran \cup wire :
    LET a == args[m.call]
    IN  (a.tool.gated => a.confirm) /\ a.valid /\ a.path /\ a.key # BadKey

\* Every call the server sends out is answered, however the network and the API behave.
EveryCallIsAnswered ==
  \A c \in Calls : (phase[c] \in {"waiting", "sleeping"}) ~> (phase[c] = "answered")
===============================================================================
