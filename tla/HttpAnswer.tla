------------------------------ MODULE HttpAnswer ------------------------------
(***************************************************************************)
(* One HTTP exchange as RareCloudClient.do (client.ts) sees it.            *)
(*                                                                         *)
(* An answer is what fetch() and resp.text() leave behind: the status, the *)
(* shape of the body, and the few fields of envelope and headers that the  *)
(* code reads.  The payload itself is abstracted to "run", the execution   *)
(* of the operation that the answer reports.                               *)
(***************************************************************************)
EXTENDS Integers

\* No usable Retry-After: the header is missing, unreadable or negative.
NoRetryAfter == -1

\* A gateway in front of the API answers with one of these.
GATEWAY_STATUSES == {502, 503, 504}

Statuses == {0, 200, 400, 409, 422} \cup GATEWAY_STATUSES

\* "dropped": fetch() or text() rejected.  "text": not JSON.  "null": the JSON
\* literal null.  "envelope": any other JSON value.
Bodies == {"dropped", "empty", "text", "null", "envelope"}

\* Error codes an envelope may carry; "NONE" is an envelope without an error.
\* REFUSED stands for every code the client gives no meaning of its own.
EnvelopeCodes == {"NONE", "IDEMPOTENCY_IN_PROGRESS", "IDEMPOTENCY_KEY_REUSED", "REFUSED"}

\* Codes the client makes up when no envelope supplied one.  HTTP_STATUS stands
\* for HTTP_<status>, TYPE_ERROR for the exception that is not an APIError.
ClientCodes == {"NETWORK_ERROR", "HTTP_STATUS", "INVALID_RESPONSE", "UNKNOWN", "TYPE_ERROR"}

\* Whether a credential came with the answer, was left out of it, or neither.
Secrets == {"none", "shown", "omitted"}

Answers(Run) ==
  [status: Statuses, body: Bodies, ok: BOOLEAN, code: EnvelopeCodes,
   replayed: BOOLEAN, retryAfter: Int, secrets: Secrets, run: Run]

IsSuccessStatus(a) == a.status = 200

\* APIErrorDetails.transport for an answer without a usable body.
GatewayInTheWay(a) == a.status \in GATEWAY_STATUSES

Failed(code, transport, retryAfter) ==
  [ok |-> FALSE, code |-> code, transport |-> transport, retryAfter |-> retryAfter,
   replayed |-> FALSE, secrets |-> "none"]

Succeeded(replayed, secrets) ==
  [ok |-> TRUE, code |-> "NONE", transport |-> FALSE, retryAfter |-> NoRetryAfter,
   replayed |-> replayed, secrets |-> secrets]

\* Retry-After as the client keeps it: a finite, non-negative number or nothing.
ParsedRetryAfter(a) == IF a.retryAfter >= 0 THEN a.retryAfter ELSE NoRetryAfter

\* Mutant: a page that is not JSON is believed when its status is a success.
BelievedPage(a) ==
  IF IsSuccessStatus(a) THEN Succeeded(FALSE, "none")
  ELSE Failed("INVALID_RESPONSE", GatewayInTheWay(a), NoRetryAfter)

\* A body that is not JSON is not the API's, whatever the status.
InvalidResponse(a) == Failed("INVALID_RESPONSE", GatewayInTheWay(a), NoRetryAfter)

\* Mutant: an empty body is parsed like any other, which fails.
EmptyIsInvalid(a) == InvalidResponse(a)

\* An empty 2xx body is a success that reports nothing, not even that it was a replay.
EmptyAnswer(a) ==
  IF IsSuccessStatus(a) THEN Succeeded(FALSE, "none")
  ELSE Failed("HTTP_STATUS", GatewayInTheWay(a), NoRetryAfter)

\* What do() returns or throws.
Do(a) ==
  IF a.body = "dropped" THEN Failed("NETWORK_ERROR", TRUE, NoRetryAfter)
  ELSE IF a.body = "empty" THEN EmptyAnswer(a)
  ELSE IF a.body = "text" THEN InvalidResponse(a)
  ELSE IF a.body = "null" THEN Failed("TYPE_ERROR", FALSE, NoRetryAfter)
  ELSE IF a.ok THEN Succeeded(a.replayed, a.secrets)
  ELSE Failed(IF a.code = "NONE" THEN "UNKNOWN" ELSE a.code, FALSE, ParsedRetryAfter(a))

Outcomes ==
  [ok: BOOLEAN, code: EnvelopeCodes \cup ClientCodes, transport: BOOLEAN,
   retryAfter: Int, replayed: BOOLEAN, secrets: Secrets]
===============================================================================
