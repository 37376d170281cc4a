----------------------------- MODULE SafeRetryInv -----------------------------
(***************************************************************************)
(* The inductive invariant of SafeRetry: what is true of every request on  *)
(* the wire, every key, every record of the API and every answer, on which *)
(* the safety properties rest.                                             *)
(***************************************************************************)
EXTENDS SafeRetry

Dispatched(c) == sent[c] > 0

\* A call that has gone out was let through, and its key is settled for good.
KeysSettled ==
  \A c \in Calls :
    /\ phase[c] = "idle" => sent[c] = 0 /\ key[c] = NoKey
    /\ phase[c] \in {"waiting", "sleeping"} => Dispatched(c)
    /\ Dispatched(c) =>
         /\ args[c] \in CallArgs
         /\ Refusal(args[c]) = "NONE"
         /\ ~Keyed(args[c]) => key[c] = NoKey /\ sent[c] = 1 /\ phase[c] # "sleeping"
         /\ Keyed(args[c]) /\ args[c].key # NoKey => key[c] = args[c].key
         /\ Keyed(args[c]) /\ args[c].key = NoKey => key[c] \in minted

\* A generated key belongs to one call.
GeneratedKeysDiffer ==
  \A c, d \in Calls :
    Dispatched(c) /\ Dispatched(d) /\ key[c] = key[d] /\ key[c] \in UUIDs => c = d

\* Every attempt of a call is the same request with the same key.
AttemptsAgree ==
  \A m \in wire \cup ran :
    /\ m.try \in 1..sent[m.call]
    /\ m.key = key[m.call]
    /\ m.request = args[m.call].request

\* The API has one record for each key in use, and it is the record of its one run.
StoreKeepsTheRun ==
  /\ \A m \in ran : m.key # NoKey => store[m.key] # None /\ store[m.key].run = m
  /\ \A k \in Keys : store[k] # None =>
       /\ store[k].run \in ran
       /\ store[k].run.key = k
       /\ store[k].run.request = store[k].request

\* A write without a key that has run has no copy of itself left on the wire.
PlainNeverAgain == \A m \in ran, n \in wire : m.key = NoKey => m.call # n.call

\* What counts as a success comes from the run of this very request, and only the
\* call that was run gets an answer that is not marked as a replay.
ReportsTheRun(c, a) ==
  Do(a).ok =>
    /\ a.run \in ran
    /\ a.run.request = args[c].request
    /\ a.run.key = key[c]
    /\ key[c] = NoKey => a.run.call = c
    /\ a.body = "envelope" /\ ~Do(a).replayed => a.run.call = c

\* A success told to the agent: such an answer, with the note that it deserves.
TellsTheRun(c, r) ==
  /\ r.answer # None
  /\ Do(r.answer).ok
  /\ ReportsTheRun(c, r.answer)
  /\ r.note = (Keyed(args[c]) /\ Do(r.answer).replayed)

AnswersReportTheRun ==
  \A c \in Calls :
    /\ inbox[c] # None => Dispatched(c) /\ ReportsTheRun(c, inbox[c])
    /\ Succeeds(c) => Dispatched(c) /\ TellsTheRun(c, result[c])

\* The conjunction that every step preserves.  Its parts say why no operation runs
\* twice (client.ts: one key per logical operation; only a keyed POST is retried).
IInv ==
  /\ TypeOK
  /\ KeysSettled
  /\ GeneratedKeysDiffer
  /\ AttemptsAgree
  /\ StoreKeepsTheRun
  /\ PlainNeverAgain
  /\ AnswersReportTheRun

\* The agent is told once, at the very end of a call.
NotToldYet == \A c \in Calls : phase[c] # "answered" => result[c] = None

\* The attempts a call may use up.
MaxAttempts == 1 + GENERATED_KEY_TRANSPORT_RETRIES + IN_PROGRESS_MAX_RETRIES

\* Every attempt beyond the first and every second asleep is paid for by a counter.
EffortPaid(c) ==
  /\ ~Dispatched(c) => waited[c] = 0 /\ transportRetries[c] = 0 /\ inProgressRetries[c] = 0
  /\ inProgressRetries[c] <= IN_PROGRESS_MAX_RETRIES
  /\ waited[c] <= (IN_PROGRESS_MAX_RETRIES - inProgressRetries[c]) * IN_PROGRESS_RETRY_AFTER_CAP_SECONDS
  /\ sent[c] + transportRetries[c] + inProgressRetries[c] + (IF phase[c] = "sleeping" THEN 1 ELSE 0)
       <= MaxAttempts

EffortCounted == \A c \in Calls : EffortPaid(c)

-------------------------------------------------------------------------------
(* Behind NoMeansNotRun: where the requests of a call can be. *)

RefusalCodes == {"REFUSED", "IDEMPOTENCY_KEY_REUSED"}

\* The API did not run this request and will not.
SaysNo(a) == Do(a).code \in RefusalCodes \cup {"IDEMPOTENCY_IN_PROGRESS"}

NothingSpent(c) == Keyed(args[c]) => transportRetries[c] = TransportRetriesFor(args[c])

NoneLeft(c) == \A m \in wire \cup ran : m.call # c

\* While no attempt was given up as dropped, the last one is the only one that can
\* have arrived or still arrive, and not even that once the API has said no.
LastAttemptOnly(c) ==
  /\ \A m \in wire \cup ran : m.call = c => m.try = sent[c]
  /\ phase[c] = "sleeping" => NoneLeft(c)
  /\ inbox[c] # None /\ SaysNo(inbox[c]) => NoneLeft(c)
  /\ result[c] # None /\ result[c].code \in RefusalCodes => NoneLeft(c)

RetriesWithinLimit(c) ==
  Dispatched(c) /\ Keyed(args[c]) => transportRetries[c] <= TransportRetriesFor(args[c])

NoIsTrue ==
  /\ NotToldYet
  /\ wire \cap ran = {}
  /\ \A c \in Calls :
       /\ RetriesWithinLimit(c)
       /\ Dispatched(c) /\ NothingSpent(c) => LastAttemptOnly(c)

-------------------------------------------------------------------------------
(* Behind CredentialShownOrExplained: what an answer carries. *)

\* The first answer of a secret's tool carries the credential, its replay lacks it.
CarriesItsSecret(c, a) ==
  /\ Do(a).ok /\ Do(a).replayed => key[c] # NoKey
  /\ Do(a).ok /\ a.body = "envelope" =>
       Do(a).secrets = IF ~args[c].tool.secret THEN "none"
                       ELSE IF Do(a).replayed THEN "omitted" ELSE "shown"

SecretsAccounted ==
  \A c \in Calls :
    /\ inbox[c] # None => CarriesItsSecret(c, inbox[c])
    /\ Succeeds(c) => CarriesItsSecret(c, result[c].answer) /\ result[c].secrets = Do(result[c].answer).secrets
===============================================================================
