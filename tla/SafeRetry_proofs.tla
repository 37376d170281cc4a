---------------------------- MODULE SafeRetry_proofs ----------------------------
(***************************************************************************)
(* Proofs about SafeRetry, for any sets of calls, keys and requests and    *)
(* any retry limits.                                                       *)
(***************************************************************************)
EXTENDS SafeRetryInv, TLAPS

-------------------------------------------------------------------------------
(* Facts about operators. *)

\* The two shapes of an outcome.
LEMMA FailedType ==
  ASSUME NEW code \in EnvelopeCodes \cup ClientCodes, NEW transport \in BOOLEAN, NEW s \in Int,
         s >= 0 \/ s = NoRetryAfter
  PROVE  /\ Failed(code, transport, s) \in Outcomes
         /\ \/ Failed(code, transport, s).retryAfter >= 0
            \/ Failed(code, transport, s).retryAfter = NoRetryAfter
BY DEF Failed, Outcomes, Secrets

LEMMA SucceededType ==
  ASSUME NEW replayed \in BOOLEAN, NEW secrets \in Secrets
  PROVE  /\ Succeeded(replayed, secrets) \in Outcomes
         /\ Succeeded(replayed, secrets).retryAfter = NoRetryAfter
BY DEF Succeeded, Outcomes, NoRetryAfter, EnvelopeCodes

\* Retry-After is kept as a non-negative number or not at all (client.ts, do).
LEMMA ParsedRetryAfterType ==
  ASSUME NEW Run, NEW a \in Answers(Run)
  PROVE  /\ ParsedRetryAfter(a) \in Int
         /\ ParsedRetryAfter(a) >= 0 \/ ParsedRetryAfter(a) = NoRetryAfter
BY DEF ParsedRetryAfter, Answers, NoRetryAfter

\* do() returns a well-formed outcome for every answer (client.ts, do).
LEMMA DoType ==
  ASSUME NEW Run, NEW a \in Answers(Run)
  PROVE  /\ Do(a) \in Outcomes
         /\ Do(a).retryAfter >= 0 \/ Do(a).retryAfter = NoRetryAfter
<1>0. /\ NoRetryAfter \in Int
      /\ GatewayInTheWay(a) \in BOOLEAN
      /\ a.replayed \in BOOLEAN /\ a.secrets \in Secrets /\ "none" \in Secrets
      /\ a.code \in EnvelopeCodes
      /\ {"NETWORK_ERROR", "HTTP_STATUS", "INVALID_RESPONSE", "TYPE_ERROR", "UNKNOWN"} \subseteq ClientCodes
  BY DEF NoRetryAfter, GatewayInTheWay, Answers, Secrets, ClientCodes
<1>1. CASE a.body = "dropped"
  <2>1. Do(a) = Failed("NETWORK_ERROR", TRUE, NoRetryAfter)
    BY <1>1 DEF Do, EmptyAnswer
  <2>2. QED
    BY <1>0, <2>1, FailedType
<1>2. CASE a.body = "empty"
  <2>1. Do(a) \in {Succeeded(FALSE, "none"), Failed("HTTP_STATUS", GatewayInTheWay(a), NoRetryAfter)}
    BY <1>2 DEF Do, EmptyAnswer
  <2>2. QED
    BY <1>0, <2>1, FailedType, SucceededType
<1>3. CASE a.body = "text"
  <2>1. Do(a) = Failed("INVALID_RESPONSE", GatewayInTheWay(a), NoRetryAfter)
    BY <1>3 DEF Do, EmptyAnswer, InvalidResponse
  <2>2. QED
    BY <1>0, <2>1, FailedType
<1>4. CASE a.body = "null"
  <2>1. Do(a) = Failed("TYPE_ERROR", FALSE, NoRetryAfter)
    BY <1>4 DEF Do, EmptyAnswer
  <2>2. QED
    BY <1>0, <2>1, FailedType
<1>5. CASE a.body = "envelope"
  <2> DEFINE code == IF a.code = "NONE" THEN "UNKNOWN" ELSE a.code
  <2>1. Do(a) \in {Succeeded(a.replayed, a.secrets), Failed(code, FALSE, ParsedRetryAfter(a))}
    BY <1>5 DEF Do, EmptyAnswer
  <2>2. code \in EnvelopeCodes \cup ClientCodes
    BY <1>0
  <2> HIDE DEF code
  <2>3. QED
    BY <1>0, <2>1, <2>2, FailedType, SucceededType, ParsedRetryAfterType
<1>6. QED
  BY <1>1, <1>2, <1>3, <1>4, <1>5 DEF Answers, Bodies

\* A dropped connection is never a success.
LEMMA DroppedFails == ~Do(Dropped).ok
BY DEF Do, EmptyAnswer, Dropped, Page, Failed

\* The made-up answers are answers.
LEMMA DroppedType == ASSUME NEW Run PROVE Dropped \in Answers(Run \cup {None})
BY DEF Dropped, Page, Answers, Statuses, Bodies, EnvelopeCodes, Secrets, NoRetryAfter

\* The wait before an in-progress retry is a number of seconds within the cap.
LEMMA WaitSecondsType ==
  ASSUME NEW Run, NEW a \in Answers(Run)
  PROVE  /\ WaitSeconds(a) \in Nat
         /\ WaitSeconds(a) <= IN_PROGRESS_RETRY_AFTER_CAP_SECONDS
<1>1. Do(a).retryAfter \in Int /\ (Do(a).retryAfter >= 0 \/ Do(a).retryAfter = NoRetryAfter)
  BY DoType DEF Outcomes
<1>2. QED
  BY <1>1, LimitsAreNaturals DEF WaitSeconds, Min2, NoRetryAfter

\* Agent keys, generated keys and "no key" do not mix.
LEMMA KeyFacts ==
  /\ NoKey \notin Keys
  /\ AgentKeys \cap UUIDs = {}
BY KeysAreDistinct, UUIDsAreFresh DEF Keys

\* What the handler has established about the arguments when it lets a call through
\* (factories.ts, steps 1 to 3 of the handler).
LEMMA LetThrough ==
  ASSUME NEW a \in CallArgs, Refusal(a) = "NONE"
  PROVE  /\ a \in Arguments /\ a.request \in Requests
         /\ a.valid /\ a.path /\ a.key # BadKey
         /\ a.tool.gated => a.confirm
         /\ a.key # NoKey => a.key \in AgentKeys
<1>1. a \in Arguments
  BY CallArgsAreArguments
<1>2. InputAccepted(a) /\ ConfirmGateOpen(a) /\ a.path
  BY DEF Refusal
<1>3. QED
  BY <1>1, <1>2 DEF Arguments, InputAccepted, DomainArgumentsParse, KeyAccepted, ConfirmGateOpen

-------------------------------------------------------------------------------
(* IInv is inductive: the steps of the server. *)

LEMMA InitIInv == Init => IInv
<1> SUFFICES ASSUME Init PROVE IInv
  OBVIOUS
<1>1. TypeOK
  BY DEF Init, TypeOK, Phases, Keys
<1>2. KeysSettled /\ GeneratedKeysDiffer /\ AttemptsAgree /\ PlainNeverAgain
  BY DEF Init, KeysSettled, GeneratedKeysDiffer, AttemptsAgree, PlainNeverAgain, Dispatched
<1>3. StoreKeepsTheRun /\ AnswersReportTheRun
  BY DEF Init, StoreKeepsTheRun, AnswersReportTheRun, Succeeds
<1>4. QED
  BY <1>1, <1>2, <1>3 DEF IInv

\* Any fetch(): a call sends its next attempt, or its first one with a key that no
\* other call has as its generated key.
LEMMA SendPreserves ==
  ASSUME IInv, NEW c \in Calls, NEW k \in Keys \cup {NoKey}, NEW r \in Requests,
         Send(c, k, r),
         UNCHANGED <<result, store, ran>>,
         args' \in [Calls -> CallArgs \cup {None}],
         key' \in [Calls -> Keys \cup {NoKey}],
         transportRetries' \in [Calls -> Nat],
         inProgressRetries' \in [Calls -> Nat],
         waited' \in [Calls -> Nat],
         minted \subseteq minted', minted' \subseteq UUIDs,
         \A d \in Calls \ {c} : args'[d] = args[d] /\ key'[d] = key[d],
         Dispatched(c) => args'[c] = args[c] /\ key'[c] = key[c],
         args'[c] \in CallArgs, Refusal(args'[c]) = "NONE",
         key'[c] = k, args'[c].request = r,
         ~Keyed(args'[c]) => k = NoKey /\ sent[c] = 0,
         Keyed(args'[c]) /\ args'[c].key # NoKey => k = args'[c].key,
         Keyed(args'[c]) /\ args'[c].key = NoKey => k \in minted',
         k \in UUIDs => \A d \in Calls : Dispatched(d) /\ key[d] = k => d = c
  PROVE  IInv'
<1> DEFINE m == Message(c, k, r)
<1>1. /\ m \in Messages
      /\ m.call = c /\ m.try = sent[c] + 1 /\ m.key = k /\ m.request = r
  BY DEF IInv, TypeOK, Message, Messages
<1> HIDE DEF m
<1>2. /\ wire' = wire \cup {m}
      /\ sent' = [sent EXCEPT ![c] = @ + 1]
      /\ inbox' = [inbox EXCEPT ![c] = None]
      /\ phase' = [phase EXCEPT ![c] = "waiting"]
  BY DEF Send, m
<1>3. TypeOK'
  <2>1. /\ wire' \subseteq Messages
        /\ sent' \in [Calls -> Nat]
        /\ phase' \in [Calls -> Phases]
    BY <1>1, <1>2 DEF IInv, TypeOK, Phases
  <2>2. inbox' \in [Calls -> Answers(Messages \cup {None}) \cup {None}]
    BY <1>2 DEF IInv, TypeOK
  <2>3. QED
    BY <2>1, <2>2 DEF IInv, TypeOK
<1>4. \A d \in Calls : /\ sent[d] \in Nat /\ sent'[d] \in Nat
                       /\ sent'[d] = IF d = c THEN sent[d] + 1 ELSE sent[d]
                       /\ Dispatched(d) => Dispatched(d)' /\ args'[d] = args[d] /\ key'[d] = key[d]
  BY <1>2 DEF IInv, TypeOK, Dispatched
<1>5. KeysSettled'
  BY <1>2, <1>4 DEF IInv, TypeOK, KeysSettled, Dispatched
<1>6. GeneratedKeysDiffer'
  BY <1>2, <1>4 DEF IInv, TypeOK, GeneratedKeysDiffer, Dispatched
<1>7. \A n \in wire \cup ran : Dispatched(n.call) /\ n.call \in Calls /\ n.try \in Nat /\ n.try <= sent[n.call]
  BY DEF IInv, TypeOK, AttemptsAgree, Messages, Dispatched
<1>8. AttemptsAgree'
  BY <1>1, <1>2, <1>4, <1>7 DEF IInv, AttemptsAgree
<1>9. StoreKeepsTheRun'
  BY DEF IInv, StoreKeepsTheRun
<1>10. PlainNeverAgain'
  <2> SUFFICES ASSUME NEW n \in ran, n.key = NoKey, n.call = c PROVE FALSE
    BY <1>1, <1>2 DEF IInv, PlainNeverAgain
  <2>1. Dispatched(c) /\ key[c] = NoKey
    BY <1>7 DEF IInv, AttemptsAgree
  <2>2. Keyed(args[c])
    BY <2>1, <1>4 DEF IInv, TypeOK, Dispatched
  <2>3. key[c] \in Keys
    BY <2>1, <2>2, LetThrough DEF IInv, TypeOK, KeysSettled, Keys
  <2>4. QED
    BY <2>1, <2>3, KeyFacts
<1>11. AnswersReportTheRun'
  BY <1>2, <1>4 DEF IInv, TypeOK, AnswersReportTheRun, TellsTheRun, ReportsTheRun, Succeeds
<1>12. QED
  BY <1>3, <1>5, <1>6, <1>8, <1>9, <1>10, <1>11 DEF IInv

LEMMA RefusePreserves ==
  ASSUME IInv, NEW c \in Calls, NEW a \in CallArgs, Refuse(c, a)
  PROVE  IInv'
<1>1. Refusal(a) \in {"INVALID_INPUT", "NOT_CONFIRMED", "BAD_SEGMENT"}
  BY DEF Refuse, Refusal
<1>2. [ok |-> FALSE, code |-> Refusal(a), note |-> FALSE, secrets |-> "none", answer |-> None] \in Results
  BY <1>1 DEF Results, Secrets
<1>3. TypeOK'
  BY <1>2 DEF IInv, TypeOK, Refuse, Phases, apiVars
<1>4. sent[c] = 0 /\ ~Dispatched(c)
  BY DEF IInv, KeysSettled, Refuse, Dispatched, TypeOK
<1>5. /\ UNCHANGED <<key, sent, minted, inbox, wire, store, ran>>
      /\ \A d \in Calls : (Dispatched(d) <=> Dispatched(d)') /\ (Dispatched(d) => d # c)
      /\ \A d \in Calls \ {c} : phase'[d] = phase[d] /\ args'[d] = args[d] /\ result'[d] = result[d]
      /\ phase'[c] = "answered" /\ ~result'[c].ok
  BY <1>4 DEF IInv, TypeOK, Refuse, apiVars, Dispatched
<1>6. KeysSettled' /\ GeneratedKeysDiffer'
  BY <1>4, <1>5 DEF IInv, TypeOK, KeysSettled, GeneratedKeysDiffer
<1>7. \A m \in wire \cup ran : m.call # c
  BY <1>4 DEF IInv, TypeOK, AttemptsAgree
<1>8. AttemptsAgree'
  BY <1>5, <1>7 DEF IInv, TypeOK, AttemptsAgree, Messages
<1>9. StoreKeepsTheRun' /\ PlainNeverAgain'
  BY <1>5 DEF IInv, StoreKeepsTheRun, PlainNeverAgain
<1>10. AnswersReportTheRun'
  BY <1>5 DEF IInv, TypeOK, AnswersReportTheRun, TellsTheRun, ReportsTheRun, Succeeds
<1>11. QED
  BY <1>3, <1>6, <1>8, <1>9, <1>10 DEF IInv

LEMMA CallPlainPreserves ==
  ASSUME IInv, NEW c \in Calls, NEW a \in CallArgs, CallPlain(c, a)
  PROVE  IInv'
<1>1. sent[c] = 0 /\ ~Dispatched(c) /\ key[c] = NoKey
  BY DEF IInv, KeysSettled, CallPlain, Dispatched, TypeOK
<1>2. /\ a.request \in Requests /\ Refusal(a) = "NONE" /\ ~Keyed(a)
      /\ Send(c, NoKey, a.request)
      /\ UNCHANGED <<result, store, ran, key, transportRetries, inProgressRetries, waited, minted>>
  BY LetThrough DEF CallPlain, apiVars
<1>3. /\ args' \in [Calls -> CallArgs \cup {None}]
      /\ args'[c] = a
      /\ \A d \in Calls \ {c} : args'[d] = args[d]
  BY DEF CallPlain, IInv, TypeOK
<1>4. /\ key' \in [Calls -> Keys \cup {NoKey}]
      /\ transportRetries' \in [Calls -> Nat]
      /\ inProgressRetries' \in [Calls -> Nat]
      /\ waited' \in [Calls -> Nat]
      /\ minted' \subseteq UUIDs
  BY <1>2 DEF IInv, TypeOK
<1>5. NoKey \notin UUIDs
  BY KeyFacts DEF Keys
<1>6. QED
  BY <1>1, <1>2, <1>3, <1>4, <1>5, SendPreserves

LEMMA CallKeyedPreserves ==
  ASSUME IInv, NEW c \in Calls, NEW a \in CallArgs, CallKeyed(c, a)
  PROVE  IInv'
<1>1. sent[c] = 0 /\ ~Dispatched(c) /\ key[c] = NoKey
  BY DEF IInv, KeysSettled, CallKeyed, Dispatched, TypeOK
<1>2. /\ a.request \in Requests /\ Refusal(a) = "NONE" /\ Keyed(a)
      /\ a.key # NoKey => a.key \in AgentKeys
      /\ UNCHANGED <<result, store, ran, waited>>
  BY LetThrough DEF CallKeyed, apiVars
<1>3. /\ args' \in [Calls -> CallArgs \cup {None}]
      /\ args'[c] = a
      /\ \A d \in Calls \ {c} : args'[d] = args[d]
      /\ transportRetries' \in [Calls -> Nat]
      /\ inProgressRetries' \in [Calls -> Nat]
      /\ waited' \in [Calls -> Nat]
  BY <1>2, LimitsAreNaturals DEF CallKeyed, IInv, TypeOK, TransportRetriesFor
<1>4. PICK k \in KeyFor(a) : /\ key' = [key EXCEPT ![c] = k]
                             /\ minted' = minted \cup ({k} \cap UUIDs)
                             /\ Send(c, k, a.request)
  BY DEF CallKeyed
<1>5. /\ k \in Keys
      /\ a.key # NoKey => k = a.key /\ k \notin UUIDs
      /\ a.key = NoKey => k \in UUIDs /\ k \notin minted /\ k \in minted'
  BY <1>2, <1>4, KeyFacts DEF KeyFor, Keys
<1>6. /\ key' \in [Calls -> Keys \cup {NoKey}]
      /\ key'[c] = k
      /\ \A d \in Calls \ {c} : key'[d] = key[d]
      /\ minted \subseteq minted' /\ minted' \subseteq UUIDs
  BY <1>4, <1>5 DEF IInv, TypeOK
<1>7. ASSUME k \in UUIDs, NEW d \in Calls, Dispatched(d), key[d] = k
      PROVE  d = c
  <2>1. a.key = NoKey /\ k \notin minted
    BY <1>5, <1>7
  <2>2. /\ args[d] \in CallArgs /\ Refusal(args[d]) = "NONE"
        /\ ~Keyed(args[d]) => key[d] = NoKey
        /\ Keyed(args[d]) /\ args[d].key # NoKey => key[d] = args[d].key
        /\ Keyed(args[d]) /\ args[d].key = NoKey => key[d] \in minted
    BY <1>7 DEF IInv, KeysSettled
  <2>3. QED
    BY <1>7, <2>1, <2>2, LetThrough, KeyFacts DEF Keys
<1>8. QED
  BY <1>1, <1>2, <1>3, <1>4, <1>5, <1>6, <1>7, SendPreserves

\* An attempt after the first repeats the request of a keyed call.
LEMMA ResendPreserves ==
  ASSUME IInv, NEW c \in Calls, phase[c] \in {"waiting", "sleeping"}, Keyed(args[c]),
         Resend(c),
         UNCHANGED <<args, key, inProgressRetries, waited, result, minted, store, ran>>,
         transportRetries' \in [Calls -> Nat]
  PROVE  IInv'
<1>1. /\ Dispatched(c) /\ args[c] \in CallArgs /\ Refusal(args[c]) = "NONE"
      /\ args[c].key # NoKey => key[c] = args[c].key
      /\ args[c].key = NoKey => key[c] \in minted
  BY DEF IInv, KeysSettled
<1>2. args[c].request \in Requests
  BY <1>1, LetThrough
<1>3. key[c] \in Keys \cup {NoKey}
  BY DEF IInv, TypeOK
<1>4. /\ args' \in [Calls -> CallArgs \cup {None}]
      /\ key' \in [Calls -> Keys \cup {NoKey}]
      /\ inProgressRetries' \in [Calls -> Nat]
      /\ waited' \in [Calls -> Nat]
      /\ minted' \subseteq UUIDs
  BY DEF IInv, TypeOK
<1>5. key[c] \in UUIDs => \A d \in Calls : Dispatched(d) /\ key[d] = key[c] => d = c
  BY <1>1 DEF IInv, GeneratedKeysDiffer
<1>6. Send(c, key[c], args[c].request)
  BY DEF Resend
<1>7. QED
  BY <1>1, <1>2, <1>3, <1>4, <1>5, <1>6, SendPreserves

\* Whatever fetch() settles with is an answer; only what the API sent is a success.
LEMMA SettledFacts ==
  ASSUME IInv, NEW c \in Calls, NEW a \in Settled(c)
  PROVE  /\ a \in Answers(Messages \cup {None})
         /\ Do(a) \in Outcomes
         /\ WaitSeconds(a) \in Nat
         /\ Do(a).ok => a # None /\ ReportsTheRun(c, a)
<1>1. a = Dropped \/ (a = inbox[c] /\ a # None)
  BY DEF Settled
<1>2. a \in Answers(Messages \cup {None})
  BY <1>1, DroppedType DEF IInv, TypeOK
<1>3. Do(a) \in Outcomes /\ WaitSeconds(a) \in Nat
  BY <1>2, DoType, WaitSecondsType
<1>4. Do(a).ok => a = inbox[c] /\ a # None
  BY <1>1, DroppedFails
<1>5. QED
  BY <1>2, <1>3, <1>4 DEF IInv, AnswersReportTheRun

LEMMA RetryDroppedPreserves ==
  ASSUME IInv, NEW c \in Calls, NEW a \in Settled(c), RetryDropped(c, a)
  PROVE  IInv'
<1>1. transportRetries' \in [Calls -> Nat]
  BY DEF RetryDropped, MayRetryDropped, IInv, TypeOK
<1>2. QED
  BY <1>1, ResendPreserves DEF RetryDropped, MayRetryDropped, apiVars

LEMMA WakePreserves ==
  ASSUME IInv, NEW c \in Calls, Wake(c)
  PROVE  IInv'
<1>1. Keyed(args[c])
  BY DEF Wake, IInv, KeysSettled
<1>2. transportRetries' \in [Calls -> Nat]
  BY DEF Wake, IInv, TypeOK
<1>3. QED
  BY <1>1, <1>2, ResendPreserves DEF Wake, apiVars

\* A step of one call that sends nothing and leaves its arguments, key and count alone.
LEMMA PausePreserves ==
  ASSUME IInv, NEW c \in Calls, phase[c] = "waiting",
         \/ phase' = [phase EXCEPT ![c] = "sleeping"] /\ Keyed(args[c])
         \/ phase' = [phase EXCEPT ![c] = "answered"],
         inbox' = [inbox EXCEPT ![c] = None],
         UNCHANGED <<args, key, sent, transportRetries, minted, wire, store, ran>>,
         inProgressRetries' \in [Calls -> Nat],
         waited' \in [Calls -> Nat],
         result' \in [Calls -> Results \cup {None}],
         \A d \in Calls \ {c} : result'[d] = result[d],
         result'[c] # None /\ result'[c].ok => TellsTheRun(c, result'[c])
  PROVE  IInv'
<1>1. TypeOK'
  BY DEF IInv, TypeOK, Phases
<1>2. Dispatched(c)
  BY DEF IInv, KeysSettled
<1>3. \A d \in Calls : Dispatched(d)' <=> Dispatched(d)
  BY DEF Dispatched
<1>4. KeysSettled' /\ GeneratedKeysDiffer'
  BY <1>2, <1>3 DEF IInv, TypeOK, KeysSettled, GeneratedKeysDiffer
<1>5. AttemptsAgree' /\ StoreKeepsTheRun' /\ PlainNeverAgain'
  BY DEF IInv, AttemptsAgree, StoreKeepsTheRun, PlainNeverAgain
<1>6. AnswersReportTheRun'
  BY <1>2, <1>3 DEF IInv, TypeOK, AnswersReportTheRun, TellsTheRun, ReportsTheRun, Succeeds
<1>7. QED
  BY <1>1, <1>4, <1>5, <1>6 DEF IInv

LEMMA AwaitInProgressPreserves ==
  ASSUME IInv, NEW c \in Calls, NEW a \in Settled(c), AwaitInProgress(c, a)
  PROVE  IInv'
<1>1. WaitSeconds(a) \in Nat
  BY SettledFacts
<1>2. inProgressRetries' \in [Calls -> Nat] /\ waited' \in [Calls -> Nat]
  BY <1>1 DEF AwaitInProgress, MayAwaitInProgress, IInv, TypeOK
<1>3. Succeeds(c) => TellsTheRun(c, result[c])
  BY DEF IInv, AnswersReportTheRun
<1>4. QED
  BY <1>2, <1>3, PausePreserves DEF AwaitInProgress, MayAwaitInProgress, apiVars, Succeeds, IInv, TypeOK

LEMMA ReturnPreserves ==
  ASSUME IInv, NEW c \in Calls, NEW a \in Settled(c), Return(c, a)
  PROVE  IInv'
<1>1. /\ a \in Answers(Messages \cup {None})
      /\ Do(a) \in Outcomes
      /\ Do(a).ok => a # None /\ ReportsTheRun(c, a)
  BY SettledFacts
<1>2. /\ ResultOf(c, a) \in Results /\ ResultOf(c, a).ok = Do(a).ok
      /\ Do(a).ok => TellsTheRun(c, ResultOf(c, a))
  BY <1>1 DEF ResultOf, Results, Outcomes, TellsTheRun
<1>3. /\ result' \in [Calls -> Results \cup {None}]
      /\ result'[c] = ResultOf(c, a)
      /\ \A d \in Calls \ {c} : result'[d] = result[d]
  BY <1>2 DEF Return, IInv, TypeOK
<1>4. inProgressRetries' \in [Calls -> Nat] /\ waited' \in [Calls -> Nat]
  BY DEF Return, IInv, TypeOK
<1>5. QED
  BY <1>1, <1>2, <1>3, <1>4, PausePreserves DEF Return, apiVars

-------------------------------------------------------------------------------
(* IInv is inductive: the steps of the API and the gateway. *)

\* An answer that reports the run of the request it answers may reach the call.
LEMMA AnswerPreserves ==
  ASSUME IInv, NEW m \in Messages, NEW a \in Answers(Messages \cup {None}),
         Dispatched(m.call),
         AnswerTo(m, a),
         UNCHANGED clientVars,
         ran \subseteq ran',
         Do(a).ok => ReportsTheRun(m.call, a)'
  PROVE  /\ inbox' \in [Calls -> Answers(Messages \cup {None}) \cup {None}]
         /\ AnswersReportTheRun'
<1>1. m.call \in Calls
  BY DEF Messages
<1>2. inbox' = inbox \/ inbox' = [inbox EXCEPT ![m.call] = a]
  BY DEF AnswerTo
<1>3. inbox' \in [Calls -> Answers(Messages \cup {None}) \cup {None}]
  BY <1>1, <1>2 DEF IInv, TypeOK
<1>4. UNCHANGED <<args, key, sent, result>>
  BY DEF clientVars
<1>5. \A c \in Calls : inbox'[c] = inbox[c] \/ (c = m.call /\ inbox'[c] = a)
  BY <1>1, <1>2 DEF IInv, TypeOK
<1>6. AnswersReportTheRun'
  BY <1>1, <1>4, <1>5 DEF IInv, AnswersReportTheRun, TellsTheRun, ReportsTheRun, Succeeds, Dispatched
<1>7. QED
  BY <1>3, <1>6

\* The API's answers are answers.
LEMMA DoneFacts ==
  ASSUME NEW m \in Messages, NEW body \in {"envelope", "empty"}, NEW replayed \in BOOLEAN
  PROVE  /\ Done(m, body, replayed) \in Answers(Messages \cup {None})
         /\ Done(m, body, replayed).run = m
BY DEF Done, Answers, Statuses, Bodies, Secrets, EnvelopeCodes, NoRetryAfter

\* The header of a replay is seen whenever the answer has a body.
LEMMA ReplayedSaysSo ==
  ASSUME NEW m, NEW body
  PROVE  Done(m, body, TRUE).body = "envelope" => Do(Done(m, body, TRUE)).replayed
BY DEF Done, Do, EmptyAnswer, Succeeded

LEMMA PageType ==
  ASSUME NEW status \in Statuses, NEW body \in Bodies
  PROVE  Page(status, body) \in Answers(Messages \cup {None})
BY DEF Page, Answers, Secrets, EnvelopeCodes, NoRetryAfter

LEMMA PageFails ==
  ASSUME NEW status \in Statuses, NEW body \in Bodies, body = "empty" => status # 200
  PROVE  ~Do(Page(status, body)).ok
BY DEF Page, Do, EmptyAnswer, InvalidResponse, Failed, IsSuccessStatus

LEMMA GatewayPagesFacts ==
  ASSUME NEW a \in GatewayPages
  PROVE  /\ a \in Answers(Messages \cup {None})
         /\ ~Do(a).ok
<1>1. PICK status \in Statuses, body \in Bodies :
        a = Page(status, body) /\ (body = "empty" => status # 200)
  BY DEF GatewayPages, Statuses, GATEWAY_STATUSES, Bodies
<1>2. QED
  BY <1>1, PageType, PageFails

\* A request on the wire is the request of a call that was let through.
LEMMA OnTheWire ==
  ASSUME IInv, NEW m \in wire
  PROVE  /\ m \in Messages /\ m.call \in Calls /\ Dispatched(m.call)
         /\ m.key = key[m.call] /\ m.request = args[m.call].request
         /\ m.key # NoKey => m.key \in Keys
BY DEF IInv, TypeOK, AttemptsAgree, Messages, Dispatched

\* The API answers a request without touching its records.
LEMMA AnswerOnlyPreserves ==
  ASSUME IInv, NEW m \in wire, NEW a \in Answers(Messages \cup {None}),
         wire' = wire \ {m},
         AnswerTo(m, a),
         UNCHANGED <<clientVars, store, ran>>,
         Do(a).ok => ReportsTheRun(m.call, a)
  PROVE  IInv'
<1>1. m \in Messages /\ Dispatched(m.call)
  BY OnTheWire
<1>2. /\ inbox' \in [Calls -> Answers(Messages \cup {None}) \cup {None}]
      /\ AnswersReportTheRun'
  <2>1. UNCHANGED <<args, key, ran>> /\ UNCHANGED clientVars
    BY DEF clientVars
  <2>2. Do(a).ok => ReportsTheRun(m.call, a)'
    BY <2>1 DEF ReportsTheRun
  <2>3. QED
    BY <1>1, <2>1, <2>2, AnswerPreserves
<1>3. TypeOK'
  BY <1>2 DEF IInv, TypeOK, clientVars
<1>4. KeysSettled' /\ GeneratedKeysDiffer'
  BY DEF IInv, KeysSettled, GeneratedKeysDiffer, Dispatched, clientVars
<1>5. AttemptsAgree' /\ StoreKeepsTheRun' /\ PlainNeverAgain'
  BY DEF IInv, AttemptsAgree, StoreKeepsTheRun, PlainNeverAgain, clientVars
<1>6. QED
  BY <1>2, <1>3, <1>4, <1>5 DEF IInv

LEMMA ApiRefusePreserves ==
  ASSUME IInv, NEW m \in wire, wire' = wire \ {m}, ApiRefuse(m), UNCHANGED clientVars
  PROVE  IInv'
<1>1. "REFUSED" \in EnvelopeCodes /\ NoRetryAfter \in Int /\ 400 \in {400, 409, 422}
  BY DEF EnvelopeCodes, NoRetryAfter
<1>2. PICK a : a = Refused(400, "REFUSED", NoRetryAfter)
  OBVIOUS
<1>3. a \in Answers(Messages \cup {None}) /\ ~Do(a).ok
  BY <1>1, <1>2 DEF Refused, Answers, Statuses, Bodies, Secrets, EnvelopeCodes, NoRetryAfter, Do, EmptyAnswer, Failed
<1>4. AnswerTo(m, a) /\ UNCHANGED <<clientVars, store, ran>>
  BY <1>2 DEF ApiRefuse, apiVars
<1>5. QED
  BY <1>3, <1>4, AnswerOnlyPreserves

LEMMA ApiInProgressPreserves ==
  ASSUME IInv, NEW m \in wire, NEW s \in RetryAfters,
         wire' = wire \ {m}, ApiInProgress(m, s), UNCHANGED clientVars
  PROVE  IInv'
<1>1. "IDEMPOTENCY_IN_PROGRESS" \in EnvelopeCodes /\ s \in Int /\ 409 \in {400, 409, 422}
  BY RetryAfterIsNumber DEF EnvelopeCodes, NoRetryAfter
<1>2. PICK a : a = Refused(409, "IDEMPOTENCY_IN_PROGRESS", s)
  OBVIOUS
<1>3. a \in Answers(Messages \cup {None}) /\ ~Do(a).ok
  BY <1>1, <1>2 DEF Refused, Answers, Statuses, Bodies, Secrets, EnvelopeCodes, NoRetryAfter, Do, EmptyAnswer, Failed
<1>4. AnswerTo(m, a) /\ UNCHANGED <<clientVars, store, ran>>
  BY <1>2 DEF ApiInProgress, apiVars
<1>5. QED
  BY <1>3, <1>4, AnswerOnlyPreserves

LEMMA ApiKeyReusedPreserves ==
  ASSUME IInv, NEW m \in wire, wire' = wire \ {m}, ApiKeyReused(m), UNCHANGED clientVars
  PROVE  IInv'
<1>1. "IDEMPOTENCY_KEY_REUSED" \in EnvelopeCodes /\ NoRetryAfter \in Int /\ 422 \in {400, 409, 422}
  BY DEF EnvelopeCodes, NoRetryAfter
<1>2. PICK a : a = Refused(422, "IDEMPOTENCY_KEY_REUSED", NoRetryAfter)
  OBVIOUS
<1>3. a \in Answers(Messages \cup {None}) /\ ~Do(a).ok
  BY <1>1, <1>2 DEF Refused, Answers, Statuses, Bodies, Secrets, EnvelopeCodes, NoRetryAfter, Do, EmptyAnswer, Failed
<1>4. AnswerTo(m, a) /\ UNCHANGED <<clientVars, store, ran>>
  BY <1>2 DEF ApiKeyReused, apiVars
<1>5. QED
  BY <1>3, <1>4, AnswerOnlyPreserves

LEMMA ApiReplayPreserves ==
  ASSUME IInv, NEW m \in wire, NEW body \in {"envelope", "empty"},
         wire' = wire \ {m}, ApiReplay(m, body), UNCHANGED clientVars
  PROVE  IInv'
<1> DEFINE r == store[m.key].run
           a == Done(r, body, TRUE)
<1>1. m \in Messages /\ m.key \in Keys /\ m.key = key[m.call] /\ m.request = args[m.call].request
  BY OnTheWire DEF ApiReplay
<1>2. r \in ran /\ r \in Messages /\ r.key = m.key /\ r.request = m.request
  BY <1>1 DEF ApiReplay, IInv, TypeOK, StoreKeepsTheRun
<1>3. a \in Answers(Messages \cup {None}) /\ a.run = r
  BY <1>2, DoneFacts
<1>4. AnswerTo(m, a) /\ UNCHANGED <<clientVars, store, ran>>
  BY DEF ApiReplay, apiVars
<1>5. key[m.call] # NoKey
  BY <1>1 DEF ApiReplay
<1> HIDE DEF r, a
<1>6. ReportsTheRun(m.call, a)
  BY <1>1, <1>2, <1>3, <1>5, ReplayedSaysSo DEF ReportsTheRun, a
<1>7. QED
  BY <1>3, <1>4, <1>6, AnswerOnlyPreserves

\* All that was ever sent for a write without a key is one request.
LEMMA PlainIsUnique ==
  ASSUME IInv, NEW m \in wire \cup ran, NEW n \in wire \cup ran, m.call = n.call, m.key = NoKey
  PROVE  m = n
<1>1. /\ m \in Messages /\ n \in Messages /\ m.call \in Calls
      /\ m.try \in 1..sent[m.call] /\ n.try \in 1..sent[m.call]
      /\ m.key = key[m.call] /\ n.key = m.key /\ n.request = m.request
      /\ sent[m.call] \in Nat
  BY DEF IInv, TypeOK, AttemptsAgree, Messages
<1>2. Dispatched(m.call)
  BY <1>1 DEF Dispatched
<1>3. ~Keyed(args[m.call])
  BY <1>1, <1>2, LetThrough, KeyFacts DEF IInv, TypeOK, KeysSettled, Keys
<1>4. sent[m.call] = 1
  BY <1>1, <1>2, <1>3 DEF IInv, KeysSettled
<1>5. m.try = 1 /\ n.try = 1
  BY <1>1, <1>4
<1>6. QED
  BY <1>1, <1>5 DEF Messages

LEMMA ApiRunPlainPreserves ==
  ASSUME IInv, NEW m \in wire, NEW body \in {"envelope", "empty"},
         wire' = wire \ {m}, ApiRunPlain(m, body), UNCHANGED clientVars
  PROVE  IInv'
<1> PICK a : a = Done(m, body, FALSE)
  OBVIOUS
<1>1. /\ m \in Messages /\ m.call \in Calls /\ Dispatched(m.call)
      /\ m.key = key[m.call] /\ m.request = args[m.call].request
  BY OnTheWire
<1>2. a \in Answers(Messages \cup {None}) /\ a.run = m
  BY <1>1, DoneFacts
<1>3. m.key = NoKey /\ ran' = ran \cup {m} /\ store' = store /\ AnswerTo(m, a)
  BY DEF ApiRunPlain
<1>4. UNCHANGED <<phase, args, key, sent, transportRetries, inProgressRetries, waited, result, minted>>
  BY DEF clientVars
<1>5. Do(a).ok => ReportsTheRun(m.call, a)'
  BY <1>1, <1>2, <1>3, <1>4 DEF ReportsTheRun
<1>6. /\ inbox' \in [Calls -> Answers(Messages \cup {None}) \cup {None}]
      /\ AnswersReportTheRun'
  BY <1>1, <1>2, <1>3, <1>5, AnswerPreserves
<1>7. TypeOK'
  BY <1>1, <1>3, <1>4, <1>6 DEF IInv, TypeOK
<1>8. KeysSettled' /\ GeneratedKeysDiffer'
  BY <1>4 DEF IInv, KeysSettled, GeneratedKeysDiffer, Dispatched
<1>9. AttemptsAgree' /\ StoreKeepsTheRun'
  BY <1>3, <1>4 DEF IInv, AttemptsAgree, StoreKeepsTheRun
<1>10. PlainNeverAgain'
  BY <1>3, PlainIsUnique DEF IInv, PlainNeverAgain
<1>11. QED
  BY <1>6, <1>7, <1>8, <1>9, <1>10 DEF IInv

LEMMA ApiStartPreserves ==
  ASSUME IInv, NEW m \in wire, wire' = wire \ {m}, ApiStart(m), UNCHANGED clientVars
  PROVE  IInv'
<1> DEFINE record == [request |-> m.request, done |-> FALSE, run |-> m]
<1>1. /\ m \in Messages /\ m.call \in Calls /\ Dispatched(m.call)
      /\ m.key = key[m.call] /\ m.request = args[m.call].request /\ m.key \in Keys
  BY OnTheWire DEF ApiStart
<1>2. /\ m.key # NoKey /\ store[m.key] = None /\ ran' = ran \cup {m} /\ inbox' = inbox
      /\ store' = [store EXCEPT ![m.key] = record]
  BY DEF ApiStart
<1>3. record \in Records /\ record # None /\ record.run = m /\ record.request = m.request
  <2>1. m.request \in Requests
    BY <1>1 DEF Messages
  <2>2. record \in Records
    BY <1>1, <2>1 DEF Records
  <2>3. QED
    BY <2>2, NoneIsNoRecord
<1> HIDE DEF record
<1>4. UNCHANGED <<phase, args, key, sent, transportRetries, inProgressRetries, waited, result, minted>>
  BY DEF clientVars
<1>5. TypeOK'
  BY <1>1, <1>2, <1>3, <1>4 DEF IInv, TypeOK
<1>6. KeysSettled' /\ GeneratedKeysDiffer'
  BY <1>4 DEF IInv, KeysSettled, GeneratedKeysDiffer, Dispatched
<1>7. AttemptsAgree'
  BY <1>2, <1>4 DEF IInv, AttemptsAgree
<1>8. \A k \in Keys : store'[k] = IF k = m.key THEN record ELSE store[k]
  BY <1>1, <1>2 DEF IInv, TypeOK
<1>9. \A n \in ran : n.key # NoKey => n.key \in Keys /\ n.key # m.key
  BY <1>2 DEF IInv, TypeOK, StoreKeepsTheRun, Messages
<1>10. StoreKeepsTheRun'
  BY <1>1, <1>2, <1>3, <1>8, <1>9 DEF IInv, StoreKeepsTheRun
<1>11. PlainNeverAgain'
  BY <1>2 DEF IInv, PlainNeverAgain
<1>12. AnswersReportTheRun'
  BY <1>2, <1>4 DEF IInv, AnswersReportTheRun, TellsTheRun, ReportsTheRun, Succeeds, Dispatched
<1>13. QED
  BY <1>5, <1>6, <1>7, <1>10, <1>11, <1>12 DEF IInv

LEMMA DeliverPreserves ==
  ASSUME IInv, NEW m \in wire, Deliver(m)
  PROVE  IInv'
BY ApiRefusePreserves, ApiInProgressPreserves, ApiKeyReusedPreserves, ApiReplayPreserves,
   ApiRunPlainPreserves, ApiStartPreserves DEF Deliver

LEMMA ApiFinishPreserves ==
  ASSUME IInv, NEW k \in Keys, ApiFinish(k)
  PROVE  IInv'
<1> PICK r : r = store[k].run
  OBVIOUS
<1>1. store[k] # None /\ UNCHANGED <<clientVars, ran, wire>>
  BY DEF ApiFinish
<1>2. store[k] \in Records
  BY <1>1 DEF IInv, TypeOK
<1>3. r \in ran /\ r \in Messages /\ r.key = k
  BY <1>1 DEF IInv, TypeOK, StoreKeepsTheRun
<1>4. PICK body \in {"envelope", "empty"} : AnswerTo(r, Done(r, body, FALSE))
  BY DEF ApiFinish
<1> PICK a : a = Done(r, body, FALSE)
  OBVIOUS
<1>5. a \in Answers(Messages \cup {None}) /\ a.run = r
  BY <1>3, DoneFacts
<1>6. AnswerTo(r, a)
  BY <1>4
<1>7. store' = [store EXCEPT ![k].done = TRUE]
  BY DEF ApiFinish
<1>8. UNCHANGED <<phase, args, key, sent, transportRetries, inProgressRetries, waited, result, minted>>
  BY <1>1 DEF clientVars
<1>9. Dispatched(r.call) /\ r.key = key[r.call] /\ r.request = args[r.call].request /\ r.key # NoKey
  BY <1>3, KeyFacts DEF IInv, TypeOK, AttemptsAgree, Messages, Dispatched
<1>10. ReportsTheRun(r.call, a)'
  BY <1>1, <1>3, <1>5, <1>8, <1>9 DEF ReportsTheRun
<1>11. /\ inbox' \in [Calls -> Answers(Messages \cup {None}) \cup {None}]
       /\ AnswersReportTheRun'
  BY <1>1, <1>3, <1>5, <1>6, <1>9, <1>10, AnswerPreserves
<1>12. /\ store' \in [Keys -> Records \cup {None}]
       /\ \A j \in Keys : store[j] # None =>
            store'[j] # None /\ store'[j].run = store[j].run /\ store'[j].request = store[j].request
       /\ \A j \in Keys : store'[j] # None => store[j] # None
  BY <1>1, <1>2, <1>7, NoneIsNoRecord DEF IInv, TypeOK, Records
<1>13. TypeOK'
  BY <1>1, <1>8, <1>11, <1>12 DEF IInv, TypeOK
<1>14. KeysSettled' /\ GeneratedKeysDiffer'
  BY <1>8 DEF IInv, KeysSettled, GeneratedKeysDiffer, Dispatched
<1>15. AttemptsAgree' /\ PlainNeverAgain'
  BY <1>1, <1>8 DEF IInv, AttemptsAgree, PlainNeverAgain
<1>16. StoreKeepsTheRun'
  BY <1>1, <1>12 DEF IInv, TypeOK, StoreKeepsTheRun, Messages
<1>17. QED
  BY <1>11, <1>13, <1>14, <1>15, <1>16 DEF IInv

LEMMA GatewayAnswerPreserves ==
  ASSUME IInv, NEW c \in Calls, GatewayAnswer(c)
  PROVE  IInv'
<1>1. PICK a \in GatewayPages : inbox' = [inbox EXCEPT ![c] = a]
  BY DEF GatewayAnswer
<1>2. a \in Answers(Messages \cup {None}) /\ ~Do(a).ok
  BY GatewayPagesFacts
<1>3. /\ UNCHANGED <<phase, args, key, sent, transportRetries, inProgressRetries, waited, result, minted>>
      /\ UNCHANGED <<store, ran, wire>>
      /\ phase[c] = "waiting"
  BY DEF GatewayAnswer, clientVars, apiVars
<1>4. TypeOK'
  BY <1>1, <1>2, <1>3 DEF IInv, TypeOK
<1>5. KeysSettled' /\ GeneratedKeysDiffer'
  BY <1>3 DEF IInv, KeysSettled, GeneratedKeysDiffer, Dispatched
<1>6. AttemptsAgree' /\ StoreKeepsTheRun' /\ PlainNeverAgain'
  BY <1>3 DEF IInv, AttemptsAgree, StoreKeepsTheRun, PlainNeverAgain
<1>7. Dispatched(c)
  BY <1>3 DEF IInv, KeysSettled
<1>8. AnswersReportTheRun'
  BY <1>1, <1>2, <1>3, <1>7 DEF IInv, TypeOK, AnswersReportTheRun, TellsTheRun, ReportsTheRun, Succeeds, Dispatched
<1>9. QED
  BY <1>4, <1>5, <1>6, <1>8 DEF IInv

-------------------------------------------------------------------------------
(* The theorems. *)

\* Every step of the system keeps the invariant.
LEMMA StepPreserves == IInv /\ [Next]_vars => IInv'
<1> SUFFICES ASSUME IInv, [Next]_vars
             PROVE  IInv'
  OBVIOUS
<1>1. ASSUME NEW c \in Calls, Call(c)
      PROVE  IInv'
  BY <1>1, RefusePreserves, CallPlainPreserves, CallKeyedPreserves DEF Call
<1>2. ASSUME NEW c \in Calls, Settle(c)
      PROVE  IInv'
  BY <1>2, RetryDroppedPreserves, AwaitInProgressPreserves, ReturnPreserves DEF Settle
<1>3. ASSUME NEW c \in Calls, Wake(c)
      PROVE  IInv'
  BY <1>3, WakePreserves
<1>4. ASSUME NEW c \in Calls, GatewayAnswer(c)
      PROVE  IInv'
  BY <1>4, GatewayAnswerPreserves
<1>5. ASSUME NEW m \in wire, Deliver(m)
      PROVE  IInv'
  BY <1>5, DeliverPreserves
<1>6. ASSUME NEW k \in Keys, ApiFinish(k)
      PROVE  IInv'
  BY <1>6, ApiFinishPreserves
<1>7. CASE UNCHANGED vars
  <2>1. /\ UNCHANGED <<phase, args, key, sent, transportRetries, inProgressRetries, waited, result, minted>>
        /\ UNCHANGED <<store, ran, wire, inbox>>
    BY <1>7 DEF vars, clientVars, apiVars
  <2>2. TypeOK'
    BY <2>1 DEF IInv, TypeOK
  <2>3. KeysSettled' /\ GeneratedKeysDiffer'
    BY <2>1 DEF IInv, KeysSettled, GeneratedKeysDiffer, Dispatched
  <2>4. AttemptsAgree' /\ StoreKeepsTheRun' /\ PlainNeverAgain'
    BY <2>1 DEF IInv, AttemptsAgree, StoreKeepsTheRun, PlainNeverAgain
  <2>5. AnswersReportTheRun'
    BY <2>1 DEF IInv, AnswersReportTheRun, TellsTheRun, ReportsTheRun, Succeeds, Dispatched
  <2>6. QED
    BY <2>2, <2>3, <2>4, <2>5 DEF IInv
<1>8. QED
  BY <1>1, <1>2, <1>3, <1>4, <1>5, <1>6, <1>7 DEF Next

\* The invariant holds of every behaviour.
THEOREM InvariantHolds == Spec => []IInv
<1>1. Init => IInv
  BY InitIInv
<1>2. QED
  BY <1>1, StepPreserves, PTL DEF Spec

\* The variables keep their types.
THEOREM TypeCorrect == Spec => []TypeOK
<1>1. IInv => TypeOK
  BY DEF IInv
<1>2. QED
  BY <1>1, InvariantHolds, PTL

\* One record for each key, one key for each operation: one run.
LEMMA OneRun == IInv => AtMostOnce
<1> SUFFICES ASSUME IInv, NEW m \in ran, NEW n \in ran, SameOperation(m.call, n.call)
             PROVE  m = n
  BY DEF AtMostOnce
<1>1. /\ m \in Messages /\ n \in Messages /\ m.call \in Calls /\ n.call \in Calls
      /\ Dispatched(m.call) /\ Dispatched(n.call)
      /\ m.key = key[m.call] /\ n.key = key[n.call]
  BY DEF IInv, TypeOK, AttemptsAgree, Messages, Dispatched
<1>2. m.key = n.key
  <2>1. CASE m.call = n.call
    BY <1>1, <2>1
  <2>2. CASE m.call # n.call
    BY <1>1, <2>2, KeysAreDistinct DEF SameOperation, IInv, KeysSettled
  <2>3. QED
    BY <2>1, <2>2
<1>3. CASE m.key = NoKey
  <2>1. m.call = n.call
    BY <1>1, <1>3, KeyFacts, KeysAreDistinct DEF SameOperation, IInv, TypeOK, KeysSettled
  <2>2. QED
    BY <1>3, <2>1, PlainIsUnique
<1>4. CASE m.key # NoKey
  BY <1>2, <1>4 DEF IInv, StoreKeepsTheRun
<1>5. QED
  BY <1>3, <1>4

\* No operation runs twice, whatever the network, the gateway and the timing do.
THEOREM AtMostOnceCorrect == Spec => []AtMostOnce
BY InvariantHolds, OneRun, PTL

\* Calls that share a key in the end share an operation.
LEMMA SameKeySameOperation ==
  ASSUME IInv, NEW c \in Calls, NEW d \in Calls, Dispatched(c), Dispatched(d),
         key[c] = key[d], key[c] # NoKey
  PROVE  SameOperation(c, d)
<1>1. /\ args[c] \in CallArgs /\ Refusal(args[c]) = "NONE"
      /\ args[d] \in CallArgs /\ Refusal(args[d]) = "NONE"
  BY DEF IInv, KeysSettled
<1>2. Keyed(args[c]) /\ Keyed(args[d])
  BY DEF IInv, KeysSettled
<1>3. CASE key[c] \in UUIDs
  BY <1>3 DEF IInv, GeneratedKeysDiffer, SameOperation
<1>4. CASE key[c] \notin UUIDs
  <2>1. args[c].key # NoKey /\ args[d].key # NoKey
    BY <1>2, <1>4 DEF IInv, TypeOK, KeysSettled
  <2>2. args[c].key = key[c] /\ args[d].key = key[d]
    BY <1>2, <2>1 DEF IInv, KeysSettled
  <2>3. args[c].key \in AgentKeys
    BY <1>1, <2>1, LetThrough
  <2>4. QED
    BY <1>2, <2>2, <2>3 DEF SameOperation
<1>5. QED
  BY <1>3, <1>4

\* The run behind a success told to the agent.
LEMMA RunBehindSuccess ==
  ASSUME IInv, NEW c \in Calls, Succeeds(c)
  PROVE  LET m == result[c].answer.run
         IN  /\ m \in ran /\ m \in Messages /\ m.call \in Calls
             /\ Dispatched(m.call) /\ Dispatched(c)
             /\ m.key = key[c] /\ m.key = key[m.call]
             /\ m.request = args[c].request
             /\ SameOperation(m.call, c)
             /\ HasBody(c) /\ ~result[c].note => m.call = c
<1> DEFINE m == result[c].answer.run
           a == result[c].answer
<1>1. /\ Dispatched(c) /\ Do(a).ok /\ ReportsTheRun(c, a)
      /\ result[c].note = (Keyed(args[c]) /\ Do(a).replayed)
  BY DEF IInv, AnswersReportTheRun, TellsTheRun
<1>2. /\ m \in ran /\ m.request = args[c].request /\ m.key = key[c]
      /\ key[c] = NoKey => m.call = c
      /\ a.body = "envelope" /\ ~Do(a).replayed => m.call = c
  BY <1>1 DEF ReportsTheRun
<1> HIDE DEF m
<1>3. /\ m \in Messages /\ m.call \in Calls /\ Dispatched(m.call) /\ m.key = key[m.call]
  BY <1>2 DEF IInv, TypeOK, AttemptsAgree, Messages, Dispatched
<1>4. SameOperation(m.call, c)
  <2>1. CASE key[c] = NoKey
    BY <1>2, <2>1 DEF SameOperation
  <2>2. CASE key[c] # NoKey
    BY <1>1, <1>2, <1>3, <2>2, SameKeySameOperation
  <2>3. QED
    BY <2>1, <2>2
<1>5. HasBody(c) /\ ~result[c].note => m.call = c
  <2> SUFFICES ASSUME HasBody(c), ~result[c].note PROVE m.call = c
    OBVIOUS
  <2>1. CASE Keyed(args[c])
    BY <1>1, <1>2, <2>1 DEF HasBody
  <2>2. CASE ~Keyed(args[c])
    BY <1>1, <1>2, <2>2 DEF IInv, KeysSettled
  <2>3. QED
    BY <2>1, <2>2
<1>6. QED
  BY <1>1, <1>2, <1>3, <1>4, <1>5 DEF m

\* A success is never the answer to something else.
THEOREM SuccessCorrect == Spec => []SuccessReportsTheRun
<1>1. IInv => SuccessReportsTheRun
  BY RunBehindSuccess DEF SuccessReportsTheRun
<1>2. QED
  BY <1>1, InvariantHolds, PTL

\* Of the calls told of one run, one at most is told without the replay note.
THEOREM FirstAnswerCorrect == Spec => []FirstAnswerOnce
<1>1. IInv => FirstAnswerOnce
  BY RunBehindSuccess DEF FirstAnswerOnce
<1>2. QED
  BY <1>1, InvariantHolds, PTL

\* Nothing is sent for a call the handler should have refused.
THEOREM GateCorrect == Spec => []NothingBeforeTheGate
<1>1. ASSUME IInv, NEW m \in ran \cup wire
      PROVE  /\ args[m.call].tool.gated => args[m.call].confirm
             /\ args[m.call].valid /\ args[m.call].path /\ args[m.call].key # BadKey
  <2>1. m.call \in Calls /\ Dispatched(m.call)
    BY <1>1 DEF IInv, TypeOK, AttemptsAgree, Messages, Dispatched
  <2>2. args[m.call] \in CallArgs /\ Refusal(args[m.call]) = "NONE"
    BY <1>1, <2>1 DEF IInv, KeysSettled
  <2>3. QED
    BY <2>2, LetThrough
<1>2. IInv => NothingBeforeTheGate
  BY <1>1 DEF NothingBeforeTheGate
<1>3. QED
  BY <1>2, InvariantHolds, PTL

\* The agent is told at the end of a call and not before.
LEMMA NotToldYetPreserved == IInv /\ NotToldYet /\ [Next]_vars => NotToldYet'
<1> SUFFICES ASSUME IInv, NotToldYet, [Next]_vars, NEW d \in Calls, phase'[d] # "answered"
             PROVE  result'[d] = None
  BY DEF NotToldYet
<1>1. phase \in [Calls -> Phases] /\ result \in [Calls -> Results \cup {None}]
  BY DEF IInv, TypeOK
<1>2. CASE UNCHANGED <<phase, result>>
  BY <1>2 DEF NotToldYet
<1>3. ASSUME NEW c \in Calls, Call(c) PROVE result'[d] = None
  BY <1>1, <1>3 DEF Call, Refuse, CallPlain, CallKeyed, Send, NotToldYet
<1>4. ASSUME NEW c \in Calls, Settle(c) PROVE result'[d] = None
  <2>1. PICK a \in Settled(c) : RetryDropped(c, a) \/ AwaitInProgress(c, a) \/ Return(c, a)
    BY <1>4 DEF Settle
  <2>2. CASE RetryDropped(c, a) \/ AwaitInProgress(c, a)
    BY <1>1, <2>2 DEF RetryDropped, AwaitInProgress, Resend, Send, NotToldYet
  <2>3. CASE Return(c, a)
    BY <1>1, <2>3 DEF Return, NotToldYet
  <2>4. QED
    BY <2>1, <2>2, <2>3
<1>5. ASSUME NEW c \in Calls, Wake(c) PROVE result'[d] = None
  BY <1>1, <1>5 DEF Wake, Resend, Send, NotToldYet
<1>6. CASE \/ \E c \in Calls : GatewayAnswer(c)
           \/ \E m \in wire : Deliver(m)
           \/ \E k \in Keys : ApiFinish(k)
           \/ UNCHANGED vars
  BY <1>2, <1>6 DEF GatewayAnswer, Deliver, ApiFinish, vars, clientVars
<1>7. QED
  BY <1>3, <1>4, <1>5, <1>6 DEF Next

-------------------------------------------------------------------------------
(* The effort a call may cost. *)

LEMMA OneMoreWait ==
  ASSUME NEW n \in Nat, NEW i \in Nat, NEW cap \in Nat, NEW w \in Nat, NEW s \in Nat,
         i <= n, w <= (n - i) * cap, s <= cap
  PROVE  w + s <= (n - (i - 1)) * cap
<1>1. (n - (i - 1)) * cap = (n - i) * cap + cap
  OBVIOUS
<1>2. (n - i) * cap \in Int
  OBVIOUS
<1>3. QED
  BY <1>1, <1>2

LEMMA WaitsAddUp ==
  ASSUME NEW n \in Nat, NEW i \in Nat, NEW cap \in Nat, NEW w \in Nat, w <= (n - i) * cap
  PROVE  w <= n * cap
<1>1. (n - i) * cap = n * cap - i * cap
  OBVIOUS
<1>2. n * cap \in Nat /\ i * cap \in Nat
  OBVIOUS
<1>3. QED
  BY <1>1, <1>2

LEMMA NoWaits == ASSUME NEW n \in Nat, NEW cap \in Nat PROVE 0 <= n * cap /\ 0 <= (n - n) * cap
<1>1. n - n = 0
  OBVIOUS
<1>2. QED
  BY <1>1

\* A call's effort from the values its counters have after a step.
LEMMA EffortFromValues ==
  ASSUME NEW c \in Calls, NEW p, NEW n \in Nat \ {0}, NEW t, NEW i, NEW w,
         phase'[c] = p, sent'[c] = n, transportRetries'[c] = t, inProgressRetries'[c] = i, waited'[c] = w,
         i <= IN_PROGRESS_MAX_RETRIES,
         w <= (IN_PROGRESS_MAX_RETRIES - i) * IN_PROGRESS_RETRY_AFTER_CAP_SECONDS,
         n + t + i + (IF p = "sleeping" THEN 1 ELSE 0) <= MaxAttempts
  PROVE  EffortPaid(c)'
BY DEF EffortPaid, Dispatched, MaxAttempts

\* What a step of call c may do to the counters of all the others: nothing.
LEMMA EffortStep ==
  ASSUME IInv, EffortCounted, NEW c \in Calls,
         \A d \in Calls \ {c} :
           /\ phase'[d] = phase[d] /\ sent'[d] = sent[d] /\ waited'[d] = waited[d]
           /\ transportRetries'[d] = transportRetries[d] /\ inProgressRetries'[d] = inProgressRetries[d],
         EffortPaid(c)'
  PROVE  EffortCounted'
BY DEF EffortCounted, EffortPaid, Dispatched

LEMMA CounterTypes ==
  ASSUME IInv, NEW c \in Calls
  PROVE  /\ sent[c] \in Nat /\ transportRetries[c] \in Nat
         /\ inProgressRetries[c] \in Nat /\ waited[c] \in Nat
         /\ MaxAttempts = 1 + GENERATED_KEY_TRANSPORT_RETRIES + IN_PROGRESS_MAX_RETRIES
         /\ GENERATED_KEY_TRANSPORT_RETRIES \in Nat /\ IN_PROGRESS_MAX_RETRIES \in Nat
         /\ IN_PROGRESS_RETRY_AFTER_CAP_SECONDS \in Nat
BY LimitsAreNaturals DEF IInv, TypeOK, MaxAttempts

LEMMA CallKeepsEffort ==
  ASSUME IInv, EffortCounted, NEW c \in Calls, Call(c)
  PROVE  EffortCounted'
<1>1. PICK a \in CallArgs : Refuse(c, a) \/ CallPlain(c, a) \/ CallKeyed(c, a)
  BY DEF Call
<1>2. phase[c] = "idle"
  BY <1>1 DEF Refuse, CallPlain, CallKeyed
<1>3. ~Dispatched(c) /\ sent[c] = 0
  BY <1>2 DEF IInv, KeysSettled, Dispatched
<1>4. waited[c] = 0 /\ transportRetries[c] = 0 /\ inProgressRetries[c] = 0
  BY <1>3 DEF EffortCounted, EffortPaid
<1>5. EffortPaid(c)
  BY DEF EffortCounted
<1>6. CASE Refuse(c, a)
  <2>1. /\ phase' = [phase EXCEPT ![c] = "answered"]
        /\ UNCHANGED <<sent, transportRetries, inProgressRetries, waited>>
    BY <1>6 DEF Refuse
  <2>2. phase'[c] = "answered"
    BY <2>1 DEF IInv, TypeOK
  <2>3. EffortPaid(c)'
    BY <1>2, <1>5, <2>1, <2>2 DEF EffortPaid, Dispatched, MaxAttempts
  <2>4. QED
    BY <2>1, <2>3, EffortStep DEF IInv, TypeOK
<1>7. CASE CallPlain(c, a)
  <2>1. /\ phase' = [phase EXCEPT ![c] = "waiting"] /\ sent' = [sent EXCEPT ![c] = @ + 1]
        /\ UNCHANGED <<transportRetries, inProgressRetries, waited>>
    BY <1>7 DEF CallPlain, Send
  <2>2. /\ phase'[c] = "waiting" /\ sent'[c] = 1 /\ transportRetries'[c] = 0
        /\ inProgressRetries'[c] = 0 /\ waited'[c] = 0
    BY <1>3, <1>4, <2>1 DEF IInv, TypeOK
  <2>3. 0 <= (IN_PROGRESS_MAX_RETRIES - 0) * IN_PROGRESS_RETRY_AFTER_CAP_SECONDS
    BY <1>4, <1>5 DEF EffortPaid
  <2>4. EffortPaid(c)'
    BY <2>2, <2>3, CounterTypes, EffortFromValues
  <2>5. QED
    BY <2>1, <2>4, EffortStep DEF IInv, TypeOK
<1>8. CASE CallKeyed(c, a)
  <2>1. /\ phase' = [phase EXCEPT ![c] = "waiting"] /\ sent' = [sent EXCEPT ![c] = @ + 1]
        /\ transportRetries' = [transportRetries EXCEPT ![c] = TransportRetriesFor(a)]
        /\ inProgressRetries' = [inProgressRetries EXCEPT ![c] = IN_PROGRESS_MAX_RETRIES]
        /\ UNCHANGED waited
    BY <1>8 DEF CallKeyed, Send
  <2>2. TransportRetriesFor(a) \in 0..GENERATED_KEY_TRANSPORT_RETRIES
    BY CounterTypes DEF TransportRetriesFor
  <2>3. /\ phase'[c] = "waiting" /\ sent'[c] = 1 /\ transportRetries'[c] = TransportRetriesFor(a)
        /\ inProgressRetries'[c] = IN_PROGRESS_MAX_RETRIES /\ waited'[c] = 0
    BY <1>3, <1>4, <2>1 DEF IInv, TypeOK
  <2>4. 0 <= (IN_PROGRESS_MAX_RETRIES - IN_PROGRESS_MAX_RETRIES) * IN_PROGRESS_RETRY_AFTER_CAP_SECONDS
    BY CounterTypes, NoWaits
  <2>5. 1 + TransportRetriesFor(a) + IN_PROGRESS_MAX_RETRIES + (IF "waiting" = "sleeping" THEN 1 ELSE 0)
          <= MaxAttempts
    BY <2>2, CounterTypes
  <2>6. IN_PROGRESS_MAX_RETRIES <= IN_PROGRESS_MAX_RETRIES
    BY CounterTypes
  <2>7. EffortPaid(c)'
    BY <2>3, <2>4, <2>5, <2>6, EffortFromValues
  <2>8. QED
    BY <2>1, <2>7, EffortStep DEF IInv, TypeOK
<1>9. QED
  BY <1>1, <1>6, <1>7, <1>8

LEMMA SettleKeepsEffort ==
  ASSUME IInv, EffortCounted, NEW c \in Calls, Settle(c)
  PROVE  EffortCounted'
<1>1. PICK a \in Settled(c) : RetryDropped(c, a) \/ AwaitInProgress(c, a) \/ Return(c, a)
  BY DEF Settle
<1>2. phase[c] = "waiting" /\ EffortPaid(c) /\ Dispatched(c)
  BY <1>1 DEF RetryDropped, AwaitInProgress, Return, EffortCounted, IInv, KeysSettled
<1>3. CASE RetryDropped(c, a)
  <2>1. /\ phase' = [phase EXCEPT ![c] = "waiting"] /\ sent' = [sent EXCEPT ![c] = @ + 1]
        /\ transportRetries' = [transportRetries EXCEPT ![c] = @ - 1]
        /\ UNCHANGED <<inProgressRetries, waited>>
    BY <1>3 DEF RetryDropped, Resend, Send
  <2>2. EffortPaid(c)'
    BY <1>2, <2>1, CounterTypes DEF EffortPaid, Dispatched, IInv, TypeOK
  <2>3. QED
    BY <2>1, <2>2, EffortStep DEF IInv, TypeOK
<1>4. CASE AwaitInProgress(c, a)
  <2>1. /\ phase' = [phase EXCEPT ![c] = "sleeping"]
        /\ inProgressRetries' = [inProgressRetries EXCEPT ![c] = @ - 1]
        /\ waited' = [waited EXCEPT ![c] = @ + WaitSeconds(a)]
        /\ UNCHANGED <<sent, transportRetries>>
    BY <1>4 DEF AwaitInProgress
  <2>2. WaitSeconds(a) \in Nat /\ WaitSeconds(a) <= IN_PROGRESS_RETRY_AFTER_CAP_SECONDS
    BY SettledFacts, WaitSecondsType
  <2>3. waited[c] + WaitSeconds(a)
          <= (IN_PROGRESS_MAX_RETRIES - (inProgressRetries[c] - 1)) * IN_PROGRESS_RETRY_AFTER_CAP_SECONDS
    BY <1>2, <2>2, CounterTypes, OneMoreWait DEF EffortPaid
  <2>4. /\ phase'[c] = "sleeping" /\ sent'[c] = sent[c] /\ transportRetries'[c] = transportRetries[c]
        /\ inProgressRetries'[c] = inProgressRetries[c] - 1 /\ waited'[c] = waited[c] + WaitSeconds(a)
    BY <2>1 DEF IInv, TypeOK
  <2>5. sent[c] \in Nat \ {0}
    BY <1>2, CounterTypes DEF Dispatched
  <2>6. sent[c] + transportRetries[c] + inProgressRetries[c] <= MaxAttempts
        /\ inProgressRetries[c] <= IN_PROGRESS_MAX_RETRIES
    BY <1>2, CounterTypes DEF EffortPaid
  <2>7. /\ inProgressRetries[c] - 1 <= IN_PROGRESS_MAX_RETRIES
        /\ sent[c] + transportRetries[c] + (inProgressRetries[c] - 1)
             + (IF "sleeping" = "sleeping" THEN 1 ELSE 0) <= MaxAttempts
    BY <2>6, CounterTypes
  <2>8. EffortPaid(c)'
    BY <2>3, <2>4, <2>5, <2>7, EffortFromValues
  <2>9. QED
    BY <2>1, <2>8, EffortStep DEF IInv, TypeOK
<1>5. CASE Return(c, a)
  <2>1. /\ phase' = [phase EXCEPT ![c] = "answered"]
        /\ UNCHANGED <<sent, transportRetries, inProgressRetries, waited>>
    BY <1>5 DEF Return
  <2>2. EffortPaid(c)'
    BY <1>2, <2>1, CounterTypes DEF EffortPaid, Dispatched, IInv, TypeOK
  <2>3. QED
    BY <2>1, <2>2, EffortStep DEF IInv, TypeOK
<1>6. QED
  BY <1>1, <1>3, <1>4, <1>5

LEMMA WakeKeepsEffort ==
  ASSUME IInv, EffortCounted, NEW c \in Calls, Wake(c)
  PROVE  EffortCounted'
<1>1. /\ phase[c] = "sleeping" /\ phase' = [phase EXCEPT ![c] = "waiting"]
      /\ sent' = [sent EXCEPT ![c] = @ + 1]
      /\ UNCHANGED <<transportRetries, inProgressRetries, waited>>
  BY DEF Wake, Resend, Send
<1>2. EffortPaid(c) /\ Dispatched(c)
  BY <1>1 DEF EffortCounted, IInv, KeysSettled
<1>3. EffortPaid(c)'
  BY <1>1, <1>2, CounterTypes DEF EffortPaid, Dispatched, IInv, TypeOK
<1>4. QED
  BY <1>1, <1>3, EffortStep DEF IInv, TypeOK

LEMMA StepKeepsEffort == IInv /\ EffortCounted /\ [Next]_vars => EffortCounted'
<1> SUFFICES ASSUME IInv, EffortCounted, [Next]_vars PROVE EffortCounted'
  OBVIOUS
<1>1. ASSUME UNCHANGED clientVars PROVE EffortCounted'
  BY <1>1 DEF EffortCounted, EffortPaid, Dispatched, clientVars
<1>2. CASE \E c \in Calls : Call(c) \/ Settle(c) \/ Wake(c)
  BY <1>2, CallKeepsEffort, SettleKeepsEffort, WakeKeepsEffort
<1>3. CASE \/ \E c \in Calls : GatewayAnswer(c)
           \/ \E m \in wire : Deliver(m)
           \/ \E k \in Keys : ApiFinish(k)
           \/ UNCHANGED vars
  BY <1>1, <1>3 DEF GatewayAnswer, Deliver, ApiFinish, vars
<1>4. QED
  BY <1>2, <1>3 DEF Next

LEMMA EffortWithinBounds == IInv /\ EffortCounted => BoundedEffort
<1> SUFFICES ASSUME IInv, EffortCounted, NEW c \in Calls
             PROVE  /\ waited[c] <= IN_PROGRESS_MAX_RETRIES * IN_PROGRESS_RETRY_AFTER_CAP_SECONDS
                    /\ sent[c] <= 1 + GENERATED_KEY_TRANSPORT_RETRIES + IN_PROGRESS_MAX_RETRIES
  BY DEF BoundedEffort
<1>1. EffortPaid(c)
  BY DEF EffortCounted
<1>2. QED
  BY <1>1, CounterTypes, WaitsAddUp DEF EffortPaid

\* A call costs a bounded number of requests and a bounded time asleep.
THEOREM EffortCorrect == Spec => []BoundedEffort
<1>1. Init => EffortCounted
  <2> SUFFICES ASSUME Init, NEW c \in Calls PROVE EffortPaid(c)
    BY DEF EffortCounted
  <2>1. 0 <= IN_PROGRESS_MAX_RETRIES * IN_PROGRESS_RETRY_AFTER_CAP_SECONDS
    BY LimitsAreNaturals, NoWaits
  <2>2. QED
    BY <2>1, LimitsAreNaturals DEF Init, EffortPaid, MaxAttempts, Dispatched
<1>2. QED
  BY <1>1, InvariantHolds, StepKeepsEffort, EffortWithinBounds, PTL DEF Spec
===============================================================================
