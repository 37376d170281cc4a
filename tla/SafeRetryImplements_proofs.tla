---------------------- MODULE SafeRetryImplements_proofs ----------------------
(***************************************************************************)
(* SafeRetry implements RunOnce, proved: the initial states map to initial *)
(* states, and every step is a step of RunOnce or changes nothing there.   *)
(* The first fetch() of a call is Ask, the start of a run at the API is    *)
(* Perform, what the handler returns is Tell or Fail; drops, retries,      *)
(* waits, replays and deliveries are invisible.                            *)
(***************************************************************************)
EXTENDS SafeRetryImplements, SafeRetry_proofs

\* What the mapping rests on: the invariant, the bound on attempts, and that no call
\* is told anything before its end.
MapInv == IInv /\ BoundedEffort /\ NotToldYet

LEMMA MapInvHolds == Spec => []MapInv
<1>1. Init => NotToldYet
  BY DEF Init, NotToldYet
<1>2. QED
  BY <1>1, InvariantHolds, EffortCorrect, NotToldYetPreserved, PTL DEF Spec, MapInv

-------------------------------------------------------------------------------
(* How the mapping moves. *)

LEMMA RanWasDispatched ==
  ASSUME IInv, NEW m \in ran
  PROVE  /\ m \in Messages /\ m.call \in Calls /\ Dispatched(m.call)
         /\ m.key = key[m.call] /\ m.request = args[m.call].request
         /\ m.try \in 1..sent[m.call]
BY DEF IInv, TypeOK, AttemptsAgree, Messages, Dispatched

\* The operation of a dispatched call is one of RunOnce's.
LEMMA OperationType ==
  ASSUME NEW a \in CallArgs, Refusal(a) = "NONE", NEW c \in Calls, args[c] = a
  PROVE  OperationOf(c) \in OperationsOfCalls
BY LetThrough DEF OperationOf, OperationsOfCalls

\* As long as no call that was sent out loses its arguments and nothing runs, the
\* operations performed stay as they are.
LEMMA PerformedStays ==
  ASSUME IInv, ran' = ran, \A d \in Calls : Dispatched(d) => args'[d] = args[d]
  PROVE  Performed' = Performed
<1>1. \A m \in ran : OperationOf(m.call)' = OperationOf(m.call)
  BY RanWasDispatched DEF OperationOf
<1>2. QED
  BY <1>1 DEF Performed, RunOf

LEMMA AskedStays ==
  ASSUME UNCHANGED args, \A d \in Calls : Dispatched(d)' <=> Dispatched(d)
  PROVE  Asked' = Asked
BY DEF Asked, OperationOf

LEMMA ToldStays == ASSUME UNCHANGED result PROVE Told' = Told
BY DEF Told, HowTold, RunOf

\* The calls of one operation have the same key.
LEMMA SameOperationSameKey ==
  ASSUME IInv, NEW c \in Calls, NEW d \in Calls, Dispatched(c), Dispatched(d),
         OperationOf(c) = OperationOf(d)
  PROVE  key[c] = key[d] /\ (key[c] = NoKey => c = d)
<1>1. CASE Keyed(args[c]) /\ args[c].key # NoKey
  <2>1. Keyed(args[d]) /\ args[d].key # NoKey /\ args[d].key = args[c].key
    BY <1>1 DEF OperationOf
  <2>2. key[c] = args[c].key /\ key[d] = args[d].key
    BY <1>1, <2>1 DEF IInv, KeysSettled
  <2>3. QED
    BY <1>1, <2>1, <2>2
<1>2. CASE ~(Keyed(args[c]) /\ args[c].key # NoKey)
  <2>1. c = d
    BY <1>2 DEF OperationOf
  <2>2. QED
    BY <2>1
<1>3. QED
  BY <1>1, <1>2

\* And calls with the same key are of one operation.
LEMMA SameOperationOf ==
  ASSUME IInv, NEW c \in Calls, NEW d \in Calls, SameOperation(c, d)
  PROVE  OperationOf(c) = OperationOf(d)
<1>1. CASE c = d
  BY <1>1
<1>2. CASE c # d
  <2>1. /\ Keyed(args[c]) /\ Keyed(args[d])
        /\ args[c].key \in AgentKeys /\ args[c].key = args[d].key
    BY <1>2 DEF SameOperation
  <2>2. args[c].key # NoKey
    BY <2>1, KeysAreDistinct
  <2>3. QED
    BY <2>1, <2>2 DEF OperationOf
<1>3. QED
  BY <1>1, <1>2

\* A step that only moves requests, answers, timers and the API's records is
\* invisible to the agent.
LEMMA Invisible ==
  ASSUME IInv, UNCHANGED <<args, result, ran>>, \A d \in Calls : Dispatched(d)' <=> Dispatched(d)
  PROVE  UNCHANGED Promise!vars
<1>1. Asked' = Asked
  BY AskedStays
<1>2. Performed' = Performed
  BY PerformedStays
<1>3. Told' = Told
  BY ToldStays
<1>4. QED
  BY <1>1, <1>2, <1>3 DEF Promise!vars

-------------------------------------------------------------------------------
(* The steps of RunOnce. *)

\* The first fetch() of a call asks for its operation.
LEMMA FirstSendAsks ==
  ASSUME IInv, NotToldYet, NEW c \in Calls, NEW a \in CallArgs,
         phase[c] = "idle", Refusal(a) = "NONE",
         args' = [args EXCEPT ![c] = a], sent' = [sent EXCEPT ![c] = @ + 1],
         UNCHANGED <<result, ran>>
  PROVE  Promise!Next
<1>1. ~Dispatched(c) /\ result[c] = None
  BY DEF IInv, KeysSettled, Dispatched, NotToldYet
<1>2. /\ args'[c] = a /\ \A d \in Calls \ {c} : args'[d] = args[d]
      /\ Dispatched(c)' /\ \A d \in Calls \ {c} : Dispatched(d)' <=> Dispatched(d)
  BY DEF IInv, TypeOK, Dispatched
<1>3. PICK o : o = OperationOf(c)'
  OBVIOUS
<1>4. o \in OperationsOfCalls /\ a.request \in Requests
  BY <1>2, <1>3, LetThrough DEF OperationOf, OperationsOfCalls
<1>5. Asked[c] = None /\ Told[c] = None
  BY <1>1 DEF Asked, Told
<1>6. Asked' = [Asked EXCEPT ![c] = [operation |-> o, request |-> a.request]]
  BY <1>2, <1>3 DEF Asked, OperationOf
<1>7. Performed' = Performed
  BY <1>1, <1>2, PerformedStays
<1>8. Told' = Told
  BY ToldStays
<1>9. Promise!Ask(c, o, a.request)
  BY <1>5, <1>6, <1>7, <1>8 DEF Promise!Ask
<1>10. QED
  BY <1>4, <1>9 DEF Promise!Next

\* A request that starts to run performs an operation that had not been performed.
LEMMA StartPerforms ==
  ASSUME IInv, BoundedEffort, NEW m \in wire, ran' = ran \cup {m}, UNCHANGED clientVars,
         \A n \in ran : n.key = m.key => m.key = NoKey /\ n.call # m.call
  PROVE  Promise!Next
<1>1. /\ m \in Messages /\ m.call \in Calls /\ Dispatched(m.call)
      /\ m.key = key[m.call] /\ m.request = args[m.call].request
  BY OnTheWire
<1>2. /\ UNCHANGED <<args, sent, result>>
  BY DEF clientVars
<1>3. RunOf(m) \in Calls \X (1..MaxAttempts)
  <2>1. m.try \in 1..sent[m.call] /\ sent[m.call] \in Nat
    BY <1>1 DEF IInv, TypeOK, AttemptsAgree
  <2>2. sent[m.call] <= MaxAttempts /\ MaxAttempts \in Nat
    BY <1>1, LimitsAreNaturals DEF BoundedEffort, MaxAttempts
  <2>3. m.try \in 1..MaxAttempts
    BY <2>1, <2>2
  <2>4. QED
    BY <1>1, <2>3 DEF RunOf
<1>4. Asked[m.call] = [operation |-> OperationOf(m.call), request |-> m.request]
  BY <1>1 DEF Asked
<1>5. ASSUME NEW p \in Performed PROVE p.operation # OperationOf(m.call)
  <2>1. PICK n \in ran : p.operation = OperationOf(n.call)
    BY DEF Performed
  <2>2. n.call \in Calls /\ Dispatched(n.call) /\ n.key = key[n.call]
    BY RanWasDispatched
  <2>3. QED
    BY <1>1, <2>1, <2>2, SameOperationSameKey
<1>6. Performed' = Performed \cup
        {[operation |-> OperationOf(m.call), request |-> m.request, run |-> RunOf(m)]}
  <2>1. \A n \in ran' : OperationOf(n.call)' = OperationOf(n.call)
    BY <1>2 DEF OperationOf
  <2>2. QED
    BY <2>1 DEF Performed, RunOf
<1>7. Asked' = Asked /\ Told' = Told
  BY <1>2, AskedStays, ToldStays DEF Dispatched
<1>8. Asked[m.call] # None
  <2>1. args[m.call] \in CallArgs /\ Refusal(args[m.call]) = "NONE"
    BY <1>1 DEF IInv, KeysSettled
  <2>2. OperationOf(m.call) \in OperationsOfCalls /\ m.request \in Requests
    BY <1>1, <2>1, OperationType, LetThrough
  <2>3. QED
    BY <1>4, <2>2, NoneIsNotTold
<1>9. Promise!Perform(m.call, RunOf(m))
  BY <1>4, <1>5, <1>6, <1>7, <1>8 DEF Promise!Perform
<1>10. QED
  BY <1>1, <1>3, <1>9 DEF Promise!Next

\* A success has a body of the API's or none at all.
LEMMA SuccessBodies ==
  ASSUME NEW Run, NEW a \in Answers(Run), Do(a).ok
  PROVE  a.body \in {"empty", "envelope"}
BY DEF Do, EmptyAnswer, Failed, InvalidResponse, Answers, Bodies

\* A call told that a run is its own is the call that was run.
LEMMA FirstIsTheCaller ==
  ASSUME IInv, NEW d \in Calls, NEW r \in Calls \X Nat, Told[d] = [how |-> "first", run |-> r]
  PROVE  result[d] # None /\ r[1] = d
<1>1. result[d] # None
  BY NoneIsNotTold DEF Told
<1>2. result[d].ok
  BY <1>1 DEF Told
<1>3. Told[d] = [how |-> HowTold(d), run |-> RunOf(result[d].answer.run)]
  BY <1>1, <1>2 DEF Told
<1>4. HowTold(d) = "first" /\ RunOf(result[d].answer.run) = r
  BY <1>3
<1>5. result[d].answer.body # "empty" /\ ~result[d].note
  BY <1>1, <1>4 DEF HowTold, IInv, TypeOK, Results
<1>6. Succeeds(d)
  BY <1>1, <1>2 DEF Succeeds
<1>7. HasBody(d)
  <2>1. result[d].answer # None /\ Do(result[d].answer).ok
    BY <1>6 DEF IInv, AnswersReportTheRun, TellsTheRun
  <2>2. result[d].answer \in Answers(Messages \cup {None})
    BY <1>1, <2>1 DEF IInv, TypeOK, Results
  <2>3. QED
    BY <1>5, <2>1, <2>2, SuccessBodies DEF HasBody
<1>8. result[d].answer.run.call = d
  BY <1>5, <1>6, <1>7, RunBehindSuccess
<1>9. QED
  BY <1>1, <1>4, <1>8 DEF RunOf

LEMMA FailureIsTold ==
  ASSUME IInv, NotToldYet, NEW c \in Calls, phase[c] # "answered",
         NEW r, ~r.ok, r # None, result' = [result EXCEPT ![c] = r],
         Asked' = Asked, Performed' = Performed
  PROVE  Promise!Next
<1>1. Told[c] = None
  BY DEF NotToldYet, Told
<1>2. result'[c] = r /\ \A d \in Calls \ {c} : result'[d] = result[d]
  BY DEF IInv, TypeOK
<1>3. Told' = [Told EXCEPT ![c] = [how |-> "failed", run |-> None]]
  BY <1>2 DEF Told, HowTold
<1>4. Promise!Fail(c)
  BY <1>1, <1>3 DEF Promise!Fail
<1>5. QED
  BY <1>4 DEF Promise!Next

LEMMA SuccessIsTold ==
  ASSUME IInv, NotToldYet, NEW c \in Calls, NEW a \in Settled(c), Return(c, a), Do(a).ok,
         Asked' = Asked, Performed' = Performed
  PROVE  Promise!Next
<1>1. /\ a \in Answers(Messages \cup {None}) /\ a # None /\ ReportsTheRun(c, a)
      /\ a.body \in {"empty", "envelope"}
  BY SettledFacts, SuccessBodies
<1>2. phase[c] = "waiting" /\ Dispatched(c) /\ result[c] = None
  BY DEF Return, IInv, KeysSettled, NotToldYet
<1>3. PICK m \in ran : m = a.run
  BY <1>1 DEF ReportsTheRun
<1>4. /\ m.request = args[c].request /\ m.key = key[c]
      /\ key[c] = NoKey => m.call = c
      /\ a.body = "envelope" /\ ~Do(a).replayed => m.call = c
  BY <1>1, <1>3 DEF ReportsTheRun
<1>5. m \in Messages /\ m.call \in Calls /\ Dispatched(m.call) /\ m.key = key[m.call]
  BY RanWasDispatched
<1>6. OperationOf(m.call) = OperationOf(c)
  BY <1>2, <1>4, <1>5, SameKeySameOperation, SameOperationOf
<1>7. PICK p \in Performed : p = [operation |-> OperationOf(m.call), request |-> m.request, run |-> RunOf(m)]
  BY DEF Performed
<1>8. Asked[c] = [operation |-> p.operation, request |-> p.request]
  BY <1>2, <1>4, <1>6, <1>7 DEF Asked
<1>9. PICK note : note = ResultOf(c, a).note
  OBVIOUS
<1>10. PICK how \in Promise!Tellings :
         how = IF a.body = "empty" THEN "silent" ELSE IF note THEN "again" ELSE "first"
  BY DEF Promise!Tellings
<1>11. /\ result'[c] = ResultOf(c, a) /\ \A d \in Calls \ {c} : result'[d] = result[d]
       /\ ResultOf(c, a) \in Results
  BY <1>1, SettledFacts DEF Return, IInv, TypeOK, ResultOf, Results, Outcomes
<1>12. ResultOf(c, a).answer = a /\ ResultOf(c, a).ok
  BY DEF ResultOf
<1>13. Told' = [Told EXCEPT ![c] = [how |-> how, run |-> p.run]]
  <2>1. result'[c] # None /\ result'[c].ok /\ result'[c].answer = a /\ result'[c].note = note
    BY <1>2, <1>9, <1>11, <1>12, NoneIsNotTold
  <2>2. HowTold(c)' = how
    BY <1>10, <2>1 DEF HowTold
  <2>3. p.run = RunOf(a.run)
    BY <1>3, <1>7
  <2>4. Told'[c] = [how |-> how, run |-> p.run]
    BY <2>1, <2>2, <2>3 DEF Told, RunOf
  <2>5. \A d \in Calls \ {c} : Told'[d] = Told[d]
    BY <1>11 DEF Told, HowTold, RunOf
  <2>6. Told' = [d \in Calls |-> Told'[d]] /\ Told = [d \in Calls |-> Told[d]]
    BY DEF Told
  <2>7. QED
    BY <2>4, <2>5, <2>6
<1>14. ASSUME how = "first", NEW d \in Calls PROVE Told[d] # [how |-> "first", run |-> p.run]
  <2>1. m.call = c
    <3>1. a.body = "envelope" /\ ~note
      BY <1>1, <1>10, <1>14
    <3>2. ~(Keyed(args[c]) /\ Do(a).replayed)
      BY <1>9, <3>1 DEF ResultOf
    <3>3. ~Keyed(args[c]) => key[c] = NoKey
      BY <1>2 DEF IInv, KeysSettled
    <3>4. QED
      BY <1>4, <3>1, <3>2, <3>3
  <2>2. p.run \in Calls \X Nat /\ p.run[1] = c
    BY <1>5, <1>7, <2>1 DEF RunOf, Messages
  <2>3. QED
    BY <1>2, <2>2, FirstIsTheCaller
<1>15. Told[c] = None
  BY <1>2 DEF Told
<1>16. Promise!Tell(c, p, how)
  BY <1>8, <1>13, <1>14, <1>15 DEF Promise!Tell
<1>17. QED
  BY <1>16 DEF Promise!Next

-------------------------------------------------------------------------------
(* Every step is a step of RunOnce or invisible. *)

LEMMA CallStep ==
  ASSUME MapInv, NEW c \in Calls, Call(c)
  PROVE  Promise!Next
<1>1. PICK a \in CallArgs : Refuse(c, a) \/ CallPlain(c, a) \/ CallKeyed(c, a)
  BY DEF Call
<1>2. CASE CallPlain(c, a)
  BY <1>2, FirstSendAsks DEF CallPlain, Send, apiVars, MapInv
<1>3. CASE CallKeyed(c, a)
  <2>1. /\ phase[c] = "idle" /\ Refusal(a) = "NONE" /\ args' = [args EXCEPT ![c] = a]
        /\ UNCHANGED <<result, ran>>
    BY <1>3 DEF CallKeyed, apiVars
  <2>2. sent' = [sent EXCEPT ![c] = @ + 1]
    BY <1>3 DEF CallKeyed, Send
  <2>3. QED
    BY <2>1, <2>2, FirstSendAsks DEF MapInv
<1>4. CASE Refuse(c, a)
  <2>1. PICK r : r = [ok |-> FALSE, code |-> Refusal(a), note |-> FALSE, secrets |-> "none", answer |-> None]
    OBVIOUS
  <2>2. r \in Results /\ ~r.ok
    BY <1>4, <2>1 DEF Refuse, Refusal, Results, Secrets
  <2>3. /\ phase[c] = "idle" /\ result' = [result EXCEPT ![c] = r]
        /\ args' = [args EXCEPT ![c] = a] /\ UNCHANGED <<sent, ran>>
    BY <1>4, <2>1 DEF Refuse, apiVars
  <2>4. ~Dispatched(c) /\ \A d \in Calls : Dispatched(d) => args'[d] = args[d]
    BY <2>3 DEF MapInv, IInv, TypeOK, KeysSettled, Dispatched
  <2>5. Performed' = Performed
    BY <2>3, <2>4, PerformedStays DEF MapInv
  <2>6. Asked' = Asked
    BY <2>3, <2>4 DEF Asked, OperationOf, Dispatched
  <2>7. QED
    BY <2>2, <2>3, <2>5, <2>6, NoneIsNotTold, FailureIsTold DEF MapInv
<1>5. QED
  BY <1>1, <1>2, <1>3, <1>4

\* Another attempt of a call that has already asked.
LEMMA ResendStep ==
  ASSUME MapInv, NEW c \in Calls, Dispatched(c), sent' = [sent EXCEPT ![c] = @ + 1],
         UNCHANGED <<args, result, ran>>
  PROVE  UNCHANGED Promise!vars
<1>1. \A d \in Calls : Dispatched(d)' <=> Dispatched(d)
  BY DEF Dispatched, MapInv, IInv, TypeOK
<1>2. QED
  BY <1>1, Invisible DEF MapInv

LEMMA SettleStep ==
  ASSUME MapInv, NEW c \in Calls, Settle(c)
  PROVE  [Promise!Next]_Promise!vars
<1>1. PICK a \in Settled(c) : RetryDropped(c, a) \/ AwaitInProgress(c, a) \/ Return(c, a)
  BY DEF Settle
<1>2. phase[c] = "waiting" /\ Dispatched(c)
  BY <1>1 DEF RetryDropped, AwaitInProgress, Return, MapInv, IInv, KeysSettled
<1>3. CASE RetryDropped(c, a)
  BY <1>2, <1>3, ResendStep DEF RetryDropped, Resend, Send, apiVars
<1>4. CASE AwaitInProgress(c, a)
  BY <1>4, Invisible DEF AwaitInProgress, apiVars, Dispatched, MapInv
<1>5. CASE Return(c, a)
  <2>1. Asked' = Asked /\ Performed' = Performed
    BY <1>5, AskedStays, PerformedStays DEF Return, apiVars, Dispatched, MapInv
  <2>2. CASE Do(a).ok
    BY <1>5, <2>1, <2>2, SuccessIsTold DEF MapInv
  <2>3. CASE ~Do(a).ok
    <3>1. PICK r : r = ResultOf(c, a)
      OBVIOUS
    <3>2. r \in Results /\ ~r.ok
      BY <2>3, <3>1, SettledFacts DEF ResultOf, Results, Outcomes, MapInv
    <3>3. result' = [result EXCEPT ![c] = r]
      BY <1>5, <3>1 DEF Return
    <3>4. QED
      BY <1>2, <2>1, <3>2, <3>3, NoneIsNotTold, FailureIsTold DEF MapInv
  <2>4. QED
    BY <2>2, <2>3
<1>6. QED
  BY <1>1, <1>3, <1>4, <1>5

LEMMA DeliverStep ==
  ASSUME MapInv, NEW m \in wire, Deliver(m)
  PROVE  [Promise!Next]_Promise!vars
<1>1. UNCHANGED clientVars
  BY DEF Deliver
<1>2. CASE ran' = ran
  BY <1>1, <1>2, Invisible DEF clientVars, Dispatched, MapInv
<1>3. CASE ran' # ran
  <2>1. (\E body \in {"envelope", "empty"} : ApiRunPlain(m, body)) \/ ApiStart(m)
    BY <1>3 DEF Deliver, ApiRefuse, ApiReplay, ApiInProgress, ApiKeyReused, apiVars
  <2>2. ran' = ran \cup {m}
    BY <2>1 DEF ApiRunPlain, ApiStart
  <2>3. ASSUME NEW n \in ran, n.key = m.key PROVE m.key = NoKey /\ n.call # m.call
    <3>1. CASE m.key = NoKey
      BY <2>3, <3>1 DEF MapInv, IInv, PlainNeverAgain
    <3>2. CASE m.key # NoKey
      <4>1. store[m.key] = None
        BY <2>1, <3>2 DEF ApiRunPlain, ApiStart
      <4>2. QED
        BY <2>3, <3>2, <4>1 DEF MapInv, IInv, StoreKeepsTheRun
    <3>3. QED
      BY <3>1, <3>2
  <2>4. QED
    BY <1>1, <2>2, <2>3, StartPerforms DEF MapInv
<1>4. QED
  BY <1>2, <1>3

\* Every step of the retrying system is a step of the promise or changes nothing in it.
LEMMA StepImplements == MapInv /\ [Next]_vars => [Promise!Next]_Promise!vars
<1> SUFFICES ASSUME MapInv, [Next]_vars PROVE [Promise!Next]_Promise!vars
  OBVIOUS
<1>1. ASSUME NEW c \in Calls, Call(c) PROVE [Promise!Next]_Promise!vars
  BY <1>1, CallStep
<1>2. ASSUME NEW c \in Calls, Settle(c) PROVE [Promise!Next]_Promise!vars
  BY <1>2, SettleStep
<1>3. ASSUME NEW c \in Calls, Wake(c) PROVE [Promise!Next]_Promise!vars
  <2>1. Dispatched(c) /\ sent' = [sent EXCEPT ![c] = @ + 1] /\ UNCHANGED <<args, result, ran>>
    BY <1>3 DEF Wake, Resend, Send, apiVars, MapInv, IInv, KeysSettled
  <2>2. QED
    BY <2>1, ResendStep
<1>4. ASSUME NEW m \in wire, Deliver(m) PROVE [Promise!Next]_Promise!vars
  BY <1>4, DeliverStep
<1>5. CASE \/ \E c \in Calls : GatewayAnswer(c)
           \/ \E k \in Keys : ApiFinish(k)
           \/ UNCHANGED vars
  <2>1. UNCHANGED clientVars /\ UNCHANGED ran
    BY <1>5 DEF GatewayAnswer, ApiFinish, vars, apiVars
  <2>2. QED
    BY <2>1, Invisible DEF clientVars, Dispatched, MapInv
<1>6. QED
  BY <1>1, <1>2, <1>3, <1>4, <1>5 DEF Next

LEMMA InitImplements == Init => Promise!Init
BY DEF Init, Promise!Init, Asked, Performed, Told, Dispatched

\* The server keeps its promise: whatever is dropped, delayed, repeated or
\* interleaved, every behaviour is one of RunOnce.
THEOREM PromiseKept == Spec => KeepsThePromise
<1>1. Init => Promise!Init
  BY InitImplements
<1>2. QED
  BY <1>1, MapInvHolds, StepImplements, PTL DEF Spec, KeepsThePromise, Promise!Spec
===============================================================================
