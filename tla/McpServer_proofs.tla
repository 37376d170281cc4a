---------------------------- MODULE McpServer_proofs ----------------------------
(***************************************************************************)
(* Server processes that come and go are invisible in what calls do to the *)
(* API and are told: McpServer implements SafeRetry, and so keeps whatever *)
(* SafeRetry is proved to keep.                                            *)
(***************************************************************************)
EXTENDS McpServer, SafeRetryImplements_proofs, SafeRetryTruth_proofs

LEMMA ProcessStepIsSafeRetryStep == [McpNext]_mcpVars => [Next]_vars
<1> SUFFICES ASSUME [McpNext]_mcpVars PROVE [Next]_vars
  OBVIOUS
<1>1. ASSUME NEW s \in Servers, Start(s) \/ CloseStdio(s) \/ Exit(s) \/ Kill(s) PROVE UNCHANGED vars
  BY <1>1 DEF Start, CloseStdio, Exit, Kill
<1>2. ASSUME NEW s \in Servers, NEW c \in Calls, CallUnknownTool(c, s) \/ CallTool(c, s) PROVE [Next]_vars
  BY <1>2 DEF CallUnknownTool, CallTool, Next
<1>3. ASSUME NEW c \in Calls, Work(c) \/ Answer(c) PROVE [Next]_vars
  BY <1>3 DEF Work, Answer, Next
<1>4. ASSUME Outside PROVE Next
  BY <1>4 DEF Outside, Next
<1>5. CASE UNCHANGED mcpVars
  BY <1>5 DEF mcpVars
<1>6. QED
  BY <1>1, <1>2, <1>3, <1>4, <1>5 DEF McpNext

\* Starting, closing and killing processes at any moment adds nothing to what the
\* calls of one lasting process can do (index.ts: no state outlives a call).
THEOREM ProcessesAddNothing == McpSpec => Spec
<1>1. McpInit => Init
  BY DEF McpInit
<1>2. QED
  BY <1>1, ProcessStepIsSafeRetryStep, PTL DEF McpSpec, Spec

\* A write cut off by a crash and repeated with its key keeps the promise.
THEOREM RestartsKeepThePromise == McpSpec => KeepsThePromiseAcrossRestarts
BY ProcessesAddNothing, PromiseKept DEF KeepsThePromiseAcrossRestarts, KeepsThePromise

\* Over any number of restarts no operation runs twice, a refusal is true, and a
\* credential is shown once or explained.
THEOREM SafeAcrossRestarts ==
  McpSpec => [](AtMostOnce /\ NoMeansNotRun /\ CredentialShownOrExplained)
BY ProcessesAddNothing, AtMostOnceCorrect, NoMeansNotRunCorrect, CredentialCorrect, PTL

-------------------------------------------------------------------------------
(* Answers are lost with their host only. *)

LEMMA CallPhases ==
  ASSUME TypeOK, NEW c \in Calls, Call(c)
  PROVE  /\ phase[c] = "idle" /\ phase'[c] \in {"waiting", "answered"}
         /\ \A d \in Calls \ {c} : phase'[d] = phase[d]
BY DEF Call, Refuse, CallPlain, CallKeyed, Send, TypeOK

LEMMA HandlerPhases ==
  ASSUME TypeOK, NEW c \in Calls, Settle(c) \/ Wake(c)
  PROVE  /\ phase[c] \in {"waiting", "sleeping"}
         /\ \A d \in Calls \ {c} : phase'[d] = phase[d]
<1>1. CASE Settle(c)
  BY <1>1 DEF Settle, RetryDropped, AwaitInProgress, Return, Resend, Send, TypeOK
<1>2. CASE Wake(c)
  BY <1>2 DEF Wake, Resend, Send, TypeOK
<1>3. QED
  BY <1>1, <1>2

LEMMA ProcessStepKeepsAnswers == TypeOK /\ NoAnswerLost /\ [McpNext]_mcpVars => NoAnswerLost'
<1> SUFFICES ASSUME TypeOK, NoAnswerLost, [McpNext]_mcpVars PROVE NoAnswerLost'
  OBVIOUS
<1>1. ASSUME NEW s \in Servers, Start(s) PROVE NoAnswerLost'
  <2>1. PICK token \in BOOLEAN : server' = [server EXCEPT ![s] = IF token THEN "serving" ELSE "gone"]
    BY <1>1 DEF Start
  <2>2. UNCHANGED <<servedBy, heard, phase>> /\ server[s] = "off"
    BY <1>1 DEF Start, vars, clientVars
  <2>3. QED
    BY <2>1, <2>2 DEF NoAnswerLost, ServerStates
<1>2. ASSUME NEW s \in Servers, CloseStdio(s) \/ Exit(s) \/ Kill(s) PROVE NoAnswerLost'
  <2>1. PICK to \in {"closed", "gone"} : server' = [server EXCEPT ![s] = to]
    BY <1>2 DEF CloseStdio, Exit, Kill
  <2>2. UNCHANGED <<servedBy, heard, phase>>
    BY <1>2 DEF CloseStdio, Exit, Kill, vars, clientVars
  <2>3. QED
    BY <2>1, <2>2 DEF NoAnswerLost, ServerStates
<1>3. ASSUME NEW s \in Servers, NEW c \in Calls, CallUnknownTool(c, s) PROVE NoAnswerLost'
  <2>1. UNCHANGED <<phase, server>> /\ servedBy[c] = None
    BY <1>3 DEF CallUnknownTool, vars, clientVars
  <2>2. servedBy' = [servedBy EXCEPT ![c] = s] /\ heard' = [heard EXCEPT ![c] = "unknown tool"]
    BY <1>3 DEF CallUnknownTool
  <2>3. QED
    BY <2>1, <2>2 DEF NoAnswerLost, Hearings
<1>4. ASSUME NEW s \in Servers, NEW c \in Calls, CallTool(c, s) PROVE NoAnswerLost'
  <2>1. /\ phase'[c] \in {"waiting", "answered"}
        /\ \A d \in Calls \ {c} : phase'[d] = phase[d]
    BY <1>4, CallPhases DEF CallTool
  <2>2. /\ servedBy' = [servedBy EXCEPT ![c] = s] /\ server' = server
        /\ heard' = [heard EXCEPT ![c] = IF phase'[c] = "answered" THEN "result" ELSE "nothing"]
    BY <1>4 DEF CallTool
  <2>3. /\ servedBy'[c] = s /\ heard'[c] = (IF phase'[c] = "answered" THEN "result" ELSE "nothing")
        /\ \A d \in Calls \ {c} : servedBy'[d] = servedBy[d] /\ heard'[d] = heard[d]
        /\ servedBy' \in [Calls -> Servers \cup {None}] /\ heard' \in [Calls -> Hearings]
    BY <2>2 DEF NoAnswerLost, Hearings
  <2>4. s # None
    BY NoneIsNoServer
  <2>5. /\ heard'[c] = "result" => phase'[c] = "answered"
        /\ heard'[c] # "unknown tool"
        /\ phase'[c] = "answered" => heard'[c] # "nothing"
    BY <2>1, <2>3
  <2>6. ASSUME NEW d \in Calls \ {c}
        PROVE  /\ servedBy'[d] = None \/ heard'[d] = "unknown tool" => phase'[d] = "idle"
               /\ heard'[d] = "result" => phase'[d] = "answered"
               /\ phase'[d] = "answered" /\ heard'[d] = "nothing" => server'[servedBy'[d]] \in {"closed", "gone"}
    BY <2>1, <2>2, <2>3, <2>6 DEF NoAnswerLost
  <2>7. QED
    BY <2>2, <2>3, <2>4, <2>5, <2>6 DEF NoAnswerLost
<1>5. ASSUME NEW c \in Calls, Work(c) PROVE NoAnswerLost'
  <2>1. /\ phase[c] \in {"waiting", "sleeping"} /\ phase'[c] \in {"waiting", "sleeping"}
        /\ \A d \in Calls \ {c} : phase'[d] = phase[d]
    BY <1>5, HandlerPhases DEF Work, Unfinished
  <2>2. UNCHANGED <<server, servedBy, heard>>
    BY <1>5 DEF Work, processVars
  <2>3. QED
    BY <2>1, <2>2 DEF NoAnswerLost
<1>6. ASSUME NEW c \in Calls, Answer(c) PROVE NoAnswerLost'
  <2>1. /\ phase[c] \in {"waiting", "sleeping"} /\ phase'[c] = "answered"
        /\ \A d \in Calls \ {c} : phase'[d] = phase[d]
        /\ servedBy' = servedBy /\ servedBy[c] # None
    BY <1>6, HandlerPhases DEF Answer
  <2>2. servedBy[c] \in Servers /\ heard[c] # "unknown tool"
    BY <2>1 DEF NoAnswerLost
  <2>3. CASE server[servedBy[c]] = "serving" /\ heard' = [heard EXCEPT ![c] = "result"] /\ server' = server
    BY <2>1, <2>2, <2>3 DEF NoAnswerLost, Hearings
  <2>4. CASE /\ server[servedBy[c]] = "closed" /\ heard' = heard
             /\ server' \in {server, [server EXCEPT ![servedBy[c]] = "gone"]}
    BY <2>1, <2>2, <2>4 DEF NoAnswerLost, ServerStates
  <2>5. QED
    BY <1>6, <2>3, <2>4 DEF Answer
<1>7. CASE Outside \/ UNCHANGED mcpVars
  <2>1. UNCHANGED <<phase, server, servedBy, heard>>
    BY <1>7 DEF Outside, GatewayAnswer, Deliver, ApiFinish, clientVars, processVars, mcpVars, vars
  <2>2. QED
    BY <2>1 DEF NoAnswerLost
<1>8. QED
  BY <1>1, <1>2, <1>3, <1>4, <1>5, <1>6, <1>7 DEF McpNext

\* While its process serves, no call's result is lost (index.ts, tools/call handler).
THEOREM NoAnswerLostCorrect == McpSpec => []NoAnswerLost
<1>1. McpInit => NoAnswerLost
  BY DEF McpInit, Init, NoAnswerLost, ServerStates, Hearings
<1>2. QED
  BY <1>1, ProcessesAddNothing, TypeCorrect, ProcessStepKeepsAnswers, PTL DEF McpSpec
===============================================================================
