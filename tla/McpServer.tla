------------------------------- MODULE McpServer -------------------------------
(***************************************************************************)
(* The server as processes (index.ts): the host starts one, talks to it    *)
(* over stdio, closes stdio or kills it, and starts another.  What the     *)
(* handlers do is SafeRetry; here each call belongs to the process that    *)
(* received it and goes no further than that process lives.                *)
(*                                                                         *)
(* Nothing is persisted, so a process that dies takes the keys, counters   *)
(* and timers of its calls with it, and leaves its requests on their way.  *)
(* When stdio closes, nothing cancels the calls that are running: a fetch  *)
(* or a timer keeps the process alive, retries included, until the last    *)
(* call is over, and its result has nobody left to read it.                *)
(***************************************************************************)
EXTENDS SafeRetryImplements

CONSTANT Servers   \* server processes the host starts

ASSUME NoneIsNoServer == None \notin Servers

VARIABLES
  server,     \* where a process stands
  servedBy,   \* the process that received a call, None before
  heard       \* what the agent has heard of a call

processVars == <<server, servedBy, heard>>
mcpVars == <<vars, processVars>>

\* "closed": stdin has ended and calls may still be running.
ServerStates == {"off", "serving", "closed", "gone"}

Hearings == {"nothing", "result", "unknown tool"}

Alive(s) == server[s] \in {"serving", "closed"}

Unfinished(c) == phase[c] \in {"waiting", "sleeping"}

\* main: without a token the process ends with status 1 before it serves anything.
Start(s) ==
  /\ server[s] = "off"
  /\ \E token \in BOOLEAN :
       server' = [server EXCEPT ![s] = IF token THEN "serving" ELSE "gone"]
  /\ UNCHANGED <<vars, servedBy, heard>>

\* tools/call for a name findTool does not know.
CallUnknownTool(c, s) ==
  /\ server[s] = "serving" /\ servedBy[c] = None
  /\ servedBy' = [servedBy EXCEPT ![c] = s]
  /\ heard' = [heard EXCEPT ![c] = "unknown tool"]
  /\ UNCHANGED <<vars, server>>

\* Mutant: a call is answered only after it has made a request.
CallToolHeardLater(c, s) ==
  /\ server[s] = "serving" /\ servedBy[c] = None
  /\ servedBy' = [servedBy EXCEPT ![c] = s]
  /\ Call(c)
  /\ UNCHANGED <<server, heard>>

\* tools/call: the handler runs to its first await, or to a refusal.
CallTool(c, s) ==
  /\ server[s] = "serving" /\ servedBy[c] = None
  /\ servedBy' = [servedBy EXCEPT ![c] = s]
  /\ Call(c)
  /\ heard' = [heard EXCEPT ![c] = IF phase'[c] = "answered" THEN "result" ELSE "nothing"]
  /\ UNCHANGED server

\* Between two awaits of a running call.
Work(c) ==
  /\ servedBy[c] # None /\ Alive(servedBy[c])
  /\ Settle(c) \/ Wake(c)
  /\ Unfinished(c)'
  /\ UNCHANGED processVars

\* The handler returns.  Writing to a host that is gone may fail, and an error on
\* stdout nobody listens for ends the process, whatever else it was doing.
Answer(c) ==
  /\ servedBy[c] # None /\ Alive(servedBy[c])
  /\ Settle(c)
  /\ phase'[c] = "answered"
  /\ \/ /\ server[servedBy[c]] = "serving"
        /\ heard' = [heard EXCEPT ![c] = "result"]
        /\ UNCHANGED server
     \/ /\ server[servedBy[c]] = "closed"
        /\ \/ UNCHANGED server
           \/ server' = [server EXCEPT ![servedBy[c]] = "gone"]
        /\ UNCHANGED heard
  /\ UNCHANGED servedBy

\* The host closes stdio.
CloseStdio(s) ==
  /\ server[s] = "serving"
  /\ server' = [server EXCEPT ![s] = "closed"]
  /\ UNCHANGED <<vars, servedBy, heard>>

\* Mutant: the process waits until every result has been read.
ExitWhenHeard(s) ==
  /\ server[s] = "closed"
  /\ \A c \in Calls : servedBy[c] = s => heard[c] # "nothing"
  /\ server' = [server EXCEPT ![s] = "gone"]
  /\ UNCHANGED <<vars, servedBy, heard>>

\* Nothing is left that keeps the event loop alive.
Exit(s) ==
  /\ server[s] = "closed"
  /\ \A c \in Calls : servedBy[c] = s => ~Unfinished(c)
  /\ server' = [server EXCEPT ![s] = "gone"]
  /\ UNCHANGED <<vars, servedBy, heard>>

\* Mutant: calls cut off by the end of their process are made again in the next one.
KillAndStartOver(s) ==
  /\ Alive(s)
  /\ server' = [server EXCEPT ![s] = "gone"]
  /\ servedBy' = [c \in Calls |-> IF servedBy[c] = s /\ Unfinished(c) THEN None ELSE servedBy[c]]
  /\ phase' = [c \in Calls |-> IF servedBy[c] = s /\ Unfinished(c) THEN "idle" ELSE phase[c]]
  /\ UNCHANGED <<args, key, sent, transportRetries, inProgressRetries, waited, result, minted>>
  /\ UNCHANGED <<apiVars, inbox, wire, heard>>

\* The host, or the machine, ends the process between any two steps.
Kill(s) ==
  /\ Alive(s)
  /\ server' = [server EXCEPT ![s] = "gone"]
  /\ UNCHANGED <<vars, servedBy, heard>>

\* The network and the API go on, whoever is alive; a gateway answers open
\* connections only.
Outside ==
  /\ \/ \E c \in Calls : servedBy[c] # None /\ Alive(servedBy[c]) /\ GatewayAnswer(c)
     \/ \E m \in wire : Deliver(m)
     \/ \E k \in Keys : ApiFinish(k)
  /\ UNCHANGED processVars

McpInit ==
  /\ Init
  /\ server = [s \in Servers |-> "off"]
  /\ servedBy = [c \in Calls |-> None]
  /\ heard = [c \in Calls |-> "nothing"]

McpNext ==
  \/ \E s \in Servers :
       \/ Start(s) \/ CloseStdio(s) \/ Exit(s) \/ Kill(s)
       \/ \E c \in Calls : CallUnknownTool(c, s) \/ CallTool(c, s)
  \/ \E c \in Calls : Work(c) \/ Answer(c)
  \/ Outside

McpSpec == McpInit /\ [][McpNext]_mcpVars

\* A living process runs its event loop: what fetch() settled with and the timers
\* that fired are handled, and the loop ends when nothing is left in it.  The host
\* owes nothing: it need not start, close or kill anything.
McpFairness ==
  /\ \A c \in Calls : WF_mcpVars(Work(c)) /\ WF_mcpVars(Answer(c))
  /\ \A s \in Servers : WF_mcpVars(Exit(s))

McpFairSpec == McpSpec /\ McpFairness

-------------------------------------------------------------------------------
(* What must hold. *)

\* An answer gets lost only with its host: a call that ended unheard was served by a
\* process whose stdio is closed, and what was heard is what the handler returned.
NoAnswerLost ==
  /\ server \in [Servers -> ServerStates]
  /\ servedBy \in [Calls -> Servers \cup {None}]
  /\ heard \in [Calls -> Hearings]
  /\ \A c \in Calls :
       /\ servedBy[c] = None \/ heard[c] = "unknown tool" => phase[c] = "idle"
       /\ heard[c] = "result" => phase[c] = "answered"
       /\ phase[c] = "answered" /\ heard[c] = "nothing" => server[servedBy[c]] \in {"closed", "gone"}

\* Processes that die, are restarted, or outlive their host keep the promise made to
\* the agent: a write cut off by a crash and repeated with its key in a new process
\* runs at most once and is told for what it is (README, "Safe retries").
KeepsThePromiseAcrossRestarts == Promise!Spec

\* While its process serves, a call is answered in the end.
ServedCallsAreAnswered ==
  \A c \in Calls, s \in Servers :
    (servedBy[c] = s /\ server[s] = "serving") ~> (heard[c] # "nothing" \/ server[s] # "serving")

\* A process whose stdio is closed ends (index.ts: "Stay alive until stdio closes"),
\* though calls with retries and waits may still be running in it.
ClosedServersEnd == \A s \in Servers : (server[s] = "closed") ~> (server[s] = "gone")
===============================================================================
