------------------------------ MODULE ToolResults ------------------------------
(***************************************************************************)
(* What a tool tells the agent of the answer that settled its call: the    *)
(* result formatters of the handlers (tools/types.ts and the handlers that *)
(* do not just print JSON), after RareCloudClient.get, getText and do.     *)
(*                                                                         *)
(* A result is what it says, block by block, and whether it is an error.   *)
(***************************************************************************)
EXTENDS HttpAnswer, Sequences

CONSTANT None   \* no call

VARIABLE told   \* the tool, the answer and the result of the call at hand, or None

\* A tool by its formatter, and by whether its request carries an Idempotency-Key.
Formats == {"json", "list_services", "kubeconfig", "secret_warning", "logs"}

\* What the data of a good envelope may be: missing or null, an object without the field
\* `kubeconfig`, or one where the field is empty, no text, or a kubeconfig.
Shapes == {"none", "no field", "empty field", "odd field", "kubeconfig"}

ReadersOf == [format: {"json", "list_services", "kubeconfig", "logs"}, keyed: {FALSE}]

WritersOf ==
  [format: {"json", "secret_warning"}, keyed: BOOLEAN]
    \cup [format: {"kubeconfig"}, keyed: {TRUE}]

\* HttpAnswer's answers, and what else some formatter looks at: X-Partial-Results and
\* the data.  A kubeconfig is a credential, and the API omits from a replay whatever
\* credential it showed the first time.
Exchanges ==
  {e \in [status: Statuses \cup {404}, body: Bodies, ok: BOOLEAN, code: EnvelopeCodes,
          replayed: BOOLEAN, retryAfter: {NoRetryAfter}, secrets: Secrets, run: {0},
          partial: BOOLEAN, data: Shapes] :
     /\ e.body = "envelope" /\ e.ok => e.status = 200 /\ e.code = "NONE"
     /\ e.data # "none" => e.body = "envelope" /\ e.ok
     /\ e.data = "kubeconfig" => e.secrets = "shown"
     /\ e.secrets # "none" => e.data # "none"
     /\ e.replayed => e.secrets # "shown"
     /\ e.secrets = "omitted" => e.replayed}

-------------------------------------------------------------------------------

ErrorResult(news) == [error |-> TRUE, blocks |-> <<news>>]

\* do() puts {} in the place of data that is not there.
Data(e) == IF e.body = "empty" \/ e.data = "none" THEN "{}" ELSE "data"

JsonResult(e) == [error |-> FALSE, blocks |-> <<Data(e)>>]

\* Mutant: the note follows the list.
NoteAfterTheList(e) ==
  IF e.body = "envelope" /\ e.partial
  THEN [JsonResult(e) EXCEPT !.blocks = @ \o <<"partial note">>]
  ELSE JsonResult(e)

\* list_services: a note first when the header names categories that are missing.
ListResult(e) ==
  IF e.body = "envelope" /\ e.partial
  THEN [JsonResult(e) EXCEPT !.blocks = <<"partial note">> \o @]
  ELSE JsonResult(e)

KubeconfigText == [error |-> FALSE, blocks |-> <<"kubeconfig">>]

\* Mutant: any text in the field passes for a kubeconfig, an empty one too.
AnyTextIsAKubeconfig(e) ==
  IF e.body = "envelope" /\ e.data \in {"kubeconfig", "empty field"} THEN KubeconfigText
  ELSE ErrorResult("no kubeconfig")

\* The kubeconfig tools unwrap the YAML; without one there is nothing to pass on.
KubeconfigResult(e) ==
  IF e.body = "envelope" /\ e.data = "kubeconfig" THEN KubeconfigText
  ELSE ErrorResult("no kubeconfig")

\* The registry tools that mint a secret: a warning behind the JSON.
WithSecretWarning(e) == [JsonResult(e) EXCEPT !.blocks = @ \o <<"secret warning">>]

Format(format, e) ==
  CASE format = "json" -> JsonResult(e)
    [] format = "list_services" -> ListResult(e)
    [] format = "kubeconfig" -> KubeconfigResult(e)
    [] format = "secret_warning" -> WithSecretWarning(e)

\* get_sandbox_logs: a page of text, or why there is none.
LogsResult(e) ==
  IF e.body = "dropped" THEN ErrorResult("error")
  ELSE IF e.status = 503 THEN ErrorResult("not available yet")
  ELSE IF e.status = 404 THEN ErrorResult("logs are gone")
  ELSE IF ~IsSuccessStatus(e) THEN ErrorResult("error")
  ELSE [error |-> FALSE, blocks |-> <<IF e.body = "empty" THEN "no log lines yet" ELSE "text">>]

\* A read makes one request and tells its answer.
TellRead(tool, e) ==
  told' = [tool |-> tool, answer |-> e,
           result |-> IF tool.format = "logs" THEN LogsResult(e)
                      ELSE IF Do(e).ok THEN Format(tool.format, e)
                      ELSE ErrorResult("error")]

\* The replay note goes before whatever the formatter made of the answer.
WithReplayNote(tool, e, result) ==
  IF tool.keyed /\ Do(e).replayed THEN [result EXCEPT !.blocks = <<"replay note">> \o @] ELSE result

\* A write tells its last answer.
TellWrite(tool, e) ==
  told' = [tool |-> tool, answer |-> e,
           result |-> IF Do(e).ok THEN WithReplayNote(tool, e, Format(tool.format, e))
                      ELSE ErrorResult("error")]

Forget == told # None /\ told' = None

Init == told = None

Next ==
  \/ /\ told = None
     /\ \E e \in Exchanges :
          \/ \E tool \in ReadersOf : TellRead(tool, e)
          \/ \E tool \in WritersOf : TellWrite(tool, e)
  \/ Forget

Spec == Init /\ [][Next]_told

-------------------------------------------------------------------------------
(* What must hold. *)

Blocks == told.result.blocks

Tells(block) == \E i \in DOMAIN Blocks : Blocks[i] = block

\* The API's own answer, and a good one.
ApiSaysYes == told.answer.body = "envelope" /\ told.answer.ok

\* A 2xx without a body, as a DELETE answers it.
NothingToReport == IsSuccessStatus(told.answer) /\ told.answer.body = "empty"

\* An answer that is a replay, or a list with a part missing, starts with the note that
\* says so, whatever the formatter makes of the rest; no other result has a note.
NotesComeFirst ==
  told # None =>
    /\ Tells("replay note") <=> told.tool.keyed /\ ApiSaysYes /\ told.answer.replayed
    /\ Tells("replay note") => Blocks[1] = "replay note"
    /\ Tells("partial note") <=>
         told.tool.format = "list_services" /\ ApiSaysYes /\ told.answer.partial
    /\ Tells("partial note") => Blocks[1] = "partial note"

\* Data is told only of a good answer of the API, and "no output yet" only where the API
\* said so: a page of a gateway, an outage or expired logs never pass for either.
NoFalseNews ==
  told # None =>
    /\ Tells("data") \/ Tells("kubeconfig") => ApiSaysYes
    /\ Tells("{}") => NothingToReport \/ (ApiSaysYes /\ told.answer.data = "none")
    /\ Tells("no log lines yet") => NothingToReport
    /\ Tells("text") => IsSuccessStatus(told.answer)
    /\ Tells("logs are gone") => told.answer.status = 404

\* What the call was made for has come: a page of logs (of any 2xx), a kubeconfig that
\* is one, or else the API's word that the request was served.
Served ==
  IF told.tool.format = "logs" THEN IsSuccessStatus(told.answer) /\ told.answer.body # "dropped"
  ELSE IF told.tool.format = "kubeconfig" THEN ApiSaysYes /\ told.answer.data = "kubeconfig"
  ELSE ApiSaysYes \/ NothingToReport

\* The agent is told of a failure exactly when it did not get what it called for: a
\* success read as an error is repeated (client.ts: an empty 204 once was a false
\* INVALID_RESPONSE), an error read as a success is relied on (k8s.ts: an empty
\* credential "must not read as success").
ErrorsAreFailures == told # None => (told.result.error <=> ~Served)

\* Said of the program, and not so: README "Safe retries": with the same key the API
\* "returns the first answer again", so a replay of a success is not told as an error.
ReplaysAreNoErrors ==
  told # None /\ told.tool.keyed /\ ApiSaysYes /\ told.answer.secrets = "omitted"
  => ~told.result.error
===============================================================================
