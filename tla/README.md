# Verification of the RareCloud MCP server

TLA+ models of the server in `src/src`, the TLC configurations that check them,
and TLAPS proofs. File names below are relative to `src/src/` unless they are
modules of this directory.

## The system

An MCP host (an AI agent) speaks to the server over stdio. The server is one
Node.js process; each `CallTool` request looks up a tool, makes a
`RareCloudClient` and runs the tool's handler, which makes zero or more HTTP
requests to the RareCloud API. Calls run concurrently on one event loop: a
handler is uninterrupted from one `await` to the next, and between awaits any
number of other calls may run. Nothing is persisted by the server. The one thing
that two calls share is outside it: the API's record of an `Idempotency-Key`.

| Component | Code | State | Operations | What makes it correct |
|---|---|---|---|---|
| API client | `client.ts` | per call: key, two retry counters, the request in flight | `do`, `post`, `postIdempotent`, `sleep`, plain writes, reads | an operation runs at most once; a success reports the run asked for; bounded effort; every call ends |
| Write-tool factory | `tools/factories.ts` | none between calls | validate, split off `confirm` and `idempotency_key`, gate, build path, dispatch, note a replay | nothing leaves before the gate; a replay is told as one |
| Idempotency routes | `idempotency.ts` | a constant table | `isIdempotentPostPath`, `isValidIdempotencyKey` | the key goes exactly where the API honours it |
| Write catalogue | `tools/*-write.ts`, `tools/index.ts` | a constant table of 113 tools | `buildPath` | no argument leaves its tool's route, in the URL or where the API takes it; the api-access switch is out of reach |
| Order validation | `tools/services-write.ts` | none | cross-field rules of an order, `check_order`, `deploy_service` | exactly the orders the API can place leave; `check_order` accepts what `deploy_service` accepts |
| Read tools | `tools/*.ts` | none | 111 reads: a GET (or a POST that changes nothing), the partial-results note, kubeconfigs unwrapped, pages of logs | no argument makes a read write; a partial answer is not told as complete |
| Result formatters | `tools/types.ts`, handlers with `formatResult` | none | JSON, notes, warnings, unwrapping | notes come first; a result is an error exactly when the agent did not get what it called for |
| Server and dispatch | `index.ts` | the process, its running calls | start, `ListTools`, `CallTool`, end of stdio | an answer is lost only with its host; a closed server ends |
| API and gateway | external | records of keys, resources | run, replay, refuse, time out | what `client.ts` and `idempotency.ts` rely on |

What is hard here: a dropped connection leaves the fate of the request unknown, and
the request may still arrive after its retry; several calls may carry the same
key at once; two kinds of retry with their own counters share one loop; a replay
has to be noticed on whichever attempt succeeds, since it stands for a credential
that is not there; a gateway can answer in the API's place in half a dozen
shapes; a host that dies takes the generated keys with it while their requests go on. `PROJECT.json` lists these hazards with their lines.

## Modules

| Module | Models |
|---|---|
| `HttpAnswer` | `RareCloudClient.do`: what an HTTP exchange becomes, a value or an error |
| `WriteTool` | the synchronous half of `writeTool`'s handler: parse, key, gate, path, dispatch |
| `SafeRetry` | calls from the agent to the API and back: handler, `postIdempotent`, network, the API's store of keys, gateway |
| `SafeRetryInv` | the inductive invariant of `SafeRetry` and the accounting of its effort |
| `SafeRetry_proofs` | theorems about `SafeRetry`, for every value of its constants |
| `RunOnce` | what the agent is promised, without connections, retries, keys or stores |
| `SafeRetryImplements` | the refinement mapping from `SafeRetry` to `RunOnce` |
| `SafeRetryImplements_proofs` | that the mapping is a refinement, for every value of the constants |
| `SafeRetryTruth_proofs` | that a final no is true and that credentials are accounted for, for every value of the constants |
| `MCSafeRetry` | small instances of the above for TLC |
| `McpServer` | server processes: start, dispatch, closed stdio, kill, restart, and the calls in them |
| `McpServer_proofs` | that processes add no behaviour to `SafeRetry`, and what follows |
| `MCMcpServer` | small instances of `McpServer` for TLC |
| `DeployOrder` | the schema of an order and the two handlers that use it |
| `DeployOrder_proofs` | that the schema is what the API requires, for every value of the constants |
| `MCDeployOrder` | the sizes at the limits, for TLC |
| `IdempotencyRoutes` | the 47 route templates and their matcher |
| `ToolCatalog` | method, path, safety kind, `idempotent`, `returnsSecret` of all 113 write tools |
| `ReadCatalog` | method, path and `returnsSecret` of all 111 read tools |
| `ToolCalls` | which request a tool sends for any path arguments, and where the API takes it |
| `ToolCalls_proofs` | that requests keep to their routes, for any path arguments |
| `MCToolCalls` | path arguments for TLC |
| `ToolResults` | what a tool tells the agent of the answer that settled its call |
| `ToolResults_proofs` | that results are honest, format by format |
| `MCToolResults` | `ToolResults` for TLC; it is finite as it stands |

`SafeRetry` EXTENDS `HttpAnswer` and `WriteTool`; `McpServer` composes it, through
`SafeRetryImplements`, with the processes that serve the calls. `ToolCalls` composes
`ReadCatalog` (which EXTENDS `ToolCatalog`, and that `IdempotencyRoutes`) with
`WriteTool`. `DeployOrder` puts the order's schema in the place of `WriteTool`'s
verdict `valid`. `ToolResults` goes on where `HttpAnswer` ends. `MCSafeRetry` takes the
classes of its tools from the catalogue (`deploy_service`,
`set_service_hostname`, `destroy_service`), so the runs use combinations that
real tools have.

### SafeRetry and the code

| Model | Code |
|---|---|
| `phase[c]` | `idle`: not called; `waiting`: at `await fetch` / `resp.text()`; `sleeping`: at `await this.sleep`; `answered`: the handler has returned |
| `key[c]`, `transportRetries[c]`, `inProgressRetries[c]` | the locals of `postIdempotent` |
| `sent[c]`, `waited[c]`, `ran` | history: attempts, seconds asleep, operations the API has run |
| `minted` | UUIDs that `randomUUID()` has returned; a UUID is never returned twice |
| `inbox[c]` | the answer that reached the socket of the attempt in flight |
| `wire` | requests on their way; one is removed when delivered, and may stay forever (lost) |
| `store[k]` | the API's record of a key: request, run, done |
| `Refuse`, `CallPlain`, `CallKeyed` | the handler up to a refusal or its first `fetch` |
| `RetryDropped`, `AwaitInProgress`, `Return` | the three ways out of one turn of the `for (;;)` loop, with the branch conditions in the code's order |
| `Wake` | the timer of `sleep` fires and the loop comes round |
| `Do(a)` | `do`: dropped, empty, non-JSON, `null`, error envelope, success envelope |
| `ResultOf` | the handler's `onReplay` note in front of the result, or the error |

The data are abstracted to what the properties tell apart: a request is a model
value (equality is "the exact same request"), an answer's payload is the run that
it reports, secrets are none, shown or omitted. 200 stands for every success
status. Validation by a tool's zod schema is the verdict `valid`.

The API is external, as assumed by `idempotency.ts` and the comments in
`client.ts`: it runs a keyed operation at most once, answers a repeated key with
the stored result, with 409 while the first request runs or 422 for another
request, and leaves secrets out of a replay. It may refuse any request at any time
(bad input, no funds, a protected resource, too many requests) and keeps no record
of a refusal. An operation that starts and then fails is not distinguished, and
records of keys do not expire. A request without a key runs each time it arrives. The gateway
may answer at any time with an error page, a page of any shape, or nothing,
whatever became of the request. The one shape it does not produce is an empty 2xx,
which `do` takes for a success: such an answer comes from the API only. A request given up by the client may arrive later.

In `SafeRetry` alone a process that died is a call that takes no further step, its
requests still on the wire. `McpServer` says which calls those are.

### McpServer and the code

| Model | Code |
|---|---|
| `server[s]` | `off`: not started; `serving`: connected to stdio; `closed`: stdin has ended, calls may still run; `gone`: the process has ended |
| `servedBy[c]`, `heard[c]` | the process that received the call; what reached the agent |
| `Start` | `main`: without a token the process ends with status 1 |
| `CallUnknownTool`, `CallTool` | the `CallTool` handler: `findTool` fails, or the tool's handler runs up to its first `await` |
| `Work`, `Answer` | a turn of the event loop for one call; its last turn, with the result written to stdout |
| `CloseStdio`, `Exit`, `Kill` | the host goes away; nothing keeps the loop alive; the process is ended between any two steps |
| `Outside` | network, API and gateway, which go on whoever is alive |

Nothing cancels a running call when stdio closes, so `closed` processes keep
retrying. Writing a result to a host that is gone either vanishes or ends the
process, and the model allows both. `Work` and `Answer` add no guard to a handler:
they are `Settle` and `Wake` of `SafeRetry` in a living process.

### DeployOrder and the code

An order is a record of the fields the rules read. A field is `{}` when absent and a
singleton otherwise, so `undefined` and a value are told apart the way `??`, `== null`
and `?.length` do. Texts are empty, blank, without a letter or digit, or with one. The
remaining fields of the body decide nothing and are left out. `name ?? hostname` hides
a good alias behind a blank name; `ApiRequires` takes the same reading, because the
API's own is not in this repository.

### ToolCalls and the code

A path argument is any text. It is given as the parts that slashes separate in it. A
path is a sequence of segments, and a segment a sequence of parts: `encodeURIComponent`
makes one segment of a text, its slashes escaped, where pasting it unescaped would make
one of each part. `Resolved` does what `new URL()` does with dot segments and a query.
The rows of both catalogues are the definitions in `tools/*.ts`, one each; a read has no
gate and no key, and its handler asks as soon as its segments are good. Query strings are
left out: their values are encoded and a query changes no route. Of the tools' schemas
`SchemaAccepts` keeps the two that matter to routes: `TAG_RE` and `DIGEST_RE` let no slash
into the last argument of `delete_registry_tag` and `delete_registry_manifest`.

The API is external here too. The comment at `tools/registry.ts:45-60` says that it
decodes a repository name back into its parts, and that below `/registry/repositories` a
path that ends like a part of a repository (`tags/<tag>`, `tags/<tag>/vulnerabilities`,
and, as the third such route in the catalogue, `manifests/<digest>`) goes to that part's
route, whoever sent it. `Landings` is the set of routes a path may be taken to: elsewhere
the path itself, there the name with its slashes back in place, or a part of it.

### ToolResults and the code

Each value of `Formats` is one way a handler turns a value into content blocks: `json`
(`jsonResult`), `list_services` (the note made from `X-Partial-Results`), `kubeconfig`
(the three tools that unwrap the YAML), `secret_warning` (the registry tools that mint
a secret) and `logs` (`getText` and its status codes). An answer is one of
`HttpAnswer`'s, with the header and the data added. The data is missing, an object
without the field `kubeconfig`, or one whose field is empty, of another type, or a
kubeconfig (`Shapes`); every shape goes through every formatter. A replay comes
without the credential that the first answer had, as `client.ts` says of it.

## Runs

| Run | Question | Bounds |
|---|---|---|
| `shared` | concurrent calls with the agent's own key, same or different request | 3 calls, 2 requests, 2 waits |
| `nokey` | calls without a key, covered route and not | 2 calls, the code's limits (1 transport retry, 3 waits, cap 10 s), Retry-After none, 1 and 600 |
| `live` | does every call that went out end? | 2 calls, 2 waits, keyed, key-less and plain |
| `promise` | does `SafeRetry` implement `RunOnce`, is `IInv` invariant, does anything leave before the gate? | 2 calls, 1 wait, 73 argument records: every combination of class, key, confirm, validity and path, and one key for two requests |
| `gateway` | does a gateway's error always count as a drop? | as `nokey`; violated, see below |
| `tool_calls` | where do the 224 tools' requests go? | 19 texts in every path argument, all keys and flags |
| `repository_names` | may a repository's name hold any slashes? | as `tool_calls`; violated, see below |
| `restart` | does the promise survive kills, restarts and processes side by side? | 2 calls, 2 processes, 1 retry of each kind |
| `server_live` | is a served call answered, does a closed process end? | 2 calls, 1 process, 1 retry of each kind |
| `deploy_order` | which orders leave, and do check and deploy agree? | all 61 875 orders over the fields' cases, sizes 0, 1, 2048, 2049 |
| `tool_results` | is every answer told for what it is? | none: all answers, all formatters |
| `kubeconfig_replay` | is a replay told as what it is? | as `tool_results`; violated, see below |

Why the bounds are enough. Calls interact only through a shared key: two calls show
one running while the other waits or replays, a third shows a replay racing
another replay. Call and UUID symmetry is used for safety runs only, not for
`live`. Four UUIDs are more than the calls can mint. The wait limit is lowered to
1 or 2 where the number of waits is not the question: waits differ only in the
counter. The proofs below cover all values of these constants for the safety
properties they name. Deadlock is not checked for `SafeRetry` because the agent
may stop calling: the number of calls is finite. The same goes for `McpServer`: the
host may start nothing more. `tool_calls`, `deploy_order` and `tool_results` check it.
Two processes are enough for `restart`: processes share nothing but the API, so a
third is another second. `server_live` has one, since the liveness of one process
is its own. The 19 texts of `tool_calls` are one for each thing `encodeSegment` and
`new URL()` treat differently, the literal segments that stand where a sibling
route takes an id, and repositories that are named like a part of another. The cases of `DeployOrder`'s fields are all that its rules tell apart.

Properties (their comments in the modules quote the code or the README they are
about):

- `AtMostOnce`: for one key of the agent's, or one call, one run.
- `SuccessReportsTheRun`: a success is the run of this request by this operation.
- `FirstAnswerOnce`, `CredentialShownOrExplained`: of the calls told of a run, one
  is told without the note and sees the credential, every other one is told why not.
- `NoMeansNotRun`: after a final refusal by the API no request of the call has
  run or will run, except when a transport retry was spent.
- `BoundedEffort`, `EveryCallIsAnswered`: bounded requests and sleep; termination.
- `NothingBeforeTheGate`: nothing on the wire that the handler should have refused.
- `KeepsThePromise`: the refinement.
- `NoAnswerLost`, `KeepsThePromiseAcrossRestarts`: an answer is lost only with its
  host, and a write repeated in a new process still runs once.
- `ServedCallsAreAnswered`, `ClosedServersEnd`: termination of calls and processes.
- `RouteIsItsOwn`: over both catalogues, a request fits its tool's template, and no
  template where another tool writes, in the URL sent or where the API takes it. The
  second half excepts `delete_registry_repository`, see `NamesMayHoldSlashes` below.
- `SwitchOutOfReach`, `KeyExactlyWhereHonoured`, `CredentialsComeMarked`: of the URL sent,
  over both catalogues; no tool without the SECURITY sentence reaches a route that answers
  with a credential. None of these routes is below `/registry/repositories`, so the API
  takes their paths as they are.
- `ExactlyPlaceableOrdersLeave`, `CheckSpeaksForDeploy`: the order's schema against a
  reference definition, and the two handlers against each other.
- `NotesComeFirst`, `NoFalseNews`, `ErrorsAreFailures`: results against answers. The last
  says that a result is an error exactly when the call did not get what it was made for
  (`Served`): no success is told as an error and no failure as a success.

Answers without a body are left out of the two note properties: `do` returns for an
empty 2xx body before it reads `Idempotent-Replayed`, so the note cannot be made.

Fairness (`live` and `server_live`). `Settle`: `fetch` and `resp.text()` settle in the end,
because undici's own header and body timeouts give up on a silent connection.
`Wake`: a timer fires. Both are properties of the Node.js runtime. Nothing is
assumed of the agent, the network, the gateway or the API. In `server_live` the same
is assumed of each call while its process lives (`Work`, `Answer`), and that a process
ends when nothing keeps its event loop alive (`Exit`). The host owes nothing.

Each passing property has a mutant in `PROJECT.json`: a definition such as
`AlwaysFreshKeyFor`, `ResultWithoutNote` or `PastedAsItIs`, marked "Mutant" in its
module, that stands in for a bug in the code and makes TLC report the property.

### Divergences

`GatewayErrorIsADrop`. `CHANGELOG.md:283` says that a gateway 502/503/504 page
counts as a dropped answer, and `client.ts:61` that `transport` covers an answer a
gateway replaced. The code sets `transport` for an empty or a non-JSON page only.
A 504 whose body is JSON ends in `client.ts:309` as an API error with code
`UNKNOWN`, and a call with a generated key is not retried. Nothing runs twice; the
agent gets an error where the one safe retry was promised.

`ReplaysAreNoErrors`. The README says that with the same key the API "returns the
first answer again". `create_cluster_kubeconfig` unwraps the kubeconfig from the
answer, replay or not (`tools/k8s-write.ts:31`); a replay has none, so a call whose
operation ran and succeeded is told as the error "API returned no kubeconfig". The
replay note stands in front of it.

`NamesMayHoldSlashes`. The description of `delete_registry_repository`
(`tools/registry-write.ts:302`) says that it deletes an entire repository and that `repo`
may contain `/`. Given `app/tags/v1`, a name that a repository may have, the request is
`DELETE /registry/repositories/app%2Ftags%2Fv1`, which the API decodes and takes for the
tag `v1` of `app`: another tool's write than the one the user approved. The comment at
`tools/registry.ts:55-60` knows the exception, "inherent to allowing `/` in repository
names, not a defect in this client"; the description that the agent reads does not name
it. The read of such a repository goes astray in the same way and changes nothing.

The registry tools' warning (`tools/registry-write.ts:71`) has the same cause without the
consequence: "the secret above is shown ONLY in this response" also stands under a
replay that has no secret. No property is about that sentence.

## Proofs

`SafeRetry_proofs` proves, for any sets of calls, keys, UUIDs, requests and
arguments, any Retry-After and any retry limits in Nat:

| Theorem | States |
|---|---|
| `InvariantHolds` | `Spec => []IInv` |
| `TypeCorrect` | `Spec => []TypeOK` |
| `AtMostOnceCorrect` | `Spec => []AtMostOnce` |
| `SuccessCorrect` | `Spec => []SuccessReportsTheRun` |
| `FirstAnswerCorrect` | `Spec => []FirstAnswerOnce` |
| `GateCorrect` | `Spec => []NothingBeforeTheGate` |
| `EffortCorrect` | `Spec => []BoundedEffort` |
| `PromiseKept` (in `SafeRetryImplements_proofs`) | `Spec => KeepsThePromise` |
| `NoMeansNotRunCorrect` (in `SafeRetryTruth_proofs`) | `Spec => []NoMeansNotRun` |
| `CredentialCorrect` (in `SafeRetryTruth_proofs`) | `Spec => []CredentialShownOrExplained` |
| `ProcessesAddNothing` (in `McpServer_proofs`) | `McpSpec => Spec` |
| `RestartsKeepThePromise` (in `McpServer_proofs`) | `McpSpec => KeepsThePromiseAcrossRestarts` |
| `SafeAcrossRestarts` (in `McpServer_proofs`) | `AtMostOnce`, `NoMeansNotRun`, `CredentialShownOrExplained` under `McpSpec` |
| `NoAnswerLostCorrect` (in `McpServer_proofs`) | `McpSpec => []NoAnswerLost` |
| `PlaceableOrdersCorrect` (in `DeployOrder_proofs`) | `OrderSpec => []ExactlyPlaceableOrdersLeave` |
| `CheckCorrect` (in `DeployOrder_proofs`) | `OrderSpec => []CheckSpeaksForDeploy` |
| `RoutesKept` (in `ToolCalls_proofs`) | `Spec => []RouteIsItsOwn` |
| `SwitchNotReached` (in `ToolCalls_proofs`) | `Spec => []SwitchOutOfReach` |
| `KeysWhereHonoured` (in `ToolCalls_proofs`) | `Spec => []KeyExactlyWhereHonoured` |
| `CredentialsMarked` (in `ToolCalls_proofs`) | `Spec => []CredentialsComeMarked` |
| `RequestsNameTheirTools` (in `ToolCalls_proofs`) | two write tools with the same method and path are one |
| `NotesFirst` (in `ToolResults_proofs`) | `Spec => []NotesComeFirst` |
| `NewsIsTrue` (in `ToolResults_proofs`) | `Spec => []NoFalseNews` |
| `ErrorsTrue` (in `ToolResults_proofs`) | `Spec => []ErrorsAreFailures` |

Assumptions, all named in `SafeRetry` and `WriteTool`: the agent's keys, the
generated keys, `NoKey` and `BadKey` are distinct (a generated UUID equals no key
of the agent's), the limits are naturals, Retry-After is an integer, `None` is no
record, no result and, for the refinement (`NoneIsNotTold`), no value of the
mapping. `RequestNamesItsTool`: calls with the same request are calls of the same tool,
which `CredentialCorrect` needs and which `RequestsNameTheirTools` proves of the catalogue
the calls are taken from. `DeployOrder` assumes only that
the categories outside the schema are outside it, `McpServer` that `None` is no process,
`ToolCalls` that an argument is a non-empty sequence of parts (`TextsAreParts`, how
the model writes a text down). `ToolResults` assumes nothing.

The argument. `AtMostOnce` alone is not inductive. A state may have it with a
second copy of a key-less request on the wire, with two calls on one generated
key, or with a run the store does not know; the next delivery would break it.
`IInv` excludes these: `KeysSettled` (a call's key is fixed before its first
request), `GeneratedKeysDiffer`, `AttemptsAgree` (every request on the wire or run
carries its call's key and request), `StoreKeepsTheRun` (a key's record is the
record of its one run), `PlainNeverAgain` (a key-less request that ran has no copy
left). `AnswersReportTheRun` carries the same facts to the answers in flight and
to the results. Each action has one lemma per conjunct it can disturb.
`EffortCorrect` uses a second invariant, `EffortCounted`: each attempt after the
first and each second asleep was paid for by a counter.

`PromiseKept` maps each call to what it asked for (`Asked`, once its first request
is out), each run to an operation performed and each result to what was told. The
first `fetch` is `Ask`, `ApiStart` and `ApiRunPlain` are `Perform`, a returned
success is `Tell`, a refusal or an error is `Fail`, and everything else, retries
and waits and replays and late deliveries included, leaves the mapped state as it
was. The step needs `IInv` (a start finds no earlier run of its operation; an
answer without a note is the caller's own), `BoundedEffort` (attempts have names in
`RunOnce`) and `NotToldYet` (a call is told once).

`NoMeansNotRunCorrect` needs to know what of a call can still be on the wire when the
API says no. `NoIsTrue` says it: while no transport retry was spent, a call has one
request out, and an answer that says no is the answer to that one, so nothing ran
and nothing is left to run. `CredentialCorrect` rests on `SecretsAccounted`: the answer
that shows a credential was made by the run itself and goes to the call whose request
ran; every other answer about that run is a replay and carries its mark.

`ProcessesAddNothing` maps each step of `McpServer` to the step of `SafeRetry` it
contains, or to none (start, close, kill, exit, an unknown tool). All safety proved of
`SafeRetry` therefore holds across crashes and restarts, for any number of
processes; `NoAnswerLost` is inductive as it stands.

`DeployOrder_proofs` first shows that the schema and the reference agree on every order
(`SchemaIsTheApis`, by the cases of the category), then that each handler's last answer
is the schema's verdict on the order at hand (`OrderInv`).

`ToolCalls_proofs` has two halves. The first is about any path: what `encodeSegment`
accepts becomes one segment that is no dot, no query and not empty (`OneSegment`);
such a path passes through `new URL()` and `TrimSlashes` unchanged (`PlainPathStays`,
`NothingToTrim`), so it fits the template it was built from (`BuildsItsRoute`). The
recursion in `Resolved` and `FlattenSeq` is followed with `Upwards`, an induction over the
numbers up to n for a set in place of a predicate; it comes from the library's theorem
that strict inclusion orders finite sets well (`LeastNumber`). The second half is about
the rows: `Apart` says that two templates differ in a literal segment or in length, and
five lemmas say which rows are apart from which (`WriteRoutesApart`, `ReadRoutesApart`,
`SwitchRoutesApart`, `UnkeyedRoutesApart`, `SecretRoutesApart`), each by all pairs of
rows. `RouteIsItsOwn` alone is not inductive, for it says nothing of the key and of the
shape of the path; `RequestInv` adds both: the method is the tool's, the path is plain and
fits its template, the last segment of the two deletions of a part is one part, the key is
there when both ask for it. The four properties follow for the URL sent, since
a path that fits two templates shows that they are not apart.

Where the API takes the path is the other half of `RoutesKept`. The rows below
`/registry/repositories` are four, besides `delete_registry_repository`
(`OnlyTheseBelowRepositories`); all other paths land as they were sent
(`NothingElseIsDecoded`). Two of the four read, and no write has their method
(`RepositoryReadersGet`, `WritersDoNotGet`). The other two delete a tag and a manifest:
their last argument is one part, so whatever the repository is called the API finds the
word `tags` or `manifests` just before the end, and every landing of the path fits the
template of that deletion only (`PartRouteShape`, `PartsLandAtHome`, `OnePartDeleter`).
That the last argument is one part is `SchemaAccepts`; the mutant `AnyTagAccepted` drops it
and TLC finds a tag that is taken for a manifest.

TLC checks the four with 19 texts; the theorems say them of every text, made of
however many parts, dots and queries. A row added to a catalogue that
collides with another, a forgotten `idempotent: true` or a missing `returnsSecret` makes
one of the lemmas about the rows fail.

`ToolResults_proofs` shows of each formatter what its blocks may hold (`Formatted`), of
`do` that it takes nothing for the API's answer but an envelope or an empty success
(`DoSaysYes`), and from both that every result of a read and of a write is `Honest`.
`ToldInv`, that a result is the one made from the tool and the answer at hand, is the
inductive part. `ErrorsTrue` needs the converse as well, that a formatter makes an error of
no answer that serves the call, which is a case for each shape of the data.

Two definitions are written for the provers. `Empty` stands for the segment `""`, since
the SMT translation takes no empty string, and `Row` builds a catalogue row whole where
`EXCEPT` on a row inside a row would not be simplified.

Only model-checked: `EveryCallIsAnswered`, `ServedCallsAreAnswered` and
`ClosedServersEnd`, since liveness is out of the prover's reach. The three violations are
counterexamples of TLC's.

## Not modelled

- The fields of the other tools' schemas (`smtp-write.ts`, `limits-write.ts`,
  `sandboxes-write.ts`, `proxies-write.ts` and the rest): each rule reads one call's
  arguments once and refuses before anything else happens, which is `valid = FALSE` in
  `WriteTool`. Only an order's rules are shared by two handlers.
- Request bodies and query strings: they pass through, field by field.
- `create_sandbox`'s removal of `env` from its answer (`sandboxes-write.ts:76`): one
  destructuring of one value, which a unit test covers.
- Descriptions, annotations, advertised JSON schemas and `ListTools`: text without
  behaviour.
- Repeating a call by the agent without a key: it is another operation, by design of the
  API (`client.ts:222`), and may run as one.
- Expiry of the API's records of keys, and what the API does with a request: external.
- TLS, stdio framing and the MCP SDK: third-party code.
