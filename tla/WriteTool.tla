------------------------------- MODULE WriteTool -------------------------------
(***************************************************************************)
(* The synchronous half of a write tool's handler (tools/factories.ts):    *)
(* everything between the agent's call and the first fetch().  It runs     *)
(* without an await, so it is one decision about the arguments.            *)
(***************************************************************************)

CONSTANTS
  Requests,   \* what a call asks for: "the exact same request" is equality here
  AgentKeys,  \* valid idempotency_key values the agent may pass
  NoKey,      \* no idempotency_key was passed
  BadKey      \* an idempotency_key that is not 1 to 255 printable ASCII characters

ASSUME KeysAreDistinct == NoKey \notin AgentKeys /\ BadKey \notin AgentKeys /\ NoKey # BadKey

\* What the factory needs to know of one tool: `idempotent` is the option of the
\* definition, `covered` is isIdempotentPostPath of the path it builds, `gated`
\* is safety.kind # "plain", `secret` is returnsSecret.
ToolClasses == [idempotent: BOOLEAN, covered: BOOLEAN, gated: BOOLEAN, secret: BOOLEAN]

\* The arguments of one call.  `valid` is the verdict of the tool's own zod schema
\* on the domain arguments; `path` says whether buildPath accepts every segment.
Arguments ==
  [tool: ToolClasses, request: Requests, key: AgentKeys \cup {NoKey, BadKey},
   confirm: BOOLEAN, valid: BOOLEAN, path: BOOLEAN]

\* The key is split off for an idempotent tool only: any other tool leaves it among
\* the domain arguments, where the strict schema rejects it as unknown.
DomainArgumentsParse(a) == a.valid /\ (a.key = NoKey \/ a.tool.idempotent)

KeyAccepted(a) == a.key # BadKey

\* Mutant: only a missing `confirm` is refused where a credential is at stake.
ConfirmGateForSecrets(a) == a.tool.gated /\ a.tool.secret => a.confirm

ConfirmGateOpen(a) == a.tool.gated => a.confirm

InputAccepted(a) == DomainArgumentsParse(a) /\ KeyAccepted(a)

\* The first failing step names the refusal; "NONE" lets the call through.
Refusal(a) ==
  IF ~InputAccepted(a) THEN "INVALID_INPUT"
  ELSE IF ~ConfirmGateOpen(a) THEN "NOT_CONFIRMED"
  ELSE IF ~a.path THEN "BAD_SEGMENT"
  ELSE "NONE"

\* Dispatch: only an idempotent tool on a covered route gets an Idempotency-Key.
Keyed(a) == a.tool.idempotent /\ a.tool.covered
===============================================================================
