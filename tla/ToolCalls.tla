------------------------------- MODULE ToolCalls -------------------------------
(***************************************************************************)
(* Which request a tool sends, for any value of its path arguments: the    *)
(* handlers of writeTool and of the read factories over both catalogues,   *)
(* encodeSegment, and the URL that the client builds from the path; and    *)
(* where the API takes that path, since it undoes the escaping in one      *)
(* place.                                                                  *)
(*                                                                         *)
(* An argument is any text.  It is given as the parts that slashes         *)
(* separate in it; "?" as a part stands for the start of a query string.   *)
(***************************************************************************)
EXTENDS ReadCatalog, WriteTool, SequencesExt

CONSTANTS
  Texts,   \* values of path arguments
  None     \* no call, no request

ASSUME TextsAreParts == Texts \subseteq Seq(STRING) \ {<<>>}

VARIABLE outcome   \* the tool of the call at hand, and the request it sent or None

-------------------------------------------------------------------------------

\* encodeSegment throws for these: pasted into a path they would climb or vanish.
TraversalTokens == {<<Empty>>, <<".">>, <<"..">>}

\* Mutant: the traversal tokens pass.
AnySegmentAccepted(text) == text # <<Empty>>

SegmentAccepted(text) == text \notin TraversalTokens

\* Mutant: the argument is pasted into the path as it is, each part a segment.
PastedAsItIs(text) == [i \in DOMAIN text |-> <<text[i]>>]

\* encodeURIComponent: the slashes are escaped, so the text is one segment, and a "?"
\* starts no query.
EncodeURIComponent(text) == <<IF text = <<"?">> THEN <<"%3F">> ELSE text>>

\* The number of path arguments up to segment i.
ArgumentsUpTo(path, i) == Cardinality({j \in 1..i : path[j] = Id})

Arity(tool) == ArgumentsUpTo(tool.path, Len(tool.path))

\* buildPath: the template with every argument encoded in its place.
BuildPath(tool, texts) ==
  FlattenSeq([i \in DOMAIN tool.path |->
    IF tool.path[i] = Id THEN EncodeURIComponent(texts[ArgumentsUpTo(tool.path, i)])
    ELSE << <<tool.path[i]>> >>])

\* One segment after another, as URL does it: "." stays, ".." climbs.
Climb(path, segment) ==
  IF segment = <<".">> THEN path
  ELSE IF segment = <<"..">> THEN SubSeq(path, 1, Len(path) - 1)
  ELSE Append(path, segment)

\* The path that new URL() sends: the query cut off, the dots resolved.
Resolved(path) ==
  LET queries == {i \in DOMAIN path : path[i] = <<"?">>}
      end == IF queries = {} THEN Len(path) ELSE Min(queries) - 1
      climbed[i \in 0..end] == IF i = 0 THEN <<>> ELSE Climb(climbed[i - 1], path[i])
  IN  climbed[end]

\* The handler's view of a call of this tool with these arguments.
CallOf(tool, texts, key, confirm, valid) ==
  [tool |-> [idempotent |-> tool.idempotent,
             covered |-> isIdempotentPostPath(BuildPath(tool, texts)),
             gated |-> tool.kind \in GatedKinds, secret |-> tool.secret],
   key |-> key, confirm |-> confirm, valid |-> valid,
   path |-> \A i \in DOMAIN texts : SegmentAccepted(texts[i])]

\* Mutant: the path alone decides about the key.
RequestKeyedByPath(tool, texts, call) ==
  [method |-> tool.method, path |-> Resolved(BuildPath(tool, texts)), keyed |-> call.tool.covered]

\* Dispatch: client.post with a key, or the plain method.
RequestOf(tool, texts, call) ==
  [method |-> tool.method, path |-> Resolved(BuildPath(tool, texts)), keyed |-> Keyed(call)]

\* Mutant: any text is a tag.
AnyTagAccepted(tool, texts) ==
  tool.name = "delete_registry_manifest" => Len(texts[Arity(tool)]) = 1

\* The schemas that keep a slash out of the last argument: TAG_RE and DIGEST_RE.
SchemaAccepts(tool, texts) ==
  tool.name \in {"delete_registry_tag", "delete_registry_manifest"} =>
    Len(texts[Arity(tool)]) = 1

HandleCall(tool, texts, key, confirm, valid) ==
  LET call == CallOf(tool, texts, key, confirm, valid)
  IN  /\ outcome = None
      /\ valid => SchemaAccepts(tool, texts)
      /\ outcome' =
           [tool |-> tool,
            request |-> IF Refusal(call) = "NONE" THEN RequestOf(tool, texts, call) ELSE None]

\* The reads whose handlers look at more than the path arguments.
CheckedReads ==
  {"check_order", "estimate_limits", "check_proxy", "read_sandbox_file", "get_sandbox_logs"}

\* A read asks as soon as its segments are good: no gate, no key, whatever else the
\* caller passes along.
HandleRead(tool, texts, valid) ==
  /\ outcome = None
  /\ valid \/ tool.name \in CheckedReads
  /\ outcome' =
       [tool |-> tool,
        request |->
          IF valid /\ \A i \in DOMAIN texts : SegmentAccepted(texts[i])
          THEN [method |-> tool.method, path |-> Resolved(BuildPath(tool, texts)), keyed |-> FALSE]
          ELSE None]

\* A call leaves nothing behind: the next one gets a client of its own.
FinishCall == outcome # None /\ outcome' = None

Init == outcome = None

Next ==
  \/ FinishCall
  \/ \E tool \in WriteTools, key \in AgentKeys \cup {NoKey, BadKey}, confirm, valid \in BOOLEAN :
       \E texts \in [1..Arity(tool) -> Texts] : HandleCall(tool, texts, key, confirm, valid)
  \/ \E tool \in ReadTools, valid \in BOOLEAN :
       \E texts \in [1..Arity(tool) -> Texts] : HandleRead(tool, texts, valid)

Spec == Init /\ [][Next]_outcome

-------------------------------------------------------------------------------

(* Where the API takes a path: as it is, but below /registry/repositories, where it *)
(* takes everything for a repository name, with its slashes back in place, unless  *)
(* the end of it names a part of a repository (tools/registry.ts).                 *)

\* The ends of a path that name a part of the repository before them.
SubResources == {<<"tags", Id>>, <<"tags", Id, "vulnerabilities">>, <<"manifests", Id>>}

EndsLike(name, sub) ==
  /\ Len(name) > Len(sub)
  /\ \A i \in DOMAIN sub : sub[i] \in {Id, name[Len(name) - Len(sub) + i]}

Repositories == << <<"registry">>, <<"repositories">> >>

\* The route of a part of a repository.
PartRoute(name, sub) ==
  Repositories \o <<SubSeq(name, 1, Len(name) - Len(sub))>>
    \o [i \in DOMAIN sub |-> <<name[Len(name) - Len(sub) + i]>>]

\* The routes that a path may be taken to.
Landings(path) ==
  IF Len(path) < 3 \/ SubSeq(path, 1, 2) # Repositories THEN {path}
  ELSE LET name == FlattenSeq(SubSeq(path, 3, Len(path)))
           subs == {sub \in SubResources : EndsLike(name, sub)}
       IN  IF subs = {} THEN {Repositories \o <<name>>}
           ELSE {PartRoute(name, sub) : sub \in subs}

-------------------------------------------------------------------------------

Sent == outcome # None /\ outcome.request # None

Request == outcome.request

\* No argument steers a call away from its tool's route, or to where another tool writes,
\* in the URL sent or after the API's decoding of it (factories.ts: a raw ".." "would let
\* a caller walk the API path"): a read that a client approves on its own changes
\* nothing, a write what the user approved.  One tool can be led astray, by a repository
\* that is named like a part of another; see NamesMayHoldSlashes.
RouteIsItsOwn ==
  Sent =>
    /\ Matches(outcome.tool.path, Request.path)
    /\ \A tool \in WriteTools, landing \in Landings(Request.path) :
         /\ tool.method = Request.method
         /\ Matches(tool.path, landing)
         /\ landing = Request.path \/ outcome.tool.name # "delete_registry_repository"
         => tool.path = outcome.tool.path

\* Said of the program, and not so: registry-write.ts of delete_registry_repository,
\* "repo may itself contain `/`", "Delete an entire repository": whatever slashes are in
\* the name, the call arrives as the deletion of a repository.
NamesMayHoldSlashes ==
  Sent /\ outcome.tool.name = "delete_registry_repository" =>
    \A landing \in Landings(Request.path) : Matches(outcome.tool.path, landing)

\* The switch that makes a resource read-only for agents is the user's: no call of any
\* tool, whatever its arguments, reaches it (README, "API access").
SwitchOutOfReach ==
  Sent => \A owner \in {"services", "domains"} :
            ~(Request.method = "PUT" /\ Matches(<<owner, Id, "api-access">>, Request.path))

\* A request carries an Idempotency-Key exactly when the API honours one there: "no
\* other POST ever carries the header", and no covered POST goes out without it.
KeyExactlyWhereHonoured ==
  Sent => (Request.keyed <=> Request.method = "POST" /\ isIdempotentPostPath(Request.path))

\* What a tool without the SECURITY sentence shows is no credential: no argument takes
\* it to a route that answers with one (README: "Credentials are marked").
CredentialsComeMarked ==
  Sent => \A tool \in ReadTools \cup WriteTools :
            tool.secret /\ tool.method = Request.method /\ Matches(tool.path, Request.path)
            => outcome.tool.secret
===============================================================================
