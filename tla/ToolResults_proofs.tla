-------------------------- MODULE ToolResults_proofs --------------------------
(***************************************************************************)
(* What a result says follows from what its formatter says, with the       *)
(* replay note in front: shown for every format, and for every answer that *)
(* the client can get.                                                     *)
(***************************************************************************)
EXTENDS ToolResults, SequenceTheorems, TLAPS

Says(blocks, block) == \E i \in DOMAIN blocks : blocks[i] = block

Yes(e) == e.body = "envelope" /\ e.ok

Parts == {"error", "blocks"}

\* What a formatter may say.
FormatterBlocks == {"data", "{}", "partial note", "secret warning", "kubeconfig", "no kubeconfig"}

-------------------------------------------------------------------------------
(* One block before or behind others. *)

LEMMA BlockInFront ==
  ASSUME NEW S, NEW blocks \in Seq(S), NEW note
  PROVE  /\ (<<note>> \o blocks)[1] = note
         /\ \A block : Says(<<note>> \o blocks, block) <=> block = note \/ Says(blocks, block)
<1> DEFINE n == Len(blocks)
           all == <<note>> \o blocks
<1>1. n \in Nat /\ DOMAIN blocks = 1..n
  BY LenProperties
<1>2. /\ DOMAIN all = 1..(n + 1)
      /\ all[1] = note
      /\ \A i \in 1..n : all[i + 1] = blocks[i]
  BY <1>1
<1> HIDE DEF all, n
<1>3. ASSUME NEW block, Says(all, block) PROVE block = note \/ Says(blocks, block)
  <2>1. PICK i \in 1..(n + 1) : all[i] = block
    BY <1>2, <1>3 DEF Says
  <2>2. CASE i = 1
    BY <1>2, <2>1, <2>2
  <2>3. CASE i # 1
    <3>1. i - 1 \in 1..n /\ all[(i - 1) + 1] = all[i]
      BY <1>1, <2>3
    <3> QED  BY <1>1, <1>2, <2>1, <3>1 DEF Says
  <2> QED  BY <2>2, <2>3
<1>4. ASSUME NEW block, Says(blocks, block) PROVE Says(all, block)
  <2>1. PICK i \in 1..n : blocks[i] = block
    BY <1>1, <1>4 DEF Says
  <2>2. i + 1 \in 1..(n + 1)
    BY <1>1
  <2> QED  BY <1>2, <2>1, <2>2 DEF Says
<1>5. Says(all, note)
  <2>1. 1 \in 1..(n + 1)
    BY <1>1
  <2> QED  BY <1>2, <2>1 DEF Says
<1> QED  BY <1>2, <1>3, <1>4, <1>5 DEF all

LEMMA OneBlock ==
  ASSUME NEW S, NEW only \in S
  PROVE  /\ <<only>> \in Seq(S)
         /\ \A block : Says(<<only>>, block) <=> block = only
BY DEF Says

LEMMA OneBlockSays ==
  ASSUME NEW only
  PROVE  \A block : Says(<<only>>, block) <=> block = only
BY DEF Says

\* A formatter keeps to its blocks.
LEMMA UnsaidBlocks ==
  ASSUME NEW S, NEW blocks \in Seq(S), NEW block, block \notin S
  PROVE  ~Says(blocks, block)
BY LenProperties, ElementOfSeq DEF Says

LEMMA TwoBlocks ==
  ASSUME NEW S, NEW first \in S, NEW second \in S
  PROVE  /\ <<first>> \o <<second>> \in Seq(S)
         /\ (<<first>> \o <<second>>)[1] = first
         /\ \A block : Says(<<first>> \o <<second>>, block) <=> block = first \/ block = second
<1>1. <<first>> \in Seq(S) /\ <<second>> \in Seq(S)
  BY OneBlock
<1>2. <<first>> \o <<second>> \in Seq(S)
  BY <1>1, ConcatProperties
<1>3. /\ (<<first>> \o <<second>>)[1] = first
      /\ \A block : Says(<<first>> \o <<second>>, block)
                     <=> block = first \/ Says(<<second>>, block)
  BY <1>1, BlockInFront
<1>4. \A block : Says(<<second>>, block) <=> block = second
  BY OneBlock
<1> QED  BY <1>2, <1>3, <1>4

-------------------------------------------------------------------------------
(* What a formatter says of a good answer. *)

LEMMA ExchangeType ==
  ASSUME NEW e \in Exchanges
  PROVE  /\ e.body \in Bodies
         /\ e.ok \in BOOLEAN /\ e.replayed \in BOOLEAN /\ e.partial \in BOOLEAN
         /\ e.data = "kubeconfig" => Yes(e)
<1>1. e \in [status: Statuses \cup {404}, body: Bodies, ok: BOOLEAN, code: EnvelopeCodes,
             replayed: BOOLEAN, retryAfter: {NoRetryAfter}, secrets: Secrets, run: {0},
             partial: BOOLEAN, data: Shapes]
  BY Zenon DEF Exchanges
<1>2. e.data # "none" => e.body = "envelope" /\ e.ok
  BY Zenon DEF Exchanges
<1> QED  BY <1>1, <1>2 DEF Yes

\* do() takes a body for the API's answer only if it is an envelope, or empty.
LEMMA DoSaysYes ==
  ASSUME NEW e \in Exchanges
  PROVE  /\ Do(e).ok => Yes(e) \/ (IsSuccessStatus(e) /\ e.body = "empty")
         /\ Yes(e) \/ (IsSuccessStatus(e) /\ e.body = "empty") => Do(e).ok
         /\ Do(e).replayed <=> Yes(e) /\ e.replayed
<1>1. e.body \in {"dropped", "empty", "text", "null", "envelope"} /\ e.ok \in BOOLEAN
  BY ExchangeType DEF Bodies
<1>2. CASE e.body = "dropped"
  BY <1>2 DEF Do, Yes, Failed
<1>3. CASE e.body = "empty"
  BY <1>3 DEF Do, EmptyAnswer, Yes, Failed, Succeeded
<1>4. CASE e.body = "text"
  BY <1>4 DEF Do, Yes, InvalidResponse, Failed
<1>5. CASE e.body = "null"
  BY <1>5 DEF Do, Yes, Failed
<1>6. CASE e.body = "envelope"
  <2>1. CASE e.ok
    BY <1>6, <2>1 DEF Do, Yes, Succeeded
  <2>2. CASE ~e.ok
    BY <1>6, <2>2 DEF Do, Yes, Failed
  <2> QED  BY <2>1, <2>2
<1> QED  BY <1>1, <1>2, <1>3, <1>4, <1>5, <1>6

\* The parts of a formatted result, and what is in its blocks.
Formatted(format, e, result) ==
  /\ DOMAIN result = Parts
  /\ result.blocks \in Seq(FormatterBlocks)
  /\ Says(result.blocks, "partial note") <=> format = "list_services" /\ Yes(e) /\ e.partial
  /\ Says(result.blocks, "partial note") => result.blocks[1] = "partial note"
  /\ Says(result.blocks, "data") \/ Says(result.blocks, "kubeconfig") => Yes(e)
  /\ Says(result.blocks, "{}") =>
       (IsSuccessStatus(e) /\ e.body = "empty") \/ (Yes(e) /\ e.data = "none")
  /\ result.error <=> format = "kubeconfig" /\ e.data # "kubeconfig"

LEMMA DataTold ==
  ASSUME NEW e \in Exchanges, Do(e).ok
  PROVE  /\ Data(e) \in {"data", "{}"}
         /\ Data(e) = "data" => Yes(e)
         /\ Data(e) = "{}" =>
              (IsSuccessStatus(e) /\ e.body = "empty") \/ (Yes(e) /\ e.data = "none")
BY DoSaysYes DEF Data, Yes

LEMMA JsonFormatted ==
  ASSUME NEW e \in Exchanges, Do(e).ok
  PROVE  /\ Formatted("json", e, JsonResult(e))
         /\ JsonResult(e).blocks = <<Data(e)>>
<1> DEFINE blocks == <<Data(e)>>
<1>1. JsonResult(e).blocks = blocks /\ DOMAIN JsonResult(e) = Parts /\ ~JsonResult(e).error
  BY DEF JsonResult, Parts
<1>2. blocks \in Seq(FormatterBlocks) /\ \A block : Says(blocks, block) <=> block = Data(e)
  BY DataTold, OneBlock DEF FormatterBlocks
<1> HIDE DEF blocks
<1> QED  BY <1>1, <1>2, DataTold DEF Formatted, blocks

LEMMA ListFormatted ==
  ASSUME NEW e \in Exchanges, Do(e).ok
  PROVE  Formatted("list_services", e, ListResult(e))
<1>1. CASE e.body = "envelope" /\ e.partial
  <2> DEFINE blocks == <<"partial note">> \o <<Data(e)>>
  <2>1. ListResult(e).blocks = blocks /\ ~ListResult(e).error
    BY <1>1 DEF ListResult, JsonResult
  <2>2. DOMAIN ListResult(e) = Parts
    BY <1>1 DEF ListResult, JsonResult, Parts
  <2>3. Data(e) \in FormatterBlocks /\ "partial note" \in FormatterBlocks
    BY DataTold DEF FormatterBlocks
  <2>4. /\ blocks \in Seq(FormatterBlocks)
        /\ blocks[1] = "partial note"
        /\ \A block : Says(blocks, block) <=> block = "partial note" \/ block = Data(e)
    BY <2>3, TwoBlocks
  <2>5. Yes(e)
    BY <1>1, DoSaysYes
  <2> HIDE DEF blocks
  <2> QED  BY <1>1, <2>1, <2>2, <2>4, <2>5, DataTold DEF Formatted
<1>2. CASE ~(e.body = "envelope" /\ e.partial)
  <2>1. ListResult(e) = JsonResult(e)
    BY <1>2 DEF ListResult
  <2>2. Formatted("json", e, ListResult(e))
    BY <2>1, JsonFormatted
  <2> QED  BY <1>2, <2>2 DEF Formatted, Yes
<1> QED  BY <1>1, <1>2

LEMMA KubeconfigFormatted ==
  ASSUME NEW e \in Exchanges, Do(e).ok
  PROVE  Formatted("kubeconfig", e, KubeconfigResult(e))
<1> DEFINE result == KubeconfigResult(e)
<1>1. DOMAIN result = Parts
  BY DEF KubeconfigResult, KubeconfigText, ErrorResult, Parts
<1>2. CASE e.data = "kubeconfig"
  <2>1. Yes(e)
    BY <1>2, ExchangeType
  <2>2. result.blocks = <<"kubeconfig">> /\ ~result.error
    BY <1>2, <2>1 DEF KubeconfigResult, KubeconfigText, Yes
  <2>3. /\ <<"kubeconfig">> \in Seq(FormatterBlocks)
        /\ \A block : Says(<<"kubeconfig">>, block) <=> block = "kubeconfig"
    BY OneBlock DEF FormatterBlocks
  <2> HIDE DEF result
  <2>4. Formatted("kubeconfig", e, result)
    BY <1>1, <1>2, <2>1, <2>2, <2>3 DEF Formatted
  <2> QED  BY <2>4 DEF result
<1>3. CASE e.data # "kubeconfig"
  <2>1. result.blocks = <<"no kubeconfig">> /\ result.error
    BY <1>3 DEF KubeconfigResult, ErrorResult
  <2>2. /\ <<"no kubeconfig">> \in Seq(FormatterBlocks)
        /\ \A block : Says(<<"no kubeconfig">>, block) <=> block = "no kubeconfig"
    BY OneBlock DEF FormatterBlocks
  <2> HIDE DEF result
  <2>3. Formatted("kubeconfig", e, result)
    BY <1>1, <1>3, <2>1, <2>2 DEF Formatted
  <2> QED  BY <2>3 DEF result
<1> QED  BY <1>2, <1>3

LEMMA SecretWarningFormatted ==
  ASSUME NEW e \in Exchanges, Do(e).ok
  PROVE  Formatted("secret_warning", e, WithSecretWarning(e))
<1> DEFINE blocks == <<Data(e)>> \o <<"secret warning">>
<1>1. WithSecretWarning(e).blocks = blocks /\ ~WithSecretWarning(e).error
  BY DEF WithSecretWarning, JsonResult
<1>2. DOMAIN WithSecretWarning(e) = Parts
  BY DEF WithSecretWarning, JsonResult, Parts
<1>3. Data(e) \in FormatterBlocks /\ "secret warning" \in FormatterBlocks
  BY DataTold DEF FormatterBlocks
<1>4. /\ blocks \in Seq(FormatterBlocks)
      /\ \A block : Says(blocks, block) <=> block = Data(e) \/ block = "secret warning"
  BY <1>3, TwoBlocks
<1> HIDE DEF blocks
<1> QED  BY <1>1, <1>2, <1>4, DataTold DEF Formatted

LEMMA FormatFormatted ==
  ASSUME NEW e \in Exchanges, Do(e).ok, NEW format \in Formats \ {"logs"}
  PROVE  Formatted(format, e, Format(format, e))
<1>1. CASE format = "json"
  BY <1>1, JsonFormatted DEF Format
<1>2. CASE format = "list_services"
  BY <1>2, ListFormatted DEF Format
<1>3. CASE format = "kubeconfig"
  BY <1>3, KubeconfigFormatted DEF Format
<1>4. CASE format = "secret_warning"
  BY <1>4, SecretWarningFormatted DEF Format
<1> QED  BY <1>1, <1>2, <1>3, <1>4 DEF Formats

-------------------------------------------------------------------------------
(* What a tool tells. *)

ReadResult(tool, e) ==
  IF tool.format = "logs" THEN LogsResult(e)
  ELSE IF Do(e).ok THEN Format(tool.format, e)
  ELSE ErrorResult("error")

WriteResult(tool, e) ==
  IF Do(e).ok THEN WithReplayNote(tool, e, Format(tool.format, e)) ELSE ErrorResult("error")

\* The inductive invariant: what was told is the result of the tool and the answer at hand.
ToldInv ==
  told # None =>
    /\ told.answer \in Exchanges
    /\ \/ told.tool \in ReadersOf /\ told.result = ReadResult(told.tool, told.answer)
       \/ told.tool \in WritersOf /\ told.result = WriteResult(told.tool, told.answer)

LEMMA ToldInvHolds == Spec => []ToldInv
<1>1. Init => ToldInv
  BY DEF Init, ToldInv
<1>2. ASSUME ToldInv, [Next]_told PROVE ToldInv'
  <2>1. ASSUME NEW e \in Exchanges, NEW tool \in ReadersOf, TellRead(tool, e) PROVE ToldInv'
    BY <2>1 DEF TellRead, ToldInv, ReadResult
  <2>2. ASSUME NEW e \in Exchanges, NEW tool \in WritersOf, TellWrite(tool, e) PROVE ToldInv'
    BY <2>2 DEF TellWrite, ToldInv, WriteResult
  <2>3. CASE Forget
    BY <2>3 DEF Forget, ToldInv
  <2>4. CASE UNCHANGED told
    BY <1>2, <2>4 DEF ToldInv
  <2> QED  BY <1>2, <2>1, <2>2, <2>3, <2>4 DEF Next
<1> QED  BY <1>1, <1>2, PTL DEF Spec

LEMMA ReadersAreUnkeyed ==
  ASSUME NEW tool \in ReadersOf
  PROVE  tool.format \in Formats /\ ~tool.keyed
BY DEF ReadersOf, Formats

LEMMA WritersFormat ==
  ASSUME NEW tool \in WritersOf
  PROVE  tool.format \in Formats \ {"logs", "list_services"} /\ tool.keyed \in BOOLEAN
BY DEF WritersOf, Formats

\* The answer has what a tool of this format was called for.
Good(format, e) ==
  IF format = "logs" THEN IsSuccessStatus(e) /\ e.body # "dropped"
  ELSE IF format = "kubeconfig" THEN Yes(e) /\ e.data = "kubeconfig"
  ELSE Yes(e) \/ (IsSuccessStatus(e) /\ e.body = "empty")

\* Of a result: which notes it holds and where, what the rest of it may rest on, and
\* whether it is an error.
Honest(tool, e, result) ==
  /\ Says(result.blocks, "replay note") <=> tool.keyed /\ Yes(e) /\ e.replayed
  /\ Says(result.blocks, "replay note") => result.blocks[1] = "replay note"
  /\ Says(result.blocks, "partial note") <=>
       tool.format = "list_services" /\ Yes(e) /\ e.partial
  /\ Says(result.blocks, "partial note") => result.blocks[1] = "partial note"
  /\ Says(result.blocks, "data") \/ Says(result.blocks, "kubeconfig") => Yes(e)
  /\ Says(result.blocks, "{}") =>
       (IsSuccessStatus(e) /\ e.body = "empty") \/ (Yes(e) /\ e.data = "none")
  /\ Says(result.blocks, "no log lines yet") => IsSuccessStatus(e) /\ e.body = "empty"
  /\ Says(result.blocks, "text") => IsSuccessStatus(e)
  /\ Says(result.blocks, "logs are gone") => e.status = 404
  /\ result.error <=> ~Good(tool.format, e)

\* An error says nothing but itself.
LEMMA ErrorsAreHonest ==
  ASSUME NEW e \in Exchanges, NEW tool, tool.format # "logs", ~Do(e).ok
  PROVE  Honest(tool, e, ErrorResult("error"))
<1>1. ErrorResult("error").error
  BY DEF ErrorResult
<1>2. \A block : Says(ErrorResult("error").blocks, block) <=> block = "error"
  BY OneBlock DEF ErrorResult
<1>3. ~Yes(e) /\ ~Good(tool.format, e)
  BY DoSaysYes DEF Good
<1> QED  BY <1>1, <1>2, <1>3 DEF Honest

\* A page of logs, or what the agent is told in its place.
LEMMA LogsAreHonest ==
  ASSUME NEW e \in Exchanges, NEW tool, tool.format = "logs", ~tool.keyed
  PROVE  Honest(tool, e, LogsResult(e))
<1> DEFINE Told(only) ==
      /\ LogsResult(e).blocks = <<only>>
      /\ only = "logs are gone" => e.status = 404
      /\ only = "no log lines yet" => IsSuccessStatus(e) /\ e.body = "empty"
      /\ only = "text" => IsSuccessStatus(e)
      /\ only \in {"error", "not available yet", "logs are gone", "no log lines yet", "text"}
      /\ LogsResult(e).error <=> ~Good("logs", e)
<1>1. \E only : Told(only)
  <2>1. CASE e.body = "dropped"
    <3>1. Told("error")
      BY <2>1 DEF LogsResult, ErrorResult, Good
    <3> QED  BY <3>1
  <2>2. CASE e.body # "dropped" /\ e.status = 503
    <3>1. LogsResult(e) = ErrorResult("not available yet")
      BY <2>2 DEF LogsResult
    <3>2. /\ ErrorResult("not available yet").blocks = <<"not available yet">>
          /\ ErrorResult("not available yet").error
      BY DEF ErrorResult
    <3>3. ~Good("logs", e)
      BY <2>2 DEF Good, IsSuccessStatus
    <3>4. Told("not available yet")
      BY <2>2, <3>1, <3>2, <3>3
    <3> QED  BY <3>4
  <2>3. CASE e.body # "dropped" /\ e.status = 404
    <3>1. LogsResult(e) = ErrorResult("logs are gone")
      BY <2>3 DEF LogsResult
    <3>2. /\ ErrorResult("logs are gone").blocks = <<"logs are gone">>
          /\ ErrorResult("logs are gone").error
      BY DEF ErrorResult
    <3>3. ~Good("logs", e)
      BY <2>3 DEF Good, IsSuccessStatus
    <3>4. Told("logs are gone")
      BY <2>3, <3>1, <3>2, <3>3
    <3> QED  BY <3>4
  <2>4. CASE e.body # "dropped" /\ e.status \notin {503, 404} /\ ~IsSuccessStatus(e)
    <3>1. Told("error")
      BY <2>4 DEF LogsResult, ErrorResult, Good
    <3> QED  BY <3>1
  <2>5. CASE e.body # "dropped" /\ e.status \notin {503, 404} /\ IsSuccessStatus(e)
    <3>1. CASE e.body = "empty"
      <4>1. Told("no log lines yet")
        BY <2>5, <3>1 DEF LogsResult, Good
      <4> QED  BY <4>1
    <3>2. CASE e.body # "empty"
      <4>1. Told("text")
        BY <2>5, <3>2 DEF LogsResult, Good
      <4> QED  BY <4>1
    <3> QED  BY <3>1, <3>2
  <2> QED  BY <2>1, <2>2, <2>3, <2>4, <2>5
<1>2. PICK only : Told(only)
  BY <1>1
<1>3. \A block : Says(LogsResult(e).blocks, block) <=> block = only
  <2>1. LogsResult(e).blocks = <<only>>
    BY <1>2
  <2>2. \A block : Says(<<only>>, block) <=> block = only
    BY OneBlockSays
  <2> QED  BY <2>1, <2>2
<1>4. only \notin {"replay note", "partial note", "data", "kubeconfig", "{}"}
  BY <1>2
<1> QED  BY <1>2, <1>3, <1>4 DEF Honest

LEMMA FormatterUnsaid ==
  ASSUME NEW blocks \in Seq(FormatterBlocks)
  PROVE  /\ ~Says(blocks, "replay note")
         /\ ~Says(blocks, "text")
         /\ ~Says(blocks, "no log lines yet")
         /\ ~Says(blocks, "logs are gone")
<1>1. {"replay note", "text", "no log lines yet", "logs are gone"} \cap FormatterBlocks = {}
  BY DEF FormatterBlocks
<1> QED  BY <1>1, UnsaidBlocks

LEMMA ReadsAreHonest ==
  ASSUME NEW e \in Exchanges, NEW tool \in ReadersOf
  PROVE  Honest(tool, e, ReadResult(tool, e))
<1>1. tool.format \in Formats /\ ~tool.keyed
  BY ReadersAreUnkeyed
<1>2. CASE tool.format = "logs"
  BY <1>1, <1>2, LogsAreHonest DEF ReadResult
<1>3. CASE tool.format # "logs" /\ Do(e).ok
  <2> DEFINE result == Format(tool.format, e)
  <2>1. Formatted(tool.format, e, result)
    BY <1>1, <1>3, FormatFormatted
  <2> HIDE DEF result
  <2>2. /\ ~Says(result.blocks, "replay note")
        /\ ~Says(result.blocks, "text")
        /\ ~Says(result.blocks, "no log lines yet")
        /\ ~Says(result.blocks, "logs are gone")
    BY <2>1, FormatterUnsaid DEF Formatted
  <2>3. Honest(tool, e, result)
    <3>1. result.error <=> ~Good(tool.format, e)
      BY <1>3, <2>1, DoSaysYes, ExchangeType DEF Formatted, Good
    <3> QED  BY <1>1, <2>1, <2>2, <3>1, Zenon DEF Honest, Formatted
  <2> QED  BY <1>3, <2>3 DEF ReadResult, result
<1>4. CASE tool.format # "logs" /\ ~Do(e).ok
  BY <1>4, ErrorsAreHonest DEF ReadResult
<1> QED  BY <1>2, <1>3, <1>4

LEMMA WritesAreHonest ==
  ASSUME NEW e \in Exchanges, NEW tool \in WritersOf
  PROVE  Honest(tool, e, WriteResult(tool, e))
<1>1. tool.format \in Formats \ {"logs", "list_services"} /\ tool.keyed \in BOOLEAN
  BY WritersFormat
<1>2. CASE Do(e).ok
  <2> DEFINE formatted == Format(tool.format, e)
             result == WithReplayNote(tool, e, formatted)
  <2>1. Formatted(tool.format, e, formatted)
    BY <1>1, <1>2, FormatFormatted
  <2>2. Do(e).replayed <=> Yes(e) /\ e.replayed
    BY DoSaysYes
  <2> HIDE DEF formatted
  <2>3. formatted.error <=> ~Good(tool.format, e)
    BY <1>1, <1>2, <2>1, DoSaysYes, ExchangeType DEF Formatted, Good
  <2>4. /\ ~Says(formatted.blocks, "replay note")
        /\ ~Says(formatted.blocks, "text")
        /\ ~Says(formatted.blocks, "no log lines yet")
        /\ ~Says(formatted.blocks, "logs are gone")
    BY <2>1, FormatterUnsaid DEF Formatted
  <2>5. CASE tool.keyed /\ Do(e).replayed
    <3>1. /\ result.blocks = <<"replay note">> \o formatted.blocks
          /\ result.error = formatted.error
      BY <2>1, <2>5 DEF WithReplayNote, Formatted, Parts
    <3> HIDE DEF result
    <3>2. /\ result.blocks[1] = "replay note"
          /\ \A block : Says(result.blocks, block)
                         <=> block = "replay note" \/ Says(formatted.blocks, block)
      <4>1. formatted.blocks \in Seq(FormatterBlocks)
        BY <2>1 DEF Formatted
      <4> DEFINE all == <<"replay note">> \o formatted.blocks
      <4>2. /\ all[1] = "replay note"
            /\ \A block : Says(all, block)
                           <=> block = "replay note" \/ Says(formatted.blocks, block)
        BY <4>1, BlockInFront
      <4>3. result.blocks = all
        BY <3>1
      <4> HIDE DEF all
      <4> QED  BY <4>2, <4>3
    <3>3. Honest(tool, e, result)
      BY <1>1, <2>1, <2>2, <2>4, <2>5, <2>3, <3>1, <3>2 DEF Honest, Formatted
    <3> QED  BY <1>2, <3>3 DEF WriteResult, result, formatted
  <2>6. CASE ~(tool.keyed /\ Do(e).replayed)
    <3>1. Honest(tool, e, formatted)
      BY <1>2, <2>1, <2>2, <2>4, <2>6, <2>3, Zenon DEF Honest, Formatted
    <3> QED  BY <1>2, <2>6, <3>1 DEF WriteResult, WithReplayNote, formatted
  <2> QED  BY <2>5, <2>6
<1>3. CASE ~Do(e).ok
  BY <1>1, <1>3, ErrorsAreHonest DEF WriteResult
<1> QED  BY <1>2, <1>3

LEMMA ToldHonestly ==
  ASSUME ToldInv, told # None
  PROVE  Honest(told.tool, told.answer, told.result)
BY ReadsAreHonest, WritesAreHonest DEF ToldInv

-------------------------------------------------------------------------------
(* What holds of every result. *)

\* A note that a result owes its reader is there, and nothing comes before it
\* (withReplayNote, list_services).
THEOREM NotesFirst == Spec => []NotesComeFirst
<1>1. ToldInv => NotesComeFirst
  BY ToldHonestly DEF NotesComeFirst, Honest, Tells, Blocks, ApiSaysYes, Says, Yes
<1> QED  BY <1>1, ToldInvHolds, PTL

\* Data, "no output yet" and "logs are gone" are told only of answers that say so
\* (RareCloudClient.do, get_sandbox_logs).
THEOREM NewsIsTrue == Spec => []NoFalseNews
<1>1. ToldInv => NoFalseNews
  BY ToldHonestly DEF NoFalseNews, Honest, Tells, Blocks, ApiSaysYes, NothingToReport, Says, Yes
<1> QED  BY <1>1, ToldInvHolds, PTL

\* A result is an error exactly when the answer lacks what the call was made for: no 2xx
\* without a body is told as a failure, no empty or odd kubeconfig as a success
\* (RareCloudClient.do, kubeconfigYaml, getText).
THEOREM ErrorsTrue == Spec => []ErrorsAreFailures
<1>1. ToldInv => ErrorsAreFailures
  BY ToldHonestly
  DEF ErrorsAreFailures, Honest, Good, Served, ApiSaysYes, NothingToReport, Yes
<1> QED  BY <1>1, ToldInvHolds, PTL

===============================================================================
