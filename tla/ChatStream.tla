------------------------------- MODULE ChatStream -------------------------------
(***************************************************************************)
(* One chat completion of one adapter, plain or streamed                   *)
(* (BaseChatCompletionModel in llmhub/app/models/chat_completion/model.py   *)
(* and AsyncStream in stream.py): the provider's lines are decoded, each   *)
(* datum is read by the adapter, chunks are yielded on the way, and at the *)
(* end of the lines a completion is made of all that was gathered.         *)
(***************************************************************************)
EXTENDS Replies

CONSTANTS
  MaxWords,  \* bound on the words of a text
  MaxCalls   \* bound on the calls of a reply

VARIABLES
  adapter,   \* whose methods read the reply
  streamed,  \* whether a stream was asked for
  reply,     \* what the provider has to say
  way,       \* how the provider's stream says it
  lines,     \* the lines of the stream that have not come yet
  so,        \* text, calls and reason of the stream so far, and whether it is empty
  chunks,    \* the chunks yielded
  final      \* the completion, or Failed; NULL until then

streamVars == <<adapter, streamed, reply, way, lines, so, chunks, final>>

CustomHost == {"custom_tools", "custom_function"}
Streaming == {"openai", "azure_openai", "yi", "moonshot", "minimax", "groq", "tongyi",
              "ollama", "localai", "lm_studio", "zhipu", "mistralai", "baichuan", "cohere",
              "togetherai", "llama_api", "wenxin", "google_gemini", "anthropic"} \cup CustomHost
Bedrock == {"amazon", "bedrock_ai21", "bedrock_anthropic", "bedrock_cohere", "meta"}
PlainOnly == {"ai21", "hugging_face", "hugging_face_endpoint"} \cup Bedrock
Untooled == {"groq", "tongyi", "baichuan", "cohere"} \cup PlainOnly
OneCall == {"llama_api", "custom_function", "wenxin"}

PlainReply(a, r) ==
  CASE a = "openai"          -> OpenaiReply(r)
    [] a = "azure_openai"    -> AzureOpenaiReply(r)
    [] a = "yi"              -> YiReply(r)
    [] a = "moonshot"        -> MoonshotReply(r)
    [] a = "minimax"         -> MinimaxReply(r)
    [] a = "groq"            -> GroqReply(r)
    [] a = "tongyi"          -> TongyiReply(r)
    [] a = "ollama"          -> OllamaReply(r)
    [] a = "localai"         -> LocalaiReply(r)
    [] a = "lm_studio"       -> LmStudioReply(r)
    [] a = "custom_tools"    -> CustomToolsReply(r)
    [] a = "custom_function" -> CustomFunctionReply(r)
    [] a = "zhipu"           -> ZhipuReply(r)
    [] a = "mistralai"       -> MistralReply(r)
    [] a = "baichuan"        -> BaichuanReply(r)
    [] a = "cohere"          -> CohereReply(r)
    [] a = "togetherai"      -> TogetheraiReply(r)
    [] a = "llama_api"       -> LlamaApiReply(r)
    [] a = "wenxin"          -> WenxinReply(r)
    [] a = "google_gemini"   -> GeminiReply(r)
    [] a = "anthropic"       -> AnthropicReply(r)
    [] a = "ai21"            -> Ai21Reply(r)
    [] a = "hugging_face"    -> HuggingFaceReply(r)
    [] a = "hugging_face_endpoint" -> HuggingFaceEndpointReply(r)
    [] a = "amazon"            -> BedrockReply(r, "amazon")
    [] a = "bedrock_ai21"      -> BedrockReply(r, "ai21")
    [] a = "bedrock_anthropic" -> BedrockReply(r, "anthropic")
    [] a = "bedrock_cohere"    -> BedrockReply(r, "cohere")
    [] a = "meta"              -> BedrockReply(r, "meta")

Reading(a, datum) ==
  CASE a = "openai"          -> OpenaiDatum(so, datum)
    [] a = "azure_openai"    -> AzureOpenaiDatum(so, datum)
    [] a = "yi"              -> YiDatum(so, datum)
    [] a = "moonshot"        -> MoonshotDatum(so, datum)
    [] a = "minimax"         -> MinimaxDatum(so, datum)
    [] a = "groq"            -> GroqDatum(so, datum)
    [] a = "tongyi"          -> TongyiDatum(so, datum)
    [] a = "ollama"          -> OllamaDatum(so, datum)
    [] a = "localai"         -> LocalaiDatum(so, datum)
    [] a = "lm_studio"       -> LmStudioDatum(so, datum)
    [] a = "custom_tools"    -> CustomToolsDatum(so, datum)
    [] a = "custom_function" -> CustomFunctionDatum(so, datum)
    [] a = "zhipu"           -> ZhipuDatum(so, datum)
    [] a = "mistralai"       -> MistralDatum(so, datum)
    [] a = "baichuan"        -> BaichuanDatum(so, datum)
    [] a = "cohere"          -> CohereDatum(so, datum)
    [] a = "togetherai"      -> TogetheraiDatum(so, datum)
    [] a = "llama_api"       -> LlamaApiDatum(so, datum)
    [] a = "wenxin"          -> WenxinDatum(so, datum)
    [] a = "google_gemini"   -> GeminiDatum(so, datum)
    [] a = "anthropic"       -> AnthropicDatum(so, datum)

-----------------------------------------------------------------------------
(***************************************************************************)
(* What a provider may reply: words, known by their places, the one at     *)
(* "marked" with "[DONE]" in it (0 for none), calls, and a reason.         *)
(* OneCall's APIs hold one call, Untooled adapters send no functions, and  *)
(* Anthropic's refuses functions in a stream.                              *)
(***************************************************************************)
NamesOf(a) ==
  CASE a \in {"openai", "azure_openai", "yi", "moonshot", "minimax", "groq", "tongyi", "baichuan"}
                             -> DOMAIN OpenaiReasons
    [] a = "custom_function" -> DOMAIN FunctionReasons \cup DOMAIN FunctionStreamReasons
    [] a = "zhipu"           -> DOMAIN ZhipuReasons
    [] a = "mistralai"       -> DOMAIN MistralReasons
    [] a \in {"cohere", "bedrock_cohere"} -> DOMAIN CohereReasons
    [] a = "togetherai"      -> DOMAIN TogetheraiReasons
    [] a = "llama_api"       -> DOMAIN LlamaApiReasons
    [] a = "wenxin"          -> DOMAIN WenxinReasons
    [] a = "google_gemini"   -> DOMAIN GeminiReasons
    [] a = "anthropic"       -> DOMAIN AnthropicReasons
    [] OTHER                 -> DOMAIN LocalReasons
ReasonsOf(a) == {"stop", "length", NULL} \cup NamesOf(a)
AllReasons == FinishReasons \cup UNION {NamesOf(a) : a \in Streaming \cup PlainOnly}

Words(n) == [i \in 1..n |-> i]
CallsOf(a, s) ==
  CASE a \in Untooled \/ (a = "anthropic" /\ s) -> 0
    [] a \in OneCall                            -> 1
    [] OTHER                                    -> MaxCalls

RepliesOf(a, s) ==
  {r \in [text : {Words(n) : n \in 0..MaxWords}, marked : 0..MaxWords,
          calls : BoundedSeq({"args", "noargs"}, CallsOf(a, s)), reason : ReasonsOf(a)] :
     r.marked <= Len(r.text)}

\* A line is a datum or, with NULL for it, one that is no JSON; marked means
\* that "[DONE]" is in it.
Line(datum, marked) == [datum |-> datum, marked |-> marked]
Datum(text, calls, reason) ==
  [choice |-> TRUE, text |-> text, calls |-> calls, reason |-> reason]
Usage == [Datum(<<>>, <<>>, NULL) EXCEPT !.choice = FALSE]

Arguments == Seq(Nat \X Nat)
CallData == [index : Nat, number : Nat, pieces : Arguments]
Data ==
  [choice : BOOLEAN, text : Seq(Nat), calls : Seq(CallData),
   reason : AllReasons \cup {NULL}]

ASSUME StreamAssumption ==
  /\ MaxWords \in Nat
  /\ MaxCalls \in Nat
  /\ NULL \notin AllReasons \cup {"raised"} \cup Data

Call(r, k, pieces) == [index |-> k - 1, number |-> k, pieces |-> pieces]
InOne(a) == a \in {"wenxin", "google_gemini"}

\* The lines of a reply: one datum for each word, one for each piece of a call
\* (or for each call) and one for the reason, or all but the reason in one.
TextLines(a, r) ==
  [i \in DOMAIN r.text |->
     IF a = "tongyi" THEN Line(Datum(Words(i), <<>>, NULL), r.marked \in 1..i)
     ELSE Line(Datum(<<i>>, <<>>, NULL), r.marked = i)]
LinesOfCall(a, r, k) ==
  IF InOne(a) THEN <<Line(Datum(<<>>, <<Call(r, k, Pieces(r, k))>>, NULL), FALSE)>>
  ELSE [n \in DOMAIN Pieces(r, k) |->
          Line(Datum(<<>>, <<Call(r, k, <<Pieces(r, k)[n]>>)>>, NULL), FALSE)]
CallLines(a, r) == FlattenSeq([k \in DOMAIN r.calls |-> LinesOfCall(a, r, k)])
Packed(r) ==
  <<Line(Datum(r.text, [k \in DOMAIN r.calls |-> Call(r, k, Pieces(r, k))], NULL),
         r.marked # 0)>>
ReasonLine(a, r) ==
  IF r.reason = NULL THEN <<>>
  ELSE <<Line(Datum(IF a = "tongyi" THEN r.text ELSE <<>>, <<>>, r.reason),
              a = "tongyi" /\ r.marked # 0)>>

Ways == [packed : BOOLEAN, usage : {"none", "front", "end"}]

LinesOf(a, r, w) ==
  LET said == IF w.packed THEN Packed(r) ELSE TextLines(a, r) \o CallLines(a, r)
      front == <<Line(NULL, FALSE), Line(Usage, FALSE)>>
      done == <<Line(NULL, TRUE)>>
  IN  (IF w.usage = "front" THEN front ELSE <<>>) \o said \o ReasonLine(a, r)
        \o (IF w.usage = "end" THEN <<Line(Usage, FALSE)>> ELSE <<>>) \o done

-----------------------------------------------------------------------------
StreamInit ==
  /\ adapter \in Streaming \cup PlainOnly
  /\ streamed \in IF adapter \in PlainOnly THEN {FALSE} ELSE BOOLEAN
  /\ reply \in RepliesOf(adapter, streamed)
  /\ way \in IF streamed THEN Ways ELSE {[packed |-> TRUE, usage |-> "none"]}
  /\ lines = IF streamed THEN LinesOf(adapter, reply, way) ELSE <<>>
  /\ so = [text |-> <<>>, calls |-> NoCalls, reason |-> "unknown", empty |-> TRUE]
  /\ chunks = <<>>
  /\ final = NULL

\* prepare_response: calls win over text, and there must be either.
Prepared(text, calls, built, reason) ==
  CASE calls # <<>> /\ built  -> Read(<<>>, calls, "function_calls")
    [] calls = <<>> /\ text # <<>> /\ reason # NULL -> Read(text, <<>>, reason)
    [] OTHER -> Failed

\* chat_completion: the reply as a whole.
Plain(a, r) ==
  LET read == PlainReply(a, r)
  IN  IF read.raised THEN Failed ELSE Prepared(read.text, read.calls, TRUE, read.reason)

CompletePlain ==
  /\ ~streamed /\ final = NULL
  /\ final' = Plain(adapter, reply)
  /\ UNCHANGED <<adapter, streamed, reply, way, lines, so, chunks>>

\* handle_response raises on any status but 200.
Refusal == [Failed EXCEPT !.reason = "refused"]
Refuse ==
  /\ final = NULL /\ chunks = <<>> /\ so.empty
  /\ final' = Refusal
  /\ UNCHANGED <<adapter, streamed, reply, way, lines, so, chunks>>

\* The completion of a stream: every call gathered must be built.
AtEnd ==
  LET built == \A i \in DOMAIN so.calls.numbers :
                 IF adapter = "google_gemini" THEN Dictionary(reply, so.calls.numbers[i])
                 ELSE Parses(reply, so.calls.pieces[i])
  IN  IF so.empty /\ adapter \notin CustomHost THEN Failed
      ELSE Prepared(so.text, so.calls.numbers, built, so.reason)

Streams == streamed /\ final = NULL /\ lines # <<>>

\* A line that is no JSON is skipped.
Skip ==
  /\ Streams /\ Head(lines).datum = NULL /\ ~Head(lines).marked
  /\ lines' = Tail(lines)
  /\ UNCHANGED <<adapter, streamed, reply, way, so, chunks, final>>

\* The body of the loop over the data.  The custom host's takes the reason of
\* the last datum, the others that of the last datum that has one.
Take ==
  LET datum == Head(lines).datum
      read  == Reading(adapter, datum)
  IN  /\ Streams /\ ~Head(lines).marked /\ datum # NULL
      /\ lines' = IF read.raised THEN <<>> ELSE Tail(lines)
      /\ IF read.over \/ read.raised
         THEN /\ final' = IF read.raised THEN Failed ELSE NULL
              /\ UNCHANGED <<so, chunks>>
         ELSE /\ so' = [text |-> so.text \o read.text, calls |-> read.calls, empty |-> FALSE,
                        reason |-> IF read.reason = NULL /\ adapter \notin CustomHost
                                   THEN so.reason ELSE read.reason]
              /\ chunks' = IF read.chunk
                           THEN Append(chunks, [index |-> Len(chunks), delta |-> read.text])
                           ELSE chunks
              /\ UNCHANGED final
      /\ UNCHANGED <<adapter, streamed, reply, way>>

\* stream_check_error: a datum that is an error comes instead of the next line.
StreamError ==
  /\ Streams
  /\ final' = Failed
  /\ UNCHANGED <<adapter, streamed, reply, way, lines, so, chunks>>

\* A line with "[DONE]" in it ends the stream, whatever else is in it; what
\* comes after it is thrown away.
ReachDone ==
  /\ Streams /\ Head(lines).marked
  /\ final' = AtEnd
  /\ lines' = IF Len(lines) = 1 THEN <<>> ELSE lines
  /\ UNCHANGED <<adapter, streamed, reply, way, so, chunks>>

\* The connection ends before the lines do.
Close ==
  /\ Streams
  /\ final' = AtEnd
  /\ UNCHANGED <<adapter, streamed, reply, way, lines, so, chunks>>

StreamNext ==
  CompletePlain \/ Refuse \/ Skip \/ Take \/ StreamError \/ ReachDone \/ Close

StreamSpec == StreamInit /\ [][StreamNext]_streamVars

-----------------------------------------------------------------------------
Completed == final # NULL /\ ~final.raised

\* Chunks are numbered from 0, and those yielded so far make up the text that
\* the completion will have, which begins as the reply does.
ChunksMakeTheText ==
  /\ \A i \in DOMAIN chunks : chunks[i].index = i - 1
  /\ FlattenSeq([i \in DOMAIN chunks |-> chunks[i].delta]) = so.text
  /\ IsPrefix(so.text, reply.text)
  /\ streamed /\ Completed /\ final.calls = <<>> => final.text = so.text

(***************************************************************************)
(* Whether or not the stream was cut: a text that is said to have finished *)
(* is the whole text, and calls are the reply's own, from the first one    *)
(* on, each with its own arguments and all of them.                        *)
(***************************************************************************)
FinishedIsWhole ==
  Completed =>
    /\ final.calls = <<>> /\ final.reason # "unknown" => final.text = reply.text
    /\ IsPrefix(final.calls, Numbers(reply))
    /\ streamed => \A i \in DOMAIN final.calls : so.calls.pieces[i] = Pieces(reply, i)

(***************************************************************************)
(* Where a stream and a plain reply part: of several calls in a datum one  *)
(* is read; Minimax's calls are mixed; Gemini's second call fails, and its *)
(* calls after a text are read in a stream only, as are Llama API's calls  *)
(* without arguments; Together's reasons differ, and so does the word the  *)
(* custom host with one call translates; the custom host's loop fails on a *)
(* datum without a choice and on a reason that is not there; and Wenxin's  *)
(* on a datum without a result.                                            *)
(***************************************************************************)
StreamDiffers ==
  LET calls == Len(reply.calls)
      text  == reply.calls = <<>>
  IN  \/ way.packed /\ calls > 1 /\ adapter # "google_gemini"
      \/ adapter = "minimax" /\ calls > 1
      \/ adapter = "google_gemini" /\ ~way.packed
           /\ (calls > 1 \/ (reply.text # <<>> /\ calls > 0))
      \/ adapter = "togetherai" /\ text /\ reply.reason \in {NULL, "eos_token"}
      \/ adapter = "custom_function" /\ text /\ reply.reason \in {"function_call", "tool_calls"}
      \/ adapter \in CustomHost \cup {"wenxin"} /\ way.usage # "none"
      \/ adapter \in CustomHost /\ text /\ reply.reason = NULL

(***************************************************************************)
(* A stream that came to its end completes as the plain reply would have,  *)
(* except exactly where StreamDiffers says so, and fails where that fails. *)
(***************************************************************************)
StreamIsPlain ==
  LET plain == Plain(adapter, reply)
  IN  streamed /\ lines = <<>> /\ final # NULL =>
        IF plain.raised
        THEN final.raised \/ (adapter = "llama_api" /\ reply.calls = <<"noargs">>)
        ELSE final = plain <=> ~StreamDiffers

\* A plain reply is completed with its text, or with all of its calls instead,
\* except exactly where an adapter drops them or fails on them.
PlainDiffers ==
  LET calls == reply.calls
  IN  \/ reply.text = <<>> /\ calls = <<>>
      \/ PlainReply(adapter, [reply EXCEPT !.calls = <<>>, !.text = <<1>>]).raised
      \/ adapter = "google_gemini" /\ calls # <<>>
           /\ (reply.text # <<>> \/ Len(calls) > 1 \/ "noargs" \in ToSet(calls))
      \/ adapter \in {"anthropic", "llama_api"} /\ "noargs" \in ToSet(calls)

PlainIsWhole ==
  ~streamed /\ final \notin {NULL, Refusal} =>
    (/\ ~final.raised
     /\ final.calls = Numbers(reply)
     /\ reply.calls = <<>> => final.text = reply.text
     <=> ~PlainDiffers)
=============================================================================
