--------------------------------- MODULE Replies ---------------------------------
(***************************************************************************)
(* How each adapter of the LLM hub (llmhub/providers/*/chat_completion.py)  *)
(* reads what its provider replies: the extract_ methods read a plain      *)
(* reply, the stream_ methods one datum of a streamed one.                 *)
(*                                                                         *)
(* A reply has the words of its text, the function calls it makes, each    *)
(* with arguments or without, and the provider's own word for the reason   *)
(* it finished, NULL when it gives none.  A call without arguments has     *)
(* "{}" for arguments where a provider writes them as a string, and an     *)
(* empty dictionary where it writes them as one.                           *)
(***************************************************************************)
EXTENDS Null, Integers, Sequences, SequencesExt

FinishReasons == {"stop", "length", "function_calls", "error", "recitation", "unknown"}

\* A provider's word for a reason: translated, taken as it is, or unknown; a
\* filter is not translated but raised as an error.
Translated(word, names) ==
  CASE word \in DOMAIN names -> names[word]
    [] word \notin DOMAIN names /\ word \in FinishReasons -> word
    [] OTHER -> "unknown"

\* What has been read of a reply.
Read(text, calls, reason) ==
  [text |-> text, calls |-> calls, reason |-> reason, raised |-> reason = "raised"]
Failed == Read(<<>>, <<>>, "raised")

-----------------------------------------------------------------------------
(***************************************************************************)
(* Building the calls of a completion.  Arguments are the pieces that a    *)
(* string of them was made of; each piece is the number of its call and    *)
(* its place in it.                                                        *)
(***************************************************************************)
Pieces(reply, k) == [n \in 1..(IF reply.calls[k] = "args" THEN 2 ELSE 1) |-> <<k, n>>]

\* build_function_call of a string: JSON only if it is the whole of one call.
Parses(reply, pieces) == \E k \in DOMAIN reply.calls : pieces = Pieces(reply, k)

\* A variant with a bug: an empty dictionary is taken for arguments.
DictionaryAny(reply, k) == TRUE

\* build_function_call of a dictionary: an empty one is taken for no
\* arguments at all, which is an error.
Dictionary(reply, k) == reply.calls[k] = "args"

Numbers(reply) == [k \in DOMAIN reply.calls |-> k]
StringCalls(reply, names) == Read(reply.text, Numbers(reply), Translated(reply.reason, names))

OpenaiReasons      == [tool_calls |-> "function_calls", content_filter |-> "raised"]
LocalReasons       == [tool_calls |-> "function_calls"]
LlamaApiReasons    == [tool_calls |-> "function_calls", function_call |-> "function_calls",
                     max_token |-> "length"]
TogetheraiReasons  == [tool_calls |-> "function_calls", eos |-> "stop", eos_token |-> "length"]
ZhipuReasons       == [tool_calls |-> "function_calls", sensitive |-> "raised",
                     network_error |-> "error"]
MistralReasons     == [tool_calls |-> "function_calls", model_length |-> "length"]
\* The custom host's reply with one call, whole and streamed.
FunctionReasons    == [function_call |-> "function_calls"]
FunctionStreamReasons == [tool_calls |-> "function_calls"]
WenxinReasons      == [function_call |-> "function_calls", normal |-> "stop",
                     content_filter |-> "raised"]
AnthropicReasons   == [tool_use |-> "function_calls", max_tokens |-> "length",
                     end_turn |-> "stop", stop_sequence |-> "stop"]

\* google_gemini_finish_reason_map and cohere_finish_reason_map.
GeminiReasons ==
  [word \in {"STOP", "MAX_TOKENS", "RECITATION", "SAFETY", "FINISH_REASON_UNSPECIFIED", "OTHER"} |->
     CASE word = "STOP"       -> "stop"
       [] word = "MAX_TOKENS" -> "length"
       [] word = "RECITATION" -> "recitation"
       [] word = "SAFETY"     -> "error"
       [] word \in {"FINISH_REASON_UNSPECIFIED", "OTHER"} -> "unknown"]
CohereReasons ==
  [COMPLETE |-> "stop", MAX_TOKENS |-> "length", ERROR_LIMIT |-> "length",
   ERROR_TOXIC |-> "error", ERROR |-> "error", USER_CANCEL |-> "unknown"]

-----------------------------------------------------------------------------
(***************************************************************************)
(* The extract_ methods, on a plain reply.                                 *)
(***************************************************************************)
OpenaiReply(reply)       == StringCalls(reply, OpenaiReasons)
AzureOpenaiReply(reply)  == StringCalls(reply, OpenaiReasons)
YiReply(reply)           == StringCalls(reply, OpenaiReasons)
MoonshotReply(reply)     == StringCalls(reply, OpenaiReasons)
MinimaxReply(reply)      == StringCalls(reply, OpenaiReasons)
GroqReply(reply)         == StringCalls(reply, OpenaiReasons)
TongyiReply(reply)       == StringCalls(reply, OpenaiReasons)
OllamaReply(reply)       == StringCalls(reply, LocalReasons)
LocalaiReply(reply)      == StringCalls(reply, LocalReasons)
LmStudioReply(reply)     == StringCalls(reply, LocalReasons)
CustomToolsReply(reply)  == StringCalls(reply, LocalReasons)
ZhipuReply(reply)        == StringCalls(reply, ZhipuReasons)
MistralReply(reply)      == StringCalls(reply, MistralReasons)
BaichuanReply(reply)     == Read(reply.text, <<>>, Translated(reply.reason, OpenaiReasons))
CohereReply(reply)       == Read(reply.text, <<>>, Translated(reply.reason, CohereReasons))

\* These APIs hold one call, and Together's names no reason when it stops.
CustomFunctionReply(reply) == StringCalls(reply, FunctionReasons)
WenxinReply(reply)         == StringCalls(reply, WenxinReasons)
TogetheraiReply(reply) ==
  StringCalls([reply EXCEPT !.reason = IF @ = NULL THEN "stop" ELSE @], TogetheraiReasons)
LlamaApiReply(reply) ==
  IF \A k \in DOMAIN reply.calls : Dictionary(reply, k)
  THEN StringCalls(reply, LlamaApiReasons) ELSE Failed

\* The blocks of the content: the text, then a tool_use for each call.
AnthropicReply(reply) ==
  IF (reply.text = <<>> /\ reply.calls = <<>>)
     \/ \E k \in DOMAIN reply.calls : ~Dictionary(reply, k)
  THEN Failed ELSE StringCalls(reply, AnthropicReasons)

\* Only the first part of the content is read: the text if there is one.
GeminiReply(reply) ==
  LET reason == Translated(reply.reason, GeminiReasons)
  IN  CASE reply.text # <<>> \/ reply.calls = <<>> -> Read(reply.text, <<>>, reason)
        [] OTHER -> IF Dictionary(reply, 1) THEN Read(<<>>, <<1>>, reason) ELSE Failed

\* Adapters without a stream.  AI21's text is read without its calls, Hugging
\* Face gives no reason, and Bedrock's reason must be there.
Ai21Reply(reply) ==
  Read(reply.text, <<>>, Translated(reply.reason, [endoftext |-> "stop"]))
HuggingFaceReply(reply)         == Read(reply.text, <<>>, "unknown")
HuggingFaceEndpointReply(reply) == Read(reply.text, <<>>, "unknown")

BedrockReasons ==
  [amazon    |-> [FINISH |-> "stop", LENGTH |-> "length"],
   ai21      |-> [endoftext |-> "stop", stop |-> "stop", max_tokens |-> "length",
                  length |-> "length"],
   anthropic |-> [stop_sequence |-> "stop", max_tokens |-> "length"],
   cohere    |-> [COMPLETE |-> "stop", MAX_TOKENS |-> "length"],
   meta      |-> [length |-> "length", stop |-> "stop"]]
BedrockReply(reply, prefix) ==
  LET names == BedrockReasons[prefix]
  IN  IF reply.reason = NULL THEN Failed
      ELSE Read(reply.text, <<>>,
                IF reply.reason \in DOMAIN names THEN names[reply.reason] ELSE "unknown")

-----------------------------------------------------------------------------
(***************************************************************************)
(* The stream_ methods, on one datum: the words of its text, the calls in  *)
(* it (each with its index, its number and the pieces of its arguments),   *)
(* the reason, and whether it has the part that the adapter reads.  So far *)
(* the stream has given the words in so.text and the calls in so.calls.    *)
(*                                                                         *)
(* An adapter passes a datum over (stream_extract_chunk_data is None),     *)
(* fails on it, or gives the words of the next chunk, whether there is     *)
(* one, the calls, and the reason, NULL if the datum has none.             *)
(***************************************************************************)
NoCalls == [index |-> -1, numbers |-> <<>>, pieces |-> <<>>]

Over == [over |-> TRUE, raised |-> FALSE, chunk |-> FALSE, text |-> <<>>,
         calls |-> NoCalls, reason |-> NULL]
Broken == [Over EXCEPT !.over = FALSE, !.raised = TRUE]
Gives(text, calls, reason) ==
  [over |-> FALSE, raised |-> reason = "raised", chunk |-> text # <<>>, text |-> text,
   calls |-> calls, reason |-> reason]

Spoken(datum, names) ==
  IF datum.reason = NULL THEN NULL ELSE Translated(datum.reason, names)

\* A variant with a bug: the pieces of a call are not appended but kept apart.
GatheredApart(calls, call, index) ==
  [index |-> index, numbers |-> Append(calls.numbers, call.number),
   pieces |-> Append(calls.pieces, call.pieces)]

\* stream_handle_function_calls: the call at the same index goes on, one at a
\* greater index is the next, and one at a smaller index is dropped.
Gathered(calls, call, index) ==
  CASE index = calls.index -> [calls EXCEPT !.pieces[index + 1] = @ \o call.pieces]
    [] index > calls.index -> [index |-> index, numbers |-> Append(calls.numbers, call.number),
                               pieces |-> Append(calls.pieces, call.pieces)]
    [] OTHER -> calls

\* Of several calls in a datum the first is read.
FirstGathered(so, datum) ==
  IF datum.calls = <<>> THEN so.calls
  ELSE Gathered(so.calls, datum.calls[1], datum.calls[1].index)
FirstAtZero(so, datum) ==
  IF datum.calls = <<>> THEN so.calls ELSE Gathered(so.calls, datum.calls[1], 0)

Choice(so, datum, names) ==
  IF ~datum.choice THEN Over
  ELSE Gives(datum.text, FirstGathered(so, datum), Spoken(datum, names))

OpenaiDatum(so, datum)       == Choice(so, datum, OpenaiReasons)
AzureOpenaiDatum(so, datum)  == Choice(so, datum, OpenaiReasons)
YiDatum(so, datum)           == Choice(so, datum, OpenaiReasons)
MoonshotDatum(so, datum)     == Choice(so, datum, OpenaiReasons)
GroqDatum(so, datum)         == Choice(so, datum, OpenaiReasons)
OllamaDatum(so, datum)       == Choice(so, datum, LocalReasons)
LocalaiDatum(so, datum)      == Choice(so, datum, LocalReasons)
LmStudioDatum(so, datum)     == Choice(so, datum, LocalReasons)
LlamaApiDatum(so, datum)     == Choice(so, datum, LlamaApiReasons)
ZhipuDatum(so, datum)        == Choice(so, datum, ZhipuReasons)
MistralDatum(so, datum)      == Choice(so, datum, MistralReasons)
BaichuanDatum(so, datum) ==
  IF ~datum.choice THEN Over
  ELSE Gives(datum.text, so.calls, Spoken(datum, OpenaiReasons))

\* A variant with a bug: the default of the plain reply.
TogetheraiDatumStops(so, datum) ==
  IF ~datum.choice THEN Over
  ELSE Gives(datum.text, FirstGathered(so, datum),
             IF datum.reason = NULL THEN "stop"
             ELSE Translated(datum.reason, TogetheraiReasons))

\* A reason that is not there is unknown, and takes the place of an earlier one.
TogetheraiDatum(so, datum) ==
  IF ~datum.choice THEN Over
  ELSE Gives(datum.text, FirstGathered(so, datum),
             CASE datum.reason = NULL -> "unknown"
               [] datum.reason = "eos_token" -> "unknown"
               [] OTHER -> Translated(datum.reason, TogetheraiReasons))

\* Every call is taken to be at index 0.
MinimaxDatum(so, datum) ==
  IF ~datum.choice THEN Over
  ELSE Gives(datum.text, FirstAtZero(so, datum), Spoken(datum, OpenaiReasons))

\* The custom host's loop does not pass a datum over, and these fail on None.
CustomToolsDatum(so, datum) ==
  IF ~datum.choice THEN Broken
  ELSE Gives(datum.text, FirstGathered(so, datum), Spoken(datum, LocalReasons))
CustomFunctionDatum(so, datum) ==
  IF ~datum.choice THEN Broken
  ELSE Gives(datum.text, FirstAtZero(so, datum), Spoken(datum, FunctionStreamReasons))

\* A variant with a bug: the text read before is not taken off.
TongyiDatumWhole(so, datum) == Choice(so, datum, OpenaiReasons)

\* The text of a datum is all the text so far; what is left of it once the
\* text read before has been taken off makes a chunk, even if nothing is.
TongyiDatum(so, datum) ==
  IF ~datum.choice THEN Over
  ELSE [Gives(SubSeq(datum.text, Len(so.text) + 1, Len(datum.text)),
              FirstGathered(so, datum), Spoken(datum, OpenaiReasons))
          EXCEPT !.chunk = datum.text # <<>>]

\* Nothing is passed over; Wenxin's data must have a result.
CohereDatum(so, datum) ==
  Gives(datum.text, so.calls, Spoken(datum, CohereReasons))
WenxinDatum(so, datum) ==
  IF ~datum.choice THEN Broken
  ELSE Gives(datum.text,
             IF datum.calls = <<>> THEN so.calls
             ELSE [so.calls EXCEPT !.numbers = Append(@, datum.calls[1].number),
                                   !.pieces  = Append(@, datum.calls[1].pieces)],
             Spoken(datum, WenxinReasons))

\* Only the first part is read, and a second call would be added to the
\* dictionary of the first.
GeminiDatum(so, datum) ==
  CASE ~datum.choice -> Over
    [] datum.choice /\ datum.text = <<>> /\ datum.calls # <<>> /\ so.calls.index = 0 -> Broken
    [] OTHER -> Gives(datum.text,
                      IF datum.text # <<>> THEN so.calls ELSE FirstAtZero(so, datum),
                      Spoken(datum, GeminiReasons))

\* A delta without a stop_reason has an unknown one; calls are not read.
AnthropicDatum(so, datum) ==
  IF ~datum.choice THEN Over
  ELSE Gives(datum.text, so.calls, Translated(datum.reason, AnthropicReasons))
=============================================================================
