---------------------------- MODULE ProviderRequests ----------------------------
(***************************************************************************)
(* What each adapter of the LLM hub (llmhub/providers/*/chat_completion.py) *)
(* makes of a chat completion request: prepare_request turns the validated *)
(* messages, the configs and the functions into the body that the          *)
(* provider's API takes.                                                   *)
(*                                                                         *)
(* A message has its role, the form of its content (None, an empty        *)
(* string, a string, a list of parts, or a list of parts with a string     *)
(* spread into it), the words of the content in order, its calls with the  *)
(* names of the functions, and the call it answers.  The request also says *)
(* whether it is streamed, which configs are given and at which values,    *)
(* whether functions are, whether an image is a plain URL instead of a     *)
(* data URI, whether the model's id has "vision" in it, and whether the    *)
(* credentials ask for version "v1" of the Gemini API.  The layout of the  *)
(* body, its URL, its headers and tool_choice are left out.                *)
(***************************************************************************)
EXTENDS MessageValidation

\* The words of a message at position i, and those of a list of messages.
WordsAt(form, i) == CASE form \in {"none", "empty"} -> <<>>
                      [] form = "text"  -> <<<<i, "text">>>>
                      [] form = "parts" -> <<<<i, "text">>, <<i, "image">>>>
Words(ms) == FlattenSeq([i \in DOMAIN ms |-> ms[i].text])

\* What the adapters are handed: the merged messages of the request.
Handed(messages) ==
  LET kept   == Converted(messages)
      groups == Merge(kept).messages
      built(g) == [role |-> kept[g[1]].role, form |-> kept[g[1]].content,
                   text |-> FlattenSeq([k \in DOMAIN g |-> WordsAt(kept[g[k]].content, g[k])]),
                   calls |-> kept[g[1]].calls, names |-> kept[g[1]].names,
                   id |-> kept[g[1]].id]
  IN  [j \in DOMAIN groups |-> built(groups[j])]

-----------------------------------------------------------------------------
(***************************************************************************)
(* A message of a body: the calls it makes and the call it answers under   *)
(* the names the provider is given, "" being the name of no call.  A       *)
(* message for which the adapter returns nothing is sent as a JSON null.   *)
(***************************************************************************)
Says(role, words)         == [role |-> role, text |-> words, calls |-> <<>>, answers |-> NULL]
Asks(role, ids)           == [role |-> role, text |-> <<>>, calls |-> ids, answers |-> NULL]
Answers(role, words, id)  == [role |-> role, text |-> words, calls |-> <<>>, answers |-> id]
Silent                    == Says(NULL, <<>>)

Body(wire, configs, tools) ==
  [raised |-> FALSE, messages |-> wire, system |-> <<>>, configs |-> configs, tools |-> tools]
Raised == [Body(<<>>, <<>>, FALSE) EXCEPT !.raised = TRUE]
Prompt(words, configs) == Body(<<Says("prompt", words)>>, configs, FALSE)

(***************************************************************************)
(* The given configs, each under a name of the body with its key and its   *)
(* value there, and the configs with a default under each of these names   *)
(* that is not taken.                                                      *)
(***************************************************************************)
Renamed(given, names) ==
  LET name(key) == IF key \in DOMAIN names THEN names[key] ELSE key
      keyOf(n) == CHOOSE key \in DOMAIN given : name(key) = n
  IN  [n \in {name(key) : key \in DOMAIN given} |-> [key |-> keyOf(n), value |-> given[keyOf(n)]]]
Sent(given) == Renamed(given, <<>>)

Default == [key |-> "default", value |-> "default"]
Defaulted(configs, names) ==
  [n \in DOMAIN configs \cup names |-> IF n \in DOMAIN configs THEN configs[n] ELSE Default]

\* A list of parts cannot be put into a JSON body as it is; one that has a
\* string spread into it cannot be dumped part by part either.
IsList(m) == m.form \in {"parts", "spread"}
Each(ms, Message(_)) == [i \in DOMAIN ms |-> Message(ms[i])]

Chat(req, Message(_), Refuses(_), configs) ==
  IF \E i \in DOMAIN req.messages : Refuses(req.messages[i]) THEN Raised
  ELSE Body(Each(req.messages, Message), configs, req.functions)

\* check_valid_list_content, over the user messages: an image must be a data URI.
BadImage(req) ==
  \E i \in DOMAIN req.messages :
    /\ req.messages[i].role = "user"
    /\ req.messages[i].form = "spread" \/ (req.remote /\ req.messages[i].form = "parts")

-----------------------------------------------------------------------------
(***************************************************************************)
(* The adapters that speak the API of OpenAI, each with a copy of its      *)
(* code.                                                                   *)
(***************************************************************************)
OpenaiMessage(m) ==
  CASE m.role = "function" -> Answers("tool", m.text, m.id)
    [] IsCalls(m)          -> Asks("assistant", m.calls)
    [] OTHER               -> Says(m.role, m.text)

\* A user's parts are dumped one by one, and the content beside calls is dropped.
OpenaiRefuses(m) == IF m.role = "user" THEN m.form = "spread" ELSE ~IsCalls(m) /\ IsList(m)

\* A variant with a bug: the default takes the place of a given max_tokens.
OpenaiRequestDefault(req) ==
  Chat(req, OpenaiMessage, OpenaiRefuses,
       IF req.vision THEN [Defaulted(Sent(req.given), {"max_tokens"}) EXCEPT !["max_tokens"] = Default]
       ELSE Sent(req.given))

OpenaiRequest(req) ==
  Chat(req, OpenaiMessage, OpenaiRefuses,
       Defaulted(Sent(req.given), IF req.vision THEN {"max_tokens"} ELSE {}))

AzureOpenaiMessage(m)    == OpenaiMessage(m)
AzureOpenaiRequest(req)  == OpenaiRequest(req)
LocalaiMessage(m)        == OpenaiMessage(m)
LocalaiRequest(req)      == OpenaiRequest(req)
LmStudioMessage(m)       == OpenaiMessage(m)
LmStudioRequest(req)     == OpenaiRequest(req)
OllamaMessage(m)         == OpenaiMessage(m)
OllamaRequest(req)       == OpenaiRequest(req)
YiMessage(m)             == OpenaiMessage(m)
YiRequest(req)           == Chat(req, YiMessage, OpenaiRefuses, Sent(req.given))
MoonshotMessage(m)       == OpenaiMessage(m)
MoonshotRequest(req)     == Chat(req, MoonshotMessage, OpenaiRefuses, Sent(req.given))
LlamaApiMessage(m)       == OpenaiMessage(m)
LlamaApiRequest(req)     == Chat(req, LlamaApiMessage, OpenaiRefuses, Sent(req.given))
CustomHostMessage(m)     == OpenaiMessage(m)
CustomHostToolsRequest(req)    == Chat(req, CustomHostMessage, OpenaiRefuses, Sent(req.given))
CustomHostFunctionRequest(req) == Chat(req, CustomHostMessage, OpenaiRefuses, Sent(req.given))
MinimaxMessage(m)        == OpenaiMessage(m)
MinimaxRequest(req) ==
  Chat(req, MinimaxMessage, OpenaiRefuses, Defaulted(Sent(req.given), {"max_tokens"}))
ZhipuMessage(m)          == OpenaiMessage(m)

\* temperature and top_p lie strictly between 0 and 1: 0.01 and 0.99 stand for
\* the bounds.
ZhipuValues(given) ==
  LET inside(v) == CASE v = "zero" -> "raised" [] v = "one" -> "lowered" [] OTHER -> v
  IN  [key \in DOMAIN given |->
         IF key \in {"temperature", "top_p"} THEN inside(given[key]) ELSE given[key]]
ZhipuRequest(req) ==
  IF BadImage(req) THEN Raised
  ELSE Chat(req, ZhipuMessage, OpenaiRefuses, Sent(ZhipuValues(req.given)))

\* The content of Together AI's messages is not dumped.
TogetheraiMessage(m)     == OpenaiMessage(m)
TogetheraiRefuses(m)     == ~IsCalls(m) /\ IsList(m)
TogetheraiRequest(req)   == Chat(req, TogetheraiMessage, TogetheraiRefuses, Sent(req.given))

-----------------------------------------------------------------------------
(***************************************************************************)
(* Adapters whose API takes messages, each in its own way.                 *)
(***************************************************************************)
\* A variant with a bug: the calls of a message share one id.
MistralIdsShared(ms, i) ==
  LET called == {k \in 1..(i - 1) : IsCalls(ms[k])}
      at(id) == UNION {{k} \X {n \in DOMAIN ms[k].calls : ms[k].calls[n] = id} : k \in called}
  IN  [id \in UNION {ToSet(ms[k].calls) : k \in called} |->
         <<(CHOOSE p \in at(id) : \A q \in at(id) : q[1] <= p[1])[1], 1>>]

\* function_id_to_mistral_id_map before message i: each call is given a fresh
\* id, named here by its place, and a repeated call takes the later one.
MistralIds(ms, i) ==
  LET called == {k \in 1..(i - 1) : IsCalls(ms[k])}
      at(id) == UNION {{k} \X {n \in DOMAIN ms[k].calls : ms[k].calls[n] = id} : k \in called}
  IN  [id \in UNION {ToSet(ms[k].calls) : k \in called} |->
         CHOOSE p \in at(id) : \A q \in at(id) : q[1] <= p[1]]

MistralMessage(ms, i) ==
  CASE ms[i].role = "function" -> Answers("tool", ms[i].text, MistralIds(ms, i)[ms[i].id])
    [] IsCalls(ms[i])          -> Asks("assistant", [n \in DOMAIN ms[i].calls |-> <<i, n>>])
    [] OTHER                   -> Says(ms[i].role, ms[i].text)
MistralRequest(req) ==
  LET ms == req.messages
  IN  IF \/ \E i \in DOMAIN ms : OpenaiRefuses(ms[i])
         \/ \E i \in DOMAIN ms : ms[i].role = "function"
                                /\ ms[i].id \notin DOMAIN MistralIds(ms, i)
      THEN Raised
      ELSE Body([i \in DOMAIN ms |-> MistralMessage(ms, i)], Sent(req.given), req.functions)

\* Messages about functions become null, and the functions are not sent.
TextOnly(m) == IF m.role = "function" \/ IsCalls(m) THEN Silent ELSE Says(m.role, m.text)
Untooled(req) == [req EXCEPT !.functions = FALSE]

GroqMessage(m)      == TextOnly(m)
GroqRefuses(m)      == m.role # "function" /\ OpenaiRefuses(m)
GroqRequest(req)    == Chat(Untooled(req), GroqMessage, GroqRefuses, Sent(req.given))
TongyiMessage(m)    == TextOnly(m)
TongyiRefuses(m)    == m.role # "function" /\ TogetheraiRefuses(m)
TongyiRequest(req)  == Chat(Untooled(req), TongyiMessage, TongyiRefuses, Sent(req.given))

\* A calls message is sent with its content instead of its calls.
BaichuanMessage(m) ==
  CASE m.role = "function" -> Silent
    [] m.role = "system"   -> Says("user", m.text)
    [] OTHER               -> Says(m.role, m.text)
BaichuanRefuses(m) == m.role # "function" /\ IsList(m)
BaichuanRequest(req) == Chat(Untooled(req), BaichuanMessage, BaichuanRefuses, Sent(req.given))

\* The system messages are joined into a field of the body.
SystemOf(ms) == SelectSeq(ms, LAMBDA m : m.role = "system")
OthersOf(ms) == SelectSeq(ms, LAMBDA m : m.role # "system")
Ai21Message(m) == IF m.role = "function" THEN Silent ELSE Says(m.role, m.text)
Ai21Keys(given) ==
  LET names == [temperature |-> "temperature", top_p |-> "topP", max_tokens |-> "maxTokens",
                stop |-> "stopSequences", top_k |-> "topKReturn"]
  IN  Renamed(Restrict(given, DOMAIN given \cap DOMAIN names), names)
Ai21Request(req) ==
  IF \E i \in DOMAIN req.messages : BaichuanRefuses(req.messages[i]) THEN Raised
  ELSE [Body(Each(OthersOf(req.messages), Ai21Message), Ai21Keys(req.given), FALSE)
          EXCEPT !.system = Words(SystemOf(req.messages))]

\* The images among the parts are left out.
CohereMessage(m) ==
  [TextOnly(m) EXCEPT !.text = SelectSeq(@, LAMBDA word : word[2] = "text")]

\* _split_messages takes the message of the last one, which may be null.
CohereRequest(req) ==
  IF CohereMessage(Last(req.messages)) = Silent THEN Raised
  ELSE Chat(Untooled(req), CohereMessage, GroqRefuses,
            Renamed(req.given, [top_p |-> "p", top_k |-> "k"]))

-----------------------------------------------------------------------------
(***************************************************************************)
(* functions_map of Wenxin and Gemini: the id of the first call of each    *)
(* message of the list, with the name it has in the last one that makes    *)
(* it.  An id it does not hold is answered under the name "".              *)
(***************************************************************************)
CallingFirst(ms, id) == {k \in DOMAIN ms : IsCalls(ms[k]) /\ ms[k].calls[1] = id}
NameOf(ms, id) ==
  LET ks == CallingFirst(ms, id)
  IN  IF ks = {} THEN "" ELSE ms[CHOOSE k \in ks : \A j \in ks : j <= k].names[1]
HasEmptyCalls(ms) == \E k \in DOMAIN ms : ms[k].calls = <<>>

WenxinMessage(ms, m) ==
  CASE m.role = "function" -> Answers("function", m.text, NameOf(ms, m.id))
    [] IsCalls(m)          -> Asks("assistant", <<m.names[1]>>)
    [] OTHER               -> Says(m.role, m.text)
WenxinRequest(req) ==
  LET ms == req.messages
      message(m) == WenxinMessage(ms, m)
  IN  IF HasEmptyCalls(ms) THEN Raised
      ELSE Chat(req, message, TogetheraiRefuses,
                Renamed(req.given, [max_tokens |-> "max_output_tokens"]))

(***************************************************************************)
(* The system message is appended to the one after it, in the list that    *)
(* the caller goes on to use.  Two strings and two lists of parts are put  *)
(* together, and a list takes a string character by character; None and a  *)
(* string take no list, None takes nothing, and the list stays as it is.   *)
(***************************************************************************)
GeminiForm(form, system) ==
  CASE form = "parts" /\ system = "parts" -> "parts"
    [] form \in {"parts", "spread"} /\ form # system -> "spread"
    [] OTHER -> "text"
GeminiFold(ms) ==
  LET next == [ms[2] EXCEPT !.text = @ \o ms[1].text,
                            !.form = GeminiForm(@, ms[1].form)]
  IN  IF /\ Len(ms) > 1 /\ ms[1].role = "system"
         /\ IsList(ms[2]) \/ (ms[2].form # "none" /\ ~IsList(ms[1]))
      THEN <<next>> \o SubSeq(ms, 3, Len(ms)) ELSE ms

GeminiMessage(ms, m) ==
  CASE m.role = "function" -> Answers("function", IF IsList(m) THEN <<>> ELSE m.text,
                                      NameOf(ms, m.id))
    [] IsCalls(m)          -> Asks("model", m.names)
    [] m.role = "assistant" /\ ~IsCalls(m) -> Says("model", m.text)
    [] m.role = "user"     -> Says("user", m.text)
    [] OTHER               -> Silent
GeminiRefuses(m) == m.role = "assistant" /\ ~IsCalls(m) /\ IsList(m)
GeminiRequest(req) ==
  LET ms == GeminiFold(req.messages)
      message(m) == GeminiMessage(ms, m)
      names == [max_tokens |-> "maxOutputTokens", top_p |-> "topP", top_k |-> "topK"]
  IN  IF \/ Len(ms) > 1 /\ ms[1].role = "system"
         \/ BadImage([req EXCEPT !.messages = ms])
         \/ HasEmptyCalls(ms)
         \/ \E i \in DOMAIN ms : GeminiRefuses(ms[i])
         \/ req.v1 /\ req.functions
      THEN Raised
      ELSE Body(Each(ms, message), Renamed(req.given, names), req.functions)

\* A variant with a bug: the result of a function is sent as a text.
AnthropicMessageMissed(m) ==
  CASE IsCalls(m) -> Asks("assistant", m.calls)
    [] OTHER      -> Says(m.role, m.text)

AnthropicMessage(m) ==
  CASE m.role = "function" -> Answers("user", m.text, m.id)
    [] IsCalls(m)          -> Asks("assistant", m.calls)
    [] OTHER               -> Says(m.role, m.text)

\* The parts of an assistant's text are printed into one string.
AnthropicRefuses(m) == m.role = "function" /\ IsList(m)

\* _extract_system_message: the list itself is not touched.
Instructed(ms) == ms # <<>> /\ ms[1].role = "system"
AnthropicRequest(req) ==
  LET ms == IF Instructed(req.messages) THEN Tail(req.messages) ELSE req.messages
      body == Chat([req EXCEPT !.messages = ms], AnthropicMessage, AnthropicRefuses,
                   Defaulted(Renamed(req.given, [stop |-> "stop_sequences"]), {"max_tokens"}))
  IN  IF \/ req.stream /\ req.functions
         \/ BadImage(req)
         \/ Instructed(req.messages) /\ IsList(req.messages[1])
      THEN Raised
      ELSE [body EXCEPT !.system = IF Instructed(req.messages) THEN req.messages[1].text ELSE <<>>]

-----------------------------------------------------------------------------
(***************************************************************************)
(* Adapters that print the messages into one prompt, lists of parts too.   *)
(* The content of an assistant message that has none is printed as the     *)
(* word None.                                                              *)
(***************************************************************************)
Printed(m) == IF m.form = "none" THEN <<<<0, "None">>>> ELSE m.text
PromptOf(ms, Line(_)) == FlattenSeq(Each(ms, Line))

\* _build_replicate_message skips function messages.
ReplicateLine(m) == IF m.role = "function" THEN <<>> ELSE Printed(m)

\* The list of stop sequences is joined into one string.
ReplicateValues(given) ==
  [key \in DOMAIN given |-> IF key = "stop" THEN "joined" ELSE given[key]]

\* chat_completion_stream returns None, which the caller cannot iterate.
ReplicateRequest(req) ==
  IF req.stream THEN Raised
  ELSE Prompt(PromptOf(req.messages, ReplicateLine),
              Renamed(ReplicateValues(req.given), [max_tokens |-> "max_new_tokens"]))

\* Hugging Face takes four configs.
HuggingFaceKeys(given) ==
  LET names == [top_p |-> "top_p", temperature |-> "temperature",
                max_tokens |-> "max_new_tokens", top_k |-> "top_k"]
  IN  Renamed(Restrict(given, DOMAIN given \cap DOMAIN names), names)
HuggingFaceLine(m) == IF m.role = "function" THEN <<>> ELSE Printed(m)
HuggingFaceRequest(req) ==
  IF req.stream \/ req.functions THEN Raised
  ELSE Prompt(PromptOf(req.messages, HuggingFaceLine), HuggingFaceKeys(req.given))
HuggingFaceEndpointLine(m) == HuggingFaceLine(m)
HuggingFaceEndpointRequest(req) ==
  Prompt(PromptOf(req.messages, HuggingFaceEndpointLine), HuggingFaceKeys(req.given))

-----------------------------------------------------------------------------
(***************************************************************************)
(* AWS Bedrock, by the prefix of the model's id.  Amazon's, AI21's,        *)
(* Anthropic's and Meta's models take a prompt that ends with an assistant *)
(* message, and an empty one is appended to the caller's list where there  *)
(* is none; Cohere's take the content of the first message.                *)
(***************************************************************************)
BedrockNames ==
  [amazon    |-> [max_tokens |-> "maxTokenCount", top_p |-> "topP"],
   ai21      |-> [max_tokens |-> "maxTokens", stop |-> "stopSequences",
                  top_k |-> "topKReturn", top_p |-> "topP"],
   anthropic |-> [max_tokens |-> "max_tokens_to_sample", stop |-> "stop_sequences"],
   cohere    |-> [top_p |-> "p", top_k |-> "k"],
   meta      |-> [max_tokens |-> "max_gen_len"]]
BedrockDefaults(prefix) ==
  CASE prefix = "ai21"      -> {"maxTokens"}
    [] prefix = "anthropic" -> {"max_tokens_to_sample"}
    [] OTHER                -> {}

EmptyAssistant ==
  [role |-> "assistant", form |-> "empty", text |-> <<>>, calls |-> NULL, names |-> NULL, id |-> NULL]

\* A variant with a bug: the empty message is appended whatever the last one is.
BedrockPromptedAlways(ms) == Append(ms, EmptyAssistant)

BedrockPrompted(ms) ==
  IF Last(ms).role # "assistant" THEN Append(ms, EmptyAssistant) ELSE ms

BedrockRequest(req, prefix) ==
  LET ms == req.messages
      configs == Renamed(req.given, BedrockNames[prefix])
      unprintable == \E i \in DOMAIN ms : \/ ms[i].role = "function"
                                          \/ ms[i].role = "system" /\ IsList(ms[i])
  IN  CASE req.stream -> Raised
        [] prefix = "cohere" /\ ~IsList(ms[1]) ->
             Body(<<Says("prompt", ms[1].text)>>, configs, FALSE)
        [] prefix # "cohere" /\ ~unprintable ->
             Prompt(PromptOf(BedrockPrompted(ms), Printed),
                    Defaulted(configs, BedrockDefaults(prefix)))
        [] OTHER -> Raised
=============================================================================
