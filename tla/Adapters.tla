-------------------------------- MODULE Adapters --------------------------------
(***************************************************************************)
(* Every adapter of the LLM hub on every conversation that its validation  *)
(* accepts and merges, alone and after other adapters: the chat completion *)
(* route hands one list of messages to the requested model and then to its *)
(* fallbacks.                                                              *)
(***************************************************************************)
EXTENDS Conversation, ProviderRequests, Functions, FiniteSets

ModelPrefixes == {"amazon", "ai21", "anthropic", "cohere", "meta"}
Bedrock == {"bedrock"} \X ModelPrefixes

\* The adapters that pass functions, calls and their results on.
Tooled == {"openai", "azure_openai", "localai", "lm_studio", "ollama", "yi", "moonshot",
           "llama_api", "custom_tools", "custom_function", "minimax", "zhipu", "togetherai",
           "mistralai", "wenxin", "google_gemini", "anthropic"}
Prompted == {"replicate", "hugging_face", "hugging_face_endpoint"}
Named == Tooled \cup Prompted \cup {"groq", "tongyi", "baichuan", "ai21", "cohere"}
Providers == ({"adapter"} \X Named) \cup Bedrock

NamedRequest(name, req) ==
  CASE name = "openai"          -> OpenaiRequest(req)
    [] name = "azure_openai"    -> AzureOpenaiRequest(req)
    [] name = "localai"         -> LocalaiRequest(req)
    [] name = "lm_studio"       -> LmStudioRequest(req)
    [] name = "ollama"          -> OllamaRequest(req)
    [] name = "yi"              -> YiRequest(req)
    [] name = "moonshot"        -> MoonshotRequest(req)
    [] name = "llama_api"       -> LlamaApiRequest(req)
    [] name = "custom_tools"    -> CustomHostToolsRequest(req)
    [] name = "custom_function" -> CustomHostFunctionRequest(req)
    [] name = "minimax"         -> MinimaxRequest(req)
    [] name = "zhipu"           -> ZhipuRequest(req)
    [] name = "togetherai"      -> TogetheraiRequest(req)
    [] name = "mistralai"       -> MistralRequest(req)
    [] name = "wenxin"          -> WenxinRequest(req)
    [] name = "google_gemini"   -> GeminiRequest(req)
    [] name = "anthropic"       -> AnthropicRequest(req)
    [] name = "groq"            -> GroqRequest(req)
    [] name = "tongyi"          -> TongyiRequest(req)
    [] name = "baichuan"        -> BaichuanRequest(req)
    [] name = "ai21"            -> Ai21Request(req)
    [] name = "cohere"          -> CohereRequest(req)
    [] name = "replicate"       -> ReplicateRequest(req)
    [] name = "hugging_face"    -> HuggingFaceRequest(req)
    [] name = "hugging_face_endpoint" -> HuggingFaceEndpointRequest(req)

Request(p, req) ==
  IF p \in Bedrock THEN BedrockRequest(req, p[2]) ELSE NamedRequest(p[2], req)

\* The list as an attempt leaves it to the next: most adapters only read it.
Left(p, req) ==
  CASE p[2] = "google_gemini" /\ ~(req.v1 /\ req.functions) -> GeminiFold(req.messages)
    [] p \in Bedrock /\ p[2] # "cohere" /\ ~req.stream      -> BedrockPrompted(req.messages)
    [] OTHER                                                -> req.messages

Plain(ms) == [messages |-> ms, stream |-> FALSE, given |-> <<>>, functions |-> FALSE,
              remote |-> FALSE, vision |-> FALSE, v1 |-> FALSE]

-----------------------------------------------------------------------------
(***************************************************************************)
(* The conversations looked at: accepted, merged, and nothing in them that *)
(* the conversion drops.                                                   *)
(***************************************************************************)
Requested == /\ Accepts(messages)
             /\ Converted(messages) = messages
             /\ Merge(messages).end = "merged"

\* What a body or a list of messages carries: the words, how many calls and
\* how many results.
CallsIn(ms) == SumFunction([i \in DOMAIN ms |-> IF ms[i].calls = NULL THEN 0 ELSE Len(ms[i].calls)])
CarriedBy(body) ==
  [words   |-> body.system \o Words(body.messages),
   calls   |-> CallsIn(body.messages),
   results |-> Cardinality({i \in DOMAIN body.messages : body.messages[i].answers # NULL})]
Said(ms) ==
  [words   |-> Words(ms),
   calls   |-> CallsIn(ms),
   results |-> Cardinality({i \in DOMAIN ms : ms[i].role = "function"})]
Same(c, d) == /\ Len(c.words) = Len(d.words) /\ ToSet(c.words) = ToSet(d.words)
              /\ c.calls = d.calls /\ c.results = d.results

(***************************************************************************)
(* What an adapter is known to leave out: the content beside calls, unless *)
(* contents are sent whatever the message is; the calls and results, if it *)
(* has no functions; all calls but the first (Wenxin); the images of users *)
(* (Cohere); all messages but the first (Cohere on Bedrock); and, for      *)
(* Gemini, a system message on its own or folded into a calls message, and *)
(* a result that is a list of parts.                                       *)
(***************************************************************************)
Contents == {"baichuan", "ai21"} \cup Prompted
OnlyFirstSent(ms) == \E i \in DOMAIN ms : IsCalls(ms[i]) /\ Len(ms[i].calls) > 1
FoldedIntoCalls(ms) == Len(ms) > 1 /\ ms[1].role = "system" /\ IsCalls(ms[2])
LeavesOut(p, ms) ==
  \/ p \notin Bedrock /\ p[2] \notin Contents /\ \E i \in DOMAIN ms : IsCalls(ms[i]) /\ ms[i].text # <<>>
  \/ p[2] \notin Tooled /\ Said(ms).calls > 0
  \/ p[2] = "wenxin" /\ OnlyFirstSent(ms)
  \/ p = <<"adapter", "cohere">> /\ \E i \in DOMAIN ms : ms[i].role = "user" /\ IsList(ms[i])
  \/ p = <<"bedrock", "cohere">> /\ Len(ms) > 1
  \/ p[2] = "google_gemini" /\ \/ Len(ms) = 1 /\ ms[1].role = "system"
                               \/ FoldedIntoCalls(ms)
                               \/ \E i \in DOMAIN ms : ms[i].role = "function" /\ IsList(ms[i])

\* A body carries every word, call and result of the conversation, except
\* exactly where LeavesOut says that it does not.
LeavesOutExactly ==
  Requested =>
    LET ms == Handed(messages) IN
    \A p \in Providers :
      LET body == Request(p, Plain(ms)) IN
      ~body.raised => (Same(CarriedBy(body), Said(ms)) <=> ~LeavesOut(p, ms))

(***************************************************************************)
(* A result names, in the body, a call of the id that it answers and no    *)
(* call of another id in the same message: what OpenAI's adapters send     *)
(* under the ids they were given, Mistral's under fresh ids and Wenxin's   *)
(* and Gemini's under the names of the functions.  The last two know one   *)
(* call of each message, and the last name of an id: nothing is said of    *)
(* messages with several calls, or of an id that is called again.          *)
(***************************************************************************)
CallsOnce(ms) ==
  /\ \A i \in DOMAIN ms : IsCalls(ms[i]) => Len(ms[i].calls) = 1
  /\ \A i, j \in DOMAIN ms :
       IsCalls(ms[i]) /\ IsCalls(ms[j]) /\ ms[i].calls = ms[j].calls => i = j
ResultsNameTheirCalls ==
  Requested =>
    LET ms == Handed(messages) IN
    \A p \in {"adapter"} \X Tooled :
      LET body == Request(p, Plain(ms))
          sent(i) == body.messages[i - (Len(ms) - Len(body.messages))]
      IN  \A i \in DOMAIN ms :
            /\ ~body.raised
            /\ ms[i].role = "function"
            /\ p[2] \in {"wenxin", "google_gemini"} => CallsOnce(ms)
            => \E k \in 1..(i - 1) :
                 /\ IsCalls(ms[k])
                 /\ DOMAIN sent(k).calls = DOMAIN ms[k].calls
                 /\ \E n \in DOMAIN ms[k].calls : sent(k).calls[n] = sent(i).answers
                 /\ \A n \in DOMAIN ms[k].calls :
                      sent(k).calls[n] = sent(i).answers => ms[k].calls[n] = ms[i].id

(***************************************************************************)
(* Fallbacks share the list of messages.  After one attempt or two, all    *)
(* that was said is still in it, once; it has gained one message at most,  *)
(* the empty one of Bedrock; and an adapter that could send the original   *)
(* list sends all that it would have sent, unless Gemini's has spread a    *)
(* system text into a list of parts, or put it beside calls, where it is   *)
(* left out.                                                               *)
(***************************************************************************)
FallbackSendsAll ==
  Requested =>
    LET ms    == Handed(messages)
        after(lists) == {Left(p, Plain(l)) : p \in Providers, l \in lists}
        spread(l) == \E i \in DOMAIN l : l[i].form = "spread"
        folded(l) == Len(ms) > 1 /\ ms[1].role = "system" /\ l[1].role # "system"
    IN  \A l \in after(after({ms})) :
          /\ Same(Said(l), Said(ms))
          /\ Len(l) + (IF folded(l) THEN 1 ELSE 0)
               = Len(ms) + (IF Last(l) = EmptyAssistant THEN 1 ELSE 0)
          /\ spread(l) <=> folded(l) /\ ms[2].form = "parts" /\ ms[1].form = "text"
          /\ ~spread(l) /\ (folded(l) => ~IsCalls(ms[2])) => \A p \in Providers :
                 LET before == Request(p, Plain(ms))
                     now    == Request(p, Plain(l))
                 IN  ~before.raised /\ p # <<"bedrock", "cohere">> /\ ~LeavesOut(p, ms)
                       => ~now.raised /\ Same(CarriedBy(now), Said(ms))

-----------------------------------------------------------------------------
ConfigKeys == {"temperature", "top_p", "top_k", "max_tokens", "stop"}

\* The values the validation of the configs lets through, as far as adapters
\* tell them apart: both bounds of temperature, top_p and top_k, the lower one
\* of max_tokens, and a list for stop.
ValuesOf(key) ==
  CASE key \in {"temperature", "top_p", "top_k"} -> {"zero", "one", "other"}
    [] key = "max_tokens" -> {"one", "other"}
    [] key = "stop"       -> {"list"}
Given ==
  UNION {{given \in [keys -> UNION {ValuesOf(key) : key \in keys}] :
            \A key \in keys : given[key] \in ValuesOf(key)} : keys \in SUBSET ConfigKeys}

\* The configs that an adapter has a name for.
KnownTo(p) ==
  IF p[2] \in {"hugging_face", "hugging_face_endpoint"} THEN ConfigKeys \ {"stop"} ELSE ConfigKeys

\* The value that an adapter means to send: Zhipu AI takes no bounds, and
\* Replicate takes one string.
MeantBy(p, key, value) ==
  CASE p[2] = "zhipu" /\ key \in {"temperature", "top_p"} /\ value = "zero" -> "raised"
    [] p[2] = "zhipu" /\ key \in {"temperature", "top_p"} /\ value = "one"  -> "lowered"
    [] p[2] = "replicate" /\ key = "stop" -> "joined"
    [] OTHER -> value

(***************************************************************************)
(* Each config given, at zero too, reaches the body under one name and     *)
(* with its own value: no default takes its place, no two configs share a  *)
(* name, and no adapter but Zhipu's (temperature and top_p at 0 or 1) and  *)
(* Replicate's (stop) changes it.  What else is in the body is a default.  *)
(***************************************************************************)
ConfigsSent ==
  Requested /\ Len(messages) = 1 =>
    \A p \in Providers, given \in Given, vision \in BOOLEAN :
      LET body == Request(p, [Plain(Handed(messages)) EXCEPT !.given = given, !.vision = vision])
          named(key) == {n \in DOMAIN body.configs : body.configs[n].key = key}
      IN  ~body.raised =>
            /\ \A key \in DOMAIN given \cap KnownTo(p) : Cardinality(named(key)) = 1
            /\ \A n \in DOMAIN body.configs :
                 \/ body.configs[n] = Default
                 \/ LET key == body.configs[n].key
                    IN  key \in DOMAIN given
                        /\ body.configs[n].value = MeantBy(p, key, given[key])
            /\ Cardinality(named("default")) <= 1
=============================================================================
