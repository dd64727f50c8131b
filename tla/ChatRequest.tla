------------------------------ MODULE ChatRequest ------------------------------
(***************************************************************************)
(* A chat completion request from its arrival to its answer                *)
(* (api_chat_completion, llmhub/app/routes/chat_completion/route.py): all  *)
(* its models are looked up, its credentials are loaded, every model is    *)
(* asked whether it can do what the request wants, and only then are the   *)
(* models tried.                                                           *)
(*                                                                         *)
(* The models share one configs object: a config that one of them does not *)
(* know is taken out of it for all, and the value of a config is judged by *)
(* the models that find it there.                                          *)
(***************************************************************************)
EXTENDS ChatFallback

CONSTANTS
  Schemas,   \* the model schemas loaded at startup, by id: [type, named,
             \* properties, configs]; named if it has a provider_model_id
  Features,  \* what a model may be able to do
  Requests   \* the requests clients send: [ids, named, properties, asks, configs]

ASSUME RequestsAssumption ==
  \A r \in Requests : r.asks \subseteq Features /\ DOMAIN r.ids = Models

VARIABLES
  request,  \* data: what has been asked for
  configs,  \* data.configs: the values still in it
  checked,  \* the models that validate_chat_completion_model has let pass
  phase     \* where api_chat_completion is

requestVars == <<request, configs, checked, phase>>
vars == <<chatVars, requestVars>>

Schema(m) == Schemas[request.ids[m]]

-----------------------------------------------------------------------------
Init ==
  /\ ChatInit
  /\ request \in Requests
  /\ stream = ("streaming" \in request.asks)
  /\ configs = request.configs
  /\ checked = 0
  /\ phase = "infos"

\* validate_model_info for a chat completion: a wildcard schema takes the type,
\* and a schema without properties builds them from those of the request.
Resolves(m) ==
  /\ request.ids[m] \in DOMAIN Schemas
  /\ Schema(m).named \/ m \in request.named
  /\ Schema(m).type \in {"chat_completion", "wildcard"}
  /\ Schema(m).properties = NULL => request.properties

\* The infos of all models; then their credentials, which may be refused
\* (VerifyCredentials).
ValidateInfos ==
  /\ phase = "infos"
  /\ \/ (\A m \in Models : Resolves(m)) /\ phase' = "models"
     \/ phase' = "refused"
  /\ UNCHANGED <<chatVars, request, configs, checked>>

\* allow_stream, allow_function_call, allow_vision_input: a schema without
\* properties allows everything.
Allows(schema) == IF schema.properties = NULL THEN Features ELSE schema.properties

\* validate_config_value
Conforms(value, allowed) == value \in allowed

\* A variant with a bug: each model drops the configs from a copy of its own.
DroppedApart(schema) == configs

\* setattr(configs, key, None) for the configs the schema does not list.
Dropped(schema) == [key \in DOMAIN configs \cap DOMAIN schema.configs |-> configs[key]]

\* One turn of the loop over the models.
ValidateModel ==
  /\ phase = "models" /\ checked < N
  /\ LET schema == Schema(checked + 1) IN
     IF /\ request.asks \subseteq Allows(schema)
        /\ \A key \in DOMAIN configs \cap DOMAIN schema.configs :
             Conforms(configs[key], schema.configs[key])
     THEN configs' = Dropped(schema) /\ checked' = checked + 1 /\ UNCHANGED phase
     ELSE phase' = "refused" /\ UNCHANGED <<configs, checked>>
  /\ UNCHANGED <<chatVars, request>>

\* The models are tried, all with the same configs.
Try == /\ phase = "models" /\ checked = N
       /\ phase' = "tried"
       /\ UNCHANGED <<chatVars, request, configs, checked>>

Handle == \/ ValidateInfos \/ ValidateModel \/ Try
          \/ phase = "tried" /\ Attempts /\ UNCHANGED requestVars

Next == Handle \/ (phase = "tried" /\ ClientLeaves /\ UNCHANGED requestVars)

\* Every HTTP call ends, by itself or with aiohttp's total timeout, and with it
\* the call of an adapter; Replicate's, which may not, is Prediction.
Spec == Init /\ [][Next]_vars /\ WF_vars(Handle)

-----------------------------------------------------------------------------
(***************************************************************************)
(* A request that reaches its models asks nothing of the primary or of any *)
(* fallback that it cannot do: the configs they are called with are in the *)
(* schema of each of them, with a value that it allows.  And no config is  *)
(* lost but those that one of the models does not know.                    *)
(***************************************************************************)
EveryModelFits ==
  phase = "tried" =>
    /\ \A m \in Models :
         /\ request.asks \subseteq Allows(Schema(m))
         /\ \A key \in DOMAIN configs :
              key \in DOMAIN Schema(m).configs /\ configs[key] \in Schema(m).configs[key]
    /\ \A key \in DOMAIN request.configs :
         \/ key \in DOMAIN configs /\ configs[key] = request.configs[key]
         \/ \E m \in Models : key \notin DOMAIN Schema(m).configs

\* Every request is refused or answered and every stream is closed with [DONE],
\* unless its client has left.
Closed == <>(phase = "refused" \/ gone \/ Finished)
=============================================================================
