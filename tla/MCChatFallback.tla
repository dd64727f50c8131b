----------------------------- MODULE MCChatFallback -----------------------------
(***************************************************************************)
(* ChatRequest with two fallbacks and up to two chunks of each model: a    *)
(* model can fail before, between and after its chunks, twice in a row.    *)
(* The schemas differ in all that the validation looks at.                 *)
(***************************************************************************)
EXTENDS ChatRequest, TLC

MCFeatures == {"streaming", "vision"}

Chat(properties, allowed) ==
  [type |-> "chat_completion", named |-> TRUE, properties |-> properties, configs |-> allowed]

\* "cool" allows only low temperatures and "bare" has no such config.
MCSchemas ==
  [full  |-> Chat(MCFeatures, "temperature" :> {"low", "high"}),
   cool  |-> Chat({"streaming"}, "temperature" :> {"low"}),
   bare  |-> Chat(MCFeatures, <<>>),
   own   |-> [type |-> "wildcard", named |-> FALSE, properties |-> NULL, configs |-> <<>>],
   embed |-> [type |-> "text_embedding", named |-> TRUE, properties |-> NULL, configs |-> <<>>]]

MCIds == DOMAIN MCSchemas \cup {"unknown"}

MCRequests ==
  [ids : [1..3 -> MCIds], named : {{}, {1, 2}}, properties : BOOLEAN, asks : SUBSET MCFeatures,
   configs : {<<>>, "temperature" :> "low", "temperature" :> "high"}]
=============================================================================
