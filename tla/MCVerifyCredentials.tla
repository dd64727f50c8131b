-------------------------- MODULE MCVerifyCredentials --------------------------
(***************************************************************************)
(* ProviderRegistry with four providers whose schemas meet in every way    *)
(* the code tells apart: "ep" has the field of "hf" and one more, as       *)
(* hugging_face_inference_endpoint and hugging_face have, "oa" has an      *)
(* optional field, as openai has, and no field of "aws" is named like a    *)
(* key, as with aws_bedrock.                                               *)
(***************************************************************************)
EXTENDS ProviderRegistry

MCProviders == {"hf", "ep", "oa", "aws"}

MCFields == {"token", "url", "key", "org", "id", "region"}

MCAllowed == [hf |-> {"token"}, ep |-> {"token", "url"}, oa |-> {"key", "org"}, aws |-> {"id", "region"}]

MCRequired == [hf |-> {"token"}, ep |-> {"token", "url"}, oa |-> {"key"}, aws |-> {"id", "region"}]

MCDefaultField == [hf |-> "hf key", ep |-> "ep key", oa |-> "key", aws |-> "aws key"]

\* Every value differs from the others: the field and suffix it was given for.
Given(names) == [fk \in names |-> Plain(fk)]

MCInputs ==
  {None, Given({"token", "url", "key"} \X {0, 1}), Given({"key", "org"} \X {0, 1}),
   Given({"key", "org", "token"} \X {0}), Given({<<"key", 0>>, <<"org", 0>>, <<"key", 1>>})}

\* One without an optional field, one with it and without a provider's url.
MCEnvironments == {Given({"token", "url", "key"} \X {0, 1}), Given({"key", "org", "token"} \X {0})}
=============================================================================
