--------------------------- MODULE VerifyCredentials ---------------------------
(***************************************************************************)
(* The credentials of a request to the LLM hub, from the moment a client   *)
(* sends them for verification to their use with every request after it.   *)
(*                                                                         *)
(* /verify_credentials (llmhub/app/routes/verify/route.py) tries the       *)
(* credentials on the provider and hands them back encrypted; inference    *)
(* requests then send them as encrypted_credentials.                       *)
(* llmhub/app/models/provider_credentials.py reads both forms for each     *)
(* model of the request in turn, so that a request with fallbacks loads    *)
(* several providers' credentials into one object.  A client may give      *)
(* several sets, told apart by a suffix; one of them is used.              *)
(***************************************************************************)
EXTENDS Null, Naturals, Sequences, FiniteSets

CONSTANTS
  Providers, Fields,
  Allowed, Required,  \* credentials_schema of each provider
  Inputs,             \* the credentials clients send
  Environments,       \* what the environment may hold
  MaxModels,          \* bound on the models of a request
  MaxSuffix           \* bound on the suffixes of credential sets

Suffixes == 0..MaxSuffix

(***************************************************************************)
(* Every provider.yml requires a field: this is what ends the search for   *)
(* more sets, in load_input and in load_default.                           *)
(***************************************************************************)
ASSUME ProvidersAssumption ==
  \A p \in Providers : Required[p] # {} /\ Required[p] \subseteq Allowed[p]
                       /\ Allowed[p] \subseteq Fields

\* A value and whether it is encrypted; None is NULL.
Plain(v)  == [text |-> v, encrypted |-> FALSE]
Cipher(x) == [text |-> x.text, encrypted |-> TRUE]

\* Credentials come as strings, in a request's JSON and in the environment.
ASSUME PlainAssumption ==
  /\ \A given \in Inputs \cup Environments : \A fk \in DOMAIN given :
       given[fk] = Plain(given[fk].text)
  /\ MaxModels \in Nat /\ MaxSuffix \in Nat

VARIABLES
  env,      \* the environment: credentials by field and suffix
  issued,   \* [from, for]: the encrypted credentials a client got, and the
            \* values that were verified; NULL before the first verification
  request,  \* the request being served, or NULL
  pos,      \* the model whose credentials are loaded next
  loaded,   \* ProviderCredentials.credentials
  result    \* what the last request came to

credentialsVars == <<env, issued, request, pos, loaded, result>>

None == [f \in {} |-> NULL]

\* What a request came to; "pending" while it is served.
Result(is) == [is |-> is, outcome |-> NULL]

\* What is verified, and what the provider may do about it.
Kinds == {[type |-> "chat", probe |-> FALSE, streaming |-> FALSE, function |-> FALSE]}
         \cup [type : {"chat"}, probe : {TRUE}, streaming : BOOLEAN, function : BOOLEAN]
         \cup [type : {"embedding", "rerank"}, probe : {FALSE},
               streaming : {FALSE}, function : {FALSE}]

Errors == {"http", "url", "connection", "other"}

Outcomes(kind) ==
  Errors \cup CASE kind.type = "chat"      -> {"good", "calls"}
                [] kind.type = "embedding" -> {"good", "wrong size"}
                [] kind.type = "rerank"    -> {"good"}

-----------------------------------------------------------------------------
CredentialsInit ==
  /\ env \in Environments
  /\ issued = NULL
  /\ request = NULL
  /\ pos = 1
  /\ loaded = None
  /\ result = Result("pending")

(***************************************************************************)
(* A request arrives: a verification of one model, or an inference with    *)
(* fallbacks, with credentials as the client knows them, with the          *)
(* encrypted ones of the last verification, with both, or with none.       *)
(***************************************************************************)
Arrive ==
  /\ request = NULL
  /\ \E models \in UNION {[1..n -> Providers] : n \in 1..MaxModels},
        kind \in Kinds \cup {NULL},
        form \in {"plain", "encrypted", "both", "default"} :
       /\ kind # NULL => Len(models) = 1
       /\ form \in {"encrypted", "both"} => issued # NULL
       /\ \E given \in CASE form = "plain"     -> Inputs \ {None}
                         [] form \in {"encrypted", "both"} -> {issued.from}
                         [] form = "default"   -> {env} :
            request' = [models |-> models, kind |-> kind, form |-> form, given |-> given]
  /\ pos' = 1
  /\ loaded' = None
  /\ result' = Result("pending")
  /\ UNCHANGED <<env, issued>>

Ends(r) ==
  /\ result' = r
  /\ request' = NULL
  /\ UNCHANGED <<env, pos>>

Refuse == /\ Ends(Result("refused"))
          /\ loaded' = None
          /\ UNCHANGED issued

-----------------------------------------------------------------------------
\* A variant with a bug: a field without the suffix stands in for one with it.
InputSetMixed(p, given, k) ==
  LET named == {f \in Allowed[p] : <<f, 0>> \in DOMAIN given}
  IN  IF Required[p] \subseteq named
      THEN {[f \in named |-> IF <<f, k>> \in DOMAIN given THEN given[<<f, k>>] ELSE given[<<f, 0>>]]}
      ELSE {}

\* The fields of set k that load_input reads: the suffix is looked up for
\* every field the client gave without one, and a missing one ends the search.
InputSet(p, given, k) ==
  LET named == {f \in Allowed[p] : <<f, 0>> \in DOMAIN given}
  IN  IF Required[p] \subseteq named /\ \A j \in 0..k, f \in named : <<f, j>> \in DOMAIN given
      THEN {[f \in named |-> given[<<f, k>>]]} ELSE {}

\* load_default: a field that is not required may be absent, and is then None.
DefaultSet(p, given, k) ==
  IF \A j \in 0..k, f \in Required[p] : <<f, j>> \in DOMAIN given
  THEN {[f \in Allowed[p] |-> IF <<f, k>> \in DOMAIN given THEN given[<<f, k>>] ELSE NULL]}
  ELSE {}

Sets(p) ==
  UNION {IF request.form = "default" THEN DefaultSet(p, request.given, k)
                                     ELSE InputSet(p, request.given, k) : k \in Suffixes}

\* A variant with a bug: what is loaded stays.
OverlayKeeps(old, new) ==
  [f \in DOMAIN old \cup DOMAIN new |-> IF f \in DOMAIN old THEN old[f] ELSE new[f]]

\* The loop adds to what the models before have loaded.
Overlay(old, new) ==
  [f \in DOMAIN old \cup DOMAIN new |-> IF f \in DOMAIN new THEN new[f] ELSE old[f]]

\* decrypt goes over everything loaded and wants every value encrypted.
Decryptable(creds) == \A f \in DOMAIN creds : creds[f] # NULL /\ creds[f].encrypted

\* A variant with a bug: nothing is decrypted.
DecryptedNot(creds) == creds

Decrypted(creds) == [f \in DOMAIN creds |-> Plain(creds[f].text)]

Encrypted(creds) == [f \in DOMAIN creds |-> IF creds[f] = NULL THEN NULL ELSE Cipher(creds[f])]

\* One turn of the loop of validate_credentials.
Load ==
  /\ request # NULL /\ pos <= Len(request.models)
  /\ LET sets == Sets(request.models[pos])
     IN  \/ /\ request.form = "both" \/ sets = {}
            /\ Refuse
         \/ /\ request.form # "both"
            /\ \E set \in sets :
                 LET creds == Overlay(loaded, set)
                 IN  IF request.form # "encrypted" \/ Decryptable(creds)
                     THEN /\ loaded' = IF request.form = "encrypted" THEN Decrypted(creds)
                                                                     ELSE creds
                          /\ pos' = pos + 1
                          /\ UNCHANGED <<env, issued, request, result>>
                     ELSE Refuse

Loaded == request # NULL /\ pos > Len(request.models)

\* An inference request goes on to its models with the credentials.
Use ==
  /\ Loaded /\ request.kind = NULL
  /\ Ends(Result("used"))
  /\ UNCHANGED <<issued, loaded>>

-----------------------------------------------------------------------------
\* chat_completion turns what it catches into an HTTP error; the stream, the
\* embedding and the reranking raise it as it is.  The checks of the response
\* raise an HTTP error themselves.
Raised(kind, outcome) ==
  CASE outcome = "good"       -> NULL
    [] outcome = "calls"      -> IF kind.probe /\ kind.function THEN NULL ELSE "http"
    [] outcome = "wrong size" -> "http"
    [] outcome \in Errors     -> IF kind.type = "chat" /\ ~kind.streaming THEN "http" ELSE outcome

\* The except clauses that build a TKHttpException and do not raise it.
NotRaised == {"url", "connection"}

\* The try statement and what follows it.
Verify ==
  /\ Loaded /\ request.kind # NULL
  /\ \E outcome \in Outcomes(request.kind) :
       IF Raised(request.kind, outcome) \in {NULL} \cup NotRaised
       THEN /\ Ends([is |-> "verified", outcome |-> outcome])
            /\ loaded' = Encrypted(loaded)
            /\ issued' = [from |-> [fk \in (DOMAIN loaded) \X {0} |-> Encrypted(loaded)[fk[1]]],
                          for |-> loaded]
       ELSE Refuse

Serve == Load \/ Use \/ Verify

-----------------------------------------------------------------------------
ValueOK(x) == x = NULL \/ x.encrypted \in BOOLEAN

\* Nothing is loaded but the fields of the models the loop has been through.
TypeOK ==
  /\ env \in Environments
  /\ issued # NULL => DOMAIN issued.for \subseteq Fields
  /\ request # NULL => \A i \in DOMAIN request.models : request.models[i] \in Providers
  /\ pos \in 1..(MaxModels + 1)
  /\ DOMAIN loaded \subseteq Fields
  /\ request # NULL =>
       DOMAIN loaded \subseteq UNION {Allowed[request.models[i]] : i \in 1..(pos - 1)}
  /\ \A f \in DOMAIN loaded : ValueOK(loaded[f])

(***************************************************************************)
(* What is handed to a provider is never encrypted, and never a mixture of *)
(* two sets: what it gets of the fields given comes from one suffix.  Only *)
(* a later model with some of its fields and not the others can mix them,  *)
(* by loading these from a set of its own.                                 *)
(***************************************************************************)
FromOneSet(p) ==
  \E k \in Suffixes : \A f \in Allowed[p] \cap DOMAIN loaded :
    loaded[f] # NULL => /\ <<f, k>> \in DOMAIN request.given
                        /\ loaded[f].text = request.given[<<f, k>>].text

OneSetInUse ==
  Loaded =>
    /\ \A f \in DOMAIN loaded : loaded[f] # NULL => ~loaded[f].encrypted
    /\ \A i \in DOMAIN request.models :
         LET fields(j) == Allowed[request.models[j]]
         IN  (\A j \in DOMAIN request.models :
                j > i => fields(i) \subseteq fields(j) \/ fields(i) \cap fields(j) = {})
             => FromOneSet(request.models[i])

(***************************************************************************)
(* The credentials a verification issues are, for the provider, the ones   *)
(* that were verified: a request that sends them back encrypted and gets   *)
(* past the decryption uses the same values for the same fields.           *)
(***************************************************************************)
RoundTrip ==
  Loaded /\ request.form = "encrypted" =>
    \A f \in DOMAIN loaded : f \in DOMAIN issued.for /\ loaded[f] = issued.for[f]

(***************************************************************************)
(* Encrypted credentials are refused for a model only when a field is      *)
(* missing or None, or when an earlier model of the request has a field    *)
(* the model lacks, decrypted already: with one provider, any number of    *)
(* fallbacks is accepted.                                                  *)
(***************************************************************************)
EncryptedRefusals ==
  [][ /\ request # NULL /\ request.form = "encrypted" /\ result'.is = "refused"
      /\ pos <= Len(request.models)
      => LET given(p) == {f \in Allowed[p] : <<f, 0>> \in DOMAIN request.given}
             p == request.models[pos]
         IN  \/ ~(Required[p] \subseteq given(p))
             \/ \E f \in given(p) : request.given[<<f, 0>>] = NULL
             \/ \E i \in 1..(pos - 1) : ~(given(request.models[i]) \subseteq given(p))
    ]_credentialsVars

(***************************************************************************)
(* test_validation.py:80, test_validation_with_error_credential: with      *)
(* credentials that cannot work, a host among them, 'status' == 'error'.   *)
(* So a verification that succeeds has had an answer.                      *)
(***************************************************************************)
VerifiedMeansAnswered ==
  result.is = "verified" => result.outcome \in {"good", "calls"}
=============================================================================
