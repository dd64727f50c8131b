---------------------------- MODULE ProviderRegistry ----------------------------
(***************************************************************************)
(* The provider registry of the admin API (providerMemoryService in        *)
(* inmemory.go) and the playground, which looks a provider up there and    *)
(* attaches its stored key to a chat before it goes to the LLM hub         *)
(* (attachProviderCredentials in handlers/playground.go).  The hub loads   *)
(* the credentials attached as it loads any others.                        *)
(*                                                                         *)
(* A row is known by its uuid.  Left out: what nothing reads back, as      *)
(* names, icons and whether the row is enabled; and refused requests.      *)
(***************************************************************************)
EXTENDS VerifyCredentials

CONSTANTS
  Rows,         \* uuids of providers
  Keys,         \* API keys
  BLANK,        \* a blank key, or none
  KeyFields,    \* the fields whose name contains API_KEY or TOKEN
  DefaultField  \* "<PROVIDER_ID>_API_KEY" of each provider, a field or not

ASSUME RegistryAssumption == BLANK \notin Keys /\ KeyFields \subseteq Fields

VARIABLES
  providers,  \* the rows by uuid, NULL if there is none
  attached    \* [client, key]: what the playground made the request of, or NULL

registryVars == <<providers, attached>>
vars == <<credentialsVars, registryVars>>

Init == /\ CredentialsInit
        /\ providers = [r \in Rows |-> NULL]
        /\ attached = NULL

\* Nothing keeps two rows from having one provider_id.
CreateProvider(r, p, key) ==
  /\ providers[r] = NULL
  /\ providers' = [providers EXCEPT ![r] = [provider |-> p, key |-> key]]
  /\ UNCHANGED <<credentialsVars, attached>>

\* A blank key leaves the stored one in place, whatever the provider_id becomes.
UpdateProvider(r, p, key) ==
  /\ providers[r] # NULL
  /\ providers' = [providers EXCEPT ![r] =
       [provider |-> p, key |-> IF key = BLANK THEN @.key ELSE key]]
  /\ UNCHANGED <<credentialsVars, attached>>

DeleteProvider(r) ==
  /\ providers[r] # NULL
  /\ providers' = [providers EXCEPT ![r] = NULL]
  /\ UNCHANGED <<credentialsVars, attached>>

-----------------------------------------------------------------------------
\* The fields that the stored key goes to: the only one that is required, else
\* those that are named like a key, and the default one if there are none.
KeyFieldsOf(p) ==
  LET named == IF Cardinality(Required[p]) = 1 THEN Required[p] ELSE Required[p] \cap KeyFields
  IN  IF named = {} THEN {DefaultField[p]} ELSE named

Stored(key) == Plain(<<"stored", key>>)

\* A variant with a bug: the stored key replaces what the client has given.
AttachOver(p, key, client) ==
  [fk \in (KeyFieldsOf(p) \X {0}) \cup DOMAIN client |->
     IF fk \in KeyFieldsOf(p) \X {0} THEN Stored(key) ELSE client[fk]]

\* The credentials of the client win over the stored key.
Attach(p, key, client) ==
  [fk \in (KeyFieldsOf(p) \X {0}) \cup DOMAIN client |->
     IF fk \in DOMAIN client THEN client[fk] ELSE Stored(key)]

\* A chat of the playground: any row of the provider of the first model serves,
\* if it has a key.  Encrypted credentials are dropped, fallbacks passed on.
Chat ==
  /\ request = NULL
  /\ \E r \in Rows, models \in UNION {[1..n -> Providers] : n \in 1..MaxModels}, client \in Inputs :
       /\ providers[r] # NULL /\ providers[r].key # BLANK
       /\ providers[r].provider = models[1]
       /\ request' = [models |-> models, kind |-> NULL, form |-> "plain",
                      given |-> Attach(models[1], providers[r].key, client)]
       /\ attached' = [client |-> client, key |-> providers[r].key]
  /\ pos' = 1
  /\ loaded' = None
  /\ result' = Result("pending")
  /\ UNCHANGED <<env, issued, providers>>

Next ==
  \/ Arrive /\ attached' = NULL /\ UNCHANGED providers
  \/ Serve /\ UNCHANGED registryVars
  \/ Chat
  \/ \E r \in Rows, p \in Providers, key \in Keys \cup {BLANK} :
       CreateProvider(r, p, key) \/ UpdateProvider(r, p, key)
  \/ \E r \in Rows : DeleteProvider(r)

Spec == Init /\ [][Next]_vars

-----------------------------------------------------------------------------
(***************************************************************************)
(* A chat of the playground needs no credentials from the client when its  *)
(* provider requires nothing but keys, and then reaches the provider with  *)
(* the stored key for each of them; what the client gives itself is used   *)
(* instead, one set of it.  A chat is refused for its first model when a   *)
(* field that is no key is missing, and never otherwise.                   *)
(***************************************************************************)
StoredKeyServes ==
  [][attached # NULL /\ request # NULL /\ pos = 1 /\ (pos' = 2 \/ result'.is = "refused") =>
       LET p      == request.models[1]
           own(f) == {k \in Suffixes : <<f, k>> \in DOMAIN attached.client}
       IN  /\ result'.is = "refused" <=>
                \E f \in Required[p] \ KeyFieldsOf(p) : 0 \notin own(f)
           /\ pos' = 2 =>
                \E k \in Suffixes : \A f \in DOMAIN loaded' :
                  loaded'[f] = IF k \in own(f) THEN attached.client[<<f, k>>] ELSE Stored(attached.key)
    ]_vars
=============================================================================
