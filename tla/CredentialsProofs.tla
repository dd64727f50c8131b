--------------------------- MODULE CredentialsProofs ---------------------------
(***************************************************************************)
(* Proofs about ProviderRegistry and the VerifyCredentials it extends, for *)
(* any schemas of credentials, any credentials and any number of models,   *)
(* sets and rows.                                                          *)
(***************************************************************************)
EXTENDS ProviderRegistry, TLAPS

\* The plain text of a value, or None.
IsPlain(x) == x = NULL \/ x = Plain(x.text)

\* The fields of a provider that a client has given without a suffix.
NamedFields(p) == {f \in Allowed[p] : <<f, 0>> \in DOMAIN request.given}

RequestInv ==
  /\ env \in Environments
  /\ request # NULL =>
       /\ request.models \in UNION {[1..n -> Providers] : n \in 1..MaxModels}
       /\ request.form \in {"plain", "encrypted", "both", "default"}
       /\ result.is = "pending"
       /\ pos \in 1..(Len(request.models) + 1)
       /\ request.form \in {"plain", "default"} =>
            \A fk \in DOMAIN request.given : IsPlain(request.given[fk])
       /\ request.form = "encrypted" => issued # NULL /\ request.given = issued.from
       /\ request.form = "both" => pos = 1

\* What a client got back is what was verified, encrypted value by value.
IssuedInv ==
  issued # NULL =>
    /\ issued.from = [fk \in (DOMAIN issued.for) \X {0} |-> Encrypted(issued.for)[fk[1]]]
    /\ \A f \in DOMAIN issued.for : IsPlain(issued.for[f])

\* What the models before pos have loaded.
LoadedInv ==
  request # NULL =>
    /\ \A f \in DOMAIN loaded :
         /\ IsPlain(loaded[f])
         /\ \E i \in 1..(pos - 1) :
              IF request.form = "default" THEN f \in Allowed[request.models[i]]
                                          ELSE f \in NamedFields(request.models[i])
         /\ request.form = "encrypted" =>
              f \in DOMAIN issued.for /\ loaded[f] # NULL /\ loaded[f] = issued.for[f]
    /\ \A i \in 1..(pos - 1) :
         LET fields(j) == Allowed[request.models[j]]
         IN  (\A j \in (i + 1)..(pos - 1) :
                fields(i) \subseteq fields(j) \/ fields(i) \cap fields(j) = {})
             => FromOneSet(request.models[i])

\* A request of the playground carries the stored key.
AttachedInv ==
  attached # NULL /\ request # NULL =>
    /\ request.form = "plain"
    /\ request.given = Attach(request.models[1], attached.key, attached.client)

IInv == RequestInv /\ IssuedInv /\ LoadedInv /\ AttachedInv

-----------------------------------------------------------------------------
\* The models of a request: at least one, all of known providers.
LEMMA ModelsOfRequest ==
  ASSUME NEW models \in UNION {[1..n -> Providers] : n \in 1..MaxModels}
  PROVE  /\ Len(models) \in Nat \ {0}
         /\ DOMAIN models = 1..Len(models)
         /\ \A i \in 1..Len(models) : models[i] \in Providers
<1>1. PICK n \in 1..MaxModels : models \in [1..n -> Providers]
  OBVIOUS
<1>2. n \in Nat \ {0}
  BY PlainAssumption
<1>3. models \in Seq(Providers)
  BY <1>1, <1>2
<1>4. QED
  BY <1>1, <1>2, <1>3

\* A set of credentials that load_input or load_default finds for a provider
\* has the fields it looks for, all with the values of one suffix.
LEMMA SetOfOneSuffix ==
  ASSUME NEW p \in Providers, NEW set \in Sets(p)
  PROVE  /\ DOMAIN set = IF request.form = "default" THEN Allowed[p] ELSE NamedFields(p)
         /\ \E k \in Suffixes :
              /\ \A f \in DOMAIN set :
                   \/ <<f, k>> \in DOMAIN request.given /\ set[f] = request.given[<<f, k>>]
                   \/ request.form = "default" /\ set[f] = NULL
              /\ request.form # "default" =>
                   /\ Required[p] \subseteq NamedFields(p)
                   /\ \A j \in 0..k, f \in NamedFields(p) : <<f, j>> \in DOMAIN request.given
                   /\ \A f \in DOMAIN set : set[f] = request.given[<<f, k>>]
<1>1. CASE request.form = "default"
  <2>1. PICK k \in Suffixes : set \in DefaultSet(p, request.given, k)
    BY <1>1 DEF Sets
  <2>2. set = [f \in Allowed[p] |-> IF <<f, k>> \in DOMAIN request.given
                                    THEN request.given[<<f, k>>] ELSE NULL]
    BY <2>1 DEF DefaultSet
  <2>3. QED
    BY <1>1, <2>2
<1>2. CASE request.form # "default"
  <2>1. PICK k \in Suffixes : set \in InputSet(p, request.given, k)
    BY <1>2 DEF Sets
  <2>2. /\ set = [f \in NamedFields(p) |-> request.given[<<f, k>>]]
        /\ Required[p] \subseteq NamedFields(p)
        /\ \A j \in 0..k, f \in NamedFields(p) : <<f, j>> \in DOMAIN request.given
    BY <2>1 DEF InputSet, NamedFields
  <2>3. k \in 0..k
    BY PlainAssumption DEF Suffixes
  <2>4. \A f \in NamedFields(p) : <<f, k>> \in DOMAIN request.given
    BY <2>2, <2>3
  <2>5. QED
    BY <1>2, <2>2, <2>4
<1>3. QED
  BY <1>1, <1>2

\* Without suffixes there is one set: the fields named, if none is missing.
LEMMA InputSetWithoutSuffix ==
  ASSUME NEW p \in Providers, request.form # "default"
  PROVE  Sets(p) = {} <=> ~(Required[p] \subseteq NamedFields(p))
<1>1. 0 \in Suffixes /\ 0..0 = {0}
  BY PlainAssumption DEF Suffixes
<1>2. \A k \in Suffixes : InputSet(p, request.given, k) # {} => Required[p] \subseteq NamedFields(p)
  BY DEF InputSet, NamedFields
<1>3. Required[p] \subseteq NamedFields(p) => InputSet(p, request.given, 0) # {}
  <2>1. \A j \in 0..0, f \in NamedFields(p) : <<f, j>> \in DOMAIN request.given
    BY <1>1 DEF NamedFields
  <2>2. QED
    BY <2>1 DEF InputSet, NamedFields
<1>4. \A set : set \in Sets(p) <=> \E k \in Suffixes : set \in InputSet(p, request.given, k)
  BY DEF Sets
<1>5. QED
  BY <1>1, <1>2, <1>3, <1>4

-----------------------------------------------------------------------------
\* The hub starts without a request and without issued credentials.
LEMMA Initially == Init => IInv
BY DEF Init, CredentialsInit, IInv, RequestInv, IssuedInv, LoadedInv, AttachedInv

\* A request that ends leaves nothing to say about what it has loaded.
LEMMA EndKeeps ==
  ASSUME IInv, request' = NULL, UNCHANGED env, IssuedInv'
  PROVE  IInv'
BY DEF IInv, RequestInv, LoadedInv, AttachedInv

\* A request that is refused keeps the invariant: nothing is left loaded.
LEMMA RefuseKeeps ==
  ASSUME IInv, Refuse
  PROVE  IInv'
<1>1. request' = NULL /\ UNCHANGED <<env, issued>>
  BY DEF Refuse, Ends
<1>2. IssuedInv'
  BY <1>1 DEF IInv, IssuedInv, Encrypted
<1>3. QED
  BY <1>1, <1>2, EndKeeps

\* A turn of the loop that loads a set: the fields of the set replace what was
\* loaded, and encrypted values are decrypted.
LEMMA SetLoaded ==
  ASSUME IInv, request # NULL, pos <= Len(request.models), request.form # "both",
         NEW set \in Sets(request.models[pos]),
         NEW creds, creds = Overlay(loaded, set),
         request.form # "encrypted" \/ Decryptable(creds),
         loaded' = IF request.form = "encrypted" THEN Decrypted(creds) ELSE creds
  PROVE  /\ DOMAIN loaded' = DOMAIN loaded \cup DOMAIN set
         /\ \A f \in DOMAIN set :
              IF request.form = "encrypted" THEN set[f] # NULL /\ loaded'[f] = Plain(set[f].text)
                                            ELSE loaded'[f] = set[f]
         /\ \A f \in DOMAIN loaded : f \notin DOMAIN set => loaded'[f] = loaded[f]
<1>1. /\ DOMAIN creds = DOMAIN loaded \cup DOMAIN set
      /\ \A f \in DOMAIN set : creds[f] = set[f]
      /\ \A f \in DOMAIN loaded : f \notin DOMAIN set => creds[f] = loaded[f]
  BY DEF Overlay
<1>2. CASE request.form = "encrypted"
  <2>1. /\ DOMAIN loaded' = DOMAIN creds
        /\ \A f \in DOMAIN creds : creds[f] # NULL /\ loaded'[f] = Plain(creds[f].text)
    BY <1>2 DEF Decrypted, Decryptable
  <2>2. \A f \in DOMAIN loaded : loaded[f] # NULL /\ IsPlain(loaded[f])
    BY <1>2 DEF IInv, LoadedInv
  <2>3. \A f \in DOMAIN loaded : loaded[f] = Plain(loaded[f].text)
    BY <2>2 DEF IsPlain
  <2>4. QED
    BY <1>1, <1>2, <2>1, <2>3
<1>3. CASE request.form # "encrypted"
  BY <1>1, <1>3
<1>4. QED
  BY <1>2, <1>3

\* Issued credentials have no suffixes, so that no second set is found in them.
LEMMA OneIssuedSet ==
  ASSUME IInv, request # NULL, request.form = "encrypted", NEW p \in Providers,
         NEW set \in Sets(p), NEW f \in DOMAIN set
  PROVE  /\ f \in NamedFields(p) /\ <<f, 0>> \in DOMAIN request.given
         /\ f \in DOMAIN issued.for
         /\ set[f] = request.given[<<f, 0>>]
         /\ set[f] = Encrypted(issued.for)[f]
<1>1. PICK k \in Suffixes :
        /\ Required[p] \subseteq NamedFields(p)
        /\ \A j \in 0..k, g \in NamedFields(p) : <<g, j>> \in DOMAIN request.given
        /\ \A g \in DOMAIN set : set[g] = request.given[<<g, k>>]
  BY SetOfOneSuffix
<1>2. f \in NamedFields(p) /\ <<f, 0>> \in DOMAIN request.given
  <2>1. DOMAIN set = NamedFields(p)
    BY SetOfOneSuffix
  <2>2. QED
    BY <2>1 DEF NamedFields
<1>3. /\ DOMAIN request.given = (DOMAIN issued.for) \X {0}
      /\ \A fk \in DOMAIN request.given : request.given[fk] = Encrypted(issued.for)[fk[1]]
  BY DEF IInv, RequestInv, IssuedInv
<1>4. k = 0
  <2>1. PICK g \in Required[p] : TRUE
    BY ProvidersAssumption
  <2>2. k \in 0..k
    BY PlainAssumption DEF Suffixes
  <2>3. <<g, k>> \in DOMAIN request.given
    BY <1>1, <2>2
  <2>4. QED
    BY <1>3, <2>3
<1>5. f \in DOMAIN issued.for /\ set[f] = Encrypted(issued.for)[f]
  BY <1>1, <1>2, <1>3, <1>4
<1>6. QED
  BY <1>1, <1>2, <1>4, <1>5

\* What comes back of issued credentials is what was verified.
LEMMA BackAgain ==
  ASSUME IInv, request # NULL, request.form = "encrypted", NEW p \in Providers,
         NEW set \in Sets(p), NEW f \in DOMAIN set, set[f] # NULL
  PROVE  f \in DOMAIN issued.for /\ issued.for[f] # NULL /\ Plain(set[f].text) = issued.for[f]
<1>1. f \in DOMAIN issued.for /\ set[f] = Encrypted(issued.for)[f]
  BY OneIssuedSet
<1>2. issued.for[f] # NULL /\ set[f] = Cipher(issued.for[f])
  BY <1>1 DEF Encrypted
<1>3. IsPlain(issued.for[f])
  BY <1>1 DEF IInv, RequestInv, IssuedInv
<1>4. issued.for[f] = Plain(issued.for[f].text)
  BY <1>2, <1>3 DEF IsPlain
<1>5. Cipher(issued.for[f]).text = issued.for[f].text
  BY DEF Cipher
<1>6. QED
  BY <1>1, <1>2, <1>4, <1>5

\* The step of the loop keeps what is said of the models before it, and says
\* it of one model more.
LEMMA AdvanceKeeps ==
  ASSUME IInv, request # NULL, pos <= Len(request.models), request.form # "both",
         NEW set \in Sets(request.models[pos]),
         DOMAIN loaded' = DOMAIN loaded \cup DOMAIN set,
         \A f \in DOMAIN set :
           IF request.form = "encrypted" THEN set[f] # NULL /\ loaded'[f] = Plain(set[f].text)
                                         ELSE loaded'[f] = set[f],
         \A f \in DOMAIN loaded : f \notin DOMAIN set => loaded'[f] = loaded[f],
         pos' = pos + 1, UNCHANGED <<env, issued, request, result, attached>>
  PROVE  IInv'
<1> DEFINE p == request.models[pos]
<1>1. /\ request.models \in UNION {[1..n -> Providers] : n \in 1..MaxModels}
      /\ request.form \in {"plain", "encrypted", "default"}
      /\ pos \in 1..(Len(request.models) + 1)
  BY DEF IInv, RequestInv
<1>2. Len(request.models) \in Nat \ {0}
  BY <1>1, ModelsOfRequest
<1>3. pos \in 1..Len(request.models)
  BY <1>1, <1>2
<1>4. pos \in Nat \ {0} /\ p \in Providers
  BY <1>1, <1>2, <1>3, ModelsOfRequest
<1>5. DOMAIN set = IF request.form = "default" THEN Allowed[p] ELSE NamedFields(p)
  BY <1>4, SetOfOneSuffix
<1>6. PICK k \in Suffixes :
        \A f \in DOMAIN set :
          \/ <<f, k>> \in DOMAIN request.given /\ set[f] = request.given[<<f, k>>]
          \/ request.form = "default" /\ set[f] = NULL
  BY <1>4, SetOfOneSuffix
<1> HIDE DEF p
<1>7. RequestInv'
  BY <1>1, <1>2, <1>3 DEF IInv, RequestInv
<1>8. IssuedInv' /\ AttachedInv'
  BY DEF IInv, IssuedInv, AttachedInv, Encrypted
<1>9. ASSUME NEW f \in DOMAIN loaded'
      PROVE  /\ IsPlain(loaded'[f])
             /\ request.form = "encrypted" =>
                  f \in DOMAIN issued.for /\ loaded'[f] # NULL /\ loaded'[f] = issued.for[f]
  <2>1. CASE f \notin DOMAIN set
    BY <1>9, <2>1 DEF IInv, LoadedInv
  <2>2. CASE f \in DOMAIN set /\ request.form = "encrypted"
    <3>1. /\ f \in DOMAIN issued.for /\ issued.for[f] # NULL
          /\ Plain(set[f].text) = issued.for[f]
      BY <1>4, <2>2, BackAgain DEF p
    <3>2. Plain(set[f].text) = Plain(Plain(set[f].text).text)
      BY DEF Plain
    <3>3. QED
      BY <2>2, <3>1, <3>2 DEF IsPlain
  <2>3. CASE f \in DOMAIN set /\ request.form # "encrypted"
    <3>1. \A fk \in DOMAIN request.given : IsPlain(request.given[fk])
      BY <1>1, <2>3 DEF IInv, RequestInv
    <3>2. IsPlain(NULL)
      BY DEF IsPlain
    <3>3. QED
      BY <1>6, <2>3, <3>1, <3>2
  <2>4. QED
    BY <2>1, <2>2, <2>3
<1>10. 1..(pos' - 1) = 1..(pos - 1) \cup {pos}
  BY <1>4
<1>11. ASSUME NEW f \in DOMAIN loaded'
       PROVE  \E i \in 1..(pos' - 1) :
                IF request.form = "default" THEN f \in Allowed[request.models[i]]
                                            ELSE f \in NamedFields(request.models[i])
  <2>1. CASE f \in DOMAIN set
    BY <1>5, <1>10, <2>1 DEF p
  <2>2. CASE f \in DOMAIN loaded
    BY <1>10, <2>2 DEF IInv, LoadedInv
  <2>3. QED
    BY <2>1, <2>2
<1>12. \A f \in DOMAIN loaded : f \in Allowed[p] => f \in DOMAIN set
  <2>1. CASE request.form = "default"
    BY <1>5, <2>1
  <2>2. CASE request.form # "default"
    BY <1>5, <2>2 DEF IInv, LoadedInv, NamedFields
  <2>3. QED
    BY <2>1, <2>2
<1>13. \A f \in DOMAIN set : loaded'[f] # NULL =>
         <<f, k>> \in DOMAIN request.given /\ loaded'[f].text = request.given[<<f, k>>].text
  <2>1. \A v : Plain(v).text = v
    BY DEF Plain
  <2>2. QED
    BY <1>1, <1>6, <2>1
<1>14. DOMAIN set \subseteq Allowed[p]
  BY <1>5 DEF NamedFields
<1>15. ASSUME NEW i \in 1..(pos' - 1),
              \A j \in (i + 1)..(pos' - 1) :
                \/ Allowed[request.models[i]] \subseteq Allowed[request.models[j]]
                \/ Allowed[request.models[i]] \cap Allowed[request.models[j]] = {}
       PROVE  FromOneSet(request.models[i])'
  <2>1. CASE i = pos
    <3>1. \A f \in Allowed[p] \cap DOMAIN loaded' : f \in DOMAIN set
      BY <1>12
    <3>2. QED
      BY <1>13, <2>1, <3>1 DEF FromOneSet, p
  <2>2. CASE i \in 1..(pos - 1)
    <3>1. pos \in (i + 1)..(pos' - 1) /\ (i + 1)..(pos - 1) \subseteq (i + 1)..(pos' - 1)
      BY <1>4, <2>2
    <3>2. FromOneSet(request.models[i])
      BY <1>15, <2>2, <3>1 DEF IInv, LoadedInv
    <3>3. CASE Allowed[request.models[i]] \subseteq Allowed[p]
      <4>1. \A f \in Allowed[request.models[i]] \cap DOMAIN loaded' : f \in DOMAIN set
        BY <1>12, <3>3
      <4>2. QED
        BY <1>13, <4>1 DEF FromOneSet
    <3>4. CASE Allowed[request.models[i]] \cap Allowed[p] = {}
      <4>1. \A f \in Allowed[request.models[i]] \cap DOMAIN loaded' :
              f \in DOMAIN loaded /\ loaded'[f] = loaded[f]
        BY <1>14, <3>4
      <4>2. QED
        BY <3>2, <4>1 DEF FromOneSet
    <3>5. QED
      BY <1>15, <3>1, <3>3, <3>4 DEF p
  <2>3. QED
    BY <1>10, <2>1, <2>2
<1>16. LoadedInv'
  <2>1. UNCHANGED <<request, issued>> /\ \A q : NamedFields(q)' = NamedFields(q)
    BY DEF NamedFields
  <2>2. QED
    BY <1>9, <1>11, <1>15, <2>1 DEF LoadedInv
<1>17. QED
  BY <1>7, <1>8, <1>16 DEF IInv

\* One turn of the loop of validate_credentials keeps the invariant, whether it loads
\* the client's set, one of the environment's, or refuses the request.
LEMMA LoadKeeps ==
  ASSUME IInv, Load, UNCHANGED registryVars
  PROVE  IInv'
<1>1. CASE Refuse
  BY <1>1, RefuseKeeps
<1>2. ASSUME NEW set \in Sets(request.models[pos]), request.form # "both",
             request.form # "encrypted" \/ Decryptable(Overlay(loaded, set)),
             loaded' = IF request.form = "encrypted" THEN Decrypted(Overlay(loaded, set))
                                                     ELSE Overlay(loaded, set),
             pos' = pos + 1, UNCHANGED <<env, issued, request, result>>
      PROVE  IInv'
  <2> DEFINE creds == Overlay(loaded, set)
  <2>1. request # NULL /\ pos <= Len(request.models) /\ UNCHANGED attached
    BY DEF Load, registryVars
  <2>2. creds = Overlay(loaded, set)
    OBVIOUS
  <2> HIDE DEF creds
  <2>3. /\ DOMAIN loaded' = DOMAIN loaded \cup DOMAIN set
        /\ \A f \in DOMAIN set :
             IF request.form = "encrypted" THEN set[f] # NULL /\ loaded'[f] = Plain(set[f].text)
                                           ELSE loaded'[f] = set[f]
        /\ \A f \in DOMAIN loaded : f \notin DOMAIN set => loaded'[f] = loaded[f]
    BY <1>2, <2>1, <2>2, SetLoaded
  <2>4. QED
    BY <1>2, <2>1, <2>3, AdvanceKeeps
<1>3. QED
  BY <1>1, <1>2 DEF Load

\* What a verification issues is what has been loaded for it, encrypted.
LEMMA VerifyKeeps ==
  ASSUME IInv, Verify
  PROVE  IInv'
<1>1. CASE Refuse
  BY <1>1, RefuseKeeps
<1>2. ASSUME request' = NULL, UNCHANGED env,
             issued' = [from |-> [fk \in (DOMAIN loaded) \X {0} |-> Encrypted(loaded)[fk[1]]],
                        for |-> loaded]
      PROVE  IInv'
  <2>1. \A f \in DOMAIN loaded : IsPlain(loaded[f])
    BY DEF Verify, Loaded, IInv, LoadedInv
  <2>2. /\ issued'.from = [fk \in (DOMAIN loaded) \X {0} |-> Encrypted(loaded)[fk[1]]]
        /\ issued'.for = loaded
    BY <1>2
  <2>3. IssuedInv'
    BY <2>1, <2>2 DEF IssuedInv, Encrypted
  <2>4. QED
    BY <1>2, <2>3, EndKeeps
<1>3. QED
  BY <1>1, <1>2 DEF Verify, Ends

\* A request that arrives has loaded nothing.
LEMMA ArriveKeeps ==
  ASSUME IInv, Arrive, attached' = NULL
  PROVE  IInv'
<1>1. PICK models \in UNION {[1..n -> Providers] : n \in 1..MaxModels},
           kind \in Kinds \cup {NULL},
           form \in {"plain", "encrypted", "both", "default"} :
        /\ form \in {"encrypted", "both"} => issued # NULL
        /\ \E given \in CASE form = "plain"     -> Inputs \ {None}
                          [] form \in {"encrypted", "both"} -> {issued.from}
                          [] form = "default"   -> {env} :
             request' = [models |-> models, kind |-> kind, form |-> form, given |-> given]
  BY DEF Arrive
<1>2. PICK given \in CASE form = "plain"     -> Inputs \ {None}
                       [] form \in {"encrypted", "both"} -> {issued.from}
                       [] form = "default"   -> {env} :
        request' = [models |-> models, kind |-> kind, form |-> form, given |-> given]
  BY <1>1
<1>3. /\ request'.models = models /\ request'.form = form /\ request'.given = given
      /\ pos' = 1 /\ loaded' = None /\ result'.is = "pending"
      /\ UNCHANGED <<env, issued>>
  BY <1>2 DEF Arrive, Result
<1>4. /\ form = "plain" => given \in Inputs
      /\ form = "encrypted" => given = issued.from
      /\ form = "default" => given = env
  BY <1>2
<1>5. RequestInv'
  <2>1. form \in {"plain", "default"} =>
          \A fk \in DOMAIN given : IsPlain(given[fk])
    BY <1>4, PlainAssumption DEF IInv, RequestInv, IsPlain
  <2>2. Len(models) \in Nat \ {0}
    BY ModelsOfRequest
  <2>3. 1 \in 1..(Len(models) + 1)
    BY <2>2
  <2>4. QED
    BY <1>1, <1>3, <1>4, <2>1, <2>3 DEF IInv, RequestInv
<1>6. IssuedInv'
  BY <1>3 DEF IInv, IssuedInv, Encrypted
<1>7. LoadedInv'
  <2>1. DOMAIN loaded' = {} /\ 1..(pos' - 1) = {}
    BY <1>3 DEF None
  <2>2. QED
    BY <2>1 DEF LoadedInv
<1>8. AttachedInv'
  BY DEF AttachedInv
<1>9. QED
  BY <1>5, <1>6, <1>7, <1>8 DEF IInv

\* The stored key that the playground attaches is plain text, like what the
\* client has given.
LEMMA ChatKeeps ==
  ASSUME IInv, Chat
  PROVE  IInv'
<1>1. PICK r \in Rows, models \in UNION {[1..n -> Providers] : n \in 1..MaxModels},
           client \in Inputs :
        /\ request' = [models |-> models, kind |-> NULL, form |-> "plain",
                       given |-> Attach(models[1], providers[r].key, client)]
        /\ attached' = [client |-> client, key |-> providers[r].key]
  BY DEF Chat
<1> DEFINE given == Attach(models[1], providers[r].key, client)
<1>2. /\ request'.models = models /\ request'.form = "plain" /\ request'.given = given
      /\ attached'.client = client /\ attached'.key = providers[r].key
      /\ pos' = 1 /\ loaded' = None /\ result'.is = "pending"
      /\ UNCHANGED <<env, issued>>
  BY <1>1 DEF Chat, Result
<1>3. \A fk \in DOMAIN given : \/ fk \in DOMAIN client /\ given[fk] = client[fk]
                               \/ given[fk] = Stored(providers[r].key)
  BY DEF Attach
<1>4. RequestInv'
  <2>1. IsPlain(Stored(providers[r].key))
    BY DEF Stored, IsPlain, Plain
  <2>2. \A fk \in DOMAIN given : IsPlain(given[fk])
    BY <1>3, <2>1, PlainAssumption DEF IsPlain
  <2>3. Len(models) \in Nat \ {0}
    BY ModelsOfRequest
  <2>4. 1 \in 1..(Len(models) + 1)
    BY <2>3
  <2>5. QED
    BY <1>2, <2>2, <2>4 DEF IInv, RequestInv
<1>5. IssuedInv'
  BY <1>2 DEF IInv, IssuedInv, Encrypted
<1>6. LoadedInv'
  <2>1. DOMAIN loaded' = {} /\ 1..(pos' - 1) = {}
    BY <1>2 DEF None
  <2>2. QED
    BY <2>1 DEF LoadedInv
<1>7. AttachedInv'
  BY <1>2 DEF AttachedInv
<1>8. QED
  BY <1>4, <1>5, <1>6, <1>7 DEF IInv

\* The registry does not touch the request being served.
LEMMA RegistryKeeps ==
  ASSUME IInv, UNCHANGED <<credentialsVars, attached>>
  PROVE  IInv'
<1>1. UNCHANGED <<env, issued, request, pos, loaded, result, attached>>
  BY DEF credentialsVars
<1>2. \A p : /\ NamedFields(p)' = NamedFields(p)
             /\ FromOneSet(p)' <=> FromOneSet(p)
  BY <1>1 DEF NamedFields, FromOneSet
<1>3. RequestInv' /\ IssuedInv' /\ AttachedInv'
  BY <1>1 DEF IInv, RequestInv, IssuedInv, AttachedInv, Encrypted
<1>4. LoadedInv'
  BY <1>1, <1>2 DEF IInv, LoadedInv
<1>5. QED
  BY <1>3, <1>4 DEF IInv

\* Every step of a client, of the hub and of the registry keeps the invariant.
LEMMA Inductive == IInv /\ [Next]_vars => IInv'
<1> SUFFICES ASSUME IInv, [Next]_vars
             PROVE  IInv'
  OBVIOUS
<1>1. CASE Arrive /\ attached' = NULL
  BY <1>1, ArriveKeeps
<1>2. CASE Serve /\ UNCHANGED registryVars
  <2>1. CASE Load
    BY <1>2, <2>1, LoadKeeps
  <2>2. CASE Use
    <3>1. request' = NULL /\ UNCHANGED <<env, issued>>
      BY <2>2 DEF Use, Ends
    <3>2. IssuedInv'
      BY <3>1 DEF IInv, IssuedInv, Encrypted
    <3>3. QED
      BY <3>1, <3>2, EndKeeps
  <2>3. CASE Verify
    BY <2>3, VerifyKeeps
  <2>4. QED
    BY <1>2, <2>1, <2>2, <2>3 DEF Serve
<1>3. CASE Chat
  BY <1>3, ChatKeeps
<1>4. ASSUME NEW r \in Rows, NEW p \in Providers, NEW key \in Keys \cup {BLANK},
             CreateProvider(r, p, key) \/ UpdateProvider(r, p, key)
      PROVE  IInv'
  BY <1>4, RegistryKeeps DEF CreateProvider, UpdateProvider
<1>5. ASSUME NEW r \in Rows, DeleteProvider(r)
      PROVE  IInv'
  BY <1>5, RegistryKeeps DEF DeleteProvider
<1>6. CASE UNCHANGED vars
  BY <1>6, RegistryKeeps DEF vars, registryVars
<1>7. QED
  BY <1>1, <1>2, <1>3, <1>4, <1>5, <1>6 DEF Next

\* IInv is an invariant of credentials, verifications and the provider registry.
LEMMA Invariance == Spec => []IInv
BY Initially, Inductive, PTL DEF Spec

-----------------------------------------------------------------------------
\* None and plain texts are values.
LEMMA PlainIsValue ==
  ASSUME NEW x, IsPlain(x)
  PROVE  ValueOK(x)
<1>1. CASE x = NULL
  BY <1>1 DEF ValueOK
<1>2. CASE x = Plain(x.text)
  <2>1. Plain(x.text).encrypted \in BOOLEAN
    BY DEF Plain
  <2>2. QED
    BY <1>2, <2>1 DEF ValueOK
<1>3. QED
  BY <1>1, <1>2 DEF IsPlain

\* So are encrypted ones.
LEMMA CipherIsValue ==
  ASSUME NEW x
  PROVE  ValueOK(Cipher(x))
BY DEF ValueOK, Cipher

\* What a request has loaded is fields of its models, with values.
RequestTypes ==
  /\ DOMAIN loaded \subseteq UNION {Allowed[request.models[i]] : i \in 1..(pos - 1)}
  /\ DOMAIN loaded \subseteq Fields
  /\ \A f \in DOMAIN loaded : ValueOK(loaded[f])
  /\ \A i \in DOMAIN request.models : request.models[i] \in Providers
  /\ pos \in 1..(MaxModels + 1)

\* The invariant types what is loaded for the request being served.
LEMMA LoadedTypes == IInv => (request # NULL => RequestTypes)
<1> SUFFICES ASSUME IInv, request # NULL
             PROVE  RequestTypes
  OBVIOUS
<1>1. request.models \in UNION {[1..n -> Providers] : n \in 1..MaxModels}
  BY DEF IInv, RequestInv
<1>2. /\ Len(request.models) \in Nat \ {0}
      /\ Len(request.models) <= MaxModels
      /\ DOMAIN request.models = 1..Len(request.models)
      /\ \A i \in 1..Len(request.models) : request.models[i] \in Providers
  BY <1>1, PlainAssumption
<1>3. pos \in 1..(Len(request.models) + 1)
  BY DEF IInv, RequestInv
<1>4. \A f \in DOMAIN loaded :
        IsPlain(loaded[f]) /\ \E i \in 1..(pos - 1) : f \in Allowed[request.models[i]]
  BY DEF IInv, LoadedInv, NamedFields
<1>5. \A i \in 1..(pos - 1) : Allowed[request.models[i]] \subseteq Fields
  BY <1>2, <1>3, ProvidersAssumption
<1>6. \A f \in DOMAIN loaded : ValueOK(loaded[f])
  BY <1>4, PlainIsValue
<1>7. pos \in 1..(MaxModels + 1)
  BY <1>2, <1>3, PlainAssumption
<1>8. QED
  BY <1>2, <1>4, <1>5, <1>6, <1>7 DEF RequestTypes

\* What a step may leave behind: a client gets what was loaded, and at the end
\* of a request it is left, dropped or encrypted.
LEMMA StepLeaves ==
  ASSUME [Next]_vars
  PROVE  /\ env' = env
         /\ issued' = issued \/ issued'.for = loaded
         /\ request' # NULL \/ (pos' \in {1, pos} /\ loaded' \in {loaded, None, Encrypted(loaded)})
<1>1. CASE Arrive
  BY <1>1 DEF Arrive
<1>2. CASE Refuse
  BY <1>2 DEF Refuse, Ends
<1>3. CASE Load
  BY <1>2, <1>3 DEF Load
<1>4. CASE Use
  BY <1>4 DEF Use, Ends
<1>5. CASE Verify
  BY <1>2, <1>5 DEF Verify, Ends
<1>6. CASE Chat
  BY <1>6 DEF Chat
<1>7. CASE UNCHANGED credentialsVars
  BY <1>7 DEF credentialsVars
<1>8. QED
  BY <1>1, <1>3, <1>4, <1>5, <1>6, <1>7
     DEF Next, Serve, vars, CreateProvider, UpdateProvider, DeleteProvider

\* The variables keep their types, between the requests as well.
THEOREM CredentialTypes == Spec => []TypeOK
<1>1. Init => TypeOK
  BY PlainAssumption DEF Init, CredentialsInit, TypeOK, None
<1>2. ASSUME TypeOK, IInv', (request # NULL => RequestTypes)', [Next]_vars
      PROVE  TypeOK'
  <2>1. /\ env' = env
        /\ issued' = issued \/ issued'.for = loaded
        /\ request' # NULL \/ (pos' \in {1, pos} /\ loaded' \in {loaded, None, Encrypted(loaded)})
    BY <1>2, StepLeaves
  <2>2. (env \in Environments)' /\ (issued # NULL => DOMAIN issued.for \subseteq Fields)'
    BY <1>2, <2>1 DEF TypeOK
  <2>3. CASE request' # NULL
    BY <1>2, <2>2, <2>3 DEF TypeOK, RequestTypes
  <2>4. CASE request' = NULL
    <3>1. pos' \in 1..(MaxModels + 1)
      BY <1>2, <2>1, <2>4, PlainAssumption DEF TypeOK
    <3>2. DOMAIN loaded' \subseteq Fields /\ \A f \in DOMAIN loaded' : ValueOK(loaded'[f])
      <4>1. CASE loaded' = loaded
        BY <1>2, <4>1 DEF TypeOK
      <4>2. CASE loaded' = None
        BY <4>2 DEF None
      <4>3. CASE loaded' = Encrypted(loaded)
        <5>1. ValueOK(NULL)
          BY DEF ValueOK
        <5>2. /\ DOMAIN loaded' = DOMAIN loaded
              /\ \A f \in DOMAIN loaded : loaded'[f] \in {NULL, Cipher(loaded[f])}
          BY <4>3 DEF Encrypted
        <5>3. QED
          BY <1>2, <5>1, <5>2, CipherIsValue DEF TypeOK
      <4>4. QED
        BY <2>1, <2>4, <4>1, <4>2, <4>3
    <3>3. QED
      BY <2>2, <2>4, <3>1, <3>2 DEF TypeOK
  <2>5. QED
    BY <2>3, <2>4
<1>3. QED
  BY <1>1, <1>2, Invariance, LoadedTypes, PTL DEF Spec

-----------------------------------------------------------------------------
\* What is handed to a provider is plain text, and of one set.
THEOREM OneSetIsUsed == Spec => []OneSetInUse
<1>1. ASSUME IInv, Loaded
      PROVE  /\ \A f \in DOMAIN loaded : loaded[f] # NULL => ~loaded[f].encrypted
             /\ pos - 1 = Len(request.models)
             /\ DOMAIN request.models = 1..Len(request.models)
  <2>1. \A f \in DOMAIN loaded : IsPlain(loaded[f])
    BY <1>1 DEF IInv, LoadedInv, Loaded
  <2>2. \A v : ~Plain(v).encrypted
    BY DEF Plain
  <2>3. /\ Len(request.models) \in Nat /\ pos \in 1..(Len(request.models) + 1)
        /\ DOMAIN request.models = 1..Len(request.models)
    BY <1>1, ModelsOfRequest DEF IInv, RequestInv, Loaded
  <2>4. pos - 1 = Len(request.models)
    BY <1>1, <2>3 DEF Loaded
  <2>5. QED
    BY <2>1, <2>2, <2>3, <2>4 DEF IsPlain
<1>2. ASSUME IInv, Loaded, NEW i \in DOMAIN request.models,
             \A j \in DOMAIN request.models : j > i =>
               \/ Allowed[request.models[i]] \subseteq Allowed[request.models[j]]
               \/ Allowed[request.models[i]] \cap Allowed[request.models[j]] = {}
      PROVE  FromOneSet(request.models[i])
  <2>1. Len(request.models) \in Nat
    BY <1>2, ModelsOfRequest DEF IInv, RequestInv, Loaded
  <2>2. i \in 1..(pos - 1) /\ \A j \in (i + 1)..(pos - 1) : j \in DOMAIN request.models /\ j > i
    BY <1>1, <1>2, <2>1
  <2>3. QED
    BY <1>2, <2>2 DEF IInv, LoadedInv, Loaded
<1>3. IInv => OneSetInUse
  BY <1>1, <1>2 DEF OneSetInUse
<1>4. QED
  BY Invariance, <1>3, PTL

\* Encrypted credentials that come back are the ones that were verified.
THEOREM IssuedComeBack == Spec => []RoundTrip
<1>1. IInv => RoundTrip
  BY DEF IInv, LoadedInv, RoundTrip, Loaded
<1>2. QED
  BY Invariance, <1>1, PTL

-----------------------------------------------------------------------------
\* Why encrypted credentials may be refused, as EncryptedRefusals states it.
RefusedFor ==
  request # NULL /\ request.form = "encrypted" /\ result'.is = "refused"
  /\ pos <= Len(request.models)
  => LET given(p) == {f \in Allowed[p] : <<f, 0>> \in DOMAIN request.given}
         p == request.models[pos]
     IN  \/ ~(Required[p] \subseteq given(p))
         \/ \E f \in given(p) : request.given[<<f, 0>>] = NULL
         \/ \E i \in 1..(pos - 1) : ~(given(request.models[i]) \subseteq given(p))

\* A refusal of complete encrypted credentials is due to an earlier model:
\* what its fields have become is plain text.
LEMMA LoadRefuses ==
  ASSUME IInv, Load, request.form = "encrypted", Refuse,
         NEW p, p = request.models[pos],
         Required[p] \subseteq NamedFields(p),
         \A f \in NamedFields(p) : request.given[<<f, 0>>] # NULL
  PROVE  \E i \in 1..(pos - 1) : ~(NamedFields(request.models[i]) \subseteq NamedFields(p))
<1>1. request # NULL /\ pos <= Len(request.models)
  BY DEF Load
<1>2. p \in Providers /\ pos \in Nat
  BY <1>1, ModelsOfRequest DEF IInv, RequestInv
<1>3. Sets(p) # {}
  BY <1>2, InputSetWithoutSuffix
<1>4. PICK set \in Sets(p) : ~Decryptable(Overlay(loaded, set))
  <2>1. pos' # pos + 1
    BY <1>2 DEF Refuse, Ends
  <2>2. QED
    BY <1>3, <2>1 DEF Load
<1>5. PICK f \in DOMAIN Overlay(loaded, set) :
        Overlay(loaded, set)[f] = NULL \/ ~Overlay(loaded, set)[f].encrypted
  BY <1>4 DEF Decryptable
<1>6. f \notin DOMAIN set
  <2>1. SUFFICES ASSUME f \in DOMAIN set
                 PROVE  FALSE
    OBVIOUS
  <2>2. /\ f \in NamedFields(p) /\ f \in DOMAIN issued.for
        /\ set[f] = request.given[<<f, 0>>]
        /\ set[f] = Encrypted(issued.for)[f]
    BY <1>1, <1>2, <2>1, OneIssuedSet
  <2>3. set[f] # NULL
    BY <2>2
  <2>4. set[f] = Cipher(issued.for[f])
    BY <2>2, <2>3 DEF Encrypted
  <2>5. Overlay(loaded, set)[f] = set[f]
    BY <2>1 DEF Overlay
  <2>6. QED
    BY <1>5, <2>3, <2>4, <2>5 DEF Cipher
<1>7. f \in DOMAIN loaded
  BY <1>5, <1>6 DEF Overlay
<1>8. f \notin NamedFields(p)
  BY <1>2, <1>4, <1>6, SetOfOneSuffix
<1>9. \E i \in 1..(pos - 1) : f \in NamedFields(request.models[i])
  BY <1>1, <1>7 DEF IInv, LoadedInv
<1>10. QED
  BY <1>8, <1>9

\* Every step from a state of the invariant that refuses encrypted credentials has
\* the reason that RefusedFor names.
LEMMA StepRefusesFor == IInv /\ [Next]_vars => [RefusedFor]_credentialsVars
<1> SUFFICES ASSUME IInv, [Next]_vars, credentialsVars' # credentialsVars,
                    request # NULL, request.form = "encrypted", result'.is = "refused",
                    pos <= Len(request.models)
             PROVE  LET p == request.models[pos]
                    IN  \/ ~(Required[p] \subseteq NamedFields(p))
                        \/ \E f \in NamedFields(p) : request.given[<<f, 0>>] = NULL
                        \/ \E i \in 1..(pos - 1) :
                             ~(NamedFields(request.models[i]) \subseteq NamedFields(p))
  BY DEF RefusedFor, NamedFields
<1>1. result.is = "pending"
  BY DEF IInv, RequestInv
<1>2. Len(request.models) \in Nat /\ pos \in Nat
  BY ModelsOfRequest DEF IInv, RequestInv
<1>3. ~Loaded
  BY <1>2 DEF Loaded
<1>4. Load
  BY <1>3 DEF Next, Serve, Use, Verify, Arrive, Chat, CreateProvider, UpdateProvider,
              DeleteProvider, vars, credentialsVars
<1>5. Refuse
  BY <1>1, <1>4 DEF Load
<1>6. QED
  BY <1>4, <1>5, LoadRefuses

\* Complete encrypted credentials are refused only after a model of another
\* provider.
THEOREM RefusalsHaveReasons == Spec => EncryptedRefusals
<1>1. IInv /\ [Next]_vars => [RefusedFor]_credentialsVars
  BY StepRefusesFor
<1>2. QED
  BY Invariance, <1>1, PTL DEF Spec, EncryptedRefusals, RefusedFor

-----------------------------------------------------------------------------
\* What the stored key does for a chat of the playground, as StoredKeyServes
\* states it.
ServedByKey ==
  attached # NULL /\ request # NULL /\ pos = 1 /\ (pos' = 2 \/ result'.is = "refused") =>
    LET p      == request.models[1]
        own(f) == {k \in Suffixes : <<f, k>> \in DOMAIN attached.client}
    IN  /\ result'.is = "refused" <=>
             \E f \in Required[p] \ KeyFieldsOf(p) : 0 \notin own(f)
        /\ pos' = 2 =>
             \E k \in Suffixes : \A f \in DOMAIN loaded' :
               loaded'[f] = IF k \in own(f) THEN attached.client[<<f, k>>] ELSE Stored(attached.key)

\* Every step from a state of the invariant on which a chat of the playground loads
\* its credentials takes or refuses them as ServedByKey says.
LEMMA StepServesByKey == IInv /\ [Next]_vars => [ServedByKey]_vars
<1> SUFFICES ASSUME IInv, Next, attached # NULL, request # NULL, pos = 1,
                    pos' = 2 \/ result'.is = "refused"
             PROVE  ServedByKey
  BY DEF ServedByKey
<1> DEFINE p == request.models[1]
           own(f) == {k \in Suffixes : <<f, k>> \in DOMAIN attached.client}
           client == attached.client
<1>1. /\ request.form = "plain"
      /\ request.given = Attach(p, attached.key, client)
      /\ result.is = "pending"
  BY DEF IInv, RequestInv, AttachedInv
<1>2. Len(request.models) \in Nat \ {0} /\ p \in Providers
  BY ModelsOfRequest DEF IInv, RequestInv
<1>3. DOMAIN loaded = {}
  BY DEF IInv, LoadedInv
<1>4. \A fk : /\ fk \in DOMAIN request.given
                   <=> fk \in KeyFieldsOf(p) \X {0} \/ fk \in DOMAIN client
              /\ fk \in DOMAIN request.given =>
                   request.given[fk] = IF fk \in DOMAIN client THEN client[fk]
                                                               ELSE Stored(attached.key)
  BY <1>1 DEF Attach
<1>5. 0 \in Suffixes
  BY PlainAssumption DEF Suffixes
<1> HIDE DEF p
<1>6. Sets(p) = {} <=> \E f \in Required[p] \ KeyFieldsOf(p) : 0 \notin own(f)
  <2>1. Sets(p) = {} <=> ~(Required[p] \subseteq NamedFields(p))
    BY <1>1, <1>2, InputSetWithoutSuffix
  <2>2. Required[p] \subseteq Allowed[p]
    BY <1>2, ProvidersAssumption
  <2>3. \A f \in Required[p] :
          f \in NamedFields(p) <=> f \in KeyFieldsOf(p) \/ <<f, 0>> \in DOMAIN client
    BY <1>4, <2>2 DEF NamedFields
  <2>4. QED
    BY <1>5, <2>1, <2>3
<1>7. Load
  <2>1. ~Loaded
    BY <1>2 DEF Loaded
  <2>2. QED
    BY <1>1, <2>1 DEF Next, Serve, Use, Verify, Arrive, Chat, CreateProvider, UpdateProvider,
                      DeleteProvider, credentialsVars
<1>8. CASE Sets(p) = {}
  <2>1. Refuse
    BY <1>7, <1>8 DEF Load, p
  <2>2. result'.is = "refused" /\ pos' # 2
    BY <2>1 DEF Refuse, Ends, Result
  <2>3. QED
    BY <1>6, <1>8, <2>2 DEF ServedByKey, p
<1>9. CASE Sets(p) # {}
  <2>1. PICK set \in Sets(p) : loaded' = Overlay(loaded, set) /\ pos' = pos + 1 /\ result' = result
    BY <1>1, <1>7, <1>9 DEF Load, p
  <2>2. PICK k \in Suffixes :
          \A f \in DOMAIN set : <<f, k>> \in DOMAIN request.given /\ set[f] = request.given[<<f, k>>]
    BY <1>1, <1>2, SetOfOneSuffix
  <2>3. DOMAIN loaded' = DOMAIN set /\ \A f \in DOMAIN set : loaded'[f] = set[f]
    BY <1>3, <2>1 DEF Overlay
  <2>4. \A f \in DOMAIN loaded' :
          loaded'[f] = IF k \in own(f) THEN client[<<f, k>>] ELSE Stored(attached.key)
    BY <1>4, <2>2, <2>3
  <2>5. result'.is # "refused"
    BY <1>1, <2>1
  <2>6. QED
    BY <1>6, <1>9, <2>4, <2>5 DEF ServedByKey, p
<1>10. QED
  BY <1>8, <1>9

\* The playground reaches a provider that wants only keys with the stored key,
\* and is refused when a field that is no key is missing.
THEOREM StoredKeysServe == Spec => StoredKeyServes
<1>1. IInv /\ [Next]_vars => [ServedByKey]_vars
  BY StepServesByKey
<1>2. QED
  BY Invariance, <1>1, PTL DEF Spec, StoredKeyServes, ServedByKey
=============================================================================
