------------------------------ MODULE ToolCatalog ------------------------------
(***************************************************************************)
(* Tool collections, tool records and assistants of the admin API: the     *)
(* handlers of core/api/internal/http/handlers/retrieval_mcp_assistant.go  *)
(* with the operations of toolMemoryService and assistantMemoryService     *)
(* (inmemory.go) that they call.  Each operation is one step: it runs      *)
(* under the lock that MemoryState models.                                 *)
(*                                                                         *)
(* Rows are known by their uuids, which are never given out twice.  Left   *)
(* out: display names and UpdatedAt, which nothing reads back, so that     *)
(* UpdateCollection changes nothing here; an assistant's retrieval         *)
(* collections, which are copied around like its tool collections and read *)
(* by nobody; and refused requests, which change nothing.                  *)
(***************************************************************************)
EXTENDS Null, Naturals, Sequences, SequencesExt

CONSTANTS
  Cols, Recs, Asts,  \* uuids of collections, records and assistants
  Scopes,            \* what clients send as a scope: any string
  Tenants,           \* what they send as a tenant id, in the header or the body
  Keys,              \* record keys, up to surrounding space
  BLANK,             \* the blank key, or provider_id
  Descriptors,       \* record values that are JSON with a url
  Junk,              \* record values that are not
  Providers,         \* provider_ids
  MaxClones,         \* bound on the "-clone" suffixes of a version
  MaxRows            \* bound on the rows ever created

ASSUME CatalogAssumption ==
  /\ NULL \notin Tenants \cup Keys \cup Descriptors \cup Providers
  /\ BLANK \notin Providers
  /\ Junk \cap Descriptors = {}
  /\ MaxClones \in Nat
  /\ MaxRows \in Nat

VARIABLES
  toolCols,     \* collections by uuid, NULL if there is none
  toolRecords,  \* records by uuid
  assistants,   \* assistants by uuid
  issued        \* the uuids given out so far

catalogVars == <<toolCols, toolRecords, assistants, issued>>

\* An assistant names the collections whose tools it may call.
ToolLists == BoundedSeq(Cols, 2)

Collection == [scope : Scopes, tenant : Tenants \cup {NULL}]
Record     == [collection : Cols, key : Keys \cup {BLANK}, value : Descriptors \cup Junk]
Assistant  == [scope : Scopes, tenant : Tenants \cup {NULL}, status : {"draft", "active"},
               provider : Providers, tools : ToolLists, clones : 0..MaxClones]

\* validateToolDescriptorJSON
ValidDescriptor(value) == value \in Descriptors

\* A variant with a bug: the tenant id of the body is believed.
RequestTenantOfBody(scope, header, body) == body

(***************************************************************************)
(* Who owns a new row.  The handler overwrites the tenant id of the body   *)
(* by that of the gateway's header when the scope is "tenant"; the service *)
(* stores it only then.                                                    *)
(***************************************************************************)
RequestTenant(scope, header, body) == IF scope = "tenant" THEN header ELSE body

Owner(scope, tenant) == IF scope = "tenant" THEN tenant ELSE NULL

\* uuid.NewString
Issue(id) == /\ id \notin issued /\ Cardinality(issued) < MaxRows
             /\ issued' = issued \cup {id}

-----------------------------------------------------------------------------
CatalogInit ==
  /\ toolCols = [c \in Cols |-> NULL]
  /\ toolRecords = [r \in Recs |-> NULL]
  /\ assistants = [a \in Asts |-> NULL]
  /\ issued = {}

CreateCollection(c, scope, header, body) ==
  /\ Issue(c)
  /\ toolCols' = [toolCols EXCEPT ![c] =
       [scope |-> scope, tenant |-> Owner(scope, RequestTenant(scope, header, body))]]
  /\ UNCHANGED <<toolRecords, assistants>>

\* The records of the collection stay, and so do the assistants' uses of it.
DeleteCollection(c) ==
  /\ c \in issued
  /\ toolCols' = [toolCols EXCEPT ![c] = NULL]
  /\ UNCHANGED <<toolRecords, assistants, issued>>

\* The collection comes from the path and is not looked up.
CreateRecord(r, c, key, value) ==
  /\ ValidDescriptor(value)
  /\ Issue(r)
  /\ toolRecords' = [toolRecords EXCEPT ![r] = [collection |-> c, key |-> key, value |-> value]]
  /\ UNCHANGED <<toolCols, assistants>>

\* A variant with a bug: an update does not validate the value.
UpdateRecordUnchecked(r, key, value) ==
  /\ toolRecords[r] # NULL
  /\ toolRecords' = [toolRecords EXCEPT
       ![r].key   = IF key = NULL THEN @ ELSE key,
       ![r].value = IF value = NULL THEN @ ELSE value]
  /\ UNCHANGED <<toolCols, assistants, issued>>

\* key and value are optional (NULL); the record is found by its own uuid,
\* whatever collection the path names.
UpdateRecord(r, key, value) ==
  /\ toolRecords[r] # NULL
  /\ value # NULL => ValidDescriptor(value)
  /\ toolRecords' = [toolRecords EXCEPT
       ![r].key   = IF key = NULL THEN @ ELSE key,
       ![r].value = IF value = NULL THEN @ ELSE value]
  /\ UNCHANGED <<toolCols, assistants, issued>>

DeleteRecord(r) ==
  /\ r \in issued
  /\ toolRecords' = [toolRecords EXCEPT ![r] = NULL]
  /\ UNCHANGED <<toolCols, assistants, issued>>

CreateAssistant(a, scope, header, body, provider, tools) ==
  /\ provider # BLANK
  /\ Issue(a)
  /\ assistants' = [assistants EXCEPT ![a] =
       [scope |-> scope, tenant |-> Owner(scope, RequestTenant(scope, header, body)),
        status |-> "draft", provider |-> provider, tools |-> tools, clones |-> 0]]
  /\ UNCHANGED <<toolCols, toolRecords>>

\* A variant with a bug: a blank provider_id is stored.
UpdateAssistantBlank(a, provider, tools) ==
  /\ assistants[a] # NULL
  /\ assistants' = [assistants EXCEPT
       ![a].provider = IF provider = NULL THEN @ ELSE provider,
       ![a].tools    = IF tools = NULL THEN @ ELSE tools]
  /\ UNCHANGED <<toolCols, toolRecords, issued>>

\* A blank provider_id is ignored; tools is optional.
UpdateAssistant(a, provider, tools) ==
  /\ assistants[a] # NULL
  /\ assistants' = [assistants EXCEPT
       ![a].provider = IF provider \in {NULL, BLANK} THEN @ ELSE provider,
       ![a].tools    = IF tools = NULL THEN @ ELSE tools]
  /\ UNCHANGED <<toolCols, toolRecords, issued>>

DeleteAssistant(a) ==
  /\ a \in issued
  /\ assistants' = [assistants EXCEPT ![a] = NULL]
  /\ UNCHANGED <<toolCols, toolRecords, issued>>

ActivateAssistant(a) ==
  /\ assistants[a] # NULL
  /\ assistants' = [assistants EXCEPT ![a].status = "active"]
  /\ UNCHANGED <<toolCols, toolRecords, issued>>

\* A variant with a bug: the clone keeps the tenant of its source.
CloneAssistantTenant(src, a, scope, header, body) ==
  /\ assistants[src] # NULL
  /\ assistants[src].clones < MaxClones
  /\ Issue(a)
  /\ assistants' = [assistants EXCEPT ![a] =
       [assistants[src] EXCEPT !.scope = scope, !.clones = @ + 1]]
  /\ UNCHANGED <<toolCols, toolRecords>>

\* A variant with a bug: the clone is made in place.
CloneAssistantInPlace(src, a, scope, header, body) ==
  /\ assistants[src] # NULL
  /\ assistants[src].clones < MaxClones
  /\ Issue(a)
  /\ assistants' = [assistants EXCEPT ![src] =
       [@ EXCEPT !.scope  = scope,
                 !.tenant = Owner(scope, RequestTenant(scope, header, body)),
                 !.clones = @ + 1]]
  /\ UNCHANGED <<toolCols, toolRecords>>

\* The clone keeps everything but the owner and the version.
CloneAssistant(src, a, scope, header, body) ==
  /\ assistants[src] # NULL
  /\ assistants[src].clones < MaxClones
  /\ Issue(a)
  /\ assistants' = [assistants EXCEPT ![a] =
       [assistants[src] EXCEPT
          !.scope  = scope,
          !.tenant = Owner(scope, RequestTenant(scope, header, body)),
          !.clones = @ + 1]]
  /\ UNCHANGED <<toolCols, toolRecords>>

-----------------------------------------------------------------------------
\* What a listing for a scope and a tenant shows of a table.
Listed(table, scope, tenant) ==
  {i \in DOMAIN table : /\ table[i] # NULL
                        /\ table[i].scope = scope
                        /\ scope = "tenant" => table[i].tenant = tenant}

\* What ListRecords shows of a collection.
RecordsOf(c) == {r \in Recs : toolRecords[r] # NULL /\ toolRecords[r].collection = c}

\* Edits of what an assistant may call.
EditTools ==
  \/ \E r \in Recs, c \in Cols, key \in Keys \cup {BLANK}, value \in Descriptors \cup Junk :
       CreateRecord(r, c, key, value)
  \/ \E r \in Recs, key \in Keys \cup {BLANK, NULL}, value \in Descriptors \cup Junk \cup {NULL} :
       UpdateRecord(r, key, value)
  \/ \E r \in Recs : DeleteRecord(r)
  \/ \E a \in Asts, provider \in Providers \cup {BLANK, NULL}, tools \in ToolLists \cup {NULL} :
       UpdateAssistant(a, provider, tools)
  \/ \E a \in Asts : DeleteAssistant(a)

\* A request of the gateway for a tenant.
Administer(header) ==
  \E scope \in Scopes, body \in Tenants :
    \/ \E c \in Cols : CreateCollection(c, scope, header, body)
    \/ \E a \in Asts, provider \in Providers \cup {BLANK}, tools \in ToolLists :
         CreateAssistant(a, scope, header, body, provider, tools)
    \/ \E src, a \in Asts : CloneAssistant(src, a, scope, header, body)

-----------------------------------------------------------------------------
CatalogTypeOK ==
  /\ toolCols \in [Cols -> Collection \cup {NULL}]
  /\ toolRecords \in [Recs -> Record \cup {NULL}]
  /\ assistants \in [Asts -> Assistant \cup {NULL}]
  /\ \A table \in {toolCols, toolRecords, assistants} :
       \A i \in DOMAIN table : table[i] # NULL => i \in issued

(***************************************************************************)
(* A row names a tenant exactly when its scope is "tenant", through every  *)
(* clone from one scope to another: a row of another scope would else show *)
(* up in, or a tenant's row be missing from, the listings.                 *)
(***************************************************************************)
OwnerMatchesScope ==
  \A table \in {toolCols, assistants} : \A i \in DOMAIN table :
    table[i] # NULL => (table[i].scope = "tenant" <=> table[i].tenant # NULL)

\* Every stored record went through validateToolDescriptorJSON, at its
\* creation or at the update that gave it its value.
StoredDescriptorsValid ==
  \A r \in Recs : toolRecords[r] # NULL => ValidDescriptor(toolRecords[r].value)

\* No create, update or clone leaves an assistant without a provider.
AssistantsNameProviders ==
  \A a \in Asts : assistants[a] # NULL => assistants[a].provider \in Providers

(***************************************************************************)
(* A row never changes hands: what one tenant's listing shows never moves  *)
(* to another's, and a clone leaves its source where it was.               *)
(***************************************************************************)
RowsKeepTheirOwner ==
  [][\A a \in Asts :
       assistants[a] # NULL /\ assistants'[a] # NULL =>
         /\ assistants'[a].scope = assistants[a].scope
         /\ assistants'[a].tenant = assistants[a].tenant]_catalogVars
=============================================================================
