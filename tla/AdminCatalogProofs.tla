--------------------------- MODULE AdminCatalogProofs ---------------------------
(***************************************************************************)
(* Proofs about AdminCatalog, for any number of uuids, tenants, scopes and *)
(* record values: type correctness, who owns and who sees a row, what is   *)
(* stored of tools and assistants, and that no row changes hands.          *)
(***************************************************************************)
EXTENDS AdminCatalog, TLAPS

Retrieval == [scope : Scopes, tenant : Tenants \cup {NULL}, status : {"queued", "indexing"}]

RetrievalTypeOK ==
  /\ retrievals \in [Rets -> Retrieval \cup {NULL}]
  /\ documents \in [Docs -> Rets \cup {NULL}]
  /\ maker \in [Owned -> Tenants \cup {NULL}]
  /\ \A q \in Rets : retrievals[q] # NULL => q \in issued

\* A row that a tenant's listing may show belongs to the tenant that made it.
RowsAreTheirMakers ==
  /\ \A c \in Cols : toolCols[c] # NULL /\ toolCols[c].scope = "tenant"
                       => toolCols[c].tenant = maker[c]
  /\ \A a \in Asts : assistants[a] # NULL /\ assistants[a].scope = "tenant"
                       => assistants[a].tenant = maker[a]
  /\ \A q \in Rets : retrievals[q] # NULL /\ retrievals[q].scope = "tenant"
                       => retrievals[q].tenant = maker[q]

IInv ==
  /\ CatalogTypeOK
  /\ RetrievalTypeOK
  /\ OwnerMatchesScope
  /\ StoredDescriptorsValid
  /\ AssistantsNameProviders
  /\ RowsAreTheirMakers

-----------------------------------------------------------------------------
\* The admin API starts with empty tables.
LEMMA Initially == Init => IInv
BY DEF Init, CatalogInit, RetrievalInit, Owned, IInv, CatalogTypeOK, RetrievalTypeOK,
       OwnerMatchesScope, StoredDescriptorsValid, AssistantsNameProviders,
       RowsAreTheirMakers

\* A new row has an owner exactly when its scope is "tenant", and it is the
\* tenant of the gateway's header, whatever the body says.
LEMMA NewOwner ==
  ASSUME NEW scope \in Scopes, NEW header \in Tenants, NEW body \in Tenants
  PROVE  LET owner == Owner(scope, RequestTenant(scope, header, body)) IN
         /\ owner \in Tenants \cup {NULL}
         /\ scope = "tenant" <=> owner # NULL
         /\ scope = "tenant" => owner = header
BY CatalogAssumption DEF Owner, RequestTenant

\* uuid.NewString gives an id that no row of any table has, and Made leaves
\* the makers of all other rows as they were.
LEMMA FreshRow ==
  ASSUME IInv, NEW id \in Owned, NEW header \in Tenants, Issue(id), Made(header)
  PROVE  /\ id \notin issued
         /\ issued' = issued \cup {id}
         /\ maker' \in [Owned -> Tenants \cup {NULL}]
         /\ maker'[id] = header
         /\ \A other \in Owned \ {id} : maker'[other] = maker[other]
BY DEF IInv, RetrievalTypeOK, Issue, Made

\* CreateCollection makes its row with Owner, whose tenant is the header's for a row
\* of the tenant scope: the invariant holds of the new row and of the others.
LEMMA CreateCollectionKeeps ==
  ASSUME IInv, NEW c \in Cols, NEW scope \in Scopes, NEW header \in Tenants,
         NEW body \in Tenants, CreateCollection(c, scope, header, body),
         UNCHANGED retrievalVars, Made(header)
  PROVE  IInv'
<1> DEFINE owner == Owner(scope, RequestTenant(scope, header, body))
           row == [scope |-> scope, tenant |-> owner]
<1>1. /\ toolCols' = [toolCols EXCEPT ![c] = row]
      /\ Issue(c)
      /\ UNCHANGED <<toolRecords, assistants, retrievals, documents>>
  BY DEF CreateCollection, retrievalVars
<1>2. /\ row \in Collection
      /\ scope = "tenant" <=> owner # NULL
      /\ scope = "tenant" => owner = header
  BY NewOwner DEF Collection
<1>3. c \in Owned
  BY DEF Owned
<1>4. /\ c \notin issued
      /\ issued' = issued \cup {c}
      /\ maker' \in [Owned -> Tenants \cup {NULL}]
      /\ maker'[c] = header
      /\ \A other \in Owned \ {c} : maker'[other] = maker[other]
  BY <1>1, <1>3, FreshRow
<1>5. CatalogTypeOK'
  BY <1>1, <1>2, <1>4 DEF IInv, CatalogTypeOK
<1>6. RetrievalTypeOK'
  BY <1>1, <1>4 DEF IInv, RetrievalTypeOK
<1>7. OwnerMatchesScope'
  BY <1>1, <1>2 DEF IInv, CatalogTypeOK, OwnerMatchesScope
<1>8. StoredDescriptorsValid' /\ AssistantsNameProviders'
  BY <1>1 DEF IInv, StoredDescriptorsValid, AssistantsNameProviders
<1>9. RowsAreTheirMakers'
  BY <1>1, <1>2, <1>4
     DEF IInv, CatalogTypeOK, RetrievalTypeOK, RowsAreTheirMakers, Owned
<1>10. QED
  BY <1>5, <1>6, <1>7, <1>8, <1>9 DEF IInv

\* An assistant is created for a provider, and every clone of it has one.
LEMMA NewAssistantKeeps ==
  ASSUME IInv, NEW a \in Asts, NEW row \in Assistant, NEW header \in Tenants,
         row.scope = "tenant" <=> row.tenant # NULL,
         row.scope = "tenant" => row.tenant = header,
         Issue(a), assistants' = [assistants EXCEPT ![a] = row],
         UNCHANGED <<toolCols, toolRecords, retrievalVars>>, Made(header)
  PROVE  IInv'
<1>1. UNCHANGED <<toolCols, toolRecords, retrievals, documents>>
  BY DEF retrievalVars
<1>2. a \in Owned
  BY DEF Owned
<1>3. /\ a \notin issued
      /\ issued' = issued \cup {a}
      /\ maker' \in [Owned -> Tenants \cup {NULL}]
      /\ maker'[a] = header
      /\ \A other \in Owned \ {a} : maker'[other] = maker[other]
  BY <1>2, FreshRow
<1>4. CatalogTypeOK'
  BY <1>1, <1>3 DEF IInv, CatalogTypeOK
<1>5. RetrievalTypeOK'
  BY <1>1, <1>3 DEF IInv, RetrievalTypeOK
<1>6. OwnerMatchesScope'
  BY <1>1 DEF IInv, CatalogTypeOK, OwnerMatchesScope
<1>7. StoredDescriptorsValid'
  BY <1>1 DEF IInv, StoredDescriptorsValid
<1>8. AssistantsNameProviders'
  BY <1>1 DEF IInv, CatalogTypeOK, AssistantsNameProviders, Assistant
<1>9. RowsAreTheirMakers'
  BY <1>1, <1>3 DEF IInv, CatalogTypeOK, RetrievalTypeOK, RowsAreTheirMakers, Owned
<1>10. QED
  BY <1>4, <1>5, <1>6, <1>7, <1>8, <1>9 DEF IInv

\* CreateAssistant keeps the invariant: it names a provider, and the owner of its row
\* is the one Owner gives.
LEMMA CreateAssistantKeeps ==
  ASSUME IInv, NEW a \in Asts, NEW scope \in Scopes, NEW header \in Tenants,
         NEW body \in Tenants, NEW provider \in Providers \cup {BLANK},
         NEW tools \in ToolLists,
         CreateAssistant(a, scope, header, body, provider, tools),
         UNCHANGED retrievalVars, Made(header)
  PROVE  IInv'
<1> DEFINE owner == Owner(scope, RequestTenant(scope, header, body))
           row == [scope |-> scope, tenant |-> owner, status |-> "draft",
                   provider |-> provider, tools |-> tools, clones |-> 0]
<1>1. /\ owner \in Tenants \cup {NULL}
      /\ scope = "tenant" <=> owner # NULL
      /\ scope = "tenant" => owner = header
  BY NewOwner
<1>2. provider \in Providers
  BY DEF CreateAssistant
<1>3. row \in Assistant
  BY <1>1, <1>2, CatalogAssumption DEF Assistant
<1>4. /\ Issue(a)
      /\ assistants' = [assistants EXCEPT ![a] = row]
      /\ UNCHANGED <<toolCols, toolRecords, retrievalVars>>
  BY DEF CreateAssistant
<1>5. /\ row.scope = "tenant" <=> row.tenant # NULL
      /\ row.scope = "tenant" => row.tenant = header
  BY <1>1
<1> HIDE DEF row
<1>6. QED
  BY <1>3, <1>4, <1>5, NewAssistantKeeps

\* CloneAssistant keeps the invariant: the copy takes over the source's provider and
\* tools, which were valid, under the scope and the owner of the new request.
LEMMA CloneAssistantKeeps ==
  ASSUME IInv, NEW src \in Asts, NEW a \in Asts, NEW scope \in Scopes,
         NEW header \in Tenants, NEW body \in Tenants,
         CloneAssistant(src, a, scope, header, body),
         UNCHANGED retrievalVars, Made(header)
  PROVE  IInv'
<1> DEFINE owner == Owner(scope, RequestTenant(scope, header, body))
           row == [assistants[src] EXCEPT !.scope = scope, !.tenant = owner,
                                          !.clones = @ + 1]
<1>1. /\ owner \in Tenants \cup {NULL}
      /\ scope = "tenant" <=> owner # NULL
      /\ scope = "tenant" => owner = header
  BY NewOwner
<1>2. assistants[src] \in Assistant /\ assistants[src].clones < MaxClones
  BY DEF CloneAssistant, IInv, CatalogTypeOK
<1>3. row \in Assistant
  <2>1. assistants[src].clones + 1 \in 0..MaxClones
    BY <1>2, CatalogAssumption DEF Assistant
  <2>2. QED
    BY <1>1, <1>2, <2>1 DEF Assistant
<1>4. /\ row.scope = "tenant" <=> row.tenant # NULL
      /\ row.scope = "tenant" => row.tenant = header
  BY <1>1, <1>2 DEF Assistant
<1>5. /\ Issue(a)
      /\ assistants' = [assistants EXCEPT ![a] = row]
      /\ UNCHANGED <<toolCols, toolRecords, retrievalVars>>
  BY DEF CloneAssistant
<1> HIDE DEF row
<1>6. QED
  BY <1>3, <1>4, <1>5, NewAssistantKeeps

\* Creating a retrieval collection keeps the invariant, for the same reason as
\* creating a tool collection.
LEMMA CreateRetrievalKeeps ==
  ASSUME IInv, NEW q \in Rets, NEW scope \in Scopes, NEW header \in Tenants,
         NEW body \in Tenants, CreateRetrieval(q, scope, header, body), Made(header)
  PROVE  IInv'
<1> DEFINE owner == Owner(scope, RequestTenant(scope, header, body))
           row == [scope |-> scope, tenant |-> owner, status |-> "queued"]
<1>1. /\ retrievals' = [retrievals EXCEPT ![q] = row]
      /\ Issue(q)
      /\ UNCHANGED <<toolCols, toolRecords, assistants, documents>>
  BY DEF CreateRetrieval
<1>2. /\ row \in Retrieval
      /\ scope = "tenant" => owner = header
  BY NewOwner DEF Retrieval
<1>3. q \in Owned
  BY DEF Owned
<1>4. /\ q \notin issued
      /\ issued' = issued \cup {q}
      /\ maker' \in [Owned -> Tenants \cup {NULL}]
      /\ maker'[q] = header
      /\ \A other \in Owned \ {q} : maker'[other] = maker[other]
  BY <1>1, <1>3, FreshRow
<1>5. CatalogTypeOK'
  BY <1>1, <1>4 DEF IInv, CatalogTypeOK
<1>6. RetrievalTypeOK'
  BY <1>1, <1>2, <1>4 DEF IInv, RetrievalTypeOK
<1>7. OwnerMatchesScope' /\ StoredDescriptorsValid' /\ AssistantsNameProviders'
  BY <1>1 DEF IInv, OwnerMatchesScope, StoredDescriptorsValid, AssistantsNameProviders
<1>8. RowsAreTheirMakers'
  BY <1>1, <1>2, <1>4
     DEF IInv, CatalogTypeOK, RetrievalTypeOK, RowsAreTheirMakers, Owned
<1>9. QED
  BY <1>5, <1>6, <1>7, <1>8 DEF IInv

\* An update that names a provider names a real one, and one that gives a
\* record a value gives it a valid one; neither touches the owner of a row.
LEMMA EditToolsKeeps ==
  ASSUME IInv, EditTools, UNCHANGED <<retrievalVars, maker>>
  PROVE  IInv'
<1> USE DEF retrievalVars
<1>1. ASSUME NEW r \in Recs, NEW c \in Cols, NEW key \in Keys \cup {BLANK},
             NEW value \in Descriptors \cup Junk, CreateRecord(r, c, key, value)
      PROVE  IInv'
  <2>1. /\ value \in Descriptors
        /\ issued' = issued \cup {r}
        /\ toolRecords' = [toolRecords EXCEPT
             ![r] = [collection |-> c, key |-> key, value |-> value]]
        /\ UNCHANGED <<toolCols, assistants>>
    BY <1>1 DEF CreateRecord, Issue, ValidDescriptor
  <2>2. CatalogTypeOK'
    BY <2>1 DEF IInv, CatalogTypeOK, Record
  <2>3. StoredDescriptorsValid'
    BY <2>1 DEF IInv, CatalogTypeOK, StoredDescriptorsValid, ValidDescriptor
  <2>4. QED
    BY <2>1, <2>2, <2>3
       DEF IInv, RetrievalTypeOK, OwnerMatchesScope, AssistantsNameProviders, RowsAreTheirMakers
<1>2. ASSUME NEW r \in Recs, NEW key \in Keys \cup {BLANK, NULL},
             NEW value \in Descriptors \cup Junk \cup {NULL}, UpdateRecord(r, key, value)
      PROVE  IInv'
  <2>1. /\ toolRecords[r] \in Record
        /\ r \in issued
        /\ value # NULL => value \in Descriptors
        /\ UNCHANGED <<toolCols, assistants, issued>>
    BY <1>2 DEF UpdateRecord, ValidDescriptor, IInv, CatalogTypeOK
  <2> DEFINE row == [toolRecords[r] EXCEPT !.key = IF key = NULL THEN @ ELSE key,
                                           !.value = IF value = NULL THEN @ ELSE value]
  <2>2. toolRecords' = [toolRecords EXCEPT ![r] = row]
    BY <1>2 DEF UpdateRecord, IInv, CatalogTypeOK
  <2>3. row \in Record /\ (row.value \in Descriptors \/ row.value = toolRecords[r].value)
    BY <2>1 DEF Record
  <2> HIDE DEF row
  <2>4. CatalogTypeOK'
    BY <2>1, <2>2, <2>3 DEF IInv, CatalogTypeOK
  <2>5. StoredDescriptorsValid'
    BY <2>1, <2>2, <2>3, <1>2
       DEF IInv, CatalogTypeOK, StoredDescriptorsValid, ValidDescriptor, UpdateRecord
  <2>6. QED
    BY <2>1, <2>4, <2>5
       DEF IInv, RetrievalTypeOK, OwnerMatchesScope, AssistantsNameProviders, RowsAreTheirMakers
<1>3. ASSUME NEW r \in Recs, DeleteRecord(r)
      PROVE  IInv'
  BY <1>3 DEF DeleteRecord, IInv, CatalogTypeOK, RetrievalTypeOK, OwnerMatchesScope,
              StoredDescriptorsValid, AssistantsNameProviders, RowsAreTheirMakers
<1>4. ASSUME NEW a \in Asts, NEW provider \in Providers \cup {BLANK, NULL},
             NEW tools \in ToolLists \cup {NULL}, UpdateAssistant(a, provider, tools)
      PROVE  IInv'
  <2>1. /\ assistants[a] \in Assistant
        /\ a \in issued
        /\ UNCHANGED <<toolCols, toolRecords, issued>>
    BY <1>4 DEF UpdateAssistant, IInv, CatalogTypeOK
  <2> DEFINE row == [assistants[a] EXCEPT
                       !.provider = IF provider \in {NULL, BLANK} THEN @ ELSE provider,
                       !.tools = IF tools = NULL THEN @ ELSE tools]
  <2>2. assistants' = [assistants EXCEPT ![a] = row]
    BY <1>4 DEF UpdateAssistant, IInv, CatalogTypeOK
  <2>3. row \in Assistant /\ row.scope = assistants[a].scope /\ row.tenant = assistants[a].tenant
    BY <2>1 DEF Assistant
  <2> HIDE DEF row
  <2>4. CatalogTypeOK'
    BY <2>1, <2>2, <2>3 DEF IInv, CatalogTypeOK
  <2>5. OwnerMatchesScope' /\ RowsAreTheirMakers'
    BY <1>4, <2>1, <2>2, <2>3
       DEF IInv, CatalogTypeOK, OwnerMatchesScope, RowsAreTheirMakers, UpdateAssistant
  <2>6. AssistantsNameProviders'
    BY <2>1, <2>2, <2>3
       DEF IInv, CatalogTypeOK, AssistantsNameProviders, Assistant
  <2>7. QED
    BY <2>1, <2>4, <2>5, <2>6 DEF IInv, RetrievalTypeOK, StoredDescriptorsValid
<1>5. ASSUME NEW a \in Asts, DeleteAssistant(a)
      PROVE  IInv'
  BY <1>5 DEF DeleteAssistant, IInv, CatalogTypeOK, RetrievalTypeOK, OwnerMatchesScope,
              StoredDescriptorsValid, AssistantsNameProviders, RowsAreTheirMakers
<1>6. QED
  BY <1>1, <1>2, <1>3, <1>4, <1>5 DEF EditTools

\* The operations that make no row (updates, records, documents, deletions) leave
\* every scope and tenant as the creating request has set them.
LEMMA EditRowsKeeps ==
  ASSUME IInv, EditRows, UNCHANGED maker
  PROVE  IInv'
<1> USE DEF retrievalVars, catalogVars
<1>1. CASE EditTools /\ UNCHANGED retrievalVars
  BY <1>1, EditToolsKeeps
<1>2. ASSUME NEW c \in Cols, DeleteCollection(c), UNCHANGED retrievalVars
      PROVE  IInv'
  BY <1>2 DEF DeleteCollection, IInv, CatalogTypeOK, RetrievalTypeOK, OwnerMatchesScope,
              StoredDescriptorsValid, AssistantsNameProviders, RowsAreTheirMakers
<1>3. ASSUME NEW a \in Asts, ActivateAssistant(a), UNCHANGED retrievalVars
      PROVE  IInv'
  BY <1>3 DEF ActivateAssistant, IInv, CatalogTypeOK, RetrievalTypeOK, OwnerMatchesScope,
              StoredDescriptorsValid, AssistantsNameProviders, RowsAreTheirMakers, Assistant
<1>4. ASSUME NEW q \in Rets, DeleteRetrieval(q) \/ Reindex(q)
      PROVE  IInv'
  BY <1>4 DEF DeleteRetrieval, Reindex, IInv, CatalogTypeOK, RetrievalTypeOK, OwnerMatchesScope,
              StoredDescriptorsValid, AssistantsNameProviders, RowsAreTheirMakers, Retrieval
<1>5. ASSUME NEW d \in Docs, DeleteDocument(d) \/ \E q \in Rets : CreateDocument(d, q)
      PROVE  IInv'
  BY <1>5 DEF DeleteDocument, CreateDocument, Issue, IInv, CatalogTypeOK, RetrievalTypeOK,
              OwnerMatchesScope, StoredDescriptorsValid, AssistantsNameProviders,
              RowsAreTheirMakers
<1>6. QED
  BY <1>1, <1>2, <1>3, <1>4, <1>5 DEF EditRows, EditRetrieval

-----------------------------------------------------------------------------
\* Every request the gateway passes on, and every edit, keeps the invariant.
LEMMA Inductive == IInv /\ [Next]_vars => IInv'
<1> SUFFICES ASSUME IInv, [Next]_vars
             PROVE  IInv'
  OBVIOUS
<1>1. ASSUME NEW header \in Tenants, CreateRows(header), Made(header)
      PROVE  IInv'
  <2>1. CASE Administer(header) /\ UNCHANGED retrievalVars
    BY <1>1, <2>1, CreateCollectionKeeps, CreateAssistantKeeps, CloneAssistantKeeps
       DEF Administer
  <2>2. ASSUME NEW q \in Rets, NEW scope \in Scopes, NEW body \in Tenants,
               CreateRetrieval(q, scope, header, body)
        PROVE  IInv'
    BY <1>1, <2>2, CreateRetrievalKeeps
  <2>3. QED
    BY <1>1, <2>1, <2>2 DEF CreateRows
<1>2. CASE EditRows /\ UNCHANGED maker
  BY <1>2, EditRowsKeeps
<1>3. CASE UNCHANGED vars
  BY <1>3 DEF vars, catalogVars, retrievalVars, IInv, CatalogTypeOK, RetrievalTypeOK,
              OwnerMatchesScope, StoredDescriptorsValid, AssistantsNameProviders,
              RowsAreTheirMakers
<1>4. QED
  BY <1>1, <1>2, <1>3 DEF Next

\* IInv is an invariant of the whole admin catalog.
LEMMA Invariance == Spec => []IInv
BY Initially, Inductive, PTL DEF Spec

\* The tables of the catalog hold well-formed rows under issued uuids.
THEOREM CatalogTypes == Spec => [](CatalogTypeOK /\ RetrievalTypeOK)
<1>1. IInv => CatalogTypeOK /\ RetrievalTypeOK
  BY DEF IInv
<1>2. QED
  BY Invariance, <1>1, PTL

\* No sequence of creates, clones and edits makes a row whose owner and scope
\* disagree.
THEOREM OwnersMatchScopes == Spec => []OwnerMatchesScope
<1>1. IInv => OwnerMatchesScope
  BY DEF IInv
<1>2. QED
  BY Invariance, <1>1, PTL

\* No update gets around the validation of a tool's descriptor.
THEOREM DescriptorsValid == Spec => []StoredDescriptorsValid
<1>1. IInv => StoredDescriptorsValid
  BY DEF IInv
<1>2. QED
  BY Invariance, <1>1, PTL

\* An assistant has a provider from its creation on, through every update
\* and clone.
THEOREM ProvidersNamed == Spec => []AssistantsNameProviders
<1>1. IInv => AssistantsNameProviders
  BY DEF IInv
<1>2. QED
  BY Invariance, <1>1, PTL

\* A tenant's listings of collections, assistants and retrieval collections
\* show only rows that requests of that tenant made.
THEOREM ListingsAreOwn == Spec => []ListsOwnRows
<1>1. IInv => ListsOwnRows
  BY DEF IInv, CatalogTypeOK, RetrievalTypeOK, RowsAreTheirMakers, ListsOwnRows, Listed
<1>2. QED
  BY Invariance, <1>1, PTL

-----------------------------------------------------------------------------
\* The owner of the assistant that a step may change, as RowsKeepTheirOwner
\* compares it.
OwnersKept ==
  \A a \in Asts :
    assistants[a] # NULL /\ assistants'[a] # NULL =>
      /\ assistants'[a].scope = assistants[a].scope
      /\ assistants'[a].tenant = assistants[a].tenant

\* A create or a clone writes under a new uuid, and no edit writes an owner.
LEMMA StepKeepsOwners == IInv /\ [Next]_vars => OwnersKept
<1> SUFFICES ASSUME IInv, [Next]_vars, NEW a \in Asts,
                    assistants[a] # NULL, assistants'[a] # NULL
             PROVE  /\ assistants'[a].scope = assistants[a].scope
                    /\ assistants'[a].tenant = assistants[a].tenant
  BY DEF OwnersKept
<1>1. a \in issued /\ assistants \in [Asts -> Assistant \cup {NULL}]
  BY DEF IInv, CatalogTypeOK
<1>2. CASE assistants' = assistants
  BY <1>2
<1>3. ASSUME NEW header \in Tenants, Administer(header), assistants' # assistants
      PROVE  assistants'[a] = assistants[a]
  BY <1>1, <1>3 DEF Administer, CreateCollection, CreateAssistant, CloneAssistant, Issue
<1>4. ASSUME NEW b \in Asts, NEW provider, NEW tools, UpdateAssistant(b, provider, tools)
      PROVE  /\ assistants'[a].scope = assistants[a].scope
             /\ assistants'[a].tenant = assistants[a].tenant
  BY <1>1, <1>4 DEF UpdateAssistant, Assistant
<1>5. ASSUME NEW b \in Asts, DeleteAssistant(b) \/ ActivateAssistant(b)
      PROVE  /\ assistants'[a].scope = assistants[a].scope
             /\ assistants'[a].tenant = assistants[a].tenant
  BY <1>1, <1>5 DEF DeleteAssistant, ActivateAssistant, Assistant
<1>6. CASE Next
  BY <1>2, <1>3, <1>4, <1>5, <1>6
     DEF Next, CreateRows, EditRows, EditTools, EditRetrieval, catalogVars,
         CreateRetrieval, CreateRecord, UpdateRecord, DeleteRecord, DeleteCollection,
         DeleteRetrieval, Reindex, CreateDocument, DeleteDocument
<1>7. QED
  BY <1>2, <1>6 DEF vars, catalogVars

\* No request changes the scope or the tenant of a stored assistant.
THEOREM OwnersAreKept == Spec => RowsKeepTheirOwner
<1>1. IInv /\ [Next]_vars => [OwnersKept]_catalogVars
  BY StepKeepsOwners
<1>2. QED
  BY Invariance, <1>1, PTL DEF Spec, RowsKeepTheirOwner, OwnersKept
=============================================================================
