------------------------------ MODULE AdminCatalog ------------------------------
(***************************************************************************)
(* The tool catalog and the retrieval store used by the tenants behind the *)
(* gateway.  maker remembers, for each row with a scope, the tenant in the *)
(* header of the request that created it.                                  *)
(***************************************************************************)
EXTENDS RetrievalStore

VARIABLE maker

vars == <<catalogVars, retrievalVars, maker>>

Owned == Cols \cup Asts \cup Rets

Init == CatalogInit /\ RetrievalInit /\ maker = [id \in Owned |-> NULL]

\* The rows a step creates were made by the tenant of its request.
Made(header) ==
  maker' = [id \in Owned |-> IF id \in issued' \ issued THEN header ELSE maker[id]]

CreateRows(header) ==
  \/ Administer(header) /\ UNCHANGED retrievalVars
  \/ \E q \in Rets, scope \in Scopes, body \in Tenants : CreateRetrieval(q, scope, header, body)

EditRows ==
  \/ /\ \/ EditTools
        \/ \E c \in Cols : DeleteCollection(c)
        \/ \E a \in Asts : ActivateAssistant(a)
     /\ UNCHANGED retrievalVars
  \/ EditRetrieval

Next ==
  \/ \E header \in Tenants : CreateRows(header) /\ Made(header)
  \/ EditRows /\ UNCHANGED maker

Spec == Init /\ [][Next]_vars

-----------------------------------------------------------------------------
(***************************************************************************)
(* What a tenant's listings show, it made itself: the tenant id a client   *)
(* puts into the body of a create or a clone never lets a row appear among *)
(* another tenant's.                                                       *)
(***************************************************************************)
ListsOwnRows ==
  \A t \in Tenants : \A table \in {toolCols, assistants, retrievals} :
    \A i \in Listed(table, "tenant", t) : maker[i] = t
=============================================================================
