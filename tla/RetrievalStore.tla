----------------------------- MODULE RetrievalStore -----------------------------
(***************************************************************************)
(* Retrieval collections and their documents in the admin API: the         *)
(* handlers of retrieval_mcp_assistant.go with the operations of           *)
(* retrievalMemoryService (inmemory.go), beside the tool catalog in the    *)
(* same memory.  Left out: names and provider ids, which nothing reads     *)
(* back, so that UpdateCollection changes nothing here; the status of a    *)
(* document, which is always "queued"; and refused requests.               *)
(***************************************************************************)
EXTENDS ToolCatalog

CONSTANTS Rets, Docs   \* uuids of collections and documents

VARIABLES
  retrievals,  \* collections by uuid, NULL if there is none
  documents    \* the collection of each document by uuid

retrievalVars == <<retrievals, documents>>

RetrievalInit ==
  /\ retrievals = [q \in Rets |-> NULL]
  /\ documents = [d \in Docs |-> NULL]

CreateRetrieval(q, scope, header, body) ==
  /\ Issue(q)
  /\ retrievals' = [retrievals EXCEPT ![q] =
       [scope  |-> scope, tenant |-> Owner(scope, RequestTenant(scope, header, body)),
        status |-> "queued"]]
  /\ UNCHANGED <<toolCols, toolRecords, assistants, documents>>

\* The documents of the collection stay, listed under its id.
DeleteRetrieval(q) ==
  /\ q \in issued
  /\ retrievals' = [retrievals EXCEPT ![q] = NULL]
  /\ UNCHANGED <<catalogVars, documents>>

\* Nothing takes a collection out of "indexing" again.
Reindex(q) ==
  /\ retrievals[q] # NULL
  /\ retrievals' = [retrievals EXCEPT ![q].status = "indexing"]
  /\ UNCHANGED <<catalogVars, documents>>

\* The collection comes from the path and is not looked up.
CreateDocument(d, q) ==
  /\ Issue(d)
  /\ documents' = [documents EXCEPT ![d] = q]
  /\ UNCHANGED <<toolCols, toolRecords, assistants, retrievals>>

\* Whatever collection the path names.
DeleteDocument(d) ==
  /\ d \in issued
  /\ documents' = [documents EXCEPT ![d] = NULL]
  /\ UNCHANGED <<catalogVars, retrievals>>

EditRetrieval ==
  \/ \E q \in Rets : DeleteRetrieval(q) \/ Reindex(q)
  \/ \E d \in Docs : DeleteDocument(d) \/ \E q \in Rets : CreateDocument(d, q)
=============================================================================
