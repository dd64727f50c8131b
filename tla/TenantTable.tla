------------------------------ MODULE TenantTable ------------------------------
(***************************************************************************)
(* The tenants table and the requests on it, shared by the specification   *)
(* of the tenant service and by the model of its implementation.  A row is *)
(* known by its id_internal; of its fields only id_external matters to the *)
(* operations (names are overwritten and never compared).                  *)
(***************************************************************************)

EXTENDS Null

CONSTANTS
  Goroutines,  \* one per request being served
  Ids,         \* values of id_internal
  Exts         \* values of id_external

Table == [Ids -> Exts \cup {NULL}]

NoTenants == [i \in Ids |-> NULL]

\* Some tenant other than i carries the id_external e that a request asks for.
Taken(table, i, e) == e # NULL /\ \E j \in Ids : j # i /\ table[j] = e

\* The table with the row of a create or an update.
Stored(table, r) == [table EXCEPT ![r.id] = IF r.ext = NULL THEN @ ELSE r.ext]

(***************************************************************************)
(* Tenant.Create, Tenant.Update, Tenant.Delete, Tenant.List and the        *)
(* dashboard's ListTenants.  Blank fields are refused, which changes       *)
(* nothing, and are left out; so are the dashboard's filters and pages,    *)
(* which only select among the rows.  An update may leave id_external as   *)
(* it is.                                                                  *)
(***************************************************************************)
Request ==
       [op : {"create"}, id : Ids, ext : Exts]
  \cup [op : {"update"}, id : Ids, ext : Exts \cup {NULL}]
  \cup [op : {"delete"}, id : Ids, ext : {NULL}]
  \cup [op : {"list", "dashboard"}, id : {NULL}, ext : {NULL}]

Answer == [kind : {"ok", "exists", "not_found", "ext_exists"}, rows : Table]

\* NULL is nothing else.
ASSUME NullAssumption ==
  NULL \notin Goroutines \cup Ids \cup Exts \cup Request \cup Answer

Said(kind) == [kind |-> kind, rows |-> NoTenants]

Shown(table) == [kind |-> "ok", rows |-> table]
=============================================================================
