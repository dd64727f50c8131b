----------------------------- MODULE TenantService -----------------------------
(***************************************************************************)
(* What the tenant service of the admin API promises to its callers: every *)
(* request takes effect in one indivisible step between its arrival and    *)
(* its answer, on one table of tenants that starts empty.  Nothing is said *)
(* here of locks, of lazily created maps or of goroutines: MemoryState     *)
(* models those and is shown to implement this module.                     *)
(***************************************************************************)
EXTENDS TenantTable

VARIABLES
  tenants,     \* the table
  req,         \* the request each goroutine serves, or NULL
  res          \* the answer it has obtained, or NULL

vars == <<tenants, req, res>>

Init ==
  /\ tenants = NoTenants
  /\ req = [g \in Goroutines |-> NULL]
  /\ res = [g \in Goroutines |-> NULL]

Arrive(g) ==
  /\ req[g] = NULL
  /\ \E r \in Request : req' = [req EXCEPT ![g] = r]
  /\ UNCHANGED <<tenants, res>>

\* A create of an existing id_internal, an update of a missing one, and an
\* id_external carried by another tenant are refused.
Refuse(g) ==
  LET r == req[g] IN
  /\ r # NULL /\ res[g] = NULL
  /\ \E why \in {"exists", "not_found", "ext_exists"} :
       /\ \/ why = "exists" /\ r.op = "create" /\ tenants[r.id] # NULL
          \/ why = "not_found" /\ r.op = "update" /\ tenants[r.id] = NULL
          \/ /\ why = "ext_exists"
             /\ r.op = "create" => tenants[r.id] = NULL
             /\ r.op = "update" => tenants[r.id] # NULL
             /\ r.op \in {"create", "update"}
             /\ Taken(tenants, r.id, r.ext)
       /\ res' = [res EXCEPT ![g] = Said(why)]
  /\ UNCHANGED <<tenants, req>>

\* The row is stored when the request cannot be refused.
Store(g) ==
  LET r == req[g] IN
  /\ r # NULL /\ res[g] = NULL
  /\ \/ r.op = "create" /\ tenants[r.id] = NULL
     \/ r.op = "update" /\ tenants[r.id] # NULL
  /\ ~Taken(tenants, r.id, r.ext)
  /\ tenants' = Stored(tenants, r)
  /\ res' = [res EXCEPT ![g] = Said("ok")]
  /\ UNCHANGED req

\* A delete succeeds whether or not there is a row.
Remove(g) ==
  LET r == req[g] IN
  /\ r # NULL /\ res[g] = NULL
  /\ r.op = "delete"
  /\ tenants' = [tenants EXCEPT ![r.id] = NULL]
  /\ res' = [res EXCEPT ![g] = Said("ok")]
  /\ UNCHANGED req

\* A listing shows exactly the rows of one moment.
Show(g) ==
  /\ req[g] # NULL /\ res[g] = NULL
  /\ req[g].op \in {"list", "dashboard"}
  /\ res' = [res EXCEPT ![g] = Shown(tenants)]
  /\ UNCHANGED <<tenants, req>>

Reply(g) ==
  /\ res[g] # NULL
  /\ req' = [req EXCEPT ![g] = NULL]
  /\ res' = [res EXCEPT ![g] = NULL]
  /\ UNCHANGED tenants

Next ==
  \E g \in Goroutines :
    Arrive(g) \/ Refuse(g) \/ Store(g) \/ Remove(g) \/ Show(g) \/ Reply(g)

Spec == Init /\ [][Next]_vars
=============================================================================
