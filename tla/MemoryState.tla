------------------------------ MODULE MemoryState ------------------------------
(***************************************************************************)
(* memoryState of the admin API (core/api/internal/application/inmemory.go)*)
(* at the granularity of its lock and of its single loads and stores, seen *)
(* through the tenants map: sync.RWMutex, the lazy init() that Create runs *)
(* under the write lock and the dashboard's ListTenants under the READ     *)
(* lock, and the read-check-write bodies of the tenant operations.  The    *)
(* other six maps are created by the same init() and used under the same   *)
(* lock; what their rows hold is the business of ToolCatalog and later modules.               *)
(*                                                                         *)
(* init() races with itself: two dashboards may both find the state not    *)
(* initialized and both store fresh maps, and since nothing orders the     *)
(* stores of one reader for another, they may become visible in any order  *)
(* (InitStore).                                                            *)
(***************************************************************************)
EXTENDS TenantTable

VARIABLES
  initialized,  \* the flag init() tests first and stores last
  allocated,    \* the maps are non-nil
  tenants,      \* the tenants map; no rows while it is nil
  writer,       \* the goroutine that owns the writer mutex, or NULL
  draining,     \* the readers a pending writer still has to wait for
  readers,      \* who holds the read lock
  parked,       \* who waits for the read lock
  pc,           \* where each goroutine is
  stores,       \* the stores of init() each goroutine has still to make
  req,          \* the request each goroutine serves, or NULL
  res           \* its answer, or NULL

vars == <<initialized, allocated, tenants, writer, draining, readers, parked,
          pc, stores, req, res>>

lockVars == <<writer, draining, readers, parked>>
mapVars  == <<initialized, allocated, tenants>>

\* A variant with a bug: Update takes only the read lock.
WritesNoUpdate(g) == req[g].op \in {"create", "delete"}

Writes(g) == req[g].op \in {"create", "update", "delete"}
\* A variant with a bug: Create forgets to call init().
InitsNoCreate(g) == req[g].op = "dashboard"

\* The operations whose body starts with a call of init().
Inits(g) == req[g].op \in {"create", "dashboard"}

PC == {"idle", "lock", "parked", "drain", "init", "stores", "body", "write",
       "unlock"}

Goto(g, there) == pc' = [pc EXCEPT ![g] = there]

\* Where a goroutine goes once it holds the lock.
Entry(g) == IF Inits(g) THEN "init" ELSE "body"

Answers(g, a) ==
  /\ res' = [res EXCEPT ![g] = a]
  /\ Goto(g, "unlock")

\* The deferred unlock is the last step of a service call: its answer is out.
Replies(g) ==
  /\ req' = [req EXCEPT ![g] = NULL]
  /\ res' = [res EXCEPT ![g] = NULL]

-----------------------------------------------------------------------------
Init ==
  /\ initialized = FALSE
  /\ allocated = FALSE
  /\ tenants = NoTenants
  /\ writer = NULL
  /\ draining = {}
  /\ readers = {}
  /\ parked = {}
  /\ pc = [g \in Goroutines |-> "idle"]
  /\ stores = [g \in Goroutines |-> {}]
  /\ req = [g \in Goroutines |-> NULL]
  /\ res = [g \in Goroutines |-> NULL]

Arrive(g) ==
  /\ pc[g] = "idle"
  /\ \E r \in Request : req' = [req EXCEPT ![g] = r]
  /\ Goto(g, "lock")
  /\ UNCHANGED <<lockVars, mapVars, stores, res>>

(***************************************************************************)
(* sync.RWMutex.  A writer first takes the writer mutex, which turns new   *)
(* readers away, and then waits for the readers already in.  Its Unlock    *)
(* admits every parked reader before another writer can announce itself.   *)
(***************************************************************************)
Lock(g) ==
  /\ pc[g] = "lock" /\ Writes(g)
  /\ writer = NULL
  /\ writer' = g
  /\ draining' = readers
  /\ Goto(g, "drain")
  /\ UNCHANGED <<readers, parked, mapVars, stores, req, res>>

Drained(g) ==
  /\ pc[g] = "drain"
  /\ draining = {}
  /\ Goto(g, Entry(g))
  /\ UNCHANGED <<lockVars, mapVars, stores, req, res>>

\* A variant with a bug: readers are let in beside a writer.
RLockAlways(g) ==
  /\ pc[g] = "lock" /\ ~Writes(g)
  /\ readers' = readers \cup {g}
  /\ Goto(g, Entry(g))
  /\ UNCHANGED <<parked, writer, draining, mapVars, stores, req, res>>

RLock(g) ==
  /\ pc[g] = "lock" /\ ~Writes(g)
  /\ \/ /\ writer = NULL
        /\ readers' = readers \cup {g}
        /\ Goto(g, Entry(g))
        /\ UNCHANGED parked
     \/ /\ writer # NULL
        /\ parked' = parked \cup {g}
        /\ Goto(g, "parked")
        /\ UNCHANGED readers
  /\ UNCHANGED <<writer, draining, mapVars, stores, req, res>>

Unlock(g) ==
  /\ pc[g] = "unlock" /\ Writes(g)
  /\ writer' = NULL
  /\ readers' = readers \cup parked
  /\ parked' = {}
  /\ pc' = [h \in Goroutines |-> IF h = g THEN "idle"
                                 ELSE IF h \in parked THEN Entry(h) ELSE pc[h]]
  /\ Replies(g)
  /\ UNCHANGED <<draining, mapVars, stores>>

RUnlock(g) ==
  /\ pc[g] = "unlock" /\ ~Writes(g)
  /\ readers' = readers \ {g}
  /\ draining' = draining \ {g}
  /\ Goto(g, "idle")
  /\ Replies(g)
  /\ UNCHANGED <<writer, parked, mapVars, stores>>

(***************************************************************************)
(* init(): test the flag, store fresh maps, store the flag.                *)
(***************************************************************************)
InitTest(g) ==
  /\ pc[g] = "init"
  /\ \/ initialized /\ Goto(g, "body") /\ UNCHANGED stores
     \/ /\ ~initialized
        /\ stores' = [stores EXCEPT ![g] = {"maps", "flag"}]
        /\ Goto(g, "stores")
  /\ UNCHANGED <<lockVars, mapVars, req, res>>

InitStore(g) ==
  /\ pc[g] = "stores"
  /\ \/ /\ "maps" \in stores[g]
        /\ tenants' = NoTenants
        /\ allocated' = TRUE
        /\ stores' = [stores EXCEPT ![g] = @ \ {"maps"}]
        /\ UNCHANGED initialized
     \/ /\ "flag" \in stores[g]
        /\ initialized' = TRUE
        /\ stores' = [stores EXCEPT ![g] = @ \ {"flag"}]
        /\ UNCHANGED <<allocated, tenants>>
  /\ IF stores'[g] = {} THEN Goto(g, "body") ELSE UNCHANGED pc
  /\ UNCHANGED <<lockVars, req, res>>

(***************************************************************************)
(* The bodies.                                                             *)
(***************************************************************************)
\* A variant with a bug: Create does not look for the id_internal.
CheckNoExists(g) ==
  LET r == req[g] IN
  /\ pc[g] = "body" /\ r.op \in {"create", "update"}
  /\ IF r.op = "update" /\ tenants[r.id] = NULL
     THEN Answers(g, Said("not_found"))
     ELSE IF Taken(tenants, r.id, r.ext)
          THEN Answers(g, Said("ext_exists"))
          ELSE Goto(g, "write") /\ UNCHANGED res
  /\ UNCHANGED <<lockVars, mapVars, stores, req>>

\* Create and Update look before they store, and answer what they find.
Check(g) ==
  LET r == req[g] IN
  /\ pc[g] = "body" /\ r.op \in {"create", "update"}
  /\ \/ r.op = "create" /\ tenants[r.id] # NULL /\ Answers(g, Said("exists"))
     \/ r.op = "update" /\ tenants[r.id] = NULL /\ Answers(g, Said("not_found"))
     \/ /\ (tenants[r.id] = NULL) = (r.op = "create")
        /\ IF Taken(tenants, r.id, r.ext)
           THEN Answers(g, Said("ext_exists"))
           ELSE Goto(g, "write") /\ UNCHANGED res
  /\ UNCHANGED <<lockVars, mapVars, stores, req>>

\* An assignment to an entry of a nil map panics; the deferred Unlock runs.
Write(g) ==
  LET r == req[g] IN
  /\ pc[g] = "write"
  /\ \/ /\ allocated
        /\ tenants' = Stored(tenants, r)
        /\ Answers(g, Said("ok"))
     \/ /\ ~allocated
        /\ Answers(g, Said("panic"))
        /\ UNCHANGED tenants
  /\ UNCHANGED <<lockVars, initialized, allocated, stores, req>>

\* delete() of a missing key, or on a nil map, does nothing.
Delete(g) ==
  /\ pc[g] = "body" /\ req[g].op = "delete"
  /\ tenants' = [tenants EXCEPT ![req[g].id] = NULL]
  /\ Answers(g, Said("ok"))
  /\ UNCHANGED <<lockVars, initialized, allocated, stores, req>>

\* A variant with a bug: a nil map is shown as null, not as no rows.
ListNull(g) ==
  /\ pc[g] = "body" /\ req[g].op \in {"list", "dashboard"}
  /\ Answers(g, Shown(IF allocated THEN tenants ELSE NULL))
  /\ UNCHANGED <<lockVars, mapVars, stores, req>>

\* List and the dashboard range over the map; a nil map has no rows.
List(g) ==
  /\ pc[g] = "body" /\ req[g].op \in {"list", "dashboard"}
  /\ Answers(g, Shown(tenants))
  /\ UNCHANGED <<lockVars, mapVars, stores, req>>

-----------------------------------------------------------------------------
Step(g) ==
  \/ Lock(g) \/ Drained(g) \/ RLock(g) \/ Unlock(g) \/ RUnlock(g)
  \/ InitTest(g) \/ InitStore(g)
  \/ Check(g) \/ Write(g) \/ Delete(g) \/ List(g)

Next == \E g \in Goroutines : Arrive(g) \/ Step(g)

Spec == Init /\ [][Next]_vars

-----------------------------------------------------------------------------
TypeOK ==
  /\ initialized \in BOOLEAN
  /\ allocated \in BOOLEAN
  /\ tenants \in Table
  /\ writer \in Goroutines \cup {NULL}
  /\ draining \subseteq Goroutines
  /\ readers \subseteq Goroutines
  /\ parked \subseteq Goroutines
  /\ pc \in [Goroutines -> PC]
  /\ stores \in [Goroutines -> SUBSET {"maps", "flag"}]
  /\ req \in [Goroutines -> Request \cup {NULL}]
  /\ res \in [Goroutines -> [kind : {"ok", "exists", "not_found", "ext_exists", "panic"},
                             rows : Table] \cup {NULL}]

(***************************************************************************)
(* No request ever stores into a nil map: whoever reaches the store found  *)
(* the maps made, by itself or by another, although only Create makes them *)
(* and a dashboard may be making them again at that moment.                *)
(***************************************************************************)
NoNilMapWrite ==
  \A g \in Goroutines : pc[g] = "write" => allocated

(***************************************************************************)
(* Two tenants never carry the same id_external, whatever creates and      *)
(* updates of the two are in flight between their check and their store.   *)
(***************************************************************************)
ExternalIdUnique ==
  \A i, j \in Ids : tenants[i] = tenants[j] /\ tenants[i] # NULL => i = j

(***************************************************************************)
(* Once an init() has been through, no other one can throw rows away: as   *)
(* long as some goroutine has its store of fresh maps still to make, the   *)
(* map holds no row that a create has been told is there.                  *)
(***************************************************************************)
FreshMapsLoseNothing ==
  \A g \in Goroutines : "maps" \in stores[g] => tenants = NoTenants

\* The locked, lazily initialized state implements the atomic tenant service.
Service == INSTANCE TenantService
ServiceSpec == Service!Spec
=============================================================================
