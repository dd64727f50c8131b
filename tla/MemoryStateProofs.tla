--------------------------- MODULE MemoryStateProofs ---------------------------
(***************************************************************************)
(* Proofs about MemoryState, for any number of goroutines, ids and         *)
(* external ids: its type correctness, its three safety invariants and     *)
(* that it implements TenantService.                                       *)
(***************************************************************************)
EXTENDS MemoryState, TLAPS

\* The goroutines that hold the lock, for reading or for writing.
Inside == {"init", "stores", "body", "write", "unlock"}

\* Who holds what: a writer inside is alone, and waits for the others first.
LockInv ==
  /\ \A g \in Goroutines :
       /\ req[g] = NULL <=> pc[g] = "idle"
       /\ g \in readers => pc[g] \in Inside /\ ~Writes(g)
       /\ pc[g] \in Inside /\ ~Writes(g) => g \in readers
       /\ pc[g] \in Inside /\ Writes(g) => writer = g /\ readers = {}
       /\ pc[g] = "drain" => writer = g /\ Writes(g)
       /\ g \in parked <=> pc[g] = "parked"
       /\ pc[g] = "parked" => ~Writes(g)
       /\ writer = g => Writes(g) /\ pc[g] \in Inside \cup {"drain"}
  /\ writer # NULL => draining = readers
  /\ writer = NULL => draining = {}

\* What a goroutine may conclude from its place in the code.
BodyInv ==
  \A g \in Goroutines :
    /\ stores[g] # {} <=> pc[g] = "stores"
    /\ pc[g] \in {"init", "stores"} => Inits(g)
    /\ pc[g] = "write" =>
         LET r == req[g] IN
         /\ r.op \in {"create", "update"}
         /\ (tenants[r.id] = NULL) = (r.op = "create")
         /\ ~Taken(tenants, r.id, r.ext)
    /\ res[g] # NULL <=> pc[g] = "unlock"
    /\ res[g] # NULL => res[g].kind # "panic"

\* The flag, the maps and the rows.
MapInv ==
  /\ ~allocated => tenants = NoTenants
  /\ ~initialized => tenants = NoTenants
  /\ initialized => allocated \/ \E g \in Goroutines : "maps" \in stores[g]
  /\ \A g \in Goroutines :
       /\ pc[g] = "stores" /\ "maps" \notin stores[g] => allocated
       /\ pc[g] = "stores" /\ "flag" \notin stores[g] => initialized
       /\ pc[g] \in {"body", "write"} /\ req[g].op = "create"
            => initialized /\ allocated

IInv ==
  TypeOK /\ LockInv /\ BodyInv /\ MapInv /\ FreshMapsLoseNothing /\ ExternalIdUnique

-----------------------------------------------------------------------------
\* A process that has just started, its maps still nil, satisfies the
\* strengthening.
LEMMA Initially == Init => IInv
BY NullAssumption
   DEF Init, IInv, TypeOK, LockInv, BodyInv, MapInv, FreshMapsLoseNothing,
       ExternalIdUnique, Table, NoTenants, PC, Inside, Writes, Inits

\* What IInv says of the goroutine that takes a step: it serves a request.
LEMMA Serving ==
  ASSUME TypeOK, LockInv, NEW g \in Goroutines, pc[g] # "idle"
  PROVE  /\ req[g] \in Request
         /\ Writes(g) <=> req[g].op \in {"create", "update", "delete"}
         /\ ~Writes(g) <=> req[g].op \in {"list", "dashboard"}
         /\ req[g].op \in {"create", "update"} => 
              /\ req[g].id \in Ids
              /\ req[g].ext \in Exts \cup {NULL}
              /\ req[g].op = "create" => req[g].ext \in Exts
         /\ req[g].op = "delete" => req[g].id \in Ids
BY DEF TypeOK, LockInv, Request, Writes

\* What a create or an update leaves in the table.
LEMMA StoredRows ==
  ASSUME NEW t \in Table, NEW r \in Request, r.op \in {"create", "update"}
  PROVE  /\ Stored(t, r) \in Table
         /\ \A i \in Ids : Stored(t, r)[i] = IF i = r.id /\ r.ext # NULL THEN r.ext ELSE t[i]
BY DEF Stored, Table, Request

-----------------------------------------------------------------------------
\* Every step of a goroutine keeps the types of all variables.
LEMMA TypeStep == IInv /\ [Next]_vars => TypeOK'
<1> SUFFICES ASSUME IInv, [Next]_vars PROVE TypeOK'
  OBVIOUS
<1> USE DEF IInv
<1>1. ASSUME UNCHANGED vars PROVE TypeOK'
  BY <1>1 DEF TypeOK, vars
<1>2. ASSUME NEW g \in Goroutines, Arrive(g) PROVE TypeOK'
  BY <1>2 DEF TypeOK, Arrive, Goto, PC, lockVars, mapVars
<1>3. ASSUME NEW g \in Goroutines, Step(g) PROVE TypeOK'
  <2> USE DEF Goto, PC, lockVars, mapVars, Entry
  <2>1. CASE Lock(g)
    BY <2>1 DEF TypeOK, Lock
  <2>2. CASE Drained(g)
    BY <2>2 DEF TypeOK, Drained
  <2>3. CASE RLock(g)
    BY <2>3 DEF TypeOK, RLock
  <2>4. CASE Unlock(g)
    BY <2>4 DEF TypeOK, Unlock, Replies
  <2>5. CASE RUnlock(g)
    BY <2>5 DEF TypeOK, RUnlock, Replies
  <2>6. CASE InitTest(g)
    BY <2>6 DEF TypeOK, InitTest
  <2>7. CASE InitStore(g)
    <3>1. NoTenants \in Table
      BY DEF NoTenants, Table
    <3>2. tenants' \in Table /\ initialized' \in BOOLEAN /\ allocated' \in BOOLEAN
      BY <2>7, <3>1 DEF TypeOK, InitStore
    <3>3. /\ pc' \in [Goroutines -> PC]
          /\ stores' \in [Goroutines -> SUBSET {"maps", "flag"}]
      BY <2>7 DEF TypeOK, InitStore
    <3>4. QED
      BY <2>7, <3>2, <3>3 DEF TypeOK, InitStore
  <2>8. CASE Check(g)
    BY <2>8 DEF TypeOK, Check, Answers, Said, NoTenants, Table
  <2>9. CASE Write(g)
    <3>1. Stored(tenants, req[g]) \in Table
      BY <2>9, Serving, StoredRows DEF TypeOK, BodyInv, Write
    <3>2. NoTenants \in Table
      BY DEF NoTenants, Table
    <3> QED
      BY <2>9, <3>1, <3>2 DEF TypeOK, Write, Answers, Said
  <2>10. CASE Delete(g)
    BY <2>10, Serving DEF TypeOK, Delete, Answers, Said, NoTenants, Table
  <2>11. CASE List(g)
    BY <2>11 DEF TypeOK, List, Answers, Shown, Table
  <2> QED
    BY <1>3, <2>1, <2>2, <2>3, <2>4, <2>5, <2>6, <2>7, <2>8, <2>9, <2>10, <2>11
       DEF Step
<1> QED
  BY <1>1, <1>2, <1>3 DEF Next

-----------------------------------------------------------------------------
\* The steps inside the lock leave the lock and the requests alone.
LEMMA LockStep == IInv /\ [Next]_vars => LockInv'
<1> SUFFICES ASSUME IInv, [Next]_vars PROVE LockInv'
  OBVIOUS
<1> USE NullAssumption DEF IInv
<1>1. ASSUME UNCHANGED vars PROVE LockInv'
  BY <1>1 DEF LockInv, vars, Writes
<1>2. ASSUME NEW g \in Goroutines, Arrive(g) PROVE LockInv'
  BY <1>2 DEF LockInv, TypeOK, Arrive, Goto, Inside, Writes, lockVars, mapVars, Request
<1>3. ASSUME NEW g \in Goroutines, Step(g) PROVE LockInv'
  <2> USE DEF Goto, Inside, Writes, Entry, lockVars, mapVars
  <2>1. CASE Lock(g)
    BY <2>1 DEF LockInv, TypeOK, Lock
  <2>2. CASE Drained(g)
    BY <2>2 DEF LockInv, TypeOK, Drained
  <2>3. CASE RLock(g)
    BY <2>3 DEF LockInv, TypeOK, RLock
  <2>4. CASE Unlock(g)
    BY <2>4 DEF LockInv, TypeOK, Unlock, Replies
  <2>5. CASE RUnlock(g)
    BY <2>5 DEF LockInv, TypeOK, RUnlock, Replies
  <2>6. CASE InitTest(g)
    BY <2>6 DEF LockInv, TypeOK, InitTest
  <2>7. CASE InitStore(g)
    BY <2>7 DEF LockInv, TypeOK, InitStore
  <2>8. CASE Check(g)
    BY <2>8 DEF LockInv, TypeOK, Check, Answers
  <2>9. CASE Write(g)
    BY <2>9 DEF LockInv, TypeOK, Write, Answers
  <2>10. CASE Delete(g)
    BY <2>10 DEF LockInv, TypeOK, Delete, Answers
  <2>11. CASE List(g)
    BY <2>11 DEF LockInv, TypeOK, List, Answers
  <2> QED
    BY <1>3, <2>1, <2>2, <2>3, <2>4, <2>5, <2>6, <2>7, <2>8, <2>9, <2>10, <2>11
       DEF Step
<1> QED
  BY <1>1, <1>2, <1>3 DEF Next

-----------------------------------------------------------------------------
\* A writer inside the lock is the only goroutine inside.
LEMMA WriterAlone ==
  ASSUME TypeOK, LockInv, NEW g \in Goroutines, pc[g] \in Inside, Writes(g),
         NEW h \in Goroutines, h # g
  PROVE  pc[h] \notin Inside
BY DEF LockInv, TypeOK

\* What a goroutine has found of the flag and of the table when it reaches its
\* body still holds there, whatever the others do meanwhile.
LEMMA BodyStep == IInv /\ [Next]_vars => BodyInv'
<1> SUFFICES ASSUME IInv, [Next]_vars PROVE BodyInv'
  OBVIOUS
<1> USE NullAssumption DEF IInv
<1>1. ASSUME UNCHANGED vars PROVE BodyInv'
  BY <1>1 DEF BodyInv, vars, Inits, Taken
<1>2. ASSUME NEW g \in Goroutines, Arrive(g) PROVE BodyInv'
  BY <1>2 DEF BodyInv, TypeOK, Arrive, Goto, Inits, lockVars, mapVars, Taken
<1>3. ASSUME NEW g \in Goroutines, Step(g) PROVE BodyInv'
  <2> USE DEF Goto, Inits, Entry, lockVars, mapVars
  <2>1. CASE Lock(g)
    BY <2>1 DEF BodyInv, TypeOK, Lock, Taken
  <2>2. CASE Drained(g)
    BY <2>2 DEF BodyInv, TypeOK, Drained, Taken
  <2>3. CASE RLock(g)
    BY <2>3 DEF BodyInv, TypeOK, RLock, Taken
  <2>4. CASE Unlock(g)
    BY <2>4 DEF BodyInv, TypeOK, LockInv, Unlock, Replies, Taken
  <2>5. CASE RUnlock(g)
    BY <2>5 DEF BodyInv, TypeOK, RUnlock, Replies, Taken
  <2>6. CASE InitTest(g)
    <3>1. {"maps", "flag"} # {}
      OBVIOUS
    <3>2. \A h \in Goroutines : stores'[h] # {} <=> pc'[h] = "stores"
      BY <2>6, <3>1 DEF BodyInv, TypeOK, InitTest
    <3>3. \A h \in Goroutines : pc'[h] \in {"init", "stores"} => Inits(h)
      BY <2>6 DEF BodyInv, TypeOK, InitTest
    <3>4. \A h \in Goroutines : pc'[h] = "write" => pc[h] = "write"
      BY <2>6 DEF TypeOK, InitTest
    <3>5. \A h \in Goroutines : pc'[h] = "unlock" <=> pc[h] = "unlock"
      BY <2>6 DEF TypeOK, InitTest
    <3> QED
      BY <2>6, <3>2, <3>3, <3>4, <3>5 DEF BodyInv, InitTest, Taken
  <2>7. CASE InitStore(g)
    BY <2>7, WriterAlone, Serving
       DEF BodyInv, TypeOK, LockInv, Inside, InitStore, Taken, Writes
  <2>8. CASE Check(g)
    BY <2>8, Serving DEF BodyInv, TypeOK, Check, Answers, Said, Answer, Taken, Table, NoTenants
  <2>9. CASE Write(g)
    <3>1. \A h \in Goroutines : h # g => pc[h] # "write"
      BY <2>9, WriterAlone, Serving DEF BodyInv, Inside, Write
    <3>2. allocated
      BY <2>9, Serving DEF BodyInv, MapInv, Write, NoTenants
    <3>3. \A h \in Goroutines : pc'[h] # "write"
      BY <2>9, <3>1, <3>2 DEF TypeOK, Write, Answers
    <3>4. /\ \A h \in Goroutines : res'[h] # NULL <=> pc'[h] = "unlock"
          /\ \A h \in Goroutines : res'[h] # NULL => res'[h].kind # "panic"
      BY <2>9, <3>2 DEF BodyInv, TypeOK, Write, Answers, Said, Answer, Table, NoTenants
    <3>5. /\ \A h \in Goroutines : stores'[h] # {} <=> pc'[h] = "stores"
          /\ \A h \in Goroutines : pc'[h] \in {"init", "stores"} => Inits(h)'
      BY <2>9, <3>2 DEF BodyInv, TypeOK, Write, Answers
    <3> QED
      BY <3>3, <3>4, <3>5 DEF BodyInv
  <2>10. CASE Delete(g)
    BY <2>10, WriterAlone, Serving
       DEF BodyInv, TypeOK, Inside, Delete, Answers, Said, Answer, Table, NoTenants, Writes
  <2>11. CASE List(g)
    BY <2>11 DEF BodyInv, TypeOK, List, Answers, Shown, Answer, Taken
  <2> QED
    BY <1>3, <2>1, <2>2, <2>3, <2>4, <2>5, <2>6, <2>7, <2>8, <2>9, <2>10, <2>11
       DEF Step
<1> QED
  BY <1>1, <1>2, <1>3 DEF Next

-----------------------------------------------------------------------------
\* Rows are stored and removed only under the write lock, by a goroutine that
\* has seen the flag or a row.
LEMMA MapStep == IInv /\ [Next]_vars => MapInv' /\ FreshMapsLoseNothing'
<1> SUFFICES ASSUME IInv, [Next]_vars PROVE MapInv' /\ FreshMapsLoseNothing'
  OBVIOUS
<1> USE NullAssumption DEF IInv
<1>1. ASSUME UNCHANGED vars PROVE MapInv' /\ FreshMapsLoseNothing'
  BY <1>1 DEF MapInv, FreshMapsLoseNothing, vars
<1>2. ASSUME NEW g \in Goroutines, Arrive(g) PROVE MapInv' /\ FreshMapsLoseNothing'
  BY <1>2 DEF MapInv, FreshMapsLoseNothing, TypeOK, Arrive, Goto, lockVars, mapVars
<1>3. ASSUME NEW g \in Goroutines, Step(g) PROVE MapInv' /\ FreshMapsLoseNothing'
  <2> USE DEF MapInv, FreshMapsLoseNothing, TypeOK, Goto, Inits, Entry, lockVars, mapVars
  <2>1. CASE Lock(g)
    BY <2>1 DEF Lock
  <2>2. CASE Drained(g)
    BY <2>2 DEF Drained
  <2>3. CASE RLock(g)
    BY <2>3 DEF RLock, LockInv, Writes
  <2>4. CASE Unlock(g)
    BY <2>4 DEF Unlock, Replies, LockInv, Writes
  <2>5. CASE RUnlock(g)
    BY <2>5 DEF RUnlock, Replies
  <2>6. CASE InitTest(g)
    BY <2>6, WriterAlone DEF InitTest, BodyInv, Inside, Writes
  <2>7. CASE InitStore(g)
    BY <2>7, WriterAlone DEF InitStore, BodyInv, Inside, Writes
  <2>8. CASE Check(g)
    BY <2>8 DEF Check, Answers
  <2>9. CASE Write(g)
    <3>1. \A h \in Goroutines : "maps" \notin stores[h]
      BY <2>9, WriterAlone, Serving DEF Write, BodyInv, Inside
    <3>2. allocated /\ initialized
      BY <2>9, <3>1, Serving DEF Write, BodyInv, NoTenants
    <3> QED
      BY <2>9, <3>1, <3>2 DEF Write, Answers
  <2>10. CASE Delete(g)
    <3>1. tenants = NoTenants => tenants' = NoTenants
      BY <2>10, Serving DEF Delete, NoTenants
    <3>2. \A h \in Goroutines : "maps" \notin stores[h]
      BY <2>10, WriterAlone DEF Delete, BodyInv, Inside, Writes
    <3> QED
      BY <2>10, <3>1, <3>2 DEF Delete, Answers
  <2>11. CASE List(g)
    BY <2>11 DEF List, Answers
  <2> QED
    BY <1>3, <2>1, <2>2, <2>3, <2>4, <2>5, <2>6, <2>7, <2>8, <2>9, <2>10, <2>11
       DEF Step
<1> QED
  BY <1>1, <1>2, <1>3 DEF Next

-----------------------------------------------------------------------------
\* Only Write stores an id_external, and it is still free when it does.
LEMMA UniqueStep == IInv /\ [Next]_vars => ExternalIdUnique'
<1> SUFFICES ASSUME IInv, [Next]_vars PROVE ExternalIdUnique'
  OBVIOUS
<1> USE NullAssumption DEF IInv
<1>1. CASE UNCHANGED tenants
  BY <1>1 DEF ExternalIdUnique
<1>2. ASSUME NEW g \in Goroutines, InitStore(g) PROVE ExternalIdUnique'
  BY <1>2 DEF InitStore, ExternalIdUnique, NoTenants
<1>3. ASSUME NEW g \in Goroutines, Write(g) PROVE ExternalIdUnique'
  <2>1. ~Taken(tenants, req[g].id, req[g].ext) /\ req[g] \in Request
        /\ req[g].op \in {"create", "update"} /\ tenants \in Table
    BY <1>3, Serving DEF Write, BodyInv, TypeOK
  <2> QED
    BY <1>3, <2>1, StoredRows DEF Write, ExternalIdUnique, Taken
<1>4. ASSUME NEW g \in Goroutines, Delete(g) PROVE ExternalIdUnique'
  BY <1>4, Serving DEF Delete, ExternalIdUnique, TypeOK, Table
<1> QED
  BY <1>1, <1>2, <1>3, <1>4
     DEF Next, Step, vars, mapVars, Arrive, Lock, Drained, RLock, Unlock, RUnlock,
         InitTest, Check, List

-----------------------------------------------------------------------------
\* The strengthening is an invariant.
THEOREM Invariance == Spec => []IInv
<1>1. IInv /\ [Next]_vars => IInv'
  BY TypeStep, LockStep, BodyStep, MapStep, UniqueStep DEF IInv
<1> QED
  BY Initially, <1>1, PTL DEF Spec

\* Every variable of the model keeps its type, answers and requests included.
THEOREM TypeCorrect == Spec => []TypeOK
<1>1. IInv => TypeOK
  BY DEF IInv
<1> QED
  BY Invariance, <1>1, PTL

\* A goroutine about to store a row has been past an init() or has seen a row,
\* and rows are only in maps that are made.
LEMMA MapsMadeNow == IInv => NoNilMapWrite
BY Serving DEF IInv, BodyInv, MapInv, NoNilMapWrite, NoTenants

\* No number of racing init() calls lets a request store into a nil map.
THEOREM MapsMade == Spec => []NoNilMapWrite
BY Invariance, MapsMadeNow, PTL

\* The external ids of any number of tenants stay distinct.
THEOREM ExternalIdsDistinct == Spec => []ExternalIdUnique
<1>1. IInv => ExternalIdUnique
  BY DEF IInv
<1> QED
  BY Invariance, <1>1, PTL

\* A store of fresh maps never throws a row away.
THEOREM RowsSurviveInit == Spec => []FreshMapsLoseNothing
<1>1. IInv => FreshMapsLoseNothing
  BY DEF IInv
<1> QED
  BY Invariance, <1>1, PTL

-----------------------------------------------------------------------------
\* Of the steps, those on the lock and on the flag are invisible to callers;
\* the rest are the indivisible steps of the service.
LEMMA ServiceStep == IInv /\ [Next]_vars => [Service!Next]_(Service!vars)
<1> SUFFICES ASSUME IInv, [Next]_vars PROVE [Service!Next]_(Service!vars)
  OBVIOUS
<1> USE NullAssumption DEF IInv
<1>1. CASE UNCHANGED <<tenants, req, res>>
  BY <1>1 DEF Service!vars
<1>2. ASSUME NEW g \in Goroutines, Arrive(g) PROVE Service!Arrive(g)
  BY <1>2 DEF Arrive, mapVars, LockInv, Service!Arrive, Service!Request, Request
<1>3. ASSUME NEW g \in Goroutines, Unlock(g) \/ RUnlock(g) PROVE Service!Reply(g)
  BY <1>3 DEF Unlock, RUnlock, Replies, mapVars, BodyInv, Service!Reply
<1>4. ASSUME NEW g \in Goroutines, InitStore(g) PROVE UNCHANGED <<tenants, req, res>>
  BY <1>4 DEF InitStore, FreshMapsLoseNothing
<1>5. ASSUME NEW g \in Goroutines, Check(g)
      PROVE  Service!Refuse(g) \/ UNCHANGED <<tenants, req, res>>
  BY <1>5 DEF Check, Answers, Said, Taken, NoTenants, mapVars, LockInv, BodyInv,
              Service!Refuse, Service!Said, Service!Taken, Service!NoTenants
<1>6. ASSUME NEW g \in Goroutines, Write(g) PROVE Service!Store(g)
  BY <1>6, MapsMadeNow DEF NoNilMapWrite, Write, Answers, Said, Stored, Taken, NoTenants,
              LockInv, BodyInv, Service!Store, Service!Said, Service!Stored, Service!Taken,
              Service!NoTenants
<1>7. ASSUME NEW g \in Goroutines, Delete(g) PROVE Service!Remove(g)
  BY <1>7 DEF Delete, Answers, Said, NoTenants, LockInv, BodyInv,
              Service!Remove, Service!Said, Service!NoTenants
<1>8. ASSUME NEW g \in Goroutines, List(g) PROVE Service!Show(g)
  BY <1>8 DEF List, Answers, Shown, mapVars, LockInv, BodyInv,
              Service!Show, Service!Shown
<1> QED
  BY <1>1, <1>2, <1>3, <1>4, <1>5, <1>6, <1>7, <1>8
     DEF Next, Step, vars, mapVars, Lock, Drained, RLock, InitTest, Service!Next

\* The lock, the lazily made maps and their races are invisible to callers:
\* every behaviour is one of the atomic tenant service.
THEOREM Implementation == Spec => ServiceSpec
<1>1. Init => Service!Init
  BY DEF Init, NoTenants, Service!Init, Service!NoTenants
<1> QED
  BY <1>1, ServiceStep, Invariance, PTL DEF Spec, ServiceSpec, Service!Spec
=============================================================================
