----------------------------- MODULE ToolChatProofs -----------------------------
(***************************************************************************)
(* Proofs about ToolChat, for any number of collections, records, calls,   *)
(* iterations and edits: type correctness, that a request's tools have     *)
(* names of their own and descriptors that work, what the sandbox executes *)
(* and the trace says, and that the handler implements ToolRun.            *)
(***************************************************************************)
EXTENDS ToolChat, TLAPS

ToolCall == [id : Nat, name : Keys, args : {"ok", "bad"}]
Traced   == [id : Nat, name : Keys]
Effect   == [id : Nat, spec : Descriptors]

\* The calls are numbered in the order in which they are answered.
CallsNumbered ==
  /\ \A k \in DOMAIN trace : trace[k].id = k
  /\ \A k \in DOMAIN pending : pending[k].id = Len(trace) + k

\* The sandbox executes calls that are traced, one after the other.
EffectsInv ==
  /\ \A i \in DOMAIN effects :
       /\ effects[i].id \in DOMAIN trace
       /\ [name |-> trace[effects[i].id].name, spec |-> effects[i].spec] \in lookup
  /\ \A i, j \in DOMAIN effects : effects[i].id = effects[j].id => i = j

\* Everything but the place of the handler and the reason of its failure.
RestInv ==
  /\ CatalogTypeOK /\ StoredDescriptorsValid /\ NamesUnique /\ CallsNumbered /\ EffectsInv
  /\ assistant \in Asts /\ history \in Histories /\ todo \in ToolLists
  /\ lookup \subseteq [name : Keys, spec : Descriptors]
  /\ rounds \in 0..MaxIterations /\ edits \in 0..MaxEdits
  /\ pending \in Seq(ToolCall) /\ trace \in Seq(Traced) /\ effects \in Seq(Effect)
  /\ expired \in BOOLEAN
  /\ pending # <<>> => rounds < MaxIterations

\* What the handler has when it is where.
PlaceInv ==
  /\ pc \in PC /\ failure \in Failures \cup {NULL}
  /\ pc = "failed" <=> failure # NULL
  /\ DescriptorsNeverFail
  /\ pc \in {"start", "fetch", "plain", "ask", "done"} => pending = <<>>
  /\ pc \in {"start", "fetch", "plain"} => rounds = 0
  /\ pc = "call" => pending # <<>>

IInv == RestInv /\ PlaceInv

-----------------------------------------------------------------------------
\* A handler that lists the next collection has one left, of the assistant's.
LEMMA NextCollection ==
  ASSUME NEW tools \in ToolLists, tools # <<>>
  PROVE  Head(tools) \in Cols /\ Tail(tools) \in ToolLists
<1>1. PICK m \in 0..2 : tools \in [1..m -> Cols]
  BY DEF ToolLists, BoundedSeq, SeqOf
<1>2. m # 0
  BY <1>1
<1>3. Head(tools) \in Cols
  BY <1>1, <1>2
<1>4. Tail(tools) \in [1..(m - 1) -> Cols]
  <2>1. tools \in Seq(Cols) /\ Len(tools) = m
    BY <1>1
  <2>2. Tail(tools) \in Seq(Cols) /\ Len(Tail(tools)) = m - 1
    BY <1>2, <2>1
  <2>3. \A q \in Seq(Cols) : q \in [1..Len(q) -> Cols]
    OBVIOUS
  <2>4. QED
    BY <2>2, <2>3
<1>5. m - 1 \in 0..2
  BY <1>2
<1>6. QED
  BY <1>3, <1>4, <1>5 DEF ToolLists, BoundedSeq, SeqOf

\* The empty list of collections is one.
LEMMA NoCollections == <<>> \in ToolLists
<1>1. <<>> \in [1..0 -> Cols]
  OBVIOUS
<1>2. 0 \in 0..2
  OBVIOUS
<1>3. QED
  BY <1>1, <1>2 DEF ToolLists, BoundedSeq, SeqOf

\* A client's messages meet a catalog that an admin has filled.
LEMMA Initially == Init => IInv
<1> SUFFICES ASSUME Init PROVE IInv
  OBVIOUS
<1>1. CatalogTypeOK
  <2>1. toolCols \in [Cols -> Collection \cup {NULL}]
    BY ChatAssumption DEF Init, Collection
  <2>2. toolRecords \in [Recs -> Record \cup {NULL}]
    BY DEF Init, Record
  <2>3. assistants \in [Asts -> Assistant \cup {NULL}]
    BY ChatAssumption, CatalogAssumption DEF Init, Assistant
  <2>4. \A table \in {toolCols, toolRecords, assistants} :
          \A i \in DOMAIN table : table[i] # NULL => i \in issued
    BY DEF Init
  <2>5. QED
    BY <2>1, <2>2, <2>3, <2>4 DEF CatalogTypeOK
<1>2. pending = <<>> /\ trace = <<>> /\ effects = <<>>
  BY DEF Init
<1>3. StoredDescriptorsValid
  BY DEF Init, StoredDescriptorsValid, ValidDescriptor
<1>4. NamesUnique
  BY DEF Init, NamesUnique
<1>5. CallsNumbered /\ EffectsInv
  BY <1>2 DEF CallsNumbered, EffectsInv
<1>6. RestInv
  <2>1. todo \in ToolLists /\ assistant \in Asts /\ history \in Histories
    BY NoCollections DEF Init
  <2>2. /\ rounds \in 0..MaxIterations
        /\ edits \in 0..MaxEdits
        /\ lookup \subseteq [name : Keys, spec : Descriptors]
    BY ChatAssumption DEF Init
  <2>3. expired \in BOOLEAN
    BY DEF Init
  <2>4. QED
    BY <1>1, <1>2, <1>3, <1>4, <1>5, <2>1, <2>2, <2>3 DEF RestInv
<1>7. PlaceInv
  BY ChatAssumption DEF Init, PlaceInv, PC, DescriptorsNeverFail, Failures
<1>8. QED
  BY <1>6, <1>7 DEF IInv

-----------------------------------------------------------------------------
\* An admin changes records and assistants, and no record becomes junk.
LEMMA EditKeeps ==
  ASSUME CatalogTypeOK, StoredDescriptorsValid, EditTools
  PROVE  CatalogTypeOK' /\ StoredDescriptorsValid'
<1>1. CASE \E r \in Recs, c \in Cols, key \in Keys \cup {BLANK}, value \in Descriptors \cup Junk :
             CreateRecord(r, c, key, value)
  BY <1>1 DEF CatalogTypeOK, StoredDescriptorsValid, CreateRecord, Issue, Record
<1>2. CASE \E r \in Recs, key \in Keys \cup {BLANK, NULL}, value \in Descriptors \cup Junk \cup {NULL} :
             UpdateRecord(r, key, value)
  <2> PICK r \in Recs, key \in Keys \cup {BLANK, NULL},
           value \in Descriptors \cup Junk \cup {NULL} : UpdateRecord(r, key, value)
    BY <1>2
  <2> DEFINE row == [toolRecords[r] EXCEPT
                       !.key   = IF key = NULL THEN @ ELSE key,
                       !.value = IF value = NULL THEN @ ELSE value]
  <2>1. toolRecords' = [toolRecords EXCEPT ![r] = row]
    BY DEF UpdateRecord, CatalogTypeOK
  <2>2. row \in Record /\ ValidDescriptor(row.value)
    BY DEF UpdateRecord, CatalogTypeOK, StoredDescriptorsValid, Record
  <2>3. toolRecords[r] # NULL /\ UNCHANGED <<toolCols, assistants, issued>>
    BY DEF UpdateRecord
  <2> HIDE DEF row
  <2>4. CatalogTypeOK'
    BY <2>1, <2>2, <2>3 DEF CatalogTypeOK
  <2>5. StoredDescriptorsValid'
    BY <2>1, <2>2 DEF CatalogTypeOK, StoredDescriptorsValid
  <2>6. QED
    BY <2>4, <2>5
<1>3. CASE \E r \in Recs : DeleteRecord(r)
  BY <1>3 DEF CatalogTypeOK, StoredDescriptorsValid, DeleteRecord
<1>4. CASE \E a \in Asts, provider \in Providers \cup {BLANK, NULL}, tools \in ToolLists \cup {NULL} :
             UpdateAssistant(a, provider, tools)
  <2> PICK a \in Asts, provider \in Providers \cup {BLANK, NULL},
           tools \in ToolLists \cup {NULL} : UpdateAssistant(a, provider, tools)
    BY <1>4
  <2> DEFINE row == [assistants[a] EXCEPT
                       !.provider = IF provider \in {NULL, BLANK} THEN @ ELSE provider,
                       !.tools    = IF tools = NULL THEN @ ELSE tools]
  <2>1. assistants' = [assistants EXCEPT ![a] = row]
    BY DEF UpdateAssistant, CatalogTypeOK
  <2>2. row \in Assistant
    BY DEF UpdateAssistant, CatalogTypeOK, Assistant
  <2>3. assistants[a] # NULL /\ UNCHANGED <<toolCols, toolRecords, issued>>
    BY DEF UpdateAssistant
  <2> HIDE DEF row
  <2>4. CatalogTypeOK'
    BY <2>1, <2>2, <2>3 DEF CatalogTypeOK
  <2>5. StoredDescriptorsValid'
    BY <2>3 DEF StoredDescriptorsValid
  <2>6. QED
    BY <2>4, <2>5
<1>5. CASE \E a \in Asts : DeleteAssistant(a)
  BY <1>5 DEF CatalogTypeOK, StoredDescriptorsValid, DeleteAssistant
<1>6. QED
  BY <1>1, <1>2, <1>3, <1>4, <1>5 DEF EditTools

-----------------------------------------------------------------------------
\* What a failure, a final answer or the end of the listing leaves alone.
Rest == <<catalogVars, edits, assistant, history, todo, lookup, messages, rounds, pending,
          trace, effects, expired>>

\* What does not touch the rest keeps it.
LEMMA RestKept == RestInv /\ UNCHANGED Rest => RestInv'
BY DEF Rest, RestInv, catalogVars, CatalogTypeOK, StoredDescriptorsValid, NamesUnique,
       CallsNumbered, EffectsInv

\* A failure but for a descriptor keeps the invariant.
LEMMA FailKeeps ==
  ASSUME IInv, NEW why \in Failures, why # "bad descriptor", FailWith(why), UNCHANGED Rest
  PROVE  IInv'
<1>1. RestInv'
  BY RestKept DEF IInv
<1>2. failure' = why /\ pc' = "failed" /\ why # NULL
  BY ChatAssumption DEF FailWith
<1>3. PlaceInv'
  BY <1>2 DEF IInv, PlaceInv, PC, DescriptorsNeverFail
<1>4. QED
  BY <1>1, <1>3 DEF IInv

\* The handler finds the assistant's collections, or no assistant.
LEMMA GetAssistantKeeps ==
  ASSUME IInv, GetAssistant
  PROVE  IInv'
<1>1. CASE assistants[assistant] = NULL
  BY <1>1, FailKeeps DEF GetAssistant, Rest, Failures
<1>2. CASE assistants[assistant] # NULL
  <2>1. RestInv /\ PlaceInv
    BY DEF IInv
  <2>2. /\ pc = "start" /\ pc' = "fetch" /\ todo' = assistants[assistant].tools
        /\ UNCHANGED <<catalogVars, edits, assistant, history, lookup, messages, rounds,
                       pending, trace, effects, expired, failure>>
    BY <1>2 DEF GetAssistant
  <2>3. assistants[assistant].tools \in ToolLists
    BY <1>2, <2>1 DEF RestInv, CatalogTypeOK, Assistant
  <2>4. RestInv'
    BY <2>1, <2>2, <2>3 DEF RestInv, catalogVars, CatalogTypeOK, StoredDescriptorsValid,
                           NamesUnique, CallsNumbered, EffectsInv
  <2>5. PlaceInv'
    BY <2>1, <2>2 DEF PlaceInv, PC, DescriptorsNeverFail
  <2>6. QED
    BY <2>4, <2>5 DEF IInv
<1>3. QED
  BY <1>1, <1>2

\* A listed collection adds tools with new names and descriptors that work.
LEMMA FetchRecordsKeeps ==
  ASSUME IInv, FetchRecords
  PROVE  IInv'
<1> DEFINE rows  == RecordsOf(Head(todo))
           tools == {[name |-> toolRecords[r].key, spec |-> toolRecords[r].value] : r \in rows}
<1>1. pc = "fetch" /\ todo # <<>>
  BY DEF FetchRecords
<1>2. \A r \in rows : toolRecords[r] \in Record /\ toolRecords[r].value \in Descriptors
  BY DEF IInv, RestInv, CatalogTypeOK, StoredDescriptorsValid, ValidDescriptor, RecordsOf
<1>3. CASE FailWith("empty key") /\ UNCHANGED <<lookup, todo>>
  BY <1>3, FailKeeps DEF FetchRecords, Rest, Failures
<1>4. CASE FailWith("duplicate tool name") /\ UNCHANGED <<lookup, todo>>
  BY <1>4, FailKeeps DEF FetchRecords, Rest, Failures
<1>5. CASE /\ BLANK \notin Names(tools)
           /\ ~Clashes(rows)
           /\ \A r \in rows : ValidDescriptor(toolRecords[r].value)
           /\ lookup' = lookup \cup tools
           /\ todo' = Tail(todo)
           /\ UNCHANGED <<pc, failure>>
  <2>1. UNCHANGED <<catalogVars, edits, assistant, history, messages, rounds, pending, trace,
                    effects, expired>>
    BY DEF FetchRecords
  <2>2. todo' \in ToolLists
    BY <1>1, <1>5, NextCollection DEF IInv, RestInv
  <2>3. \A t \in tools : t \in [name : Keys, spec : Descriptors]
    BY <1>2, <1>5 DEF Record, Names
  <2>4. \A t \in tools, u \in lookup : t.name # u.name
    BY <1>5 DEF Clashes, Names
  <2>5. \A t, u \in tools : t.name = u.name => t = u
    BY <1>5 DEF Clashes
  <2>6. NamesUnique'
    BY <1>5, <2>4, <2>5 DEF IInv, RestInv, NamesUnique
  <2>7. EffectsInv'
    BY <1>5, <2>1 DEF IInv, RestInv, EffectsInv
  <2>8. CatalogTypeOK' /\ StoredDescriptorsValid' /\ CallsNumbered'
    BY <2>1 DEF IInv, RestInv, catalogVars, CatalogTypeOK, StoredDescriptorsValid, CallsNumbered
  <2>9. lookup' \subseteq [name : Keys, spec : Descriptors]
    BY <1>5, <2>3 DEF IInv, RestInv
  <2>10. RestInv'
    BY <2>1, <2>2, <2>6, <2>7, <2>8, <2>9 DEF IInv, RestInv
  <2>11. PlaceInv'
    BY <1>1, <1>5, <2>1 DEF IInv, PlaceInv, PC, DescriptorsNeverFail
  <2>12. QED
    BY <2>10, <2>11 DEF IInv
<1>6. QED
  BY <1>2, <1>3, <1>4, <1>5 DEF FetchRecords, ValidDescriptor

\* The listing ends, or the model gives its final answer.
LEMMA MoveKeeps ==
  ASSUME IInv, UNCHANGED Rest, UNCHANGED failure, pc # "failed",
         \/ pc = "fetch" /\ pc' \in {"plain", "ask"}
         \/ pc \in {"plain", "ask"} /\ pc' = "done"
  PROVE  IInv'
<1>1. RestInv'
  BY RestKept DEF IInv
<1>2. PlaceInv'
  BY DEF Rest, IInv, PlaceInv, PC, DescriptorsNeverFail
<1>3. QED
  BY <1>1, <1>2 DEF IInv

\* An answer with calls opens an iteration.
LEMMA AskCallsKeeps ==
  ASSUME IInv, AskCalls
  PROVE  IInv'
<1>1. /\ pc = "ask" /\ pc' = "call" /\ rounds < MaxIterations
      /\ UNCHANGED <<catalogVars, edits, assistant, history, todo, lookup, rounds, trace,
                     effects, expired, failure>>
  BY DEF AskCalls
<1>2. PICK n \in 1..MaxCalls : \E names \in [1..n -> Keys], args \in [1..n -> {"ok", "bad"}] :
        pending' = [k \in 1..n |-> [id |-> Len(trace) + k, name |-> names[k], args |-> args[k]]]
  BY DEF AskCalls
<1>3. Len(trace) \in Nat
  BY DEF IInv, RestInv
<1>4. /\ pending' \in Seq(ToolCall) /\ DOMAIN pending' = 1..n
      /\ pending' # <<>>
      /\ \A k \in 1..n : pending'[k].id = Len(trace) + k
  <2> PICK names \in [1..n -> Keys], args \in [1..n -> {"ok", "bad"}] :
        pending' = [k \in 1..n |-> [id |-> Len(trace) + k, name |-> names[k], args |-> args[k]]]
    BY <1>2
  <2>1. QED
    BY <1>3 DEF ToolCall
<1>5. CallsNumbered'
  BY <1>1, <1>4 DEF IInv, RestInv, CallsNumbered
<1>6. CatalogTypeOK' /\ StoredDescriptorsValid' /\ NamesUnique' /\ EffectsInv'
  BY <1>1 DEF IInv, RestInv, catalogVars, CatalogTypeOK, StoredDescriptorsValid, NamesUnique,
              EffectsInv
<1>7. RestInv'
  BY <1>1, <1>4, <1>5, <1>6 DEF IInv, RestInv
<1>8. PlaceInv'
  BY <1>1, <1>4 DEF IInv, PlaceInv, PC, DescriptorsNeverFail
<1>9. QED
  BY <1>7, <1>8 DEF IInv

\* A result closes the oldest open call, and is traced under its id.
LEMMA ResultTraced ==
  ASSUME IInv, pc = "call", Result
  PROVE  /\ Head(pending) \in ToolCall /\ Head(pending).id = Len(trace) + 1
         /\ Len(trace') = Len(trace) + 1 /\ Len(pending') = Len(pending) - 1
         /\ trace' \in Seq(Traced) /\ pending' \in Seq(ToolCall)
         /\ \A k \in DOMAIN trace : k \in DOMAIN trace' /\ trace'[k] = trace[k]
         /\ trace'[Len(trace) + 1] = [id |-> Head(pending).id, name |-> Head(pending).name]
         /\ CallsNumbered'
<1> DEFINE call == Head(pending)
           line == [id |-> call.id, name |-> call.name]
<1>1. /\ pending \in Seq(ToolCall) /\ pending # <<>> /\ trace \in Seq(Traced)
  BY DEF IInv, RestInv, PlaceInv
<1>2. call \in ToolCall /\ call = pending[1] /\ 1 \in DOMAIN pending
  BY <1>1
<1>3. call.id = Len(trace) + 1
  BY <1>2 DEF IInv, RestInv, CallsNumbered
<1>4. line \in Traced
  BY <1>2 DEF ToolCall, Traced
<1>5. trace' = Append(trace, line) /\ pending' = Tail(pending)
  BY DEF Result
<1> HIDE DEF line, call
<1>6. /\ trace' \in Seq(Traced) /\ Len(trace') = Len(trace) + 1
      /\ \A k \in DOMAIN trace : k \in DOMAIN trace' /\ trace'[k] = trace[k]
      /\ trace'[Len(trace) + 1] = line
      /\ \A k \in DOMAIN trace' : k \in DOMAIN trace \/ k = Len(trace) + 1
  BY <1>1, <1>4, <1>5
<1>7. /\ pending' \in Seq(ToolCall) /\ Len(pending') = Len(pending) - 1
      /\ \A k \in DOMAIN pending' : k + 1 \in DOMAIN pending /\ pending'[k] = pending[k + 1]
                                   /\ k \in Nat
  BY <1>1, <1>5
<1>8. line.id = Len(trace) + 1
  BY <1>3 DEF line
<1>9. \A k \in DOMAIN trace' : trace'[k].id = k
  BY <1>6, <1>8 DEF IInv, RestInv, CallsNumbered
<1>10. \A k \in DOMAIN pending' : pending'[k].id = Len(trace) + (k + 1)
  BY <1>7 DEF IInv, RestInv, CallsNumbered
<1>11. \A k \in DOMAIN pending' : Len(trace) + (k + 1) = Len(trace') + k
  BY <1>1, <1>6, <1>7
<1>12. CallsNumbered'
  BY <1>9, <1>10, <1>11 DEF CallsNumbered
<1>13. QED
  BY <1>2, <1>3, <1>6, <1>7, <1>12 DEF line, call

\* A call that the sandbox may have executed is traced in the same step.
LEMMA EffectsStayTraced ==
  ASSUME IInv, CallRefused \/ CallSandbox
  PROVE  effects' \in Seq(Effect) /\ EffectsInv'
<1> DEFINE call == Head(pending)
           effect == [id |-> call.id, spec |-> SpecOf(call.name)]
<1>1. /\ pc = "call" /\ call.name \in Names(lookup) /\ Result
      /\ effects' = Append(effects, effect) \/ effects' = effects
  BY DEF CallRefused, CallSandbox
<1>2. /\ call \in ToolCall /\ call.id = Len(trace) + 1
      /\ trace \in Seq(Traced) /\ Len(trace') = Len(trace) + 1 /\ trace' \in Seq(Traced)
      /\ \A k \in DOMAIN trace : k \in DOMAIN trace' /\ trace'[k] = trace[k]
      /\ trace'[Len(trace) + 1] = [id |-> call.id, name |-> call.name]
  BY <1>1, ResultTraced DEF IInv, RestInv
<1>3. lookup' = lookup
  BY <1>1 DEF Result
<1>4. PICK t \in lookup : t.name = call.name /\ effect.spec = t.spec
  <2>1. \E t \in lookup : t.name = call.name
    BY <1>1 DEF Names
  <2>2. QED
    BY <2>1 DEF SpecOf
<1>5. t \in [name : Keys, spec : Descriptors]
  BY DEF IInv, RestInv
<1>6. effect \in Effect /\ effect.id = Len(trace) + 1
  BY <1>2, <1>4, <1>5 DEF Effect, ToolCall
<1>7. [name |-> call.name, spec |-> effect.spec] \in lookup
  <2>1. [name |-> call.name, spec |-> effect.spec] = t
    BY <1>4, <1>5
  <2>2. QED
    BY <2>1
<1>8. /\ Len(trace) + 1 \in DOMAIN trace' /\ Len(trace) + 1 \notin DOMAIN trace
      /\ trace'[Len(trace) + 1].name = call.name
  BY <1>2
<1> HIDE DEF effect, call
<1>9. \A i \in DOMAIN effects :
        /\ effects[i].id \in DOMAIN trace /\ effects[i].id \in DOMAIN trace'
        /\ [name |-> trace'[effects[i].id].name, spec |-> effects[i].spec] \in lookup'
  BY <1>2, <1>3 DEF IInv, RestInv, EffectsInv
<1>10. CASE effects' = effects
  BY <1>9, <1>10 DEF IInv, RestInv, EffectsInv
<1>11. CASE effects' = Append(effects, effect)
  <2>1. effects \in Seq(Effect)
    BY DEF IInv, RestInv
  <2>2. /\ effects' \in Seq(Effect)
        /\ \A i \in DOMAIN effects' :
             \/ i \in DOMAIN effects /\ effects'[i] = effects[i]
             \/ i = Len(effects) + 1 /\ effects'[i] = effect
    BY <1>6, <1>11, <2>1
  <2>3. \A i \in DOMAIN effects' :
          /\ effects'[i].id \in DOMAIN trace'
          /\ [name |-> trace'[effects'[i].id].name, spec |-> effects'[i].spec] \in lookup'
    BY <1>3, <1>6, <1>7, <1>8, <1>9, <2>2
  <2>4. ASSUME NEW i \in DOMAIN effects', NEW j \in DOMAIN effects',
               effects'[i].id = effects'[j].id
        PROVE  i = j
    <3>1. CASE i \in DOMAIN effects /\ j \in DOMAIN effects
      BY <2>1, <2>2, <2>4, <3>1, SMTT(30) DEF IInv, RestInv, EffectsInv
    <3>2. CASE i = Len(effects) + 1 /\ j = Len(effects) + 1
      BY <3>2
    <3>3. \A k \in DOMAIN effects' :
            \/ k \in DOMAIN effects /\ effects'[k] = effects[k]
            \/ k = Len(effects) + 1 /\ effects'[k].id = Len(trace) + 1
      BY <1>6, <2>2
    <3>4. \A k \in DOMAIN effects : effects[k].id # Len(trace) + 1
      BY <1>8, <1>9
    <3>5. QED
      BY <2>4, <3>1, <3>2, <3>3, <3>4
  <2>5. QED
    BY <2>2, <2>3, <2>4 DEF EffectsInv
<1>12. QED
  BY <1>1, <1>10, <1>11 DEF IInv, RestInv

\* The iteration goes on, or ends with its last call.
LEMMA ResultKeeps ==
  ASSUME IInv, CallRefused \/ CallSandbox
  PROVE  IInv'
<1>1. /\ pc = "call" /\ Result
      /\ UNCHANGED <<catalogVars, edits, assistant, history, todo, lookup, expired, failure>>
  BY DEF CallRefused, CallSandbox, Result
<1>2. /\ pending \in Seq(ToolCall) /\ pending # <<>> /\ rounds < MaxIterations
      /\ rounds \in 0..MaxIterations /\ MaxIterations \in Nat
  BY <1>1, ChatAssumption DEF IInv, RestInv, PlaceInv
<1>3. /\ trace' \in Seq(Traced) /\ pending' \in Seq(ToolCall)
      /\ Len(pending') = Len(pending) - 1 /\ CallsNumbered'
  BY <1>1, ResultTraced
<1>4. effects' \in Seq(Effect) /\ EffectsInv'
  BY EffectsStayTraced
<1>5. \/ pc' = "ask" /\ rounds' = rounds + 1 /\ pending' = <<>>
      \/ pc' = "call" /\ rounds' = rounds /\ pending' # <<>>
  <2>1. CASE Len(pending) = 1
    BY <1>1, <1>2, <1>3, <2>1 DEF Result
  <2>2. CASE Len(pending) # 1
    BY <1>1, <1>2, <1>3, <2>2, SMTT(30) DEF Result
  <2>3. QED
    BY <2>1, <2>2
<1>6. CatalogTypeOK' /\ StoredDescriptorsValid' /\ NamesUnique'
  BY <1>1 DEF IInv, RestInv, catalogVars, CatalogTypeOK, StoredDescriptorsValid, NamesUnique
<1>7. rounds' \in 0..MaxIterations /\ (pending' # <<>> => rounds' < MaxIterations)
  BY <1>2, <1>5
<1>8. RestInv'
  BY <1>1, <1>3, <1>4, <1>6, <1>7 DEF IInv, RestInv
<1>9. PlaceInv'
  BY <1>1, <1>5 DEF IInv, PlaceInv, PC, DescriptorsNeverFail
<1>10. QED
  BY <1>8, <1>9 DEF IInv

\* The deadline and the admins leave the handler where it is.
LEMMA OthersKeep ==
  ASSUME IInv, Expire \/ Edit
  PROVE  IInv'
<1>1. CASE Expire
  <2>1. /\ expired' \in BOOLEAN
        /\ UNCHANGED <<catalogVars, edits, pc, assistant, history, todo, lookup, messages,
                       rounds, pending, trace, effects, failure>>
    BY <1>1 DEF Expire
  <2>2. RestInv'
    BY <2>1 DEF IInv, RestInv, catalogVars, CatalogTypeOK, StoredDescriptorsValid,
                NamesUnique, CallsNumbered, EffectsInv
  <2>3. PlaceInv'
    BY <2>1 DEF IInv, PlaceInv, DescriptorsNeverFail
  <2>4. QED
    BY <2>2, <2>3 DEF IInv
<1>2. CASE Edit
  <2>1. edits' \in 0..MaxEdits
    BY <1>2, ChatAssumption DEF Edit, IInv, RestInv
  <2>2. CatalogTypeOK' /\ StoredDescriptorsValid'
    BY <1>2, EditKeeps DEF Edit, IInv, RestInv
  <2>3. UNCHANGED <<pc, assistant, history, todo, lookup, rounds, pending, trace, effects,
                    expired, failure>>
    BY <1>2 DEF Edit, chatVars
  <2>4. NamesUnique' /\ CallsNumbered' /\ EffectsInv'
    BY <2>3 DEF IInv, RestInv, NamesUnique, CallsNumbered, EffectsInv
  <2>5. RestInv'
    BY <2>1, <2>2, <2>3, <2>4 DEF IInv, RestInv
  <2>6. PlaceInv'
    BY <2>3 DEF IInv, PlaceInv, DescriptorsNeverFail
  <2>7. QED
    BY <2>5, <2>6 DEF IInv
<1>3. QED
  BY <1>1, <1>2

\* Every step keeps the invariant.
LEMMA Inductive == IInv /\ [Next]_vars => IInv'
<1> SUFFICES ASSUME IInv, [Next]_vars PROVE IInv'
  OBVIOUS
<1>1. CASE FetchDone
  BY <1>1, MoveKeeps DEF FetchDone, Rest
<1>2. CASE PlainCall
  <2>1. CASE FailWith("llmhub")
    BY <1>2, <2>1, FailKeeps DEF PlainCall, Rest, Failures
  <2>2. CASE pc' = "done" /\ UNCHANGED failure
    BY <1>2, <2>2, MoveKeeps DEF PlainCall, Rest
  <2>3. QED
    BY <1>2, <2>1, <2>2 DEF PlainCall
<1>3. CASE AskFails \/ GiveUp \/ UnknownTool
  BY <1>3, FailKeeps DEF AskFails, GiveUp, UnknownTool, Rest, Failures
<1>4. CASE AskFinal
  BY <1>4, MoveKeeps DEF AskFinal, Rest
<1>5. CASE UNCHANGED vars
  <2>1. RestInv'
    BY <1>5, RestKept DEF vars, chatVars, Rest, IInv
  <2>2. PlaceInv'
    BY <1>5 DEF vars, chatVars, IInv, PlaceInv, DescriptorsNeverFail
  <2>3. QED
    BY <2>1, <2>2 DEF IInv
<1>6. QED
  BY <1>1, <1>2, <1>3, <1>4, <1>5, GetAssistantKeeps, FetchRecordsKeeps, AskCallsKeeps,
     ResultKeeps, OthersKeep DEF Next, Handle

\* Every state of a request satisfies the invariant.
LEMMA Invariance == Spec => []IInv
BY Initially, Inductive, PTL DEF Spec

-----------------------------------------------------------------------------
\* The catalog and the handler's variables keep their types.
THEOREM ChatTypes == Spec => []TypeOK
<1>1. IInv => TypeOK
  <2> SUFFICES ASSUME IInv PROVE TypeOK
    OBVIOUS
  <2>1. /\ \A i \in DOMAIN pending : pending[i] \in ToolCall
        /\ \A i \in DOMAIN trace : trace[i] \in Traced
        /\ \A i \in DOMAIN effects : effects[i] \in Effect
    BY DEF IInv, RestInv
  <2>2. QED
    BY <2>1 DEF IInv, RestInv, PlaceInv, TypeOK, ToolCall, Traced, Effect
<1>2. QED
  BY Invariance, <1>1, PTL

\* Two tools of one request never share a name, however the collections that
\* were listed for it change meanwhile.
THEOREM NamesAreUnique == Spec => []NamesUnique
<1>1. IInv => NamesUnique
  BY DEF IInv, RestInv
<1>2. QED
  BY Invariance, <1>1, PTL

\* The handler never meets a record whose descriptor it cannot use.
THEOREM DescriptorsServe == Spec => []DescriptorsNeverFail
<1>1. IInv => DescriptorsNeverFail
  BY DEF IInv, PlaceInv
<1>2. QED
  BY Invariance, <1>1, PTL

\* The sandbox executes a call at most once, only calls that are traced, and
\* with the descriptor of the tool that the call names.
THEOREM EffectsAreTraced == Spec => []EffectsTraced
<1>1. IInv => EffectsTraced
  <2> SUFFICES ASSUME IInv, NEW i \in DOMAIN effects, NEW j \in DOMAIN effects
               PROVE  /\ effects[i].id = effects[j].id => i = j
                      /\ \E t \in ToSet(trace) :
                           /\ t.id = effects[i].id
                           /\ [name |-> t.name, spec |-> effects[i].spec] \in lookup
    BY DEF EffectsTraced
  <2>1. /\ effects[i].id \in DOMAIN trace
        /\ [name |-> trace[effects[i].id].name, spec |-> effects[i].spec] \in lookup
        /\ effects[i].id = effects[j].id => i = j
    BY DEF IInv, RestInv, EffectsInv
  <2>2. trace[effects[i].id].id = effects[i].id
    BY <2>1 DEF IInv, RestInv, CallsNumbered
  <2>3. trace[effects[i].id] \in ToSet(trace)
    BY <2>1 DEF ToSet
  <2>4. QED
    BY <2>1, <2>2, <2>3
<1>2. QED
  BY Invariance, <1>1, PTL

-----------------------------------------------------------------------------
(***************************************************************************)
(* The refinement.  The calls are the numbers 1, 2, ... in the order in    *)
(* which the model makes them, and so are the answers.                     *)
(***************************************************************************)
Numbers(n) == [k \in 1..n |-> k]

askedCalls    == [i \in DOMAIN trace |-> trace[i].id] \o [i \in DOMAIN pending |-> pending[i].id]
answeredCalls == [i \in DOMAIN trace |-> trace[i].id]
roundsMade    == IF pending = <<>> THEN rounds ELSE rounds + 1
outcome       == IF pc \in {"done", "failed"} THEN pc ELSE "running"

\* One more number, and any more of them.
LEMMA NumbersGrow ==
  /\ \A n \in Nat : /\ Numbers(n) \in Seq(Nat) /\ Len(Numbers(n)) = n
                    /\ Run!IsInjective(Numbers(n))
                    /\ Append(Numbers(n), n + 1) = Numbers(n + 1)
  /\ \A n, m \in Nat : n < m => Run!IsStrictPrefix(Numbers(n), Numbers(m))
<1>1. ASSUME NEW n \in Nat
      PROVE  /\ Numbers(n) \in Seq(Nat) /\ Len(Numbers(n)) = n
             /\ Run!IsInjective(Numbers(n))
             /\ Append(Numbers(n), n + 1) = Numbers(n + 1)
  BY DEF Numbers, Run!IsInjective
<1>2. ASSUME NEW n \in Nat, NEW m \in Nat, n < m
      PROVE  Run!IsStrictPrefix(Numbers(n), Numbers(m))
  <2>1. /\ Numbers(n) \in Seq(Nat) /\ Len(Numbers(n)) = n
        /\ Numbers(m) \in Seq(Nat) /\ Len(Numbers(m)) = m
    BY <1>1
  <2>2. SubSeq(Numbers(n), 1, n) = SubSeq(Numbers(m), 1, n)
    BY <1>2 DEF Numbers
  <2>3. QED
    BY <1>2, <2>1, <2>2 DEF Run!IsStrictPrefix, Run!IsPrefix
<1>3. QED
  BY <1>1, <1>2

\* What the refinement mapping makes of any trace and any open calls.
LEMMA CallsAreNumbers ==
  ASSUME NEW t \in Seq(Traced), NEW p \in Seq(ToolCall),
         \A k \in DOMAIN t : t[k].id = k,
         \A k \in DOMAIN p : p[k].id = Len(t) + k
  PROVE  /\ [i \in DOMAIN t |-> t[i].id] = Numbers(Len(t))
         /\ [i \in DOMAIN t |-> t[i].id] \o [i \in DOMAIN p |-> p[i].id]
              = Numbers(Len(t) + Len(p))
<1> DEFINE closed == [i \in DOMAIN t |-> t[i].id]
           open == [i \in DOMAIN p |-> p[i].id]
<1>1. closed = Numbers(Len(t)) /\ closed \in Seq(Nat) /\ Len(closed) = Len(t)
  BY DEF Numbers
<1>2. /\ open \in Seq(Nat) /\ Len(open) = Len(p)
      /\ \A k \in 1..Len(p) : open[k] = Len(t) + k
  <2>1. DOMAIN p = 1..Len(p) /\ Len(p) \in Nat /\ Len(t) \in Nat
    OBVIOUS
  <2>2. open = [k \in 1..Len(p) |-> Len(t) + k]
    BY <2>1
  <2>3. QED
    BY <2>1, <2>2
<1> HIDE DEF open, closed
<1> DEFINE both == closed \o open
<1>3. both \in Seq(Nat) /\ Len(both) = Len(t) + Len(p)
  <2>1. \A q, r \in Seq(Nat) : q \o r \in Seq(Nat) /\ Len(q \o r) = Len(q) + Len(r)
    OBVIOUS
  <2>2. both \in Seq(Nat)
    BY <1>1, <1>2, <2>1
  <2>3. Len(both) = Len(closed) + Len(open)
    BY <1>1, <1>2, <2>1
  <2>4. QED
    BY <1>1, <1>2, <2>2, <2>3
<1>4. ASSUME NEW k \in 1..(Len(t) + Len(p))
      PROVE  both[k] = k
  <2>1. CASE k \in 1..Len(t)
    BY <1>1, <1>2, <2>1 DEF Numbers
  <2>2. CASE k - Len(t) \in 1..Len(p)
    <3>1. both[k] = open[k - Len(t)]
      BY <1>1, <1>2, <2>2
    <3>2. open[k - Len(t)] = Len(t) + (k - Len(t))
      BY <1>2, <2>2
    <3>3. QED
      BY <3>1, <3>2
  <2>3. Len(t) \in Nat /\ Len(p) \in Nat
    OBVIOUS
  <2>4. k \in 1..Len(t) \/ k - Len(t) \in 1..Len(p)
    BY <2>3
  <2>5. QED
    BY <2>1, <2>2, <2>4
<1>5. \A q \in Seq(Nat) : q = [k \in 1..Len(q) |-> q[k]]
  OBVIOUS
<1>6. both = Numbers(Len(t) + Len(p))
  BY <1>3, <1>4, <1>5 DEF Numbers
<1>7. QED
  BY <1>1, <1>6 DEF closed, open

\* The mapping before and after a step.
LEMMA Mapping ==
  ASSUME IInv, IInv'
  PROVE  /\ answeredCalls = Numbers(Len(trace))
         /\ askedCalls = Numbers(Len(trace) + Len(pending))
         /\ answeredCalls' = Numbers(Len(trace'))
         /\ askedCalls' = Numbers(Len(trace') + Len(pending'))
         /\ Len(trace) \in Nat /\ Len(pending) \in Nat
         /\ Len(trace') \in Nat /\ Len(pending') \in Nat
         /\ pending = <<>> <=> Len(pending) = 0
         /\ pending' = <<>> <=> Len(pending') = 0
<1>1. /\ CallsNumbered /\ trace \in Seq(Traced) /\ pending \in Seq(ToolCall)
      /\ CallsNumbered' /\ trace' \in Seq(Traced) /\ pending' \in Seq(ToolCall)
  BY DEF IInv, RestInv
<1>2. /\ answeredCalls = Numbers(Len(trace))
      /\ askedCalls = Numbers(Len(trace) + Len(pending))
  BY <1>1, CallsAreNumbers DEF CallsNumbered, answeredCalls, askedCalls
<1>3. /\ answeredCalls' = Numbers(Len(trace'))
      /\ askedCalls' = Numbers(Len(trace') + Len(pending'))
  BY <1>1, CallsAreNumbers DEF CallsNumbered, answeredCalls, askedCalls
<1>4. /\ Len(trace) \in Nat /\ Len(pending) \in Nat
      /\ Len(trace') \in Nat /\ Len(pending') \in Nat
      /\ pending = <<>> <=> Len(pending) = 0
      /\ pending' = <<>> <=> Len(pending') = 0
  BY <1>1
<1>5. QED
  BY <1>2, <1>3, <1>4

\* An answer with calls makes new ones.
LEMMA CallsAreNew == IInv /\ IInv' /\ AskCalls => Run!Call
<1> SUFFICES ASSUME IInv, IInv', AskCalls PROVE Run!Call
  OBVIOUS
<1>1. /\ pc = "ask" /\ pc' = "call" /\ rounds < MaxIterations
      /\ UNCHANGED <<rounds, trace>>
  BY DEF AskCalls
<1>2. pending = <<>> /\ pending' # <<>>
  BY <1>1 DEF IInv, PlaceInv
<1>3. /\ outcome = "running" /\ outcome' = outcome
      /\ roundsMade = rounds /\ roundsMade' = roundsMade + 1
  BY <1>1, <1>2 DEF outcome, roundsMade
<1>4. /\ answeredCalls = askedCalls /\ answeredCalls' = answeredCalls
      /\ Run!IsStrictPrefix(askedCalls, askedCalls') /\ Run!IsInjective(askedCalls')
  BY <1>1, <1>2, Mapping, NumbersGrow
<1>5. QED
  BY <1>1, <1>3, <1>4 DEF Run!Call, askedCalls, answeredCalls, roundsMade, outcome

\* A result answers the oldest open call.
LEMMA ResultsAnswer == IInv /\ IInv' /\ (CallRefused \/ CallSandbox) => Run!Answer
<1> SUFFICES ASSUME IInv, IInv', CallRefused \/ CallSandbox PROVE Run!Answer
  OBVIOUS
<1>1. pc = "call" /\ Result /\ pending # <<>>
  BY DEF CallRefused, CallSandbox, IInv, PlaceInv
<1>2. Len(trace') = Len(trace) + 1 /\ Len(pending') = Len(pending) - 1
  BY <1>1, ResultTraced
<1>3. /\ outcome = "running" /\ outcome' = outcome
      /\ roundsMade' = roundsMade
  BY <1>1, <1>2, Mapping DEF outcome, roundsMade, Result
<1>4. /\ askedCalls' = askedCalls
      /\ answeredCalls # askedCalls
      /\ Len(answeredCalls) = Len(trace)
      /\ answeredCalls' = Append(answeredCalls, Len(trace) + 1)
  <2> DEFINE n == Len(trace)
             m == Len(pending)
  <2>1. n \in Nat /\ m \in Nat \ {0} /\ n < n + m
    BY <1>1, Mapping
  <2>2. answeredCalls = Numbers(n) /\ askedCalls = Numbers(n + m)
    BY Mapping
  <2>3. Len(trace') + Len(pending') = n + m
    BY <1>2, <2>1
  <2>4. answeredCalls' = Numbers(n + 1) /\ askedCalls' = Numbers(n + m)
    BY <1>2, <2>3, Mapping
  <2> HIDE DEF n, m
  <2>5. Len(Numbers(n)) = n /\ Len(Numbers(n + m)) = n + m
    BY <2>1, NumbersGrow
  <2>6. Append(Numbers(n), n + 1) = Numbers(n + 1)
    BY <2>1, NumbersGrow
  <2>7. answeredCalls # askedCalls
    BY <2>1, <2>2, <2>5
  <2>8. QED
    BY <2>2, <2>4, <2>5, <2>6, <2>7 DEF n
<1>5. askedCalls[Len(answeredCalls) + 1] = Len(trace) + 1
  BY <1>1, <1>4, Mapping DEF Numbers
<1>6. QED
  BY <1>3, <1>4, <1>5 DEF Run!Answer, askedCalls, answeredCalls, roundsMade, outcome

\* A failure leaves the calls as they are, answered or not.
LEMMA FailuresFail ==
  ASSUME IInv, NEW why, pc \notin {"done", "failed"}, FailWith(why),
         UNCHANGED <<rounds, pending, trace>>
  PROVE  Run!Fail
<1>1. /\ outcome = "running" /\ outcome' = "failed"
      /\ UNCHANGED <<askedCalls, answeredCalls, roundsMade>>
  BY DEF FailWith, outcome, askedCalls, answeredCalls, roundsMade
<1>2. QED
  BY <1>1 DEF Run!Fail, askedCalls, answeredCalls, roundsMade, outcome

\* A final answer comes when no call is open.
LEMMA AnswersFinish ==
  ASSUME IInv, IInv', pc \in {"plain", "ask"}, pc' = "done", rounds < MaxIterations,
         UNCHANGED <<rounds, pending, trace>>
  PROVE  Run!Finish
<1>1. pending = <<>>
  BY DEF IInv, PlaceInv
<1>2. /\ outcome = "running" /\ outcome' = "done" /\ roundsMade = rounds
      /\ UNCHANGED <<askedCalls, answeredCalls, roundsMade>>
  BY <1>1 DEF outcome, askedCalls, answeredCalls, roundsMade
<1>3. answeredCalls = askedCalls
  BY <1>1, Mapping
<1>4. QED
  BY <1>2, <1>3 DEF Run!Finish, askedCalls, answeredCalls, roundsMade, outcome

\* The listing, the deadline and the admins are no steps of the abstract run.
LEMMA OthersStutter ==
  ASSUME UNCHANGED <<rounds, pending, trace>>,
         \/ UNCHANGED pc
         \/ pc \in {"start", "fetch"} /\ pc' \in {"fetch", "plain", "ask"}
  PROVE  UNCHANGED Run!vars
<1>1. outcome' = outcome
  BY DEF outcome
<1>2. UNCHANGED <<askedCalls, answeredCalls, roundsMade>>
  BY DEF askedCalls, answeredCalls, roundsMade
<1>3. QED
  BY <1>1, <1>2 DEF Run!vars, askedCalls, answeredCalls, roundsMade, outcome

\* Every step of the handler is one of the abstract run, or none.
LEMMA StepsOfRun == IInv /\ IInv' /\ [Next]_vars => [Run!Next]_(Run!vars)
<1> SUFFICES ASSUME IInv, IInv', [Next]_vars
             PROVE  Run!Next \/ UNCHANGED Run!vars
  OBVIOUS
<1>1. CASE GetAssistant
  BY <1>1, FailuresFail, OthersStutter DEF GetAssistant, Run!Next
<1>2. CASE FetchRecords
  BY <1>2, FailuresFail, OthersStutter DEF FetchRecords, Run!Next
<1>3. CASE FetchDone
  BY <1>3, OthersStutter DEF FetchDone
<1>4. CASE PlainCall
  <2>1. rounds < MaxIterations /\ pc = "plain"
    BY <1>4, ChatAssumption DEF PlainCall, IInv, PlaceInv
  <2>2. QED
    BY <1>4, <2>1, FailuresFail, AnswersFinish DEF PlainCall, Run!Next
<1>5. CASE AskFails \/ GiveUp \/ UnknownTool
  BY <1>5, FailuresFail DEF AskFails, GiveUp, UnknownTool, Run!Next
<1>6. CASE AskFinal
  BY <1>6, AnswersFinish DEF AskFinal, Run!Next
<1>7. CASE AskCalls
  BY <1>7, CallsAreNew DEF Run!Next
<1>8. CASE CallRefused \/ CallSandbox
  BY <1>8, ResultsAnswer DEF Run!Next
<1>9. CASE Expire
  BY <1>9, OthersStutter DEF Expire
<1>10. CASE Edit
  BY <1>10, OthersStutter DEF Edit, chatVars
<1>11. CASE UNCHANGED vars
  BY <1>11, OthersStutter DEF vars, chatVars
<1>12. QED
  BY <1>1, <1>2, <1>3, <1>4, <1>5, <1>6, <1>7, <1>8, <1>9, <1>10, <1>11 DEF Next, Handle

\* The handler implements the abstract run of tools: the model is asked a
\* bounded number of times, with every call it has made answered in order.
THEOREM HandlerImplementsRun == Spec => RunSpec
<1>1. Init => Run!Init
  BY DEF Init, Run!Init
<1>2. QED
  BY <1>1, Invariance, StepsOfRun, PTL DEF Spec, RunSpec, Run!Spec

-----------------------------------------------------------------------------
(***************************************************************************)
(* The messages.  What is proved of conversations, for lists of any        *)
(* length, holds of the client's and of those the handler makes of it.     *)
(***************************************************************************)
Hub == INSTANCE ConversationProofs
         WITH messages <- history, CallIds <- {}, FunctionNames <- {}, Forms <- {},
              MaxCalls <- 0, MaxListSize <- 0

\* The LLM hub reads a list as the facts about conversations say.
LEMMA SameHub ==
  /\ \A ms : Accepts(ms) <=> Hub!Accepts(ms)
  /\ \A ids : Calls(ids) = Hub!Calls(ids)
  /\ \A id : Function(id) = Hub!Function(id)
  /\ \A m : IsCalls(m) <=> Hub!IsCalls(m)
  /\ \A ids : ToSet(ids) = Hub!ToSet(ids)
<1>1. ASSUME NEW ms PROVE Converted(ms) = Hub!Converted(ms)
  BY DEF Converted, Hub!Converted, Keep, Hub!Keep, Kept, Hub!Kept, FoldLeft, Hub!FoldLeft,
         MapThenFoldSet, Hub!MapThenFoldSet, Max, Hub!Max
<1>2. ASSUME NEW kept PROVE Scanned(kept) = Hub!Scanned(kept)
  BY DEF Scanned, Hub!Scanned, Scan, Hub!Scan, IsCalls, Hub!IsCalls, IsText, Hub!IsText,
         ToSet, Hub!ToSet, FoldLeft, Hub!FoldLeft, MapThenFoldSet, Hub!MapThenFoldSet, Max, Hub!Max
<1>3. \A ms : Accepts(ms) <=> Hub!Accepts(ms)
  BY <1>1, <1>2 DEF Accepts, Hub!Accepts, SystemFirst, Hub!SystemFirst
<1>4. QED
  BY <1>3 DEF Calls, Hub!Calls, Calling, Hub!Calling, Function, Hub!Function, Returning, Hub!Returning,
              IsCalls, Hub!IsCalls, ToSet, Hub!ToSet

\* No list is None.
LEMMA ListsAreNotNull ==
  /\ \A ids \in Seq(Nat) : ids # NULL
  /\ NULL \notin Hub!BoundedSeq({}, 0)
<1>1. \A ids \in Seq(Nat) : ids # NULL
  BY HistoryAssumption
<1>2. Hub!BoundedSeq({}, 0) \subseteq Seq(Nat)
  BY DEF Hub!BoundedSeq, Hub!SeqOf
<1>3. QED
  BY <1>1, <1>2

\* The calls that a client's list makes.
Own(h) == Hub!Called(h, Len(h))

\* The messages ms pass so far, with n calls of the hub answered and k open.
Talking(h, ms, n, k) ==
  \E A : /\ A \subseteq Own(h) \cup 1..n
         /\ Hub!Reads(ms, A \cup (n + 1)..(n + k), A)

\* An accepted list of a client passes, with no call of the hub's.
LEMMA TalkStarts ==
  ASSUME NEW S, NEW h \in Seq(S), Accepts(h)
  PROVE  Talking(h, h, 0, 0)
<1>1. \E C : Hub!Reads(h, C, C) /\ C \subseteq Hub!Called(h, Len(h))
  BY SameHub, ListsAreNotNull, Hub!AcceptedReads
<1>2. PICK C : Hub!Reads(h, C, C) /\ C \subseteq Hub!Called(h, Len(h))
  BY <1>1
<1>3. (0 + 1)..(0 + 0) = {} /\ 1..0 = {}
  OBVIOUS
<1>4. C \cup (0 + 1)..(0 + 0) = C
  BY <1>3
<1>5. C \subseteq Own(h) \cup 1..0
  BY <1>2 DEF Own
<1>6. QED
  BY <1>2, <1>4, <1>5 DEF Talking

\* A list whose calls are all answered is accepted.
LEMMA TalkAccepted ==
  ASSUME NEW h, NEW ms, NEW n \in Nat, Talking(h, ms, n, 0)
  PROVE  Accepts(ms)
<1>1. PICK A : Hub!Reads(ms, A \cup (n + 1)..(n + 0), A)
  BY DEF Talking
<1>2. (n + 1)..(n + 0) = {}
  OBVIOUS
<1>3. A \cup (n + 1)..(n + 0) \subseteq A
  BY <1>2
<1>4. Hub!Accepts(ms)
  BY <1>1, <1>3, ListsAreNotNull, Hub!ReadAccepted
<1>5. QED
  BY <1>4, SameHub

\* The calls of an answer open.
LEMMA TalkAsks ==
  ASSUME NEW S, NEW ms \in Seq(S), NEW h, NEW n \in Nat, NEW k \in Nat \ {0}, Talking(h, ms, n, 0),
         NEW ids, ids = [j \in 1..k |-> n + j]
  PROVE  Talking(h, Append(ms, Calls(ids)), n, k)
<1>1. PICK A : A \subseteq Own(h) \cup 1..n /\ Hub!Reads(ms, A \cup (n + 1)..(n + 0), A)
  BY DEF Talking
<1>2. A \cup (n + 1)..(n + 0) = A
  <2>1. (n + 1)..(n + 0) = {}
    OBVIOUS
  <2>2. QED
    BY <2>1
<1>3. ids \in Seq(Nat) /\ ids # <<>>
  OBVIOUS
<1>4. ids \notin {NULL, <<>>}
  BY <1>3, ListsAreNotNull
<1>5. Hub!Reads(ms, A, A)
  BY <1>1, <1>2
<1>6. Hub!Reads(Append(ms, Hub!Calls(ids)), A \cup Hub!ToSet(ids), A)
  BY <1>4, <1>5, ListsAreNotNull, Hub!CallsRead
<1>7. Hub!ToSet(ids) = (n + 1)..(n + k)
  <2>1. \A c \in (n + 1)..(n + k) : c - n \in 1..k /\ n + (c - n) = c
    OBVIOUS
  <2>2. \A j \in 1..k : n + j \in (n + 1)..(n + k)
    OBVIOUS
  <2>3. QED
    BY <2>1, <2>2 DEF Hub!ToSet
<1>8. Hub!Reads(Append(ms, Calls(ids)), A \cup (n + 1)..(n + k), A)
  BY <1>6, <1>7, SameHub
<1>9. QED
  BY <1>1, <1>8 DEF Talking

\* The oldest open call is answered.
LEMMA TalkAnswers ==
  ASSUME NEW S, NEW ms \in Seq(S), NEW h, NEW n \in Nat, NEW k \in Nat \ {0}, Talking(h, ms, n, k),
         Own(h) \cap (Nat \ {0}) = {}
  PROVE  Talking(h, Append(ms, Function(n + 1)), n + 1, k - 1)
<1> DEFINE C == (n + 1)..(n + k)
           D == (n + 1 + 1)..(n + 1 + (k - 1))
<1>1. PICK A : A \subseteq Own(h) \cup 1..n /\ Hub!Reads(ms, A \cup C, A)
  BY DEF Talking
<1>2. n + 1 \in C /\ n + 1 \notin 1..n /\ n + 1 \in Nat \ {0}
  OBVIOUS
<1>3. n + 1 \notin Own(h)
  BY <1>2
<1>4. n + 1 \in (A \cup C) \ A
  BY <1>1, <1>2, <1>3
<1>5. Hub!Reads(Append(ms, Hub!Function(n + 1)), A \cup C, A \cup {n + 1})
  <2> DEFINE id == n + 1
             B == A \cup C
  <2>1. id \in B \ A /\ Hub!Reads(ms, B, A)
    BY <1>1, <1>4
  <2> HIDE DEF id, B
  <2>2. Hub!Reads(Append(ms, Hub!Function(id)), B, A \cup {id})
    BY <2>1, ListsAreNotNull, Hub!AnswerReads
  <2>3. QED
    BY <2>2 DEF id, B
<1>6. C = {n + 1} \cup D
  OBVIOUS
<1>7. A \cup C = (A \cup {n + 1}) \cup D
  BY <1>6
<1>8. A \cup {n + 1} \subseteq Own(h) \cup 1..(n + 1)
  <2>1. 1..n \subseteq 1..(n + 1) /\ n + 1 \in 1..(n + 1)
    OBVIOUS
  <2>2. QED
    BY <1>1, <2>1
<1>9. Hub!Reads(Append(ms, Function(n + 1)), (A \cup {n + 1}) \cup D, A \cup {n + 1})
  BY <1>5, <1>7, SameHub
<1> HIDE DEF C
<1>10. QED
  BY <1>8, <1>9 DEF Talking

\* What a client and the handler can have sent.
Sent(h) == ToSet(h) \cup {Calls(ids) : ids \in Seq(Nat)} \cup {Function(id) : id \in Nat}

\* The messages follow the calls and their results, if the client's were accepted.
TalkInv ==
  /\ messages \in Seq(Sent(history))
  /\ Accepts(history) => Talking(history, messages, Len(trace), Len(pending))

\* No call of a client is one of the hub's.
LEMMA OwnCalls ==
  ASSUME NEW h \in Histories
  PROVE  h \in Seq(ToSet(h)) /\ Own(h) \cap (Nat \ {0}) = {}
<1>1. h \in Seq(ToSet(h)) /\ DOMAIN h = 1..Len(h)
  BY HistoryAssumption
<1>2. \A i \in 1..Len(h) : Hub!IsCalls(h[i]) => Hub!ToSet(h[i].calls) \cap (Nat \ {0}) = {}
  BY <1>1, HistoryAssumption, SameHub
<1>3. QED
  BY <1>1, <1>2 DEF Own, Hub!Called

\* Every step but an answer with calls and a result leaves the messages alone.
LEMMA OthersAreSilent ==
  ASSUME [Next]_vars, ~AskCalls, ~CallRefused, ~CallSandbox
  PROVE  UNCHANGED <<history, messages, trace, pending>>
<1>1. CASE Edit
  BY <1>1 DEF Edit, chatVars
<1>2. CASE UNCHANGED vars
  BY <1>2 DEF vars, chatVars
<1>3. CASE Handle \/ Expire
  BY <1>3 DEF Handle, Expire, GetAssistant, FetchRecords, FetchDone, PlainCall, AskFails,
              AskFinal, GiveUp, UnknownTool
<1>4. QED
  BY <1>1, <1>2, <1>3 DEF Next

\* A client's messages are their own.
LEMMA TalkInitially == Init => TalkInv
<1> SUFFICES ASSUME Init PROVE TalkInv
  OBVIOUS
<1>1. history \in Histories /\ messages = history /\ trace = <<>> /\ pending = <<>>
  BY DEF Init
<1>2. history \in Seq(ToSet(history))
  BY <1>1, OwnCalls
<1>3. history \in Seq(Sent(history))
  BY <1>2 DEF Sent
<1>4. Accepts(history) => Talking(history, history, 0, 0)
  BY <1>2, TalkStarts
<1>5. Len(trace) = 0 /\ Len(pending) = 0
  BY <1>1
<1>6. QED
  BY <1>1, <1>3, <1>4, <1>5 DEF TalkInv

\* An answer with calls is sent back, and its calls are open.
LEMMA AskCallsTalks ==
  ASSUME IInv, TalkInv, AskCalls
  PROVE  TalkInv'
<1>1. pc = "ask" /\ UNCHANGED <<history, trace>>
  BY DEF AskCalls
<1>2. pending = <<>> /\ Len(trace) \in Nat
  BY <1>1 DEF IInv, RestInv, PlaceInv
<1> PICK n \in 1..MaxCalls : \E names \in [1..n -> Keys], args \in [1..n -> {"ok", "bad"}] :
        LET calls == [k \in 1..n |-> [id |-> Len(trace) + k, name |-> names[k], args |-> args[k]]]
        IN  /\ pending' = calls
            /\ messages' = Append(messages, Calls([k \in 1..n |-> calls[k].id]))
  BY DEF AskCalls
<1>3. PICK names \in [1..n -> Keys], args \in [1..n -> {"ok", "bad"}] :
        LET calls == [k \in 1..n |-> [id |-> Len(trace) + k, name |-> names[k], args |-> args[k]]]
        IN  /\ pending' = calls
            /\ messages' = Append(messages, Calls([k \in 1..n |-> calls[k].id]))
  OBVIOUS
<1> DEFINE ids == [j \in 1..n |-> Len(trace) + j]
<1>4. n \in Nat \ {0}
  BY ChatAssumption
<1>5. Len(pending') = n
  BY <1>3, <1>4
<1>6. messages' = Append(messages, Calls(ids))
  <2>1. [k \in 1..n |-> [id |-> Len(trace) + k, name |-> names[k], args |-> args[k]].id] = ids
    OBVIOUS
  <2>2. QED
    BY <1>3, <2>1
<1>7. ids \in Seq(Nat)
  BY <1>2, <1>4
<1>8. messages \in Seq(Sent(history)) /\ Calls(ids) \in Sent(history)
  BY <1>7 DEF TalkInv, Sent
<1>9. messages' \in Seq(Sent(history))
  BY <1>6, <1>8
<1>10. Accepts(history) => Talking(history, messages', Len(trace), n)
  <2> SUFFICES ASSUME Accepts(history) PROVE Talking(history, messages', Len(trace), n)
    OBVIOUS
  <2>1. Len(pending) = 0
    BY <1>2
  <2>2. Talking(history, messages, Len(trace), 0)
    BY <2>1 DEF TalkInv
  <2>3. Talking(history, Append(messages, Calls(ids)), Len(trace), n)
    BY <1>2, <1>4, <1>8, <2>2, TalkAsks
  <2>4. QED
    BY <1>6, <2>3
<1>11. QED
  BY <1>1, <1>5, <1>9, <1>10 DEF TalkInv

\* A result is sent back under the id of the oldest open call.
LEMMA ResultTalks ==
  ASSUME IInv, TalkInv, CallRefused \/ CallSandbox
  PROVE  TalkInv'
<1>1. pc = "call" /\ Result /\ UNCHANGED history
  BY DEF CallRefused, CallSandbox, Result
<1>2. /\ Head(pending).id = Len(trace) + 1
      /\ Len(trace') = Len(trace) + 1 /\ Len(pending') = Len(pending) - 1
  BY <1>1, ResultTraced
<1>3. messages' = Append(messages, Function(Len(trace) + 1))
  BY <1>1, <1>2 DEF Result
<1>4. Len(trace) \in Nat /\ Len(pending) \in Nat \ {0} /\ history \in Histories
  <2>1. trace \in Seq(Traced) /\ pending \in Seq(ToolCall) /\ pending # <<>>
    BY <1>1 DEF IInv, RestInv, PlaceInv
  <2>2. QED
    BY <2>1 DEF IInv, RestInv
<1>5. messages \in Seq(Sent(history)) /\ Function(Len(trace) + 1) \in Sent(history)
  BY <1>4 DEF TalkInv, Sent
<1>6. messages' \in Seq(Sent(history))
  BY <1>3, <1>5
<1>7. Accepts(history) => Talking(history, messages', Len(trace) + 1, Len(pending) - 1)
  <2> SUFFICES ASSUME Accepts(history)
               PROVE  Talking(history, messages', Len(trace) + 1, Len(pending) - 1)
    OBVIOUS
  <2>1. Talking(history, messages, Len(trace), Len(pending))
    BY DEF TalkInv
  <2>2. Own(history) \cap (Nat \ {0}) = {}
    BY <1>4, OwnCalls
  <2>3. Talking(history, Append(messages, Function(Len(trace) + 1)), Len(trace) + 1,
                Len(pending) - 1)
    BY <1>4, <1>5, <2>1, <2>2, TalkAnswers
  <2>4. QED
    BY <1>3, <2>3
<1>8. QED
  BY <1>1, <1>2, <1>6, <1>7 DEF TalkInv

\* The messages follow the calls in every state of a request.
LEMMA TalkInvariance == Spec => []TalkInv
<1>1. IInv /\ TalkInv /\ [Next]_vars => TalkInv'
  <2> SUFFICES ASSUME IInv, TalkInv, [Next]_vars PROVE TalkInv'
    OBVIOUS
  <2>1. CASE UNCHANGED <<history, messages, trace, pending>>
    BY <2>1 DEF TalkInv
  <2>2. QED
    BY <2>1, OthersAreSilent, AskCallsTalks, ResultTalks
<1>2. QED
  BY <1>1, TalkInitially, Invariance, PTL DEF Spec

\* The LLM hub never refuses the messages of a later iteration for their form,
\* whatever it answered and whatever became of the calls.
THEOREM NeverRefused == Spec => []AlwaysAccepted
<1>1. IInv /\ TalkInv => AlwaysAccepted
  <2> SUFFICES ASSUME IInv, TalkInv, pc = "ask", Accepts(history) PROVE Accepts(messages)
    BY DEF AlwaysAccepted
  <2>1. Len(trace) \in Nat /\ Len(pending) = 0
    BY DEF IInv, RestInv, PlaceInv
  <2>2. Talking(history, messages, Len(trace), 0)
    BY <2>1 DEF TalkInv
  <2>3. QED
    BY <2>1, <2>2, TalkAccepted
<1>2. QED
  BY <1>1, Invariance, TalkInvariance, PTL
=============================================================================
