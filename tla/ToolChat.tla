-------------------------------- MODULE ToolChat --------------------------------
(***************************************************************************)
(* One playground chat completion with an assistant's tools                *)
(* (runToolChatCompletion, toolFunctionsForAssistant and executeToolCall   *)
(* of core/api/internal/http/handlers/playground_tools.go), while admins   *)
(* edit the catalog.  The handler reads the assistant and then each of its *)
(* collections under separate locks, asks the LLM hub, runs the calls of   *)
(* the answer in the tools sandbox one after the other, and asks again     *)
(* with the results, until the model answers with text.                    *)
(*                                                                         *)
(* The LLM hub validates the messages as MessageValidation says and then   *)
(* answers anything, or fails; its call ids are random and taken here to   *)
(* be fresh numbers.  The request has a deadline, after which every HTTP   *)
(* call returns an error at once.                                          *)
(***************************************************************************)
EXTENDS ToolCatalog, MessageValidation

CONSTANTS
  MaxIterations,  \* 8 in the code
  MaxCalls,       \* bound on the calls of one answer
  MaxEdits,       \* bound on the catalog edits while the request is served
  Histories       \* what clients send as messages

\* Why a request fails.
Failures == {"assistant not found", "empty key", "duplicate tool name", "bad descriptor",
             "llmhub", "tool not found", "iterations"}

\* The rows of the catalog are global ones, and no failure is NULL.
ASSUME ChatAssumption ==
  /\ "global" \in Scopes
  /\ NULL \notin Failures
  /\ MaxIterations \in Nat \ {0}
  /\ MaxCalls \in Nat
  /\ MaxEdits \in Nat

\* A client sends a list of messages, and knows none of the LLM hub's random
\* call ids.
ASSUME HistoryAssumption ==
  /\ NULL \notin Seq(Nat)
  /\ \A h \in Histories :
       /\ h \in Seq(ToSet(h))
       /\ \A i \in DOMAIN h : IsCalls(h[i]) => ToSet(h[i].calls) \cap (Nat \ {0}) = {}

VARIABLES
  pc,        \* where the handler is
  assistant, \* the assistant_id of the request
  history,   \* the messages of the request
  todo,      \* the collections still to be listed
  lookup,    \* toolLookup, as a set of [name, spec]
  messages,  \* the messages sent to the LLM hub next
  rounds,    \* i, the completed iterations
  pending,   \* the calls of the last answer not yet run
  trace,     \* the tool trace: [id, name] per call
  effects,   \* the calls the sandbox has really executed: [id, spec]
  expired,   \* the deadline has passed
  failure,   \* why the request failed, or NULL
  edits      \* how many edits the catalog has seen since the request arrived

chatVars == <<pc, assistant, history, todo, lookup, messages, rounds, pending,
              trace, effects, expired, failure>>

vars == <<catalogVars, chatVars, edits>>

PC == {"start", "fetch", "plain", "ask", "call", "done", "failed"}

Names(tools) == {t.name : t \in tools}

FailWith(why) == pc' = "failed" /\ failure' = why

-----------------------------------------------------------------------------
\* toolFunctionsForAssistant: the assistant first.
GetAssistant ==
  /\ pc = "start"
  /\ IF assistants[assistant] = NULL
     THEN FailWith("assistant not found") /\ UNCHANGED todo
     ELSE /\ todo' = assistants[assistant].tools
          /\ pc' = "fetch"
          /\ UNCHANGED failure
  /\ UNCHANGED <<catalogVars, edits, assistant, history, lookup, messages, rounds, pending,
                 trace, effects, expired>>

\* A variant with a bug: names are compared across collections only.
ClashesAcross(rows) ==
  {toolRecords[r].key : r \in rows} \cap Names(lookup) # {}

\* A name is taken by another record of the collection or by an earlier one.
Clashes(rows) ==
  \/ {toolRecords[r].key : r \in rows} \cap Names(lookup) # {}
  \/ \E r, q \in rows : r # q /\ toolRecords[r].key = toolRecords[q].key

\* The tools of one collection, unless one of them has no name, a name that
\* is taken, or a value without url.
FetchRecords ==
  /\ pc = "fetch" /\ todo # <<>>
  /\ LET rows  == RecordsOf(Head(todo))
         tools == {[name |-> toolRecords[r].key, spec |-> toolRecords[r].value] : r \in rows}
     IN  \/ /\ BLANK \in Names(tools)
            /\ FailWith("empty key") /\ UNCHANGED <<lookup, todo>>
         \/ /\ Clashes(rows)
            /\ FailWith("duplicate tool name") /\ UNCHANGED <<lookup, todo>>
         \/ /\ \E r \in rows : ~ValidDescriptor(toolRecords[r].value)
            /\ FailWith("bad descriptor") /\ UNCHANGED <<lookup, todo>>
         \/ /\ BLANK \notin Names(tools)
            /\ ~Clashes(rows)
            /\ \A r \in rows : ValidDescriptor(toolRecords[r].value)
            /\ lookup' = lookup \cup tools
            /\ todo' = Tail(todo)
            /\ UNCHANGED <<pc, failure>>
  /\ UNCHANGED <<catalogVars, edits, assistant, history, messages, rounds, pending, trace,
                 effects, expired>>

FetchDone ==
  /\ pc = "fetch" /\ todo = <<>>
  /\ pc' = IF lookup = {} THEN "plain" ELSE "ask"
  /\ UNCHANGED <<catalogVars, edits, assistant, history, todo, lookup, messages, rounds, pending,
                 trace, effects, expired, failure>>

\* Without tools the request goes to the LLM hub as it is, and so does the
\* answer to the client.
PlainCall ==
  /\ pc = "plain"
  /\ \/ FailWith("llmhub")
     \/ ~expired /\ Accepts(messages) /\ pc' = "done" /\ UNCHANGED failure
  /\ UNCHANGED <<catalogVars, edits, assistant, history, todo, lookup, messages, rounds, pending,
                 trace, effects, expired>>

-----------------------------------------------------------------------------
\* postLlmhubJSON: no answer, an error status, or not a completion.
AskFails ==
  /\ pc = "ask" /\ rounds < MaxIterations
  /\ FailWith("llmhub")
  /\ UNCHANGED <<catalogVars, edits, assistant, history, todo, lookup, messages, rounds, pending,
                 trace, effects, expired>>

\* An answer without calls is final.
AskFinal ==
  /\ pc = "ask" /\ rounds < MaxIterations
  /\ ~expired /\ Accepts(messages)
  /\ pc' = "done"
  /\ UNCHANGED <<catalogVars, edits, assistant, history, todo, lookup, messages, rounds, pending,
                 trace, effects, expired, failure>>

\* A variant with a bug: one iteration too many.
AskCallsOneMore ==
  /\ pc = "ask" /\ rounds <= MaxIterations
  /\ ~expired /\ Accepts(messages)
  /\ \E n \in 1..MaxCalls : \E names \in [1..n -> Keys], args \in [1..n -> {"ok", "bad"}] :
       LET calls == [k \in 1..n |-> [id |-> Len(trace) + k, name |-> names[k], args |-> args[k]]]
       IN  /\ pending' = calls
           /\ messages' = Append(messages, Calls([k \in 1..n |-> calls[k].id]))
  /\ pc' = "call"
  /\ UNCHANGED <<catalogVars, edits, assistant, history, todo, lookup, rounds, trace, effects,
                 expired, failure>>

\* An answer with calls, of tools the assistant has or has not.
AskCalls ==
  /\ pc = "ask" /\ rounds < MaxIterations
  /\ ~expired /\ Accepts(messages)
  /\ \E n \in 1..MaxCalls : \E names \in [1..n -> Keys], args \in [1..n -> {"ok", "bad"}] :
       LET calls == [k \in 1..n |-> [id |-> Len(trace) + k, name |-> names[k], args |-> args[k]]]
       IN  /\ pending' = calls
           /\ messages' = Append(messages, Calls([k \in 1..n |-> calls[k].id]))
  /\ pc' = "call"
  /\ UNCHANGED <<catalogVars, edits, assistant, history, todo, lookup, rounds, trace, effects,
                 expired, failure>>

\* After the last iteration the request fails, its calls run and answered.
GiveUp ==
  /\ pc = "ask" /\ rounds = MaxIterations
  /\ FailWith("iterations")
  /\ UNCHANGED <<catalogVars, edits, assistant, history, todo, lookup, messages, rounds, pending,
                 trace, effects, expired>>

\* A variant with a bug: the result is not sent back.
ResultNotSent ==
  LET call == Head(pending) IN
  /\ trace' = Append(trace, [id |-> call.id, name |-> call.name])
  /\ pending' = Tail(pending)
  /\ IF Len(pending) = 1
     THEN pc' = "ask" /\ rounds' = rounds + 1
     ELSE UNCHANGED <<pc, rounds>>
  /\ UNCHANGED <<messages, catalogVars, edits, assistant, history, todo, lookup, expired, failure>>

\* One call of the answer has a result, good or bad: it is traced, and sent
\* back to the model.  The iteration ends with its last call.
Result ==
  LET call == Head(pending) IN
  /\ trace' = Append(trace, [id |-> call.id, name |-> call.name])
  /\ messages' = Append(messages, Function(call.id))
  /\ pending' = Tail(pending)
  /\ IF Len(pending) = 1
     THEN pc' = "ask" /\ rounds' = rounds + 1
     ELSE UNCHANGED <<pc, rounds>>
  /\ UNCHANGED <<catalogVars, edits, assistant, history, todo, lookup, expired, failure>>

SpecOf(name) == (CHOOSE t \in lookup : t.name = name).spec

UnknownTool ==
  /\ pc = "call" /\ Head(pending).name \notin Names(lookup)
  /\ FailWith("tool not found")
  /\ UNCHANGED <<catalogVars, edits, assistant, history, todo, lookup, messages, rounds, pending,
                 trace, effects, expired>>

\* A variant with a bug: a call waits for the sandbox past the deadline.
CallRefusedLate ==
  /\ pc = "call" /\ Head(pending).name \in Names(lookup)
  /\ Head(pending).args = "bad"
  /\ Result
  /\ UNCHANGED effects

\* executeToolCall: arguments that are not an object never reach the sandbox,
\* nor does anything after the deadline.
CallRefused ==
  /\ pc = "call" /\ Head(pending).name \in Names(lookup)
  /\ Head(pending).args = "bad" \/ expired
  /\ Result
  /\ UNCHANGED effects

\* A variant with a bug: an error of the sandbox is retried.
CallSandboxRetried ==
  /\ pc = "call" /\ Head(pending).name \in Names(lookup)
  /\ Head(pending).args = "ok" /\ ~expired
  /\ \E times \in 0..2 :
       effects' = effects \o [k \in 1..times |-> [id   |-> Head(pending).id,
                                                 spec |-> SpecOf(Head(pending).name)]]
  /\ Result

\* The sandbox is asked once.  It answers a result or an error, after which
\* the tool may have been executed or not.
CallSandbox ==
  /\ pc = "call" /\ Head(pending).name \in Names(lookup)
  /\ Head(pending).args = "ok" /\ ~expired
  /\ \/ effects' = Append(effects, [id   |-> Head(pending).id,
                                    spec |-> SpecOf(Head(pending).name)])
     \/ UNCHANGED effects
  /\ Result

-----------------------------------------------------------------------------
\* The request's timeout.
Expire ==
  /\ pc \notin {"done", "failed"} /\ ~expired
  /\ expired' = TRUE
  /\ UNCHANGED <<catalogVars, edits, pc, assistant, history, todo, lookup, messages, rounds,
                 pending, trace, effects, failure>>

\* The catalog is that of an admin who has made the collections, some records
\* and an assistant; a client then sends its messages.
Init ==
  /\ toolCols = [c \in Cols |-> [scope |-> "global", tenant |-> NULL]]
  /\ toolRecords \in [Recs -> {NULL} \cup
                        [collection : Cols, key : Keys \cup {BLANK}, value : Descriptors]]
  /\ \E a \in Asts, p \in Providers, tools \in ToolLists :
       /\ assistant = a
       /\ assistants = [b \in Asts |-> IF b # a THEN NULL ELSE
            [scope |-> "global", tenant |-> NULL, status |-> "draft", provider |-> p,
             tools |-> tools, clones |-> 0]]
  /\ issued = Cols \cup {assistant} \cup {r \in Recs : toolRecords[r] # NULL}
  /\ history \in Histories
  /\ messages = history
  /\ pc = "start"
  /\ todo = <<>> /\ lookup = {} /\ pending = <<>>
  /\ rounds = 0 /\ trace = <<>> /\ effects = <<>>
  /\ expired = FALSE /\ failure = NULL /\ edits = 0

Handle ==
  \/ GetAssistant \/ FetchRecords \/ FetchDone \/ PlainCall
  \/ AskFails \/ AskFinal \/ AskCalls \/ GiveUp
  \/ UnknownTool \/ CallRefused \/ CallSandbox

Edit ==
  /\ edits < MaxEdits
  /\ EditTools
  /\ edits' = edits + 1
  /\ UNCHANGED chatVars

Next == Handle \/ Expire \/ Edit

(***************************************************************************)
(* The handler's own steps are fair and the deadline passes.  The LLM hub  *)
(* and the sandbox owe nothing: only once the deadline has passed do calls *)
(* to them return, with an error.                                          *)
(***************************************************************************)
Fairness ==
  /\ WF_vars(GetAssistant) /\ WF_vars(FetchRecords) /\ WF_vars(FetchDone)
  /\ WF_vars(GiveUp) /\ WF_vars(UnknownTool) /\ WF_vars(CallRefused)
  /\ WF_vars(expired /\ (PlainCall \/ AskFails))
  /\ WF_vars(Expire)

Spec == Init /\ [][Next]_vars /\ Fairness

-----------------------------------------------------------------------------
TypeOK ==
  /\ CatalogTypeOK
  /\ pc \in PC
  /\ assistant \in Asts
  /\ history \in Histories
  /\ todo \in ToolLists
  /\ lookup \subseteq [name : Keys, spec : Descriptors]
  /\ rounds \in 0..MaxIterations
  /\ \A i \in DOMAIN pending : pending[i] \in [id : Nat, name : Keys, args : {"ok", "bad"}]
  /\ \A i \in DOMAIN trace : trace[i] \in [id : Nat, name : Keys]
  /\ \A i \in DOMAIN effects : effects[i] \in [id : Nat, spec : Descriptors]
  /\ expired \in BOOLEAN
  /\ edits \in 0..MaxEdits
  /\ failure \in Failures \cup {NULL}
  /\ pc = "failed" <=> failure # NULL

(***************************************************************************)
(* If the LLM hub accepts the client's messages, it accepts those of every *)
(* later iteration: the loop pairs every function call with one function   *)
(* message, in a form that passes the hub's validation, whatever happened  *)
(* to the calls.                                                           *)
(***************************************************************************)
AlwaysAccepted ==
  pc = "ask" /\ Accepts(history) => Accepts(messages)

\* However the catalog is edited meanwhile, the handler never meets a record
\* whose descriptor it cannot use.
DescriptorsNeverFail == failure # "bad descriptor"

(***************************************************************************)
(* A tool is never run twice for one call, nor for a call the model did    *)
(* not make, nor with a descriptor of another tool than the one named; a   *)
(* client that gets an answer finds every execution in its trace.          *)
(***************************************************************************)
EffectsTraced ==
  \A i, j \in DOMAIN effects :
    /\ effects[i].id = effects[j].id => i = j
    /\ \E t \in ToSet(trace) : /\ t.id = effects[i].id
                               /\ [name |-> t.name, spec |-> effects[i].spec] \in lookup

\* Two tools of one request never share a name, so that a call names one.
NamesUnique == \A t, u \in lookup : t.name = u.name => t = u

(***************************************************************************)
(* Every request is answered: by the model, or by an error at the latest   *)
(* when the deadline has passed, however many calls were still to be run.  *)
(***************************************************************************)
Terminates == <>(pc \in {"done", "failed"})

\* The handler implements the abstract run of tools.
Run == INSTANCE ToolRun WITH
  asked    <- [i \in DOMAIN trace |-> trace[i].id] \o [i \in DOMAIN pending |-> pending[i].id],
  answered <- [i \in DOMAIN trace |-> trace[i].id],
  rounds   <- IF pending = <<>> THEN rounds ELSE rounds + 1,
  status   <- IF pc \in {"done", "failed"} THEN pc ELSE "running"

RunSpec == Run!Spec
=============================================================================
