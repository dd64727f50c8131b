--------------------------- MODULE MessageValidation ---------------------------
(***************************************************************************)
(* What the LLM hub does with the messages of a chat completion request    *)
(* (llmhub/app/routes/chat_completion/schema.py): it drops the empty ones, *)
(* accepts or refuses the list (validate_messages), and merges consecutive *)
(* texts of one role.                                                      *)
(***************************************************************************)
EXTENDS Null, Naturals, Sequences, SequencesExt

(***************************************************************************)
(* A message.  The form of its content is "none" (None), "empty" (an empty *)
(* string), "text" or "parts" (a list with a text and an image); calls are *)
(* the ids of the function_calls of an assistant message, where an empty   *)
(* list is not None, and names are the functions called; id is the call    *)
(* that a function message answers.  Only the adapters look at names:      *)
(* where none of them is reached they are left out (Calls).                *)
(***************************************************************************)
Calling(content, ids, names) ==
  [role |-> "assistant", content |-> content, calls |-> ids, names |-> names, id |-> NULL]
Returning(id, content) ==
  [role |-> "function", content |-> content, calls |-> NULL, names |-> NULL, id |-> id]
Text(role, content) ==
  [role |-> role, content |-> content, calls |-> NULL, names |-> NULL, id |-> NULL]

Calls(ids)   == Calling("none", ids, NULL)
Function(id) == Returning(id, "text")

\* _convert_message drops what says nothing.
Kept(m) ==
  \/ m.content \notin {"none", "empty"}
  \/ m.role = "assistant" /\ m.calls \notin {NULL, <<>>}

Keep(kept, m) == IF Kept(m) THEN Append(kept, m) ELSE kept

Converted(messages) == FoldLeft(Keep, <<>>, messages)

\* An empty list of function_calls is enough to be a function-calls message.
IsCalls(m) == m.role = "assistant" /\ m.calls # NULL
IsText(m)  == m.role \in {"user", "assistant"} /\ ~IsCalls(m)

-----------------------------------------------------------------------------
\* A variant with a bug: a call may be answered twice.
ScanRepeats(s, m) ==
  CASE IsCalls(m) ->
         [ok |-> s.ok /\ s.called \subseteq s.answered,
          called |-> s.called \cup ToSet(m.calls), answered |-> s.answered]
    [] m.role = "function" ->
         [ok |-> s.ok /\ m.id \in s.called,
          called |-> s.called, answered |-> s.answered \cup {m.id}]
    [] IsText(m) ->
         [s EXCEPT !.ok = @ /\ s.called = {}]
    [] OTHER -> s

\* A variant with a bug: calls are refused after calls, answered or not.
ScanOneRound(s, m) ==
  CASE IsCalls(m) ->
         [ok |-> s.ok /\ s.called = {},
          called |-> s.called \cup ToSet(m.calls), answered |-> s.answered]
    [] m.role = "function" ->
         [ok |-> s.ok /\ m.id \in s.called \ s.answered,
          called |-> s.called, answered |-> s.answered \cup {m.id}]
    [] IsText(m) ->
         [s EXCEPT !.ok = @ /\ s.called = {}]
    [] OTHER -> s

(***************************************************************************)
(* validate_messages, first part.  called is function_calls_ids, answered  *)
(* is functions_ids: both only grow.                                       *)
(***************************************************************************)
Scan(s, m) ==
  CASE IsCalls(m) ->
         [ok |-> s.ok /\ s.called \subseteq s.answered,
          called |-> s.called \cup ToSet(m.calls), answered |-> s.answered]
    [] m.role = "function" ->
         [ok |-> s.ok /\ m.id \in s.called \ s.answered,
          called |-> s.called, answered |-> s.answered \cup {m.id}]
    [] IsText(m) ->
         [s EXCEPT !.ok = @ /\ s.called = {}]
    [] OTHER -> s

Scanned(kept) == FoldLeft(Scan, [ok |-> TRUE, called |-> {}, answered |-> {}], kept)

SystemFirst(kept) == \A i \in DOMAIN kept : kept[i].role = "system" => i = 1

Accepts(messages) ==
  LET kept == Converted(messages)
      end  == Scanned(kept)
  IN  /\ kept # <<>>
      /\ SystemFirst(kept)
      /\ end.ok
      /\ end.called \subseteq end.answered

-----------------------------------------------------------------------------
(***************************************************************************)
(* validate_messages, second part, over the accepted messages.  A merged   *)
(* message is the sequence of the positions it was made of; open is        *)
(* merge_message (<<>> for None) and prev is prev_role, which a            *)
(* function-calls message does not reset.  Appending to a message that is  *)
(* not there, or appending a list of parts, raises; text appended to a     *)
(* list of parts is spread into it character by character.                 *)
(***************************************************************************)
Flushed(s) == IF s.open = <<>> THEN s.out ELSE Append(s.out, s.open)

Join(kept, s, i) ==
  IF s.open = <<>> \/ kept[i].content = "parts"
  THEN [s EXCEPT !.end = "raised"]
  ELSE [s EXCEPT !.open = Append(@, i),
                 !.end  = IF kept[Head(s.open)].content = "parts" THEN "spread" ELSE @]

\* A variant with a bug: a function-calls message drops the open text.
MergeStepDrops(kept, s, i) ==
  IF s.end = "raised" THEN s ELSE
  CASE ~IsText(kept[i]) -> [s EXCEPT !.out = Append(s.out, <<i>>), !.open = <<>>]
    [] IsText(kept[i]) /\ kept[i].role = s.prev -> Join(kept, s, i)
    [] OTHER -> [s EXCEPT !.out = Flushed(s), !.open = <<i>>, !.prev = kept[i].role]

\* A variant with a bug: prev_role is not kept.
MergeStepForgets(kept, s, i) ==
  IF s.end = "raised" THEN s ELSE
  CASE ~IsText(kept[i]) -> [s EXCEPT !.out = Append(Flushed(s), <<i>>), !.open = <<>>]
    [] IsText(kept[i]) /\ kept[i].role = s.prev -> Join(kept, s, i)
    [] OTHER -> [s EXCEPT !.out = Flushed(s), !.open = <<i>>]

MergeStep(kept, s, i) ==
  IF s.end = "raised" THEN s ELSE
  CASE ~IsText(kept[i]) -> [s EXCEPT !.out = Append(Flushed(s), <<i>>), !.open = <<>>]
    [] IsText(kept[i]) /\ kept[i].role = s.prev -> Join(kept, s, i)
    [] OTHER -> [s EXCEPT !.out = Flushed(s), !.open = <<i>>, !.prev = kept[i].role]

MergeAll(kept) ==
  LET step(s, i) == MergeStep(kept, s, i)
  IN  FoldLeftDomain(step, [out |-> <<>>, open |-> <<>>, prev |-> NULL, end |-> "merged"], kept)

Merge(kept) ==
  LET end == MergeAll(kept)
  IN  [messages |-> Flushed(end), end |-> end.end]
=============================================================================
