------------------------------ MODULE Conversation ------------------------------
(***************************************************************************)
(* A client of the LLM hub that builds the messages of a chat completion   *)
(* request one by one, with any role, any of the Forms of content (a list  *)
(* of parts for an assistant or a function too), and function calls beside *)
(* the content or not.  What the hub does with the list is looked at after *)
(* each message.                                                           *)
(***************************************************************************)
EXTENDS MessageValidation, FiniteSets

CONSTANTS
  CallIds,        \* ids of function calls
  FunctionNames,  \* names of functions
  Forms,          \* the forms of content used
  MaxCalls,       \* bound on the calls of a message
  MaxListSize     \* bound on the size of a list

ASSUME FormsAssumption == Forms \subseteq {"none", "empty", "text", "parts"}

\* None is not a list of calls.
ASSUME BoundAssumption ==
  /\ MaxCalls \in Nat /\ MaxListSize \in Nat
  /\ NULL \notin BoundedSeq(CallIds, MaxCalls)

VARIABLE messages

\* The ids of the calls of a message: in any order, an id more than once or
\* none at all, as the schema takes them.
CallLists == BoundedSeq(CallIds, MaxCalls)

Message ==
       {Text(role, c) : role \in {"system", "user", "assistant"}, c \in Forms}
  \cup (UNION {{Calling(c, ids, names) : c \in Forms, names \in [DOMAIN ids -> FunctionNames]}
                 : ids \in CallLists})
  \cup {Returning(id, c) : id \in CallIds, c \in Forms}

Init == messages = <<>>

Add(m) == messages' = Append(messages, m)

(***************************************************************************)
(* For TLC, the more there is to a list, the shorter it may be: a message  *)
(* less if a content is empty or a list of parts, and a message less if    *)
(* more than one function is called.                                       *)
(***************************************************************************)
NamesIn(ms) == UNION {ToSet(ms[i].names) : i \in {k \in DOMAIN ms : IsCalls(ms[k])}}
Size(ms) ==
  Len(ms) + (IF \E i \in DOMAIN ms : ms[i].content \in {"empty", "parts"} THEN 1 ELSE 0)
          + (IF Cardinality(NamesIn(ms)) > 1 THEN 1 ELSE 0)

Next ==
  /\ Size(messages) < MaxListSize
  /\ \E m \in Message : Size(Append(messages, m)) <= MaxListSize /\ Add(m)

Spec == Init /\ [][Next]_messages

-----------------------------------------------------------------------------
Called(kept, i)   == UNION {ToSet(kept[j].calls) : j \in {k \in 1..i : IsCalls(kept[k])}}
Answered(kept, i) == {kept[j].id : j \in {k \in 1..i : kept[k].role = "function"}}

(***************************************************************************)
(* What an acceptable conversation is, without a scan: one system message  *)
(* at most, at the head; no text once a function has been called; every    *)
(* function message answers an earlier call, and no other answers it too;  *)
(* every call is answered in the end, and those made before another        *)
(* calls message are answered before it.                                   *)
(***************************************************************************)
Fitting(kept) ==
  \A i \in DOMAIN kept :
    /\ kept[i].role = "system" => i = 1
    /\ IsText(kept[i]) => Called(kept, i) = {}
    /\ IsCalls(kept[i]) => Called(kept, i - 1) \subseteq Answered(kept, i - 1)
    /\ kept[i].role = "function" => /\ kept[i].id \in Called(kept, i)
                                    /\ kept[i].id \notin Answered(kept, i - 1)

WellFormed(kept) ==
  /\ kept # <<>>
  /\ Fitting(kept)
  /\ Called(kept, Len(kept)) \subseteq Answered(kept, Len(kept))

(***************************************************************************)
(* For TLC, which follows a list no further once the scan and the          *)
(* definition agree that nothing added to it can make it acceptable.       *)
(***************************************************************************)
Hopeful ==
  LET kept == Converted(messages)
  IN  (SystemFirst(kept) /\ Scanned(kept).ok) \/ Fitting(kept)

\* The scan accepts exactly the well-formed conversations.
AcceptsWellFormed == Accepts(messages) <=> WellFormed(Converted(messages))

(***************************************************************************)
(* A round of function calls with fresh ids, answered in the order of the  *)
(* calls, takes an accepted conversation to an accepted one: what the tool *)
(* loop of the admin API sends back is never refused for its form.         *)
(***************************************************************************)
ToolRoundAccepted ==
  Accepts(messages) =>
    \A ids \in CallLists :
      /\ IsInjective(ids)
      /\ ToSet(ids) \cap Called(messages, Len(messages)) = {}
      => Accepts(Append(messages, Calls(ids)) \o [k \in DOMAIN ids |-> Function(ids[k])])

\* Unless it raises, the merge keeps every message, once and in order.
MergeKeepsAll ==
  LET kept == Converted(messages)
      m == Merge(kept)
  IN  Accepts(messages) /\ m.end # "raised"
        => FlattenSeq(m.messages) = [i \in DOMAIN kept |-> i]

\* Merged texts alternate: two texts in a row are never of one role, and a
\* merged message never mixes roles or swallows a function-calls message.
MergedTextAlternates ==
  LET kept == Converted(messages)
      m == Merge(kept)
      role(i) == kept[m.messages[i][1]].role
      text(i) == IsText(kept[m.messages[i][1]])
  IN  Accepts(messages) /\ m.end # "raised" =>
        \A i \in DOMAIN m.messages :
          /\ \A k \in DOMAIN m.messages[i] : /\ kept[m.messages[i][k]].role = role(i)
                                             /\ IsText(kept[m.messages[i][k]]) = text(i)
          /\ i > 1 /\ text(i) /\ text(i - 1) => role(i) # role(i - 1)

(***************************************************************************)
(* schema.py says of user and assistant texts "If they appear              *)
(* consecutively, they can be merged into one": no accepted conversation   *)
(* makes the merge raise, or spread a text into a list of parts.           *)
(***************************************************************************)
ConsecutiveTextsMerge ==
  Accepts(messages) => Merge(Converted(messages)).end = "merged"

(***************************************************************************)
(* schema.py refuses texts "after function role until all function_calls   *)
(* have corresponding functions": once they have, a text is accepted.      *)
(***************************************************************************)
TextAfterAnsweredCalls ==
  Accepts(messages) => Accepts(Append(messages, Text("assistant", "text")))
=============================================================================
