-------------------------------- MODULE ToolRun --------------------------------
(***************************************************************************)
(* What a chat completion with tools promises: the model is asked a        *)
(* bounded number of times; whenever it is asked, every call it has made   *)
(* before has got its one answer, in the order of the calls; and a request *)
(* that ends well has left no call unanswered.                             *)
(***************************************************************************)
EXTENDS Naturals, Sequences, SequencesExt

CONSTANT MaxIterations

VARIABLES
  asked,     \* the calls the model has made
  answered,  \* those that have been answered
  rounds,    \* how many times the model has made calls
  status     \* "running", "done", "failed"

vars == <<asked, answered, rounds, status>>

Init == asked = <<>> /\ answered = <<>> /\ rounds = 0 /\ status = "running"

\* The model makes calls, none of which it has made before.
Call ==
  /\ status = "running" /\ answered = asked /\ rounds < MaxIterations
  /\ IsStrictPrefix(asked, asked') /\ IsInjective(asked')
  /\ rounds' = rounds + 1
  /\ UNCHANGED <<answered, status>>

\* The oldest open call gets its answer.
Answer ==
  /\ status = "running" /\ answered # asked
  /\ answered' = Append(answered, asked[Len(answered) + 1])
  /\ UNCHANGED <<asked, rounds, status>>

Finish ==
  /\ status = "running" /\ answered = asked /\ rounds < MaxIterations
  /\ status' = "done"
  /\ UNCHANGED <<asked, answered, rounds>>

Fail ==
  /\ status = "running"
  /\ status' = "failed"
  /\ UNCHANGED <<asked, answered, rounds>>

Next == Call \/ Answer \/ Finish \/ Fail

Spec == Init /\ [][Next]_vars
=============================================================================
