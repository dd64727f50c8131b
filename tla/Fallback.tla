-------------------------------- MODULE Fallback --------------------------------
(***************************************************************************)
(* The loop over the models of a request that the chat completion and the  *)
(* text embedding routes of the LLM hub both have: the primary and then    *)
(* its fallbacks are tried one at a time, the answer is that of the first  *)
(* that does not fail, and says which one it was; the request fails when   *)
(* the last one has failed, or when it is the turn of a model that cannot  *)
(* be tried at all.  The routes' own actions are built on these steps:     *)
(* what happens within a turn, and what a turn leaves behind, is theirs.   *)
(***************************************************************************)
EXTENDS Null, Naturals

CONSTANT N   \* the models of a request: 1 is the primary, the others fall back

ASSUME ModelsAssumption == N \in Nat \ {0}

Models == 1..N

\* fallback_index: the position in the list of fallbacks, from 0.
FallbackIndex(m) == IF m = 1 THEN NULL ELSE m - 2

Answer(m) == [by |-> m, fallback_index |-> FallbackIndex(m)]
Error     == [by |-> NULL, fallback_index |-> NULL]

\* None is no model, no answer and no error.
ASSUME NoneAssumption ==
  NULL \notin Models /\ NULL # Error /\ \A m \in Models : NULL # Answer(m)

VARIABLES
  barred,  \* the models that cannot be tried
  turn,    \* the model being tried
  answer   \* the answer of the request, or NULL

fallbackVars == <<barred, turn, answer>>

FallbackInit ==
  /\ barred \in SUBSET Models
  /\ turn = 1
  /\ answer = NULL

\* The model answers.
Succeeds == /\ answer = NULL /\ turn \notin barred
            /\ answer' = Answer(turn)
            /\ UNCHANGED <<barred, turn>>

\* The model fails: the next one has its turn, if there is one.
Fails == /\ answer = NULL /\ turn \notin barred
         /\ \/ turn < N /\ turn' = turn + 1 /\ UNCHANGED answer
            \/ turn = N /\ answer' = Error /\ UNCHANGED turn
         /\ UNCHANGED barred

\* The turn of a barred model ends the request.
Refused == /\ answer = NULL /\ turn \in barred
           /\ answer' = Error
           /\ UNCHANGED <<barred, turn>>
=============================================================================
