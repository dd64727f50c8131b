------------------------------- MODULE Prediction -------------------------------
(***************************************************************************)
(* A chat completion by a model of Replicate, with a fallback behind it    *)
(* (llmhub/providers/replicate/chat_completion.py): the adapter posts a    *)
(* prediction and asks for it again and again, with a pause, until its     *)
(* status is "succeeded".                                                  *)
(***************************************************************************)
EXTENDS Naturals

VARIABLES
  prediction,  \* its status at Replicate, "none" before it is posted
  read,        \* the status that the adapter read last
  call         \* where chat_completion is

vars == <<prediction, read, call>>

Init == prediction = "none" /\ read = "none" /\ call = "posting"

\* Any status of the response but 201 raises.
Post ==
  /\ call = "posting"
  /\ \/ prediction' = "starting" /\ call' = "reading"
     \/ UNCHANGED prediction /\ call' = "raised"
  /\ UNCHANGED read

\* The first request for the result, and each one in the loop; one that fails,
\* or whose answer has no status, raises.
Get ==
  /\ call = "reading"
  /\ \/ read' = prediction /\ call' = "testing"
     \/ UNCHANGED read /\ call' = "raised"
  /\ UNCHANGED prediction

\* The condition of the loop; asyncio.sleep comes before the next request.
Test ==
  /\ call = "testing"
  /\ call' = IF read # "succeeded" THEN "sleeping" ELSE "returned"
  /\ UNCHANGED <<prediction, read>>
Wake == call = "sleeping" /\ call' = "reading" /\ UNCHANGED <<prediction, read>>

\* Replicate's side: a prediction runs and ends, as one of three.
Run == prediction = "starting" /\ prediction' = "processing" /\ UNCHANGED <<read, call>>
Finish == /\ prediction \in {"starting", "processing"}
          /\ prediction' \in {"succeeded", "failed", "canceled"}
          /\ UNCHANGED <<read, call>>

\* The route goes on to the fallback only when chat_completion raises.
FallBack == call = "raised" /\ call' = "fallen back" /\ UNCHANGED <<prediction, read>>

Next == Post \/ Get \/ Test \/ Wake \/ Run \/ Finish \/ FallBack

\* The adapter's task is scheduled, and every prediction ends.
Spec ==
  /\ Init /\ [][Next]_vars
  /\ WF_vars(Post \/ Get \/ Test \/ Wake \/ FallBack)
  /\ WF_vars(Finish)

(***************************************************************************)
(* The schema of the route says of the fallbacks "to use if the model      *)
(* fails to generate a response": once a prediction has failed or has been *)
(* canceled, the fallback has its turn.                                    *)
(***************************************************************************)
FailureFallsBack == prediction \in {"failed", "canceled"} ~> call = "fallen back"
=============================================================================
