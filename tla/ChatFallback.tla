------------------------------ MODULE ChatFallback ------------------------------
(***************************************************************************)
(* A chat completion request of the LLM hub                                *)
(* (llmhub/app/routes/chat_completion/route.py).  Without "stream" the     *)
(* models are tried in turn and the first completion is the answer.  With  *)
(* it, every chunk goes to the client as soon as the provider has sent it, *)
(* so that the chunks of a model that fails half way are already out when  *)
(* the next one starts; the completion follows its chunks, or an error     *)
(* does, and [DONE] ends the stream.                                       *)
(***************************************************************************)
EXTENDS Fallback, Sequences

CONSTANT MaxChunks   \* bound on the chunks of one model

ASSUME ChunksAssumption == MaxChunks \in Nat

VARIABLES
  stream,  \* data.stream
  index,   \* index: the next chunk of the model being tried
  sent,    \* the events of the stream, as the client gets them
  gone     \* the client of a stream has closed its connection

chatVars == <<fallbackVars, stream, index, sent, gone>>

Chunk(m, i) == [kind |-> "chunk", by |-> m, index |-> i]
Final(m)    == [kind |-> "final", by |-> m, index |-> NULL]
Fault       == [kind |-> "error", by |-> NULL, index |-> NULL]
Done        == [kind |-> "done",  by |-> NULL, index |-> NULL]

-----------------------------------------------------------------------------
\* barred are the models of providers whose module cannot be imported:
\* get_chat_completion_model raises, outside the try.
ChatInit ==
  /\ FallbackInit
  /\ stream \in BOOLEAN
  /\ index = 0
  /\ sent = <<>>
  /\ gone = FALSE

\* An event is written only to a stream.
Sends(event) == sent' = IF stream THEN Append(sent, event) ELSE sent

\* stream_extract_chunk: the index counts the chunks of this model.
SendChunk ==
  /\ stream /\ ~gone
  /\ answer = NULL /\ turn \notin barred
  /\ index < MaxChunks
  /\ sent' = Append(sent, Chunk(turn, index))
  /\ index' = index + 1
  /\ UNCHANGED <<fallbackVars, stream, gone>>

\* The completion: prepare_response has found text or function calls.
Complete ==
  /\ ~gone
  /\ Succeeds
  /\ Sends(Final(turn))
  /\ UNCHANGED <<stream, index, gone>>

\* A variant with a bug: the indexes go on after those of a model that failed.
CallFailsCounts ==
  /\ ~gone
  /\ Fails
  /\ IF turn = N THEN Sends(Fault) ELSE UNCHANGED sent
  /\ UNCHANGED <<stream, index, gone>>

\* Any exception of the call: an error status, a lost connection, an error
\* event in the stream, an empty response, arguments that are not JSON.
CallFails ==
  /\ ~gone
  /\ Fails
  /\ index' = 0
  /\ IF turn = N THEN Sends(Fault) ELSE UNCHANGED sent
  /\ UNCHANGED <<stream, gone>>

\* A variant with a bug: a model that cannot be imported is passed over.
ImportFailsSkips ==
  /\ ~gone
  /\ answer = NULL /\ turn \in barred /\ turn < N
  /\ turn' = turn + 1
  /\ UNCHANGED <<barred, answer, stream, index, sent, gone>>

\* The import is not within the try: the request ends.
ImportFails ==
  /\ ~gone
  /\ Refused
  /\ Sends(Fault)
  /\ UNCHANGED <<stream, index, gone>>

\* A variant with a bug: [DONE] does not wait for the end of the answer.
SendDoneEarly ==
  /\ stream /\ ~gone
  /\ \A i \in DOMAIN sent : sent[i] # Done
  /\ sent' = Append(sent, Done)
  /\ UNCHANGED <<fallbackVars, stream, index, gone>>

\* A variant with a bug: an error is not followed by [DONE].
SendDoneAfterFinal ==
  /\ stream /\ ~gone
  /\ answer \notin {NULL, Error}
  /\ \A i \in DOMAIN sent : sent[i] # Done
  /\ sent' = Append(sent, Done)
  /\ UNCHANGED <<fallbackVars, stream, index, gone>>

\* generator: "data: [DONE]" after the completion and after an error alike.
SendDone ==
  /\ stream /\ ~gone
  /\ answer # NULL
  /\ \A i \in DOMAIN sent : sent[i] # Done
  /\ sent' = Append(sent, Done)
  /\ UNCHANGED <<fallbackVars, stream, index, gone>>

\* Starlette cancels the generator where it stands; a plain request runs on.
ClientLeaves ==
  /\ stream /\ ~gone
  /\ gone' = TRUE
  /\ UNCHANGED <<fallbackVars, stream, index, sent>>

Attempts == SendChunk \/ Complete \/ CallFails \/ ImportFails \/ SendDone

-----------------------------------------------------------------------------
Ends == {"final", "error"}

Events == {Fault, Done} \cup {Final(m) : m \in Models}
          \cup {Chunk(m, i) : m \in Models, i \in 0..(MaxChunks - 1)}

TypeOK ==
  /\ barred \subseteq Models
  /\ turn \in Models
  /\ answer \in {NULL, Error} \cup {Answer(m) : m \in Models}
  /\ stream \in BOOLEAN
  /\ index \in 0..MaxChunks
  /\ sent \in Seq(Events)
  /\ gone \in BOOLEAN

(***************************************************************************)
(* A stream says how it ended, once, and says it last but for [DONE]: with *)
(* the completion exactly when a model has answered, otherwise with an     *)
(* error; and no [DONE] without one of them.                               *)
(***************************************************************************)
OneEnd ==
  \A i \in DOMAIN sent :
    /\ sent[i].kind = "done" => i = Len(sent) /\ i > 1 /\ sent[i - 1].kind \in Ends
    /\ sent[i].kind \in Ends =>
         /\ answer # NULL /\ sent[i].by = answer.by
         /\ i >= Len(sent) - 1
         /\ i < Len(sent) => sent[i + 1] = Done

(***************************************************************************)
(* A completion comes right after the chunks of its own model, all of      *)
(* them, with the indexes 0, 1, ...: nothing of a model that failed half   *)
(* way gets between them.  The chunks of such a model are still in the     *)
(* stream before them, with the same indexes.                              *)
(***************************************************************************)
FinalCompletesItsChunks ==
  \A f \in DOMAIN sent : sent[f].kind = "final" =>
    LET own == {i \in DOMAIN sent : sent[i].kind = "chunk" /\ sent[i].by = sent[f].by}
    IN  /\ own = (f - index)..(f - 1)
        /\ \A i \in own : sent[i].index = i - (f - index)

(***************************************************************************)
(* A client can tell from a stream which model said what, also of those    *)
(* that failed half way: the chunks of a model come in a row, from the     *)
(* index 0 on, behind those of the models before it and never again after  *)
(* a later one's; and nothing comes from a model at or behind one whose    *)
(* provider cannot be imported, which ends the request.                    *)
(***************************************************************************)
AttemptsInOrder ==
  \A i \in DOMAIN sent : sent[i].by # NULL =>
    /\ \A m \in 1..sent[i].by : m \notin barred
    /\ sent[i].kind = "chunk" =>
         IF sent[i].index = 0
         THEN \A j \in 1..(i - 1) : sent[j].by \in 1..(sent[i].by - 1)
         ELSE i > 1 /\ sent[i - 1] = Chunk(sent[i].by, sent[i].index - 1)

\* The request is answered, and its stream closed with [DONE].
Finished == answer # NULL /\ (stream => \E i \in DOMAIN sent : sent[i] = Done)
=============================================================================
