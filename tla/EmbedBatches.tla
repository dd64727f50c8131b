------------------------------ MODULE EmbedBatches ------------------------------
(***************************************************************************)
(* A text embedding request of the LLM hub                                 *)
(* (llmhub/app/routes/text_embedding/route.py): api_text_embedding tries   *)
(* the models in turn; embed_text splits the input into batches and embeds *)
(* them in chunks of MaxParallel concurrent tasks, each chunk awaited with *)
(* asyncio.gather.  gather raises as soon as one task has failed and       *)
(* leaves the others running, so that tasks of a model that has failed are *)
(* still there while the next one is tried.                                *)
(***************************************************************************)
EXTENDS Fallback, FiniteSets, SequencesExt

CONSTANTS
  MaxTexts,     \* bound on the texts of an input
  MaxSize,      \* bound on a model's max_batch_size
  MaxParallel   \* max_parallel_tasks, 20 in the code

ASSUME EmbedAssumption ==
  /\ MaxTexts \in Nat
  /\ MaxSize \in Nat \ {0}
  /\ MaxParallel \in Nat \ {0}

VARIABLES
  texts,    \* how many texts the input has: they are known by their positions
  size,     \* max_batch_size of each model
  first,    \* the first batch of the current chunk
  task,     \* the task of each model and batch
  merged    \* merged_results

vars == <<fallbackVars, texts, size, first, task, merged>>

input == <<texts, size>>

\* The last batch of a model may be a partial one.
Batches(m) == (texts + size[m] - 1) \div size[m]
Batch(m, b) == {p \in 1..texts : (b - 1) * size[m] < p /\ p <= b * size[m]}

Chunk == {b \in 1..Batches(turn) : first <= b /\ b < first + MaxParallel}

\* An adapter answers for its batch and numbers the outputs from 0, by itself
\* or as the provider has numbered them.
Outputs(m, b) ==
  [k \in 1..Cardinality(Batch(m, b)) |->
     [by |-> m, text |-> (b - 1) * size[m] + k, index |-> k - 1]]

-----------------------------------------------------------------------------
\* barred are the fallbacks whose embedding size is not that of the primary.
Init ==
  /\ FallbackInit
  /\ 1 \notin barred
  /\ texts \in 0..MaxTexts
  /\ size \in [Models -> 1..MaxSize]
  /\ first = 1
  /\ task = [mb \in Models \X (1..MaxTexts) |-> "none"]
  /\ merged = <<>>

\* The tasks of a chunk are created together.
StartChunk ==
  /\ answer = NULL /\ turn \notin barred
  /\ Chunk # {}
  /\ \A b \in Chunk : task[<<turn, b>>] = "none"
  /\ task' = [mb \in DOMAIN task |->
                IF mb[1] = turn /\ mb[2] \in Chunk THEN "running" ELSE task[mb]]
  /\ UNCHANGED <<fallbackVars, input, first, merged>>

\* embed_batch: the provider answers, or any exception is raised.
TaskEnds(m, b) ==
  /\ task[<<m, b>>] = "running"
  /\ \E end \in {"done", "failed"} : task' = [task EXCEPT ![<<m, b>>] = end]
  /\ UNCHANGED <<fallbackVars, input, first, merged>>

\* All tasks of the chunk have succeeded: their outputs are appended in the
\* order of the batches.
Gathered ==
  /\ answer = NULL /\ turn \notin barred
  /\ Chunk # {}
  /\ \A b \in Chunk : task[<<turn, b>>] = "done"
  /\ merged' = merged \o FlattenSeq([k \in 1..Cardinality(Chunk) |-> Outputs(turn, first + k - 1)])
  /\ first' = first + MaxParallel
  /\ UNCHANGED <<fallbackVars, input, task>>

\* After the last chunk the request is answered.
Embedded ==
  /\ first > Batches(turn)
  /\ Succeeds
  /\ UNCHANGED <<input, first, task, merged>>

\* A variant with a bug: the outputs of the model that failed stay.
GatherFailsKeeps ==
  /\ \E b \in Chunk : task[<<turn, b>>] = "failed"
  /\ Fails
  /\ first' = 1
  /\ UNCHANGED <<input, task, merged>>

\* A variant with a bug: only a chunk that fails altogether fails.
GatherFailsAll ==
  /\ \A b \in Chunk : task[<<turn, b>>] = "failed"
  /\ Fails
  /\ first' = 1
  /\ merged' = <<>>
  /\ UNCHANGED <<input, task>>

\* A variant with a bug: a late failure of an earlier model counts as well.
GatherFailsLate ==
  /\ \E m \in Models : \E b \in 1..Batches(m) : task[<<m, b>>] = "failed"
  /\ Fails
  /\ first' = 1
  /\ merged' = <<>>
  /\ UNCHANGED <<input, task>>

\* gather raises; the next model starts over, beside the tasks left behind.
GatherFails ==
  /\ \E b \in Chunk : task[<<turn, b>>] = "failed"
  /\ Fails
  /\ first' = 1
  /\ merged' = <<>>
  /\ UNCHANGED <<input, task>>

\* The model cannot be loaded: this is an exception like any other.
LoadFails ==
  /\ first = 1 /\ \A b \in Chunk : task[<<turn, b>>] = "none"
  /\ Fails
  /\ UNCHANGED <<input, first, task, merged>>

\* The size is compared before the model is tried.
SizeDiffers ==
  /\ Refused
  /\ UNCHANGED <<input, first, task, merged>>

Request == StartChunk \/ Gathered \/ Embedded \/ GatherFails \/ LoadFails \/ SizeDiffers

Next == Request \/ \E m \in Models, b \in 1..MaxTexts : TaskEnds(m, b)

(***************************************************************************)
(* The event loop runs what can run, and every HTTP call of a task ends:   *)
(* aiohttp gives a session a total timeout when the code sets none.        *)
(***************************************************************************)
Spec ==
  /\ Init /\ [][Next]_vars
  /\ WF_vars(Request)
  /\ \A m \in Models, b \in 1..MaxTexts : WF_vars(TaskEnds(m, b))

-----------------------------------------------------------------------------
TypeOK ==
  /\ barred \subseteq Models
  /\ turn \in Models
  /\ answer \in {NULL, Error} \cup {Answer(m) : m \in Models}
  /\ texts \in 0..MaxTexts
  /\ size \in [Models -> 1..MaxSize]
  /\ first \in 1..(MaxTexts + MaxParallel)
  /\ task \in [Models \X (1..MaxTexts) -> {"none", "running", "done", "failed"}]
  /\ merged \in Seq([by : Models, text : 1..texts, index : 0..(MaxSize - 1)])

(***************************************************************************)
(* An answer holds an embedding of every text of the input, once and in    *)
(* order, all of them by the model the answer names: nothing of a model    *)
(* that failed half way, of its late tasks, or of batches of another size  *)
(* is mixed in.  Only the position of an output says which text it is      *)
(* about: its index counts from 0 in each batch of that model.             *)
(***************************************************************************)
AnswerIsWhole ==
  answer \notin {NULL, Error} =>
    merged = [p \in 1..texts |->
                [by |-> answer.by, text |-> p, index |-> (p - 1) % size[answer.by]]]

\* A model whose turn is over without an answer has failed by itself: one of
\* its own batches has, or it could not be loaded and has no tasks at all.
Unstarted(m) == \A b \in 1..MaxTexts : task[<<m, b>>] = "none"
FailedItself(m) ==
  m \notin barred /\ (Unstarted(m) \/ \E b \in 1..Batches(m) : task[<<m, b>>] = "failed")

(***************************************************************************)
(* Every model gets its own turn whole, beside the tasks that the earlier  *)
(* ones have left behind: the request goes past a model only for a failure *)
(* of that model's own tasks or load, never for a late one of another, and *)
(* never past one of another embedding size; it answers only when each     *)
(* batch of the answering model has succeeded; and no later model is sent  *)
(* anything.                                                               *)
(***************************************************************************)
EachTurnIsOwn ==
  /\ \A m \in 1..(turn - 1) : FailedItself(m)
  /\ \A m \in (turn + 1)..N : Unstarted(m)
  /\ answer = Error => turn \in barred \/ (turn = N /\ FailedItself(turn))
  /\ answer \notin {NULL, Error} =>
       /\ answer = Answer(turn)
       /\ \A b \in 1..Batches(turn) : task[<<turn, b>>] = "done"

\* Every request is answered, by a model or with an error.
Answered == <>(answer # NULL)
=============================================================================
