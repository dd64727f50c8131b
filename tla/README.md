# rtxag: specifications and proofs

TLA+ modules beside the code of rtxag: an admin API in Go (`codebase/core`), an
LLM hub in Python (`codebase/llmhub`), a tools sandbox in Go (`codebase/tools`)
and an admin web interface (`codebase/interface`). The modules are translated
from the source; `PROJECT.json` names the lines of every definition.

## The system

| component | state | operations | talks to |
|---|---|---|---|
| admin store (`core/api/internal/application/inmemory.go`) | seven maps behind one `RWMutex`, a lazy `initialized` flag | tenants, providers, retrieval collections and documents, tool collections and records, assistants | called by the handlers, one goroutine per request |
| handlers and router (`core/api/internal/http`) | none; a request has a 30 s deadline | decode, take the tenant from the gateway's header, validate descriptors, call the store | store, LLM hub, sandbox |
| playground tool loop (`handlers/playground_tools.go`) | per request: tools, messages, pending calls, trace | collect tools, ask the hub, run the calls, ask again, at most 8 times | store (several locked reads), hub, sandbox |
| chat messages (`llmhub/.../chat_completion/schema.py`) | none | drop empty messages, validate, merge | used by every chat completion |
| chat completion (`.../chat_completion/route.py`, `model_config.py`, `models/model_schema.py`) | per request: the configs still in it, the model being tried, the events sent | look models up, ask each what it can do, try them in turn, stream, end with `[DONE]` | provider adapters |
| text embedding (`.../text_embedding/route.py`) | per request: tasks, merged results | split into batches, run chunks of 20 tasks, fall back | provider adapters |
| credentials (`models/provider_credentials.py`, `routes/verify`) | what the client keeps: the encrypted credentials it was given | load a set, encrypt, decrypt, verify | chat, embedding, rerank |
| tools sandbox (`tools/server.go`) | one nsjail process per call | execute a tool with three time limits | tools on the network |
| provider adapters (`llmhub/providers`) | per request: the body built of it | write the provider's body, read its reply, whole or datum by datum; Replicate's asks for a prediction until it is there | providers |
| stream of a completion (`models/chat_completion/model.py`, `stream.py`) | per stream: text, pieces of function calls, reason so far | decode lines, yield chunks, build the completion | adapters |
| rerank (`llmhub/app/routes/rerank`) | none | one call of one model | adapters |
| hub caches and manage routes (`llmhub/app/cache`) | dictionaries filled at startup, read only afterwards | get | all routes |
| repositories, migrations (`core/services`, `core/orm`) | Postgres tables | read-modify-write; run SQL files | not wired into the admin API |
| web interface, nsjail | a page, vendored code | | |

Hard here: the race of readers through `init()`; check-then-store under a lock;
a catalog that changes between the reads of one chat; calls and results that
must pair over many iterations while calls fail and time out; fallbacks that
start beside what their predecessors left (tasks, chunks, decrypted
credentials, a changed list of messages, configs taken out); streams cut
anywhere and calls split in any way; exceptions that are built and not raised.
`PROJECT.json` lists these hazards with their lines and the properties on them.

## The modules

**TenantTable, TenantService, MemoryState.** `MemoryState` is
`memoryState` seen through its tenants map, one action per lock operation, per
store of `init()` and per step of a body: `Check` is the lookups of `Create` and
`Update`, `Write` their store. `RWMutex` is modelled from its contract: a
pending writer turns new readers away and drains those inside; its unlock admits
the parked ones. `dashboard` calls `init()` under the read lock, so that several
readers store fresh maps and the flag, which may become visible in any order
(`InitStore`). `TenantService` is the abstract service: each request takes effect
in one step between arrival and answer. `MemoryState` implements it with the
identity mapping on `tenants`, `req` and `res`.

**MessageValidation, Conversation.** `Scan` folds the validation over the list as
`validate_messages` loops over it, `MergeStep` the merge; a merged message is the
sequence of positions it was made of. `Conversation` builds every list of
messages: any role, with `None`, an empty string, a string or a list of parts as
content, an assistant's calls beside it or not, in any number and with ids and names
that may repeat. Two things of the schema are left out: an empty list as content,
which is dropped as an empty string is, and a list with several texts or images.
`WellFormed` says without a scan which lists are acceptable.

**ProviderRequests, Adapters.** `ProviderRequests` has, for every chat completion
adapter, what it makes of a request: for each message the role, the words in
order, the calls and the call it answers, under the names the provider is given;
the configs under the names of its API, each with its value; and whether it raises,
itself or when a body that holds a list of parts is made into JSON. `Adapters` runs
all of them on every accepted conversation that `Conversation` builds, and one after
another on the list that the one before has left (`Left`): Gemini's adapter adds the
system message to the next one (`GeminiFold`, by the forms of both contents), Bedrock's
appends an empty one. Wenxin's and Gemini's adapters answer calls by name, through a
map from ids to names that is made of the whole list before any message is written
(`NameOf`): an id that is called again under another name takes the later one, for
earlier results too.

**ToolCatalog, RetrievalStore, AdminCatalog.** The handlers of tools, assistants and
retrieval collections, each with the service call it makes, one step each since
they run under the lock of `MemoryState`. `AdminCatalog` composes them in one
memory and remembers which tenant made each row.

**ToolChat, ToolRun.** `ToolChat` extends both `ToolCatalog` (whose `EditTools` runs
beside the chat) and `MessageValidation` (which decides whether the hub accepts
the messages). Each locked read, each HTTP call and each result is a step.
`effects` is what the sandbox has really executed, which an error answer does not
tell. `ToolRun` is the abstract run: bounded rounds, every call answered once and
in order before the model is asked again.

**Fallback, EmbedBatches, ChatFallback, ChatRequest.** `Fallback` is the loop over the
models that both routes have: the actions of `EmbedBatches` and `ChatFallback` are
built on its steps, so that there is nothing to show about the two and it has no
specification of its own. A barred model ends the request when its
turn comes: one whose embedding size differs, or one whose module does not import
(`get_chat_completion_model` is called outside the `try`). `EmbedBatches` has a
state per model and batch, so that tasks which `gather` leaves running stay in
the model, and every model cuts the input by its own batch size; a task gives one
output for each text of its batch, numbered from 0, or raises. `ChatFallback`
has the events of the stream as the client gets them. `ChatRequest` puts before it
what `api_chat_completion` does first: `Resolves` is `validate_model_info`, and
`ValidateModel` one turn of the loop over the models, which takes configs out of
the object that all of them share.

**Replies, ChatStream.** `Replies` has two definitions for each adapter: what its
`extract_` methods read in a whole reply, and what its `stream_` methods read in
one datum. `ChatStream` is `BaseChatCompletionModel` over them: a reply is chosen,
written as lines in one of several ways (word by word or in one datum, with a
datum of usage before, behind or none), and read; the connection may end and an
error may come before any line. A piece of a call's arguments is the number of
its call and its place, so that a mixture is seen without any JSON.

**Prediction.** Replicate's `chat_completion` and the prediction it asks for.

**VerifyCredentials, ProviderRegistry.** A value is a text and whether it is encrypted;
a set of credentials is a function of fields and suffixes. `Load` is one turn of
the loop of `validate_credentials`, into one dictionary for all models of the
request; `Verify` is the `try` statement with its four `except` clauses and what
follows. `ProviderRegistry` adds the providers of the admin store and the chats of
the playground: `Attach` lays the client's credentials over the stored key, and
the hub loads the result as it loads any request's.

Definitions whose comment starts with "A variant with a bug" are not part of the
specifications: each replaces the definition after it to confirm that a property
notices.

## The runs

| run | shows | bounds |
|---|---|---|
| `memory_state` | no write into nil maps, distinct external ids, no rows lost to a late `init()`, the atomic service is implemented | 3 goroutines, 2 ids, 3 external ids: two readers in `init()` and a writer, every order, and two updates that ask for the same free external id; requests recur without a bound |
| `conversation` | the scan accepts exactly the well-formed lists; a round of tool calls keeps a list acceptable; the merge keeps every message in order and alternates texts; an adapter sends all that was said except exactly what it is known to leave out, each result with its own call, each config under one name and with its value; after one attempt or two, a fallback still sends it all | lists of up to 5 messages, one less with an empty content or a list of parts among them, one less with 2 names (`Size`); 2 call ids, up to 2 calls in a message: a system message and a round of two calls, or two rounds that use an id again; 25 adapters and Bedrock's with its five kinds of model; 5 configs, each absent or at each value that an adapter tells apart |
| `admin_catalog` | scope and owner agree through every clone; listings show a tenant its own rows; edits store what creates accept | 2 tenants, 3 scopes (one unknown to the API: creates do not check it), 2 assistants, 1 collection and record, 1 retrieval collection and document, of which 4 rows are ever made |
| `tool_chat` | the hub never refuses what the loop sends after it accepted the client's messages; no tool runs twice, for a call not made, or with another tool's descriptor; edits never surface as unusable tools; the request ends | 2 records in one collection an assistant may name twice, one edit anywhere, 2 iterations of up to 2 calls |
| `embed_batches` | an answer has every text once, in order, by one model, numbered within its batches; no model's turn is ended by the late tasks of another, or answered before its own batches are done; an answer comes | 3 models with batch sizes 1 to 3 of their own, up to 5 texts, chunks of 2 tasks: up to 3 chunks, full and partial |
| `chat_fallback` | a request that reaches its models asks none of them what it cannot do; a stream ends once, the completion follows its own chunks, and the chunks of each model tried stand in a row, in order, none of them from behind a model that cannot be imported; the request is refused or closed with `[DONE]` | 3 models of 5 schemas (all features, few, no configs, a wildcard without properties, another type) or an unknown one, up to 2 chunks each |
| `chat_stream` | chunks make up the text; a text said to have finished is whole and calls are unmixed, wherever the stream is cut; a stream ends as the plain reply would, and a plain reply is completed whole, except exactly where an adapter is known to differ | every adapter; up to 3 words, one of them with `[DONE]` in it, up to 3 calls with or without arguments, every reason it translates; 6 ways of writing the lines |
| `credentials` | one set in use, encrypted values round-trip, why encrypted credentials are refused, the stored key serves a chat of the playground | 4 providers whose schemas are disjoint, overlapping, optional or without a field named like a key; up to 3 models; 5 inputs, 2 environments; 1 provider row and key |

In the runs of conversations TLC follows a list no further once both the scan and
`WellFormed`'s conditions on positions have refused it (`Hopeful`). Nothing is lost by
that: both only look back, so that a longer list is refused too, by both. The lists
at which it stops are themselves checked.

The bounds named in the modules (`MaxCalls`, `MaxEdits`, `MaxClones`, `MaxRows`,
`MaxChunks`, `MaxWords`, `MaxTexts`, `MaxSize`, `MaxListSize`, `MaxModels`, `MaxSuffix`) limit
inputs, never what the code does with them. `MaxIterations` (8 in the code) and
`MaxParallel` (20) are constants of the code scaled down: 2 iterations are one
that continues and one that gives up, chunks of 2 in up to 5 batches are full and
partial ones. One row of a provider is enough in `credentials`: the playground
takes any row of the provider, and the row it took is all that matters to the
chat. `CHECK_DEADLOCK FALSE` is set where a request ends for good (`tool_chat`,
`embed_batches`, `chat_fallback`, `chat_stream`, `prediction`) or a list reaches
its length.

The properties that say "exactly where" (`LeavesOutExactly`, `StreamIsPlain`,
`PlainIsWhole`, `FallbackSendsAll`) name the differences between the adapters in
a definition before them. Of the messages, beside calls the content is dropped by
most adapters, Gemini's drops a result that is a list and a system message that it
has put beside calls, Wenxin's all calls but the first. Of the configs, Zhipu's
adapter sends 0.01 and 0.99 for a temperature or top_p of 0 and 1, and Replicate's one
string for the list of stop sequences (`MeantBy`). Of the replies, the custom host's adapter
for function calls knows the reason "function_call" in a plain reply and "tool_calls"
in a stream. `ResultsNameTheirCalls` says of Wenxin's and Gemini's adapters only what
they can keep, with one call in each message and no id called twice: with others
a result does go out under the name of another call. A difference that an adapter loses or gains violates
the property: they are the list a change of an adapter has to be held against.

The type invariants of the modules are not properties of the runs, but for
`MemoryState`'s: the others say too little on their own. They are part of the
inductive invariants, and proved with them.

Four runs find a statement of the repository that the code does not keep:

* `conversation_merge`: consecutive texts "can be merged into one"
  (schema.py:245). The merge raises or spreads a text for lists of parts, and
  meets `None` after an assistant message with no calls in its list.
* `conversation_text`: texts are not allowed "until all function_calls have
  corresponding functions" (schema.py:234). They are refused after that too.
* `verify_unreachable`: `test_validation_with_error_credential` expects an error
  for credentials that cannot work; a verification whose call raises `InvalidURL`
  or `ClientConnectionError` outside `chat_completion` (a stream, an embedding,
  a rerank) succeeds.
* `prediction`: fallbacks are "to use if the model fails to generate a response"
  (chat_completion/schema.py:105). Replicate's adapter asks again until the status
  is "succeeded", for ever when it is "failed" or "canceled".

The comment "Process in chunks of 20 to respect max parallel tasks limit"
(text_embedding/route.py:79) holds for each model on its own; tasks that a failed
`gather` has left behind run beside those of the fallback, in `EmbedBatches` as in
the code.

## Fairness

`ToolChat`: the handler's own steps are weakly fair and the deadline passes (chi's
`Timeout` sets the context's deadline, which every outgoing request carries). The
hub and the sandbox owe nothing: only after the deadline must a call return.
`EmbedBatches` and `ChatRequest`: the event loop runs what can run, and every
HTTP call ends, because aiohttp gives a request a total timeout when the code sets
none; fairness is on the request as a whole, so that it may fail forever rather
than succeed, and on every task. The one adapter whose call may go on for ever
although its HTTP calls end, Replicate's, has a model of its own. `Prediction`: the adapter's task is scheduled, and
every prediction ends, one way or another. `MemoryState` states no fairness: no liveness
is claimed of it.

## What is proved

Each theorem is about the specification that the runs check, for every value of its
constants that satisfies the module's assumptions. None of the invariants that
matter is inductive as it stands: each proof module names the strengthening `IInv`
(`AdapterInv` for the adapters) that is, proves it once (`Invariance`,
`StreamInvariance`, with one lemma per action or group of actions), and draws the
properties from it. Every one was checked as an invariant in the instance of its
run before it was proved.

| module | theorems | of any |
|---|---|---|
| `MemoryStateProofs` | `TypeCorrect`, `MapsMade`, `ExternalIdsDistinct`, `RowsSurviveInit`; `Implementation`: `Spec => ServiceSpec` | goroutines, ids, external ids |
| `AdminCatalogProofs` | `CatalogTypes`, `OwnersMatchScopes`, `DescriptorsValid`, `ProvidersNamed`, `ListingsAreOwn`; `OwnersAreKept` (an action property) | tenants, scopes, rows, records |
| `ToolChatProofs` | `ChatTypes`, `NamesAreUnique`, `DescriptorsServe`, `EffectsAreTraced`, `NeverRefused`; `HandlerImplementsRun`: `Spec => RunSpec` | collections, records, calls, rounds, edits, clients' messages |
| `ConversationProofs` | `ScanIsExact`, `RoundsAreAccepted`, `MergesAreWhole`, `MergesAlternate`, `ResultsAreNamed`, `ConfigsAreSent` | lists of messages of any length, call ids, names, forms of content |
| `ChatProofs`, the route | `RouteTypes`, `StreamsEndOnce`, `CompletionsFollowTheirChunks`, `AttemptsAreTold`, `ModelsFit` | models, chunks, schemas, requests |
| `ChatProofs`, the adapters | `TheChunksMakeTheText`, `AFinishedStreamIsWhole`, `APlainReplyIsWhole` | words of a text, calls of a reply, lines |
| `EmbedBatchesProofs` | `EmbedTypes`, `AnswersAreWhole`, `EveryTurnIsOwn` | texts, batch sizes, parallel tasks, models |
| `CredentialsProofs` | `CredentialTypes`, `OneSetIsUsed`, `IssuedComeBack`; `RefusalsHaveReasons`, `StoredKeysServe` (action properties) | providers, schemas, sets, models, keys |
| `FoldFacts` | `FoldAppend`, `FlattenAppend` and what they rest on | operation, list |

**MemoryState.** `LockInv` says who holds the lock: a writer inside is alone, a
draining writer waits for exactly the readers. `BodyInv` says what a goroutine may
conclude from its place: at `write` its request would still not be refused.
`MapInv` ties the flag to the maps: the flag may be set before the maps are, but
only while the goroutine that set it still holds the read lock and has its own
store to make, and until then there are no rows; a create that is past `init()`
has both. `WriterAlone` and `Serving` are what the parts share. For the refinement
every step on the lock or the flag leaves `tenants`, `req` and `res` alone (a store
of fresh maps does because of `FreshMapsLoseNothing`), and the others are steps of
the service.

**AdminCatalog.** The listings need `RowsAreTheirMakers`: a row of the tenant scope
belongs to the tenant whose request made it. It is kept because every maker of a
row takes its owner from the gateway's header (`NewOwner`) under an id that no
table has (`FreshRow`), clones included.

**ToolChat.** `RestInv` numbers the calls in the order in which they are answered
(`CallsNumbered`) and says that what the sandbox executed is traced with a tool of
the request's own table (`EffectsInv`); `PlaceInv` says what the handler has where
it is. `NeverRefused` joins two components. `TalkInv` says that the messages are
the client's, then rounds of calls with all their answers, then the calls and
answers of the current round; `ConversationProofs`, instantiated with no call ids
of a client's own, turns that into acceptance (`AcceptedReads`, `CallsRead`,
`AnswerReads`). It holds for any number of rounds only because the hub's ids are
new ones: the scan forgets no id.

**Conversation.** The loops of `validate_messages` are folds, and what a fold
computes takes an induction over the list. `FoldFacts` makes it available: the
library's induction theorem takes an operator, but a property can be given as the set
of the numbers that have it (`Induction`, by well-founded induction on the
naturals), a fold over n + 1 elements is one more step (`FoldAppend`, from the
definition of the fold as a recursive function), and a module that folds takes an
instance of `FoldFacts` for its operation. `ScanMeans` then says what `Scan` has in
its two sets after k messages, and `MergeMeans` that what `MergeStep` has put out
are intervals of positions without gaps; the theorems read off these.

`ResultsAreNamed` goes on to the bodies. `HandedPaired` says what an adapter is
handed: a list with at most one system message, at its head, in which every
result has a message before it that makes the call, and every call has a name. It needs both the scan (the call is there) and the merge
(`MergeStarts`: a message that is not a text starts a merged one, in the same
order). Then one lemma for each kind of adapter: OpenAI's thirteen keep the ids in
place; Anthropic's and Gemini's shift the list by one when its head is the system
message; the map of Wenxin's and Gemini's holds the name of the call that a result
answers if no id is called twice and each message makes one call (`KnownCall`, `OneName`),
and for Gemini's still after the fold (`GeminiFolds`); and Mistral's fresh id is the place
of the last call with that id (`MistralPlace`), which no other call has.
`ConfigsAreSent` rests on `RenamedKept`: configs sent under distinct
names are kept with their values, whatever these are, and defaults laid under them take
no place of theirs; what remains is that the names each adapter has are distinct, and
that the values which Zhipu's and Replicate's adapters change are those of `MeantBy`.

**ChatRequest.** `StreamInv` says that what has been sent is n chunks, one ending
that fits the answer, and `[DONE]`, and which of the chunks are the current
model's. `AttemptsInv` adds how the chunks of the models tried so far stand in it: each model's
from 0 on, the current one's last, and no barred model before the turn. `ConfigInv` says that each config still there is known to all models
checked so far, and each one gone was unknown to one of them: the models share one
object, so that what is enough for the last is enough for all.

**ChatStream.** The argument is about the lines that have not come yet. A place in a
reply is the number of words and of calls that have been said; `Adds` says what a
line may say to get from one place to the next, `Leads` that lines lead somewhere.
`LinesLead` shows that the lines of any reply, written in any of the ways, lead on
from nothing: the words come in order, a reason when all of them have been said, and
the first piece of each call before its other pieces. It is the one induction here (over the
calls, with `FoldFacts` for `FlattenSeq`). `AllRead` brings what every adapter
makes of a datum into one form, so that one lemma, `TakeKeeps`, does for all of
them. `AdapterInv` then says that the lines to come lead on from the place which the
stream has reached (`OnTheWay`), that the text so far is the reply's first words and is
the whole text if it has a reason (`TextOwn`), that the chunks make it up
(`ChunksOwn`), and that the calls gathered are the reply's first ones, each
beginning with its own first piece (`CallsOwn`). The last is weaker than it looks:
Minimax's calls do get mixed, and nothing stops a call from being cut short. That a
completion has only whole calls is because arguments must parse, and what parses
is the whole of one call, which its first piece identifies (`StreamWhole`). For a
plain reply `PlainShape` says what each of the 29 adapters reads in it, in one form
again, and `PlainWhole` when that is everything.

**EmbedBatches.** `MergedInv` says that `merged_results` is what the current model
makes of the first texts, up to the end of the last chunk that was merged. The
arithmetic is in `BatchesCover` and the lemmas around it: batches cut at multiples of a
size, put together in chunks of any number, give every text once with the number
it has in its batch. `TurnInv` says of the current model's tasks which chunks have been
started and which are done, and that later models have none. A chunk is merged when all its tasks are done, so that the
tasks left by earlier models are irrelevant to it.

**Credentials.** `LoadedInv` says of every value in the dictionary that it is plain,
which of the models read so far has its field, and that for the fields of each of
those models there is one set that they came from, as long as no later model has
some of its fields and not the others. `IssuedInv` says that decrypting what a client
was issued gives what was verified. The two action properties say why a set is
refused, and need `LoadedInv` to know what an earlier model has decrypted already.

Assumed of the constants, and why: NULL is none of the other values
(`NullAssumption`, `NoneAssumption`, and in `CatalogAssumption`, `ChatAssumption`,
`BoundAssumption`), since it stands for `nil` and `None`; a blank is no provider and
no key, and no junk is a descriptor; bounds are natural numbers, and a chat has at least one
iteration, a request at least one model, a batch at least one text, a chunk at
least one task; the fields a schema requires are among those it allows
(`ProvidersAssumption`); NULL is neither a reason nor a datum
(`StreamAssumption`); what a client or the environment gives is plain, and
encrypted values come from the hub (`PlainAssumption`); a request names a model
for each place and asks for features there are (`RequestsAssumption`). In
`HistoryAssumption` the call ids of a client's messages are none of those that the
hub will make: it makes random ones. TLC evaluates all of them in the runs.

Only model-checked:

* Liveness (`Terminates`, `Answered`, `Closed`), which is beyond the prover.
* `LeavesOutExactly` and `FallbackSendsAll`: both count the words of bodies and of
  lists that adapters have filtered with `SelectSeq`, an operator that the prover
  cannot expand.
* `StreamIsPlain`: it compares the two readings of a reply in every detail, and would
  need an invariant that says exactly which calls and which reason each adapter
  has at every place of each way of writing the lines. `AdapterInv` says of the calls
  only what they have in common, and of the reason only when it may be there.
* The four runs that find a violation: a counterexample needs no proof.

## The plan

Modelled, in order of importance: the store's lock, the tool catalog and its chat,
the hub's message validation, its two fallback routes, credentials, the adapters
and their streams, what a chat request has to pass before its models are tried,
the provider registry and the retrieval store. What is left of the system is under
"Not modelled".

Next: `StreamIsPlain` for the adapters whose stream does not differ from their
plain reply, then `FallbackSendsAll` for the parts of it that do not count words:
which messages the list gains and loses.

## Not modelled, and why

* Display names, timestamps, pagination, logging and JSON layout: no property reads
  them. The pages of the dashboard follow Go's map order and are not stable, and
  no line of the repository says that they are.
* AES: an encrypted value is taken to be opaque. Embedding vectors and token
  estimates: numbers.
* The embedding and rerank adapters, and the rerank route: one call each, without
  state or fallback. `EmbedBatches` takes an embedding as a call that gives one output
  for each text or raises; a provider that answers with fewer outputs is left out.
* The bytes of a stream: aiohttp cuts them into lines, and a line longer than its
  buffer, or with several lines in it, is not told from others here.
* The hub's caches beyond the look-up in `ChatRequest`: they are parsed from YAML
  once, at startup, and only read.
* The tools sandbox beyond its answers: it keeps no state between calls, and which
  of its limits ends a call only decides which of the answers in `ToolChat` comes.
* The GORM repositories: nothing in the repository calls them, so there is no
  saying which calls run concurrently. The migrations: a loop over SQL files, whose
  repetition and interruption are Postgres's business.
* The write timeout of the admin server (15 s, shorter than the request deadline):
  it concerns the connection to the client, which `ToolChat` leaves out.
* nsjail and the UI components are vendored; the web interface is a client.
