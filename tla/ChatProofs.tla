------------------------------- MODULE ChatProofs -------------------------------
(***************************************************************************)
(* Proofs about a chat completion.  Of the route (ChatRequest), for any    *)
(* number of models and chunks and any schemas and requests: type          *)
(* correctness, how a stream ends and what its completion completes, what  *)
(* the validation lets through, and that a client can tell the attempts of *)
(* the models apart.  Of the adapters under it (ChatStream), for texts and *)
(* calls of any length: the chunks make up the text, and what is said to   *)
(* have finished is whole.                                                 *)
(***************************************************************************)
EXTENDS ChatRequest, ChatStream, SequenceTheorems, TLAPS

\* The event that says how the request was answered.
Ending == IF answer = Error THEN Fault ELSE Final(turn)

\* The stream begins with n chunks, the last of them those of the model whose
\* turn it is, unless that model was the last and has failed; then comes the
\* ending, and then [DONE].
ChunksFirst(n) ==
  /\ n \in 0..Len(sent)
  /\ index <= n
  /\ \A i \in 1..n :
       /\ sent[i].kind = "chunk"
       /\ sent[i].by \in 1..turn
       /\ answer # Error =>
            /\ sent[i].by = turn <=> i > n - index
            /\ sent[i].by = turn => sent[i].index = i - (n - index) - 1

EndFollows(n) ==
  /\ answer = NULL \/ ~stream => Len(sent) = n
  /\ answer # NULL /\ stream =>
       /\ sent[n + 1] = Ending
       /\ \/ Len(sent) = n + 1
          \/ Len(sent) = n + 2 /\ sent[n + 2] = Done

StreamIs(n) == ChunksFirst(n) /\ EndFollows(n)

StreamInv ==
  /\ ~stream => sent = <<>>
  /\ answer \in {NULL, Error, Answer(turn)}
  /\ \E n \in Nat : StreamIs(n)

\* What the models checked so far have left of the configs.
ConfigInv ==
  /\ request \in Requests
  /\ checked \in 0..N
  /\ phase \in {"infos", "models", "refused", "tried"}
  /\ phase = "tried" => checked = N
  /\ \A m \in 1..checked :
       /\ request.asks \subseteq Allows(Schema(m))
       /\ \A key \in DOMAIN configs :
            key \in DOMAIN Schema(m).configs /\ configs[key] \in Schema(m).configs[key]
  /\ \A key \in DOMAIN request.configs :
       \/ key \in DOMAIN configs /\ configs[key] = request.configs[key]
       \/ \E m \in 1..checked : key \notin DOMAIN Schema(m).configs

IInv == TypeOK /\ StreamInv /\ ConfigInv

-----------------------------------------------------------------------------
\* A request that has just arrived has sent nothing and dropped no config.
LEMMA Initially == Init => IInv
<1> SUFFICES ASSUME Init
             PROVE  IInv
  OBVIOUS
<1> USE DEF Init, ChatInit, FallbackInit
<1>1. TypeOK
  <2>1. stream \in BOOLEAN /\ gone \in BOOLEAN
    OBVIOUS
  <2>2. barred \subseteq Models /\ turn \in Models /\ answer = NULL /\ index \in 0..MaxChunks
    BY ModelsAssumption, ChunksAssumption DEF Models
  <2>3. sent \in Seq(Events)
    OBVIOUS
  <2>4. QED
    BY <2>1, <2>2, <2>3 DEF TypeOK
<1>2. StreamInv
  <2>1. StreamIs(0)
    BY DEF StreamIs, ChunksFirst, EndFollows
  <2>2. QED
    BY <2>1 DEF StreamInv
<1>3. ConfigInv
  BY ModelsAssumption DEF ConfigInv
<1>4. QED
  BY <1>1, <1>2, <1>3 DEF IInv

-----------------------------------------------------------------------------
\* The validation touches only the configs, a model at a time.
LEMMA ValidationKeeps ==
  ASSUME IInv, ValidateInfos \/ ValidateModel \/ Try
  PROVE  IInv'
<1>1. TypeOK' /\ StreamInv'
  <2>1. UNCHANGED <<barred, turn, answer, stream, index, sent, gone>>
    BY DEF ValidateInfos, ValidateModel, Try, chatVars, fallbackVars
  <2>2. QED
    BY <2>1 DEF IInv, TypeOK, StreamInv, StreamIs, ChunksFirst, EndFollows, Ending
<1>2. CASE ValidateInfos \/ Try
  BY <1>1, <1>2 DEF IInv, ValidateInfos, Try, ConfigInv, Schema
<1>3. CASE ValidateModel
  <2> DEFINE schema == Schema(checked + 1)
  <2>1. CASE /\ request.asks \subseteq Allows(schema)
             /\ \A key \in DOMAIN configs \cap DOMAIN schema.configs :
                  Conforms(configs[key], schema.configs[key])
             /\ configs' = Dropped(schema) /\ checked' = checked + 1 /\ UNCHANGED phase
    <3>1. /\ UNCHANGED request
          /\ \A m : Schema(m)' = Schema(m)
          /\ checked \in 0..N /\ checked < N /\ N \in Nat
          /\ phase = "models"
      BY <1>3, ModelsAssumption DEF ValidateModel, Schema, IInv, ConfigInv
    <3>2. /\ DOMAIN configs' = DOMAIN configs \cap DOMAIN schema.configs
          /\ \A key \in DOMAIN configs' : configs'[key] = configs[key]
      BY <2>1 DEF Dropped
    <3>3. checked' \in 0..N /\ 1..checked' = 1..checked \cup {checked + 1}
      BY <2>1, <3>1
    <3>4. ASSUME NEW m \in 1..checked'
          PROVE  /\ request.asks \subseteq Allows(Schema(m))
                 /\ \A key \in DOMAIN configs' :
                      /\ key \in DOMAIN Schema(m).configs
                      /\ configs'[key] \in Schema(m).configs[key]
      <4>1. CASE m \in 1..checked
        BY <4>1, <3>2 DEF IInv, ConfigInv
      <4>2. CASE m = checked + 1
        BY <4>2, <2>1, <3>2 DEF Conforms
      <4>3. QED
        BY <3>3, <4>1, <4>2
    <3>5. ASSUME NEW key \in DOMAIN request.configs
          PROVE  \/ key \in DOMAIN configs' /\ configs'[key] = request.configs[key]
                 \/ \E m \in 1..checked' : key \notin DOMAIN Schema(m).configs
      <4>1. CASE \E m \in 1..checked : key \notin DOMAIN Schema(m).configs
        BY <4>1, <3>3
      <4>2. CASE key \in DOMAIN configs /\ configs[key] = request.configs[key]
        BY <4>2, <3>2, <3>3
      <4>3. QED
        BY <4>1, <4>2 DEF IInv, ConfigInv
    <3> HIDE DEF schema
    <3>6. ConfigInv'
      BY <2>1, <3>1, <3>3, <3>4, <3>5 DEF IInv, ConfigInv
    <3>7. QED
      BY <1>1, <3>6 DEF IInv
  <2>2. CASE phase' = "refused" /\ UNCHANGED <<configs, checked>>
    BY <1>1, <1>3, <2>2 DEF IInv, ConfigInv, ValidateModel, Schema
  <2>3. QED
    BY <1>3, <2>1, <2>2 DEF ValidateModel
<1>4. QED
  BY <1>2, <1>3

-----------------------------------------------------------------------------
\* Each event is one of the five kinds that the stream may carry.
LEMMA AttemptTypes ==
  ASSUME TypeOK, Attempts
  PROVE  TypeOK'
<1> USE ModelsAssumption, ChunksAssumption DEF Models
<1>1. UNCHANGED <<barred, stream, gone>>
  BY DEF Attempts, SendChunk, Complete, CallFails, ImportFails, SendDone, Succeeds, Fails,
         Refused, fallbackVars
<1>2. turn \in 1..N /\ index \in 0..MaxChunks
  BY DEF TypeOK
<1>3. turn' \in Models /\ index' \in 0..MaxChunks
  BY <1>2 DEF Attempts, SendChunk, Complete, CallFails, ImportFails, SendDone, Succeeds, Fails,
              Refused, fallbackVars
<1>4. answer' \in {answer, Error, Answer(turn)}
  BY DEF Attempts, SendChunk, Complete, CallFails, ImportFails, SendDone, Succeeds, Fails,
         Refused, fallbackVars
<1>5. answer' \in {NULL, Error} \cup {Answer(m) : m \in Models}
  BY <1>2, <1>4 DEF TypeOK
<1>6. /\ {Fault, Done, Final(turn)} \subseteq Events
      /\ index < MaxChunks => Chunk(turn, index) \in Events
  BY <1>2 DEF Events
<1>7. sent \in Seq(Events)
  BY DEF TypeOK
<1>8. sent' \in Seq(Events)
  <2>1. \/ sent' = sent
        \/ \E event \in {Fault, Done, Final(turn)} : sent' = Append(sent, event)
        \/ index < MaxChunks /\ sent' = Append(sent, Chunk(turn, index))
    BY DEF Attempts, SendChunk, Complete, CallFails, ImportFails, SendDone, Sends
  <2>2. QED
    BY <2>1, <1>6, <1>7
<1>9. QED
  BY <1>1, <1>3, <1>5, <1>8 DEF TypeOK

\* An answer of a model is neither an error nor nothing.
LEMMA AnswersDiffer ==
  ASSUME NEW m \in Models
  PROVE  Answer(m) # Error /\ Answer(m) # NULL /\ Error # NULL
BY NoneAssumption DEF Answer, Error

\* What Append does to a stream.
LEMMA Appended ==
  ASSUME NEW S, NEW s \in Seq(S), NEW e
  PROVE  /\ Len(Append(s, e)) = Len(s) + 1
         /\ \A i \in 1..Len(s) : Append(s, e)[i] = s[i]
         /\ Append(s, e)[Len(s) + 1] = e
OBVIOUS

\* A chunk goes behind the chunks of its model, and the end of the answer
\* behind all chunks.
LEMMA AttemptKeepsStream ==
  ASSUME TypeOK, StreamInv, Attempts
  PROVE  StreamInv'
<1> USE DEF fallbackVars
<1>1. PICK n \in Nat : ChunksFirst(n) /\ EndFollows(n)
  BY DEF StreamInv, StreamIs
<1>2. /\ turn \in Nat /\ turn \in Models /\ turn >= 1 /\ index \in Nat /\ sent \in Seq(Events)
      /\ Len(sent) \in Nat /\ DOMAIN sent = 1..Len(sent)
  BY DEF TypeOK, Models
<1>3. CASE SendChunk
  <2>1. /\ stream /\ answer = NULL /\ n = Len(sent) /\ n >= index
        /\ UNCHANGED <<turn, answer, stream>>
        /\ index' = index + 1
        /\ sent' = Append(sent, Chunk(turn, index))
    BY <1>1, <1>3 DEF SendChunk, ChunksFirst, EndFollows
  <2>2. /\ Len(sent') = n + 1
        /\ \A i \in 1..n : sent'[i] = sent[i]
        /\ sent'[n + 1] = Chunk(turn, index)
    BY <1>2, <2>1
  <2>3. answer' # Error
    BY <2>1, NoneAssumption
  <2>4. ASSUME NEW i \in 1..(n + 1)
        PROVE  /\ sent'[i].kind = "chunk"
               /\ sent'[i].by \in 1..turn
               /\ sent'[i].by = turn <=> i > (n + 1) - (index + 1)
               /\ sent'[i].by = turn => sent'[i].index = i - ((n + 1) - (index + 1)) - 1
    <3>1. CASE i \in 1..n
      BY <1>1, <1>2, <2>1, <2>2, <3>1, NoneAssumption DEF ChunksFirst
    <3>2. CASE i = n + 1
      <4>1. /\ sent'[i].kind = "chunk" /\ sent'[i].by = turn /\ sent'[i].index = index
        BY <2>2, <3>2 DEF Chunk
      <4>2. QED
        BY <1>2, <3>2, <4>1
    <3>3. QED
      BY <3>1, <3>2
  <2>5. ChunksFirst(n + 1)'
    BY <1>2, <2>1, <2>2, <2>4 DEF ChunksFirst
  <2>6. EndFollows(n + 1)'
    BY <2>1, <2>2 DEF EndFollows
  <2>7. QED
    BY <2>1, <2>5, <2>6 DEF StreamInv, StreamIs
<1>4. ASSUME stream => sent' = Append(sent, Ending'), ~stream => sent' = sent,
             answer = NULL, answer' \in {Error, Answer(turn)},
             UNCHANGED <<turn, stream>>,
             index' = index \/ (index' = 0 /\ answer' = Error)
      PROVE  StreamInv'
  <2>1. n = Len(sent) /\ n >= index /\ NULL # Error /\ answer' # NULL
    BY <1>1, <1>2, <1>4, AnswersDiffer DEF ChunksFirst, EndFollows
  <2>2. Len(sent') >= n /\ \A i \in 1..n : sent'[i] = sent[i]
    <3>1. CASE stream
      BY <1>2, <1>4, <2>1, <3>1, Appended
    <3>2. CASE ~stream
      BY <1>4, <2>1, <1>2, <3>2
    <3>3. QED
      BY <3>1, <3>2
  <2>3. Len(sent') \in Nat
    BY <1>2, <1>4
  <2>4. \A i \in 1..n : i > n - index => sent[i].by = turn
    BY <1>1, <1>4, <2>1 DEF ChunksFirst
  <2>5. ChunksFirst(n)'
    <3>1. CASE index' = index
      BY <1>1, <1>2, <1>4, <2>1, <2>2, <2>3, <3>1 DEF ChunksFirst
    <3>2. CASE index' = 0 /\ answer' = Error
      BY <1>1, <1>2, <1>4, <2>1, <2>2, <2>3, <3>2 DEF ChunksFirst
    <3>3. QED
      BY <1>4, <3>1, <3>2
  <2>6. EndFollows(n)'
    <3>1. CASE stream
      <4>1. Len(sent') = n + 1 /\ sent'[n + 1] = Ending'
        BY <1>2, <1>4, <2>1, <3>1, Appended
      <4>2. QED
        BY <1>4, <2>1, <3>1, <4>1 DEF EndFollows
    <3>2. CASE ~stream
      BY <1>4, <2>1, <3>2 DEF EndFollows
    <3>3. QED
      BY <3>1, <3>2
  <2>7. QED
    <3>1. ~stream' => sent' = <<>>
      BY <1>4 DEF StreamInv
    <3>2. answer' \in {NULL, Error, Answer(turn')}
      BY <1>4
    <3>3. QED
      BY <2>5, <2>6, <3>1, <3>2 DEF StreamInv, StreamIs
<1>5. CASE Complete
  <2>1. /\ answer = NULL /\ answer' = Answer(turn)
        /\ UNCHANGED <<turn, stream, index>>
        /\ stream => sent' = Append(sent, Final(turn))
        /\ ~stream => sent' = sent
    BY <1>5 DEF Complete, Succeeds, Sends
  <2>2. Ending' = Final(turn)
    BY <1>2, <2>1, AnswersDiffer DEF Ending
  <2>3. QED
    BY <1>4, <2>1, <2>2
<1>6. CASE CallFails /\ turn < N
  <2>1. /\ answer = NULL /\ turn' = turn + 1 /\ index' = 0
        /\ UNCHANGED <<answer, stream, sent>>
    BY <1>6, ModelsAssumption, <1>2 DEF CallFails, Fails
  <2>2. ChunksFirst(n)'
    BY <1>1, <1>2, <2>1, NoneAssumption DEF ChunksFirst
  <2>3. EndFollows(n)'
    BY <1>1, <2>1 DEF EndFollows
  <2>4. QED
    BY <2>1, <2>2, <2>3 DEF StreamInv, StreamIs
<1>7. CASE (CallFails /\ turn = N) \/ ImportFails
  <2>1. /\ answer = NULL /\ answer' = Error
        /\ index' = index \/ index' = 0
        /\ UNCHANGED <<turn, stream>>
        /\ stream => sent' = Append(sent, Fault)
        /\ ~stream => sent' = sent
    BY <1>7, <1>2 DEF CallFails, Fails, ImportFails, Refused, Sends
  <2>2. Ending' = Fault
    BY <2>1 DEF Ending
  <2>3. QED
    BY <1>4, <2>1, <2>2
<1>8. CASE SendDone
  <2>1. /\ answer # NULL /\ stream
        /\ UNCHANGED <<turn, answer, stream, index>>
        /\ sent' = Append(sent, Done)
        /\ \A i \in DOMAIN sent : sent[i] # Done
    BY <1>8 DEF SendDone
  <2>2. Len(sent) = n + 1 /\ sent[n + 1] = Ending
    <3>1. sent[n + 1] = Ending /\ (Len(sent) = n + 1 \/ (Len(sent) = n + 2 /\ sent[n + 2] = Done))
      BY <1>1, <2>1 DEF EndFollows
    <3>2. ~(Len(sent) = n + 2 /\ sent[n + 2] = Done)
      <4>1. Len(sent) = n + 2 => n + 2 \in DOMAIN sent
        BY <1>2
      <4>2. QED
        BY <2>1, <4>1
    <3>3. QED
      BY <3>1, <3>2
  <2>3. /\ \A i \in 1..(n + 1) : sent'[i] = sent[i]
        /\ Len(sent') = n + 2
        /\ sent'[n + 2] = Done
    BY <1>2, <2>1, <2>2
  <2>4. Ending' = Ending
    BY <2>1 DEF Ending
  <2>5. ChunksFirst(n)'
    BY <1>1, <1>2, <2>1, <2>2, <2>3 DEF ChunksFirst
  <2>6. EndFollows(n)'
    BY <2>1, <2>2, <2>3, <2>4 DEF EndFollows
  <2>7. QED
    BY <2>1, <2>5, <2>6 DEF StreamInv, StreamIs
<1>9. CallFails => turn < N \/ turn = N
  BY <1>2 DEF CallFails, Fails
<1>10. QED
  BY <1>3, <1>5, <1>6, <1>7, <1>8, <1>9 DEF Attempts

\* A step of the attempts at the models of a valid request (chunks, completions,
\* failures, the end of the stream) keeps the invariant; it touches no config.
LEMMA AttemptKeeps ==
  ASSUME IInv, phase = "tried", Attempts, UNCHANGED requestVars
  PROVE  IInv'
<1>1. TypeOK' /\ StreamInv'
  BY AttemptTypes, AttemptKeepsStream DEF IInv
<1>2. ConfigInv'
  BY DEF IInv, ConfigInv, requestVars, Schema
<1>3. QED
  BY <1>1, <1>2 DEF IInv

\* A client that leaves leaves the rest as it is.
LEMMA LeavingKeeps ==
  ASSUME IInv, ClientLeaves, UNCHANGED requestVars
  PROVE  IInv'
<1>1. /\ gone' = TRUE
      /\ UNCHANGED <<barred, turn, answer, stream, index, sent, request, configs, checked, phase>>
  BY DEF ClientLeaves, fallbackVars, requestVars
<1>2. TypeOK'
  BY <1>1 DEF IInv, TypeOK
<1>3. StreamInv'
  BY <1>1 DEF IInv, StreamInv, StreamIs, ChunksFirst, EndFollows, Ending
<1>4. ConfigInv'
  BY <1>1 DEF IInv, ConfigInv, Schema
<1>5. QED
  BY <1>2, <1>3, <1>4 DEF IInv

\* IInv is inductive: validation, attempts and the ways out of the handler keep it.
LEMMA Inductive == IInv /\ [Next]_vars => IInv'
<1> SUFFICES ASSUME IInv, [Next]_vars
             PROVE  IInv'
  OBVIOUS
<1>1. CASE Next
  BY <1>1, ValidationKeeps, AttemptKeeps, LeavingKeeps DEF Next, Handle
<1>2. CASE UNCHANGED vars
  <2>1. UNCHANGED <<barred, turn, answer, stream, index, sent, gone>>
    BY <1>2 DEF vars, chatVars, fallbackVars
  <2>2. TypeOK' /\ StreamInv'
    BY <2>1 DEF IInv, TypeOK, StreamInv, StreamIs, ChunksFirst, EndFollows, Ending
  <2>3. ConfigInv'
    BY <1>2 DEF IInv, ConfigInv, vars, requestVars, Schema
  <2>4. QED
    BY <2>2, <2>3 DEF IInv
<1>3. QED
  BY <1>1, <1>2

\* IInv is an invariant of a chat request.
LEMMA Invariance == Spec => []IInv
BY Initially, Inductive, PTL DEF Spec

-----------------------------------------------------------------------------
\* The route keeps its types: the model it tries is one of the request's, and
\* what it has sent are chunks, completions, errors and [DONE].
THEOREM RouteTypes == Spec => []TypeOK
<1>1. IInv => TypeOK
  BY DEF IInv
<1>2. QED
  BY Invariance, <1>1, PTL

\* A stream says once, and last but for [DONE], how it ended.
THEOREM StreamsEndOnce == Spec => []OneEnd
<1>1. ASSUME IInv
      PROVE  OneEnd
  <2>1. PICK n \in Nat : ChunksFirst(n) /\ EndFollows(n)
    BY <1>1 DEF IInv, StreamInv, StreamIs
  <2>2. Len(sent) \in Nat /\ turn \in Models
    BY <1>1 DEF IInv, TypeOK
  <2>dom. DOMAIN sent = 1..Len(sent)
    BY <1>1 DEF IInv, TypeOK
  <2>3. \A i \in 1..n : sent[i].kind = "chunk"
    BY <2>1 DEF ChunksFirst
  <2>4. CASE answer = NULL \/ ~stream
    BY <2>1, <2>2, <2>dom, <2>3, <2>4 DEF OneEnd, EndFollows, Ends
  <2>5. CASE answer # NULL /\ stream
    <3>1. sent[n + 1] = Ending /\ (Len(sent) = n + 1 \/ (Len(sent) = n + 2 /\ sent[n + 2] = Done))
      BY <2>1, <2>5 DEF EndFollows
    <3>2. Ending.kind \in Ends /\ Ending.by = answer.by
      BY <1>1, <2>2, <2>5, AnswersDiffer
         DEF IInv, StreamInv, Ending, Fault, Final, Ends, Error, Answer
    <3>3. Done.kind = "done"
      BY DEF Done
    <3>4. SUFFICES ASSUME NEW i \in 1..Len(sent)
                   PROVE  /\ sent[i].kind = "done" =>
                               i = Len(sent) /\ i > 1 /\ sent[i - 1].kind \in Ends
                          /\ sent[i].kind \in Ends =>
                               /\ answer # NULL /\ sent[i].by = answer.by
                               /\ i >= Len(sent) - 1
                               /\ i < Len(sent) => sent[i + 1] = Done
      BY <2>dom DEF OneEnd
    <3>5. CASE i \in 1..n
      BY <2>3, <3>5 DEF Ends
    <3>6. CASE i = n + 1
      <4>1. sent[i].kind \in Ends /\ sent[i].by = answer.by
        BY <3>1, <3>2, <3>6
      <4>2. i >= Len(sent) - 1 /\ (i < Len(sent) => sent[i + 1] = Done)
        BY <2>2, <3>1, <3>6
      <4>3. QED
        BY <2>5, <4>1, <4>2 DEF Ends
    <3>7. CASE i = n + 2
      <4>1. Len(sent) = n + 2 /\ sent[i] = Done
        BY <2>2, <3>1, <3>7
      <4>2. sent[i - 1].kind \in Ends /\ i > 1
        BY <3>1, <3>2, <3>7
      <4>3. QED
        BY <3>3, <3>7, <4>1, <4>2 DEF Ends
    <3>8. i \in 1..n \/ i = n + 1 \/ i = n + 2
      BY <2>2, <3>1
    <3>9. QED
      BY <3>5, <3>6, <3>7, <3>8
  <2>6. QED
    BY <2>4, <2>5
<1>2. QED
  BY Invariance, <1>1, PTL

\* A completion comes right after all chunks of its model.
THEOREM CompletionsFollowTheirChunks == Spec => []FinalCompletesItsChunks
<1>1. ASSUME IInv
      PROVE  FinalCompletesItsChunks
  <2>1. PICK n \in Nat : ChunksFirst(n) /\ EndFollows(n)
    BY <1>1 DEF IInv, StreamInv, StreamIs
  <2>2. Len(sent) \in Nat /\ turn \in Nat /\ index \in Nat
    BY <1>1 DEF IInv, TypeOK, Models
  <2>dom. DOMAIN sent = 1..Len(sent)
    BY <1>1 DEF IInv, TypeOK
  <2>3. SUFFICES ASSUME NEW f \in 1..Len(sent), sent[f].kind = "final"
                 PROVE  LET own == {i \in DOMAIN sent : sent[i].kind = "chunk"
                                                        /\ sent[i].by = sent[f].by}
                        IN  /\ own = (f - index)..(f - 1)
                            /\ \A i \in own : sent[i].index = i - (f - index)
    BY <2>dom DEF FinalCompletesItsChunks
  <2>4. ~(f \in 1..n)
    BY <2>1, <2>3 DEF ChunksFirst
  <2>5. /\ sent[n + 1] = Ending
        /\ Len(sent) = n + 1 \/ (Len(sent) = n + 2 /\ sent[n + 2] = Done)
    BY <2>1, <2>2, <2>4 DEF EndFollows
  <2>6. f = n + 1
    <3>1. f = n + 1 \/ (f = n + 2 /\ sent[f] = Done)
      BY <2>2, <2>3, <2>4, <2>5
    <3>2. Done.kind # "final"
      BY DEF Done
    <3>3. QED
      BY <2>dom, <2>3, <3>1, <3>2
  <2>7. answer # Error /\ sent[f].by = turn
    BY <2>3, <2>5, <2>6 DEF Ending, Fault, Final
  <2>8. \A i \in DOMAIN sent : i > n => sent[i].kind # "chunk"
    <3>1. ASSUME NEW i \in 1..Len(sent), i > n
          PROVE  i = f \/ sent[i] = Done
      BY <2>2, <2>5, <2>6, <3>1
    <3>2. Done.kind # "chunk"
      BY DEF Done
    <3>3. QED
      BY <2>dom, <2>3, <3>1, <3>2
  <2>9. /\ index <= n
        /\ \A i \in 1..n : /\ sent[i].kind = "chunk"
                           /\ sent[i].by = turn <=> i > n - index
                           /\ sent[i].by = turn => sent[i].index = i - (n - index) - 1
    BY <2>1, <2>7 DEF ChunksFirst
  <2> DEFINE own == {i \in DOMAIN sent : sent[i].kind = "chunk" /\ sent[i].by = sent[f].by}
  <2>10. \A i : i \in own <=> i \in (f - index)..(f - 1)
    <3>1. \A i \in DOMAIN sent : i \in own <=> i \in 1..n /\ i > n - index
      BY <2>2, <2>dom, <2>7, <2>8, <2>9
    <3>2. \A i : i \in (f - index)..(f - 1) <=> i \in 1..n /\ i > n - index
      <4>1. index <= n
        BY <2>9
      <4>2. QED
        BY <2>2, <2>6, <4>1
    <3>3. 1..n \subseteq DOMAIN sent
      BY <2>1, <2>2, <2>dom DEF ChunksFirst
    <3>4. QED
      BY <3>1, <3>2, <3>3
  <2>11. \A i \in own : sent[i].index = i - (f - index)
    BY <2>2, <2>dom, <2>6, <2>7, <2>8, <2>9
  <2>12. QED
    BY <2>10, <2>11
<1>2. QED
  BY Invariance, <1>1, PTL

\* A model is only tried for a request all models of which can serve it.
THEOREM ModelsFit == Spec => []EveryModelFits
<1>1. IInv => EveryModelFits
  BY DEF IInv, ConfigInv, EveryModelFits, Models
<1>2. QED
  BY Invariance, <1>1, PTL

-----------------------------------------------------------------------------
\* No model is passed over, and its chunks are in their place.
AttemptsInv == AttemptsInOrder /\ \A m \in 1..(turn - 1) : m \notin barred

\* What the n events before it allow an event to be.
InOrder(e, n) ==
  e.by # NULL =>
    /\ \A m \in 1..e.by : m \notin barred
    /\ e.kind = "chunk" =>
         IF e.index = 0
         THEN \A j \in 1..n : sent[j].by \in 1..(e.by - 1)
         ELSE n > 0 /\ sent[n] = Chunk(e.by, e.index - 1)

\* An event in its place leaves the others in theirs.
LEMMA AppendKeepsOrder ==
  ASSUME TypeOK, AttemptsInOrder, NEW e, sent' = Append(sent, e), UNCHANGED barred,
         InOrder(e, Len(sent))
  PROVE  AttemptsInOrder'
<1> DEFINE n == Len(sent)
<1>1. n \in Nat /\ DOMAIN sent = 1..n
  BY DEF TypeOK
<1>2. /\ Len(sent') = n + 1 /\ DOMAIN sent' = 1..(n + 1)
      /\ \A i \in 1..n : sent'[i] = sent[i]
      /\ sent'[n + 1] = e
  BY <1>1 DEF TypeOK
<1> HIDE DEF n
<1>3. ASSUME NEW i \in DOMAIN sent', sent'[i].by # NULL
      PROVE  /\ \A m \in 1..sent'[i].by : m \notin barred
             /\ sent'[i].kind = "chunk" =>
                  IF sent'[i].index = 0
                  THEN \A j \in 1..(i - 1) : sent'[j].by \in 1..(sent'[i].by - 1)
                  ELSE i > 1 /\ sent'[i - 1] = Chunk(sent'[i].by, sent'[i].index - 1)
  <2>1. CASE i \in 1..n
    <3>1. /\ sent'[i] = sent[i] /\ i \in DOMAIN sent
          /\ \A j \in 1..(i - 1) : sent'[j] = sent[j]
          /\ i > 1 => sent'[i - 1] = sent[i - 1]
      BY <1>1, <1>2, <2>1
    <3>2. QED
      BY <1>3, <3>1 DEF AttemptsInOrder
  <2>2. CASE i = n + 1
    <3>1. /\ sent'[i] = e /\ i - 1 = n
          /\ \A j \in 1..n : sent'[j] = sent[j]
          /\ n > 0 => sent'[n] = sent[n]
      BY <1>1, <1>2, <2>2
    <3>2. InOrder(e, n) /\ e.by # NULL
      BY <1>3, <3>1 DEF n
    <3>3. i > 1 <=> n > 0
      BY <1>1, <2>2
    <3>4. QED
      BY <3>1, <3>2, <3>3 DEF InOrder
  <2>3. QED
    BY <1>1, <1>2, <2>1, <2>2
<1>4. QED
  BY <1>3 DEF AttemptsInOrder

\* A chunk follows the one before it of the same model, or the chunks of the
\* models before.
LEMMA ChunkInOrder ==
  ASSUME TypeOK, StreamInv, AttemptsInv, SendChunk
  PROVE  InOrder(Chunk(turn, index), Len(sent))
<1>1. PICK n \in Nat : ChunksFirst(n) /\ EndFollows(n)
  BY DEF StreamInv, StreamIs
<1>2. /\ answer = NULL /\ NULL # Error /\ turn \notin barred /\ n = Len(sent)
  BY <1>1, NoneAssumption DEF SendChunk, EndFollows
<1>3. /\ turn \in 1..N /\ N \in Nat /\ index \in Nat /\ sent \in Seq(Events)
  BY ModelsAssumption, ChunksAssumption DEF TypeOK, Models
<1>4. /\ index <= n
      /\ \A i \in 1..n : /\ sent[i].kind = "chunk" /\ sent[i].by \in 1..turn
                         /\ sent[i].by = turn <=> i > n - index
                         /\ sent[i].by = turn => sent[i].index = i - (n - index) - 1
  BY <1>1, <1>2 DEF ChunksFirst
<1>5. \A m \in 1..turn : m \notin barred
  BY <1>2, <1>3 DEF AttemptsInv
<1>6. CASE index = 0
  <2>1. \A j \in 1..n : sent[j].by \in 1..(turn - 1)
    BY <1>1, <1>3, <1>4, <1>6
  <2>2. QED
    BY <1>2, <1>5, <1>6, <2>1 DEF InOrder, Chunk
<1>7. CASE index # 0
  <2>1. n > 0 /\ n \in 1..n /\ n > n - index
    BY <1>1, <1>3, <1>4, <1>7
  <2>2. sent[n].kind = "chunk" /\ sent[n].by = turn /\ sent[n].index = index - 1
    BY <1>1, <1>3, <1>4, <2>1
  <2>3. sent[n] \in Events
    BY <1>2, <1>3, <2>1
  <2>4. sent[n] = Chunk(turn, index - 1)
    BY <2>2, <2>3 DEF Events, Chunk, Final, Fault, Done
  <2>5. QED
    BY <1>2, <1>5, <1>7, <2>1, <2>4 DEF InOrder, Chunk
<1>8. QED
  BY <1>6, <1>7

\* Every step keeps the events in order.
LEMMA OrderKept ==
  ASSUME TypeOK, StreamInv, AttemptsInv, [Next]_vars
  PROVE  AttemptsInv'
<1>1. turn \in 1..N /\ N \in Nat
  BY ModelsAssumption DEF TypeOK, Models
<1>2. UNCHANGED barred
  BY DEF Next, Handle, ValidateInfos, ValidateModel, Try, Attempts, SendChunk, Complete, CallFails,
         ImportFails, SendDone, ClientLeaves, Succeeds, Fails, Refused, vars, chatVars, fallbackVars
<1>3. \A m \in 1..(turn' - 1) : m \notin barred'
  <2>1. turn' = turn \/ (turn' = turn + 1 /\ turn \notin barred)
    BY DEF Next, Handle, ValidateInfos, ValidateModel, Try, Attempts, SendChunk, Complete,
           CallFails, ImportFails, SendDone, ClientLeaves, Succeeds, Fails, Refused, vars, chatVars,
           fallbackVars
  <2>2. \A m \in 1..(turn - 1) : m \notin barred
    BY DEF AttemptsInv
  <2>3. QED
    BY <1>1, <1>2, <2>1, <2>2
<1>4. CASE sent' = sent
  BY <1>2, <1>3, <1>4 DEF AttemptsInv, AttemptsInOrder
<1>5. ASSUME NEW e \in {Fault, Done}, sent' = Append(sent, e) PROVE AttemptsInv'
  <2>1. InOrder(e, Len(sent))
    BY <1>5 DEF InOrder, Fault, Done
  <2>2. QED
    BY <1>2, <1>3, <1>5, <2>1, AppendKeepsOrder DEF AttemptsInv
<1>6. CASE Complete /\ sent' = Append(sent, Final(turn))
  <2>1. turn \notin barred
    BY <1>6 DEF Complete, Succeeds
  <2>2. \A m \in 1..turn : m \notin barred
    BY <1>1, <2>1 DEF AttemptsInv
  <2>3. InOrder(Final(turn), Len(sent))
    BY <2>2 DEF InOrder, Final
  <2>4. QED
    BY <1>2, <1>3, <1>6, <2>3, AppendKeepsOrder DEF AttemptsInv
<1>7. CASE SendChunk
  <2>1. sent' = Append(sent, Chunk(turn, index))
    BY <1>7 DEF SendChunk
  <2>2. QED
    BY <1>2, <1>3, <1>7, <2>1, ChunkInOrder, AppendKeepsOrder DEF AttemptsInv
<1>8. \/ sent' = sent
      \/ sent' = Append(sent, Fault) \/ sent' = Append(sent, Done)
      \/ Complete /\ sent' = Append(sent, Final(turn))
      \/ SendChunk
  BY DEF Next, Handle, ValidateInfos, ValidateModel, Try, Attempts, Complete, CallFails, ImportFails,
         SendDone, ClientLeaves, Sends, vars, chatVars
<1>9. QED
  BY <1>4, <1>5, <1>6, <1>7, <1>8

\* The stream tells which model said what, those that failed half way included,
\* and goes past no model that cannot be imported.
THEOREM AttemptsAreTold == Spec => []AttemptsInOrder
<1>1. Init => AttemptsInv
  BY DEF Init, ChatInit, FallbackInit, AttemptsInv, AttemptsInOrder
<1>2. IInv /\ AttemptsInv /\ [Next]_vars => AttemptsInv'
  BY OrderKept DEF IInv
<1>3. AttemptsInv => AttemptsInOrder
  BY DEF AttemptsInv
<1>4. QED
  BY <1>1, <1>2, <1>3, Invariance, PTL DEF Spec

-----------------------------------------------------------------------------
(***************************************************************************)
(* The stream of an adapter.  A place in a reply is <<n, k>>: n words and  *)
(* k calls of it have been said.  Adds says what a line may say to get     *)
(* from one place to the next.                                             *)
(***************************************************************************)
Part(n, m) == [i \in 1..(m - n) |-> n + i]

CallSaid(a, r, w, call, k, j) ==
  /\ j \in DOMAIN r.calls
  /\ call.number = j
  /\ call.index = j - 1
  /\ call.pieces # <<>> /\ call.pieces[1][1] = j
  /\ w.packed \/ InOne(a) => j = k + 1 /\ call.pieces = Pieces(r, j)
  /\ w.packed => k = 0

Says(a, r, w, datum, p, q) ==
  /\ IF a = "tongyi" THEN datum.text = Words(q[1]) \/ (datum.text = <<>> /\ q[1] = p[1])
     ELSE datum.text = Part(p[1], q[1])
  /\ datum.reason # NULL => q[1] = Len(r.text)
  /\ ~datum.choice => q[1] = p[1] /\ datum.calls = <<>>
  /\ IF datum.calls = <<>> THEN q[2] = p[2]
     ELSE /\ CallSaid(a, r, w, datum.calls[1], p[2], q[2])
          /\ ~w.packed => datum.text = <<>>

Adds(a, r, w, datum, p, q) ==
  /\ p[1] <= q[1] /\ q[1] <= Len(r.text)
  /\ p[2] <= q[2] /\ q[2] <= p[2] + 1
  /\ datum = NULL => q = p
  /\ datum # NULL => datum \in Data /\ Says(a, r, w, datum, p, q)

Leads(a, r, w, ls, p, q) ==
  \E at \in [0..Len(ls) -> Nat \X Nat] :
    /\ at[0] = p /\ at[Len(ls)] = q
    /\ \A i \in 1..Len(ls) : Adds(a, r, w, ls[i].datum, at[i - 1], at[i])

\* What a provider may reply, and its lines.
Said == [text : Seq(Nat), marked : Nat, calls : Seq({"args", "noargs"}),
         reason : AllReasons \cup {NULL}]
WellSaid(r) ==
  /\ r \in Said
  /\ Len(r.text) \in Nat /\ r.text = Words(Len(r.text))
  /\ r.calls \in Seq({"args", "noargs"})
  /\ r.reason \in AllReasons \cup {NULL}

Lines == [datum : Data \cup {NULL}, marked : BOOLEAN]

AtZero == {"minimax", "custom_function", "google_gemini"}

\* The calls gathered when the lines so far have begun k calls.
CallsAt(a, w, c, k) ==
  LET m == Len(c.numbers)
  IN  /\ a \in AtZero => m <= 1 /\ c.index = m - 1 /\ (m = 0 => k = 0 \/ w.packed)
      /\ a = "wenxin" => c.index = -1 /\ m = k
      /\ a \notin AtZero \cup {"wenxin"} => c.index = m - 1 /\ m = k

\* The calls gathered are the reply's first ones, and their pieces theirs.
Gathering == [index : Int, numbers : Seq(Nat), pieces : Seq(Arguments)]
CallsOwn(a, r, c) ==
  LET m == Len(c.numbers)
  IN  /\ c \in Gathering
      /\ m <= Len(r.calls)
      /\ c.numbers = Words(m)
      /\ Len(c.pieces) = m
      /\ \A i \in 1..m :
           /\ c.pieces[i] # <<>> /\ c.pieces[i][1][1] = i
           /\ a = "google_gemini" => c.pieces[i] = Pieces(r, i)

TextOwn(s, r) ==
  /\ Len(s.text) \in Nat /\ s.text = Words(Len(s.text))
  /\ Len(s.text) <= Len(r.text)
  /\ s.reason \notin {"unknown", NULL} => s.text = r.text

Chunks == [index : Nat, delta : Seq(Nat)]
Deltas(cs) == [i \in DOMAIN cs |-> cs[i].delta]
ChunksOwn(cs, s) ==
  /\ cs \in Seq(Chunks)
  /\ \A i \in DOMAIN cs : cs[i].index = i - 1
  /\ FlattenSeq(Deltas(cs)) = s.text

Ended ==
  \/ final \in {NULL, Refusal}
  \/ ~streamed /\ final = Plain(adapter, reply)
  \/ streamed /\ final \in {Failed, AtEnd}

OnTheWay(a, r, w, s, ls) ==
  /\ ls \in Seq(Lines)
  /\ \E k \in Nat :
       /\ CallsAt(a, w, s.calls, k)
       /\ \E z : Leads(a, r, w, ls, <<Len(s.text), k>>, z)

AdapterInv ==
  /\ WellSaid(reply)
  /\ adapter \in Streaming \cup PlainOnly /\ (streamed => adapter \in Streaming)
  /\ adapter \in Untooled \/ (adapter = "anthropic" /\ streamed) => reply.calls = <<>>
  /\ TextOwn(so, reply)
  /\ ChunksOwn(chunks, so)
  /\ CallsOwn(adapter, reply, so.calls)
  /\ Ended
  /\ streamed => OnTheWay(adapter, reply, way, so, lines)

-----------------------------------------------------------------------------
\* A path along no lines, along one, and along one sequence after another.
LEMMA LeadsNone ==
  ASSUME NEW a, NEW r, NEW w, NEW p \in Nat \X Nat
  PROVE  Leads(a, r, w, <<>>, p, p)
<1> DEFINE at == [i \in 0..0 |-> p]
<1>1. at \in [0..Len(<<>>) -> Nat \X Nat] /\ at[0] = p /\ at[Len(<<>>)] = p
  OBVIOUS
<1>2. \A i \in 1..Len(<<>>) : Adds(a, r, w, <<>>[i].datum, at[i - 1], at[i])
  OBVIOUS
<1> HIDE DEF at
<1>3. QED
  BY <1>1, <1>2 DEF Leads

\* One line leads from a place to the next.
LEMMA LeadsOne ==
  ASSUME NEW a, NEW r, NEW w, NEW p \in Nat \X Nat, NEW q \in Nat \X Nat, NEW line,
         Adds(a, r, w, line.datum, p, q)
  PROVE  Leads(a, r, w, <<line>>, p, q)
<1> DEFINE at == [i \in 0..1 |-> IF i = 0 THEN p ELSE q]
<1>1. at \in [0..Len(<<line>>) -> Nat \X Nat] /\ at[0] = p /\ at[Len(<<line>>)] = q
  OBVIOUS
<1>2. ASSUME NEW i \in 1..Len(<<line>>)
      PROVE  Adds(a, r, w, <<line>>[i].datum, at[i - 1], at[i])
  <2>1. i = 1 /\ <<line>>[i] = line /\ at[i - 1] = p /\ at[i] = q
    OBVIOUS
  <2> HIDE DEF at
  <2>2. QED
    BY <2>1
<1> HIDE DEF at
<1>3. QED
  BY <1>1, <1>2 DEF Leads

\* Two runs of lines lead on, one after the other.
LEMMA LeadsOn ==
  ASSUME NEW a, NEW r, NEW w, NEW S, NEW s \in Seq(S), NEW t \in Seq(S),
         NEW p, NEW q, NEW z, Leads(a, r, w, s, p, q), Leads(a, r, w, t, q, z)
  PROVE  Leads(a, r, w, s \o t, p, z)
<1>1. PICK m \in Nat, n \in Nat : m = Len(s) /\ n = Len(t)
  OBVIOUS
<1>2. PICK f \in [0..m -> Nat \X Nat] :
        /\ f[0] = p /\ f[m] = q
        /\ \A i \in 1..m : Adds(a, r, w, s[i].datum, f[i - 1], f[i])
  BY <1>1 DEF Leads
<1>3. PICK g \in [0..n -> Nat \X Nat] :
        /\ g[0] = q /\ g[n] = z
        /\ \A i \in 1..n : Adds(a, r, w, t[i].datum, g[i - 1], g[i])
  BY <1>1 DEF Leads
<1> DEFINE at == [i \in 0..(m + n) |-> IF i <= m THEN f[i] ELSE g[i - m]]
<1>4. at \in [0..(m + n) -> Nat \X Nat]
  OBVIOUS
<1>5. at[0] = p /\ at[m + n] = z
  <2>1. CASE n = 0
    BY <1>2, <1>3, <2>1
  <2>2. CASE n # 0
    <3>1. ~(m + n <= m) /\ (m + n) - m = n
      BY <2>2
    <3>2. QED
      BY <1>2, <1>3, <3>1
  <2>3. QED
    BY <2>1, <2>2
<1>6. ASSUME NEW i \in 1..(m + n)
      PROVE  Adds(a, r, w, (s \o t)[i].datum, at[i - 1], at[i])
  <2>1. CASE i <= m
    <3>1. (s \o t)[i] = s[i] /\ at[i - 1] = f[i - 1] /\ at[i] = f[i] /\ i \in 1..m
      BY <1>1, <2>1
    <3> HIDE DEF at
    <3>2. QED
      BY <1>2, <3>1
  <2>2. CASE i > m
    <3>1. (s \o t)[i] = t[i - m] /\ at[i] = g[i - m] /\ i - m \in 1..n
      BY <1>1, <2>2
    <3>2. at[i - 1] = g[(i - m) - 1]
      <4>1. CASE i = m + 1
        BY <4>1, <1>2, <1>3
      <4>2. CASE i > m + 1
        BY <4>2
      <4>3. QED
        BY <4>1, <4>2, <2>2
    <3> HIDE DEF at
    <3>3. QED
      BY <1>3, <3>1, <3>2
  <2>3. i <= m \/ i > m
    OBVIOUS
  <2> HIDE DEF at
  <2>4. QED
    BY <2>1, <2>2, <2>3
<1> HIDE DEF at
<1>7. Len(s \o t) = m + n
  BY <1>1
<1>8. QED
  BY <1>4, <1>5, <1>6, <1>7 DEF Leads

\* A path begins with its first line and goes on with the others.
LEMMA LeadsTail ==
  ASSUME NEW a, NEW r, NEW w, NEW S, NEW s \in Seq(S), NEW p, NEW z,
         Leads(a, r, w, s, p, z), s # <<>>
  PROVE  \E q \in Nat \X Nat :
           /\ Adds(a, r, w, Head(s).datum, p, q)
           /\ Leads(a, r, w, Tail(s), q, z)
<1>1. PICK f \in [0..Len(s) -> Nat \X Nat] :
        /\ f[0] = p /\ f[Len(s)] = z
        /\ \A i \in 1..Len(s) : Adds(a, r, w, s[i].datum, f[i - 1], f[i])
  BY DEF Leads
<1> DEFINE n == Len(s) - 1
           at == [i \in 0..n |-> f[i + 1]]
<1>2. n \in Nat /\ Len(Tail(s)) = n /\ Len(s) = n + 1
  OBVIOUS
<1>3. at \in [0..n -> Nat \X Nat] /\ at[0] = f[1] /\ at[n] = z
  BY <1>1
<1>4. ASSUME NEW i \in 1..n
      PROVE  Adds(a, r, w, Tail(s)[i].datum, at[i - 1], at[i])
  <2>1. Tail(s)[i] = s[i + 1] /\ at[i - 1] = f[(i + 1) - 1] /\ at[i] = f[i + 1]
        /\ i + 1 \in 1..Len(s)
    OBVIOUS
  <2> HIDE DEF at, n
  <2>2. QED
    BY <1>1, <2>1
<1>5. Adds(a, r, w, Head(s).datum, p, f[1])
  <2>1. Head(s) = s[1] /\ 1 \in 1..Len(s) /\ f[1 - 1] = p
    BY <1>1
  <2>2. QED
    BY <1>1, <2>1
<1>6. f[1] \in Nat \X Nat
  OBVIOUS
<1> HIDE DEF at, n
<1>7. Leads(a, r, w, Tail(s), f[1], z)
  BY <1>2, <1>3, <1>4 DEF Leads
<1>8. QED
  BY <1>5, <1>6, <1>7

-----------------------------------------------------------------------------
\* A text of n words.
LEMMA WordsAre ==
  ASSUME NEW n \in Nat
  PROVE  Words(n) \in Seq(Nat) /\ Len(Words(n)) = n /\ \A i \in 1..n : Words(n)[i] = i
  BY DEF Words

\* The words from one place to the next.
LEMMA PartsAre ==
  ASSUME NEW n \in Nat, NEW m \in Nat, n <= m
  PROVE  /\ Part(n, m) \in Seq(Nat) /\ Len(Part(n, m)) = m - n
         /\ Part(0, m) = Words(m) /\ Part(n, n) = <<>>
         /\ Words(n) \o Part(n, m) = Words(m)
<1>1. Part(n, m) \in Seq(Nat) /\ Len(Part(n, m)) = m - n
  BY DEF Part
<1>2. Part(0, m) = Words(m) /\ Part(n, n) = <<>>
  BY DEF Part, Words
<1>3. Words(n) \in Seq(Nat) /\ Words(m) \in Seq(Nat)
  BY WordsAre
<1>4. Len(Words(n)) = n /\ Len(Words(m)) = m
  BY WordsAre
<1>5. \A i \in 1..m : (Words(n) \o Part(n, m))[i] = i /\ Words(m)[i] = i
  BY <1>1, <1>3, <1>4 DEF Words, Part
<1>6. QED
  BY <1>1, <1>2, <1>3, <1>4, <1>5, SeqEqual

\* The fields of a datum.
LEMMA DatumFields ==
  ASSUME NEW d, NEW text, NEW calls, NEW reason, d = Datum(text, calls, reason)
  PROVE  d.choice = TRUE /\ d.text = text /\ d.calls = calls /\ d.reason = reason
  BY DEF Datum

\* A datum of a text, calls and a reason.
LEMMA DatumTypes ==
  ASSUME NEW d, NEW text \in Seq(Nat), NEW calls \in Seq(CallData),
         NEW reason \in AllReasons \cup {NULL}, d = Datum(text, calls, reason)
  PROVE  d \in Data
  BY DEF Datum, Data

\* A line, and its datum.
LEMMA LineFields ==
  ASSUME NEW datum \in Data \cup {NULL}, NEW marked \in BOOLEAN, NEW line,
         line = Line(datum, marked)
  PROVE  line \in Lines /\ line.datum = datum
  BY DEF Line, Lines

\* A call in a datum.
LEMMA CallTypes ==
  ASSUME NEW r, NEW k \in Nat \ {0}, NEW pieces \in Arguments, NEW c,
         c = Call(r, k, pieces)
  PROVE  c \in CallData /\ c.index = k - 1 /\ c.number = k /\ c.pieces = pieces
  BY DEF Call, CallData

\* The pieces of a call begin with its number.
LEMMA PieceTypes ==
  ASSUME NEW r, NEW k \in Nat
  PROVE  /\ Pieces(r, k) \in Arguments /\ Pieces(r, k) # <<>>
         /\ DOMAIN Pieces(r, k) = 1..Len(Pieces(r, k)) /\ Len(Pieces(r, k)) \in {1, 2}
         /\ \A n \in DOMAIN Pieces(r, k) : Pieces(r, k)[n] = <<k, n>>
<1>1. PICK m \in {1, 2} : m = IF r.calls[k] = "args" THEN 2 ELSE 1
  OBVIOUS
<1>2. Pieces(r, k) = [n \in 1..m |-> <<k, n>>]
  BY <1>1 DEF Pieces
<1>3. QED
  BY <1>2 DEF Arguments

\* What says nothing leads nowhere: a line that is no JSON, or the usage.
LEMMA NothingSaid ==
  ASSUME NEW a, NEW r, NEW w, NEW n \in Nat, NEW k \in Nat, n <= Len(r.text), Len(r.text) \in Nat
  PROVE  /\ Usage \in Data
         /\ Adds(a, r, w, NULL, <<n, k>>, <<n, k>>)
         /\ Adds(a, r, w, Usage, <<n, k>>, <<n, k>>)
<1>1. Datum(<<>>, <<>>, NULL) \in Data
  <2>1. <<>> \in Seq(Nat) /\ <<>> \in Seq(CallData) /\ NULL \in AllReasons \cup {NULL}
    OBVIOUS
  <2>2. QED
    BY <2>1, DatumTypes
<1>2. /\ Usage \in Data /\ Usage.choice = FALSE /\ Usage.text = <<>>
      /\ Usage.calls = <<>> /\ Usage.reason = NULL
  BY <1>1, DatumFields DEF Usage, Data, Datum
<1>3. Part(n, n) = <<>>
  BY PartsAre
<1>4. Says(a, r, w, Usage, <<n, k>>, <<n, k>>)
  BY <1>2, <1>3 DEF Says
<1>5. NULL \notin Data
  BY StreamAssumption
<1>6. QED
  BY <1>2, <1>4, <1>5 DEF Adds

\* The line of the i-th word.
LEMMA TextLineAdds ==
  ASSUME NEW a, NEW r, NEW w, WellSaid(r), NEW i \in 1..Len(r.text)
  PROVE  /\ TextLines(a, r)[i] \in Lines
         /\ Adds(a, r, w, TextLines(a, r)[i].datum, <<i - 1, 0>>, <<i, 0>>)
<1>1. Len(r.text) \in Nat /\ DOMAIN r.text = 1..Len(r.text) /\ i \in Nat /\ i - 1 \in Nat
  <2>1. Words(Len(r.text)) \in Seq(Nat) /\ Len(r.text) \in Nat /\ r.text = Words(Len(r.text))
    BY WordsAre DEF WellSaid
  <2>2. QED
    BY <2>1
<1>2. Part(i - 1, i) = <<i>>
  BY <1>1 DEF Part
<1>3. NULL \notin Data
  BY StreamAssumption
<1>4. CASE a = "tongyi"
  <2>1. PICK d : d = Datum(Words(i), <<>>, NULL)
    OBVIOUS
  <2>2. Words(i) \in Seq(Nat) /\ <<>> \in Seq(CallData) /\ NULL \in AllReasons \cup {NULL}
    BY <1>1, WordsAre
  <2>3. d \in Data
    BY <2>1, <2>2, DatumTypes
  <2>4. d.choice = TRUE /\ d.text = Words(i) /\ d.calls = <<>> /\ d.reason = NULL
    BY <2>1 DEF Datum
  <2>5. TextLines(a, r)[i] = Line(d, r.marked \in 1..i) /\ (r.marked \in 1..i) \in BOOLEAN
    BY <1>1, <1>4, <2>1 DEF TextLines
  <2>6. TextLines(a, r)[i] \in Lines /\ TextLines(a, r)[i].datum = d
    BY <2>3, <2>5, LineFields
  <2>7. Says(a, r, w, d, <<i - 1, 0>>, <<i, 0>>)
    BY <1>4, <2>4 DEF Says
  <2>8. Adds(a, r, w, d, <<i - 1, 0>>, <<i, 0>>)
    BY <1>1, <1>3, <2>3, <2>7 DEF Adds
  <2>9. QED
    BY <2>6, <2>8
<1>5. CASE a # "tongyi"
  <2>1. PICK d : d = Datum(<<i>>, <<>>, NULL)
    OBVIOUS
  <2>2. <<i>> \in Seq(Nat) /\ <<>> \in Seq(CallData) /\ NULL \in AllReasons \cup {NULL}
    BY <1>1, WordsAre
  <2>3. d \in Data
    BY <2>1, <2>2, DatumTypes
  <2>4. d.choice = TRUE /\ d.text = <<i>> /\ d.calls = <<>> /\ d.reason = NULL
    BY <2>1 DEF Datum
  <2>5. TextLines(a, r)[i] = Line(d, r.marked = i) /\ (r.marked = i) \in BOOLEAN
    BY <1>1, <1>5, <2>1 DEF TextLines
  <2>6. TextLines(a, r)[i] \in Lines /\ TextLines(a, r)[i].datum = d
    BY <2>3, <2>5, LineFields
  <2>7. Says(a, r, w, d, <<i - 1, 0>>, <<i, 0>>)
    BY <1>2, <1>5, <2>4 DEF Says
  <2>8. Adds(a, r, w, d, <<i - 1, 0>>, <<i, 0>>)
    BY <1>1, <1>3, <2>3, <2>7 DEF Adds
  <2>9. QED
    BY <2>6, <2>8
<1>6. QED
  BY <1>4, <1>5

\* The lines of the text say all of its words.
LEMMA TextLinesLead ==
  ASSUME NEW a, NEW r, NEW w, WellSaid(r)
  PROVE  /\ TextLines(a, r) \in Seq(Lines)
         /\ Leads(a, r, w, TextLines(a, r), <<0, 0>>, <<Len(r.text), 0>>)
<1>1. PICK n \in Nat : n = Len(r.text) /\ DOMAIN r.text = 1..n
  <2>1. Words(Len(r.text)) \in Seq(Nat) /\ Len(r.text) \in Nat /\ r.text = Words(Len(r.text))
    BY WordsAre DEF WellSaid
  <2>2. QED
    BY <2>1
<1>2. \A i \in 1..n : TextLines(a, r)[i] \in Lines
  BY <1>1, TextLineAdds
<1>3. TextLines(a, r) \in Seq(Lines) /\ Len(TextLines(a, r)) = n
  <2>1. PICK f : f = TextLines(a, r)
    OBVIOUS
  <2>2. f = [i \in 1..n |-> f[i]]
    BY <1>1, <2>1 DEF TextLines
  <2>3. QED
    BY <1>2, <2>1, <2>2
<1> DEFINE at == [i \in 0..n |-> <<i, 0>>]
<1>4. at \in [0..n -> Nat \X Nat] /\ at[0] = <<0, 0>> /\ at[n] = <<n, 0>>
  OBVIOUS
<1>5. ASSUME NEW i \in 1..n
      PROVE  Adds(a, r, w, TextLines(a, r)[i].datum, at[i - 1], at[i])
  <2>1. at[i - 1] = <<i - 1, 0>> /\ at[i] = <<i, 0>>
    OBVIOUS
  <2> HIDE DEF at
  <2>2. QED
    BY <1>1, <2>1, TextLineAdds
<1> HIDE DEF at
<1>6. QED
  BY <1>1, <1>3, <1>4, <1>5 DEF Leads

\* The lines of the k-th call, the first of which begins it.
LEMMA CallSays ==
  ASSUME NEW a, NEW r, NEW w, WellSaid(r), ~w.packed, NEW k \in 1..Len(r.calls), NEW pieces, NEW j,
         NEW line, line = Line(Datum(<<>>, <<Call(r, k, pieces)>>, NULL), FALSE),
         pieces \in Arguments, pieces # <<>>, pieces[1][1] = k,
         j \in {k - 1, k}, InOne(a) => j = k - 1 /\ pieces = Pieces(r, k)
  PROVE  line \in Lines /\ Adds(a, r, w, line.datum, <<Len(r.text), j>>, <<Len(r.text), k>>)
<1>1. PICK n \in Nat : n = Len(r.text)
  BY DEF WellSaid
<1>2. Len(r.calls) \in Nat /\ k \in DOMAIN r.calls /\ k \in Nat \ {0} /\ j \in Nat /\ j <= k
  BY DEF WellSaid
<1>3. PICK c : c = Call(r, k, pieces)
  OBVIOUS
<1>4. c \in CallData /\ c.index = k - 1 /\ c.number = k /\ c.pieces = pieces
  BY <1>2, <1>3, CallTypes
<1>5. PICK d : d = Datum(<<>>, <<c>>, NULL)
  OBVIOUS
<1>6. d \in Data
  <2>1. <<>> \in Seq(Nat) /\ <<c>> \in Seq(CallData) /\ NULL \in AllReasons \cup {NULL}
    BY <1>4
  <2>2. QED
    BY <1>5, <2>1, DatumTypes
<1>7. d.choice = TRUE /\ d.text = <<>> /\ d.calls = <<c>> /\ d.reason = NULL
  BY <1>5 DEF Datum
<1>8. CallSaid(a, r, w, c, j, k)
  <2>1. k \in DOMAIN r.calls /\ c.number = k /\ c.index = k - 1
    BY <1>2, <1>4
  <2>2. c.pieces # <<>> /\ c.pieces[1][1] = k
    BY <1>4
  <2>3. InOne(a) => k = j + 1 /\ c.pieces = Pieces(r, k)
    BY <1>2, <1>4
  <2>4. QED
    BY <2>1, <2>2, <2>3, Zenon DEF CallSaid
<1>9. Part(n, n) = <<>>
  BY PartsAre
<1>10. Says(a, r, w, d, <<n, j>>, <<n, k>>)
  <2>1. d.calls # <<>> /\ d.calls[1] = c
    BY <1>7
  <2>2. QED
    BY <1>7, <1>8, <1>9, <2>1 DEF Says
<1>11. NULL \notin Data
  BY StreamAssumption
<1>12. Adds(a, r, w, d, <<n, j>>, <<n, k>>)
  BY <1>1, <1>2, <1>6, <1>10, <1>11 DEF Adds
<1>13. line \in Lines /\ line.datum = d
  BY <1>3, <1>5, <1>6, LineFields
<1>14. QED
  BY <1>1, <1>3, <1>5, <1>12, <1>13

\* A call has one piece or two.
LEMMA TwoLines ==
  ASSUME NEW S, NEW x \in S, NEW y \in S
  PROVE  /\ <<x>> \in Seq(S) /\ <<y>> \in Seq(S)
         /\ <<x, y>> \in Seq(S) /\ <<x>> \o <<y>> = <<x, y>>
<1>1. <<x>> \in Seq(S) /\ <<y>> \in Seq(S) /\ <<x, y>> \in Seq(S)
  OBVIOUS
<1>2. Len(<<x>>) = 1 /\ Len(<<y>>) = 1 /\ Len(<<x, y>>) = 2
  OBVIOUS
<1>3. <<x>> \o <<y>> \in Seq(S) /\ Len(<<x>> \o <<y>>) = 2
  BY <1>1, <1>2
<1>4. \A i \in 1..2 : (<<x>> \o <<y>>)[i] = <<x, y>>[i]
  BY <1>1, <1>2
<1>5. QED
  BY <1>1, <1>2, <1>3, <1>4, SeqEqual

\* The lines of a call begin it and say all its pieces.
LEMMA LinesOfCallLead ==
  ASSUME NEW a, NEW r, NEW w, WellSaid(r), ~w.packed, NEW k \in 1..Len(r.calls)
  PROVE  /\ LinesOfCall(a, r, k) \in Seq(Lines)
         /\ Leads(a, r, w, LinesOfCall(a, r, k), <<Len(r.text), k - 1>>, <<Len(r.text), k>>)
<1>1. PICK n \in Nat : n = Len(r.text)
  BY DEF WellSaid
<1>2. k \in Nat /\ k - 1 \in Nat /\ <<n, k - 1>> \in Nat \X Nat /\ <<n, k>> \in Nat \X Nat
  BY DEF WellSaid
<1>3. CASE InOne(a)
  <2>1. Pieces(r, k) \in Arguments /\ Pieces(r, k) # <<>> /\ Pieces(r, k)[1][1] = k
    <3>1. 1 \in DOMAIN Pieces(r, k) /\ <<k, 1>>[1] = k
      BY <1>2, PieceTypes
    <3>2. QED
      BY <1>2, <3>1, PieceTypes
  <2>2. PICK l : l = Line(Datum(<<>>, <<Call(r, k, Pieces(r, k))>>, NULL), FALSE)
    OBVIOUS
  <2>3. l \in Lines /\ Adds(a, r, w, l.datum, <<n, k - 1>>, <<n, k>>)
    <3>1. PICK pieces, j : pieces = Pieces(r, k) /\ j = k - 1
      OBVIOUS
    <3>2. pieces \in Arguments /\ pieces # <<>> /\ pieces[1][1] = k /\ j \in {k - 1, k}
      BY <2>1, <3>1
    <3>3. l = Line(Datum(<<>>, <<Call(r, k, pieces)>>, NULL), FALSE)
      BY <2>2, <3>1
    <3>4. InOne(a) => j = k - 1 /\ pieces = Pieces(r, k)
      BY <3>1
    <3>5. l \in Lines /\ Adds(a, r, w, l.datum, <<Len(r.text), j>>, <<Len(r.text), k>>)
      BY <3>2, <3>3, <3>4, CallSays
    <3>6. QED
      BY <1>1, <3>1, <3>5
  <2>4. LinesOfCall(a, r, k) = <<l>>
    BY <1>3, <2>2 DEF LinesOfCall
  <2>5. Leads(a, r, w, <<l>>, <<n, k - 1>>, <<n, k>>)
    BY <1>2, <2>3, LeadsOne
  <2>6. QED
    BY <1>1, <2>3, <2>4, <2>5
<1>4. CASE ~InOne(a)
  <2>1. PICK m \in {1, 2} : m = Len(Pieces(r, k)) /\ DOMAIN Pieces(r, k) = 1..m
    BY <1>2, PieceTypes
  <2>2. PICK f : f = [i \in 1..m |->
                        Line(Datum(<<>>, <<Call(r, k, <<Pieces(r, k)[i]>>)>>, NULL), FALSE)]
    OBVIOUS
  <2>3. LinesOfCall(a, r, k) = f
    BY <1>4, <2>1, <2>2 DEF LinesOfCall
  <2>4. ASSUME NEW i \in 1..m, NEW j \in {k - 1, k}
        PROVE  f[i] \in Lines /\ Adds(a, r, w, f[i].datum, <<n, j>>, <<n, k>>)
    <3>1. Pieces(r, k)[i] = <<k, i>> /\ <<k, i>> \in Nat \X Nat
      BY <1>2, <2>1, PieceTypes
    <3>2. PICK pieces : pieces = <<Pieces(r, k)[i]>>
      OBVIOUS
    <3>3. pieces \in Arguments /\ pieces # <<>> /\ pieces[1][1] = k
      BY <3>1, <3>2 DEF Arguments
    <3>4. f[i] = Line(Datum(<<>>, <<Call(r, k, pieces)>>, NULL), FALSE)
      BY <2>2, <3>2
    <3>5. QED
      BY <1>1, <1>4, <3>3, <3>4, CallSays
  <2>5. f[1] \in Lines /\ Leads(a, r, w, <<f[1]>>, <<n, k - 1>>, <<n, k>>)
    BY <1>2, <2>1, <2>4, LeadsOne
  <2>6. CASE m = 1
    <3>1. f = <<f[1]>>
      <4>1. f = [i \in 1..1 |-> f[i]]
        BY <2>2, <2>6
      <4>2. QED
        BY <4>1
    <3>2. <<f[1]>> \in Seq(Lines)
      BY <2>5
    <3>3. QED
      BY <1>1, <2>3, <2>5, <3>1, <3>2
  <2>7. CASE m = 2
    <3>1. f[2] \in Lines /\ Leads(a, r, w, <<f[2]>>, <<n, k>>, <<n, k>>)
      BY <1>2, <2>4, <2>7, LeadsOne
    <3>2. /\ <<f[1]>> \in Seq(Lines) /\ <<f[2]>> \in Seq(Lines)
          /\ <<f[1], f[2]>> \in Seq(Lines) /\ <<f[1]>> \o <<f[2]>> = <<f[1], f[2]>>
      <4>1. f[1] \in Lines /\ f[2] \in Lines
        BY <2>5, <3>1
      <4>2. QED
        BY <4>1, TwoLines
    <3>3. f = <<f[1], f[2]>>
      <4>1. f = [i \in 1..2 |-> f[i]]
        BY <2>2, <2>7
      <4>2. QED
        BY <4>1
    <3>4. Leads(a, r, w, <<f[1]>> \o <<f[2]>>, <<n, k - 1>>, <<n, k>>)
      BY <2>5, <3>1, <3>2, LeadsOn
    <3>5. QED
      BY <1>1, <2>3, <3>2, <3>3, <3>4
  <2>8. QED
    BY <2>6, <2>7
<1>5. QED
  BY <1>3, <1>4

\* FlattenSeq is no fold: any operation serves for its facts.
Latest(ctx, state, e) == e

Flat == INSTANCE FoldFacts WITH Op <- Latest

\* What FlattenSeq makes of one sequence more.
LEMMA Flattens ==
  ASSUME NEW S, NEW seqs \in Seq(Seq(S)), NEW s \in Seq(S)
  PROVE  /\ FlattenSeq(seqs) \in Seq(S)
         /\ FlattenSeq(Append(seqs, s)) = FlattenSeq(seqs) \o s
<1>1. \A t : FlattenSeq(t) = Flat!FlattenSeq(t)
  BY DEF FlattenSeq, Flat!FlattenSeq
<1>2. /\ Flat!FlattenSeq(seqs) \in Seq(S)
      /\ Flat!FlattenSeq(Append(seqs, s)) = Flat!FlattenSeq(seqs) \o s
  BY Flat!FlattenAppend
<1>3. QED
  BY <1>1, <1>2

\* Nothing makes up nothing.
LEMMA FlattensNone == FlattenSeq(<<>>) = <<>>
  BY DEF FlattenSeq

\* The lines of all the calls, one call after another.
LEMMA CallLinesLead ==
  ASSUME NEW a, NEW r, NEW w, WellSaid(r), ~w.packed
  PROVE  /\ CallLines(a, r) \in Seq(Lines)
         /\ Leads(a, r, w, CallLines(a, r), <<Len(r.text), 0>>, <<Len(r.text), Len(r.calls)>>)
<1>1. PICK t \in Nat, m \in Nat : t = Len(r.text) /\ m = Len(r.calls) /\ DOMAIN r.calls = 1..m
  BY DEF WellSaid
<1> DEFINE Of(n) == [k \in 1..n |-> LinesOfCall(a, r, k)]
           T == {n \in Nat : n <= m =>
                   /\ FlattenSeq(Of(n)) \in Seq(Lines)
                   /\ Leads(a, r, w, FlattenSeq(Of(n)), <<t, 0>>, <<t, n>>)}
<1>2. \A k \in 1..m : /\ LinesOfCall(a, r, k) \in Seq(Lines)
                      /\ Leads(a, r, w, LinesOfCall(a, r, k), <<t, k - 1>>, <<t, k>>)
  BY <1>1, LinesOfCallLead
<1>3. 0 \in T
  <2>1. Of(0) = <<>>
    OBVIOUS
  <2>2. FlattenSeq(Of(0)) = <<>>
    BY <2>1, FlattensNone
  <2>3. <<t, 0>> \in Nat \X Nat /\ <<>> \in Seq(Lines)
    OBVIOUS
  <2>4. Leads(a, r, w, <<>>, <<t, 0>>, <<t, 0>>)
    BY <2>3, LeadsNone
  <2> HIDE DEF Of
  <2>5. QED
    BY <2>2, <2>3, <2>4
<1>4. ASSUME NEW n \in Nat, n \in T, n + 1 <= m
      PROVE  /\ FlattenSeq(Of(n + 1)) \in Seq(Lines)
             /\ Leads(a, r, w, FlattenSeq(Of(n + 1)), <<t, 0>>, <<t, n + 1>>)
  <2>1. PICK s : s = LinesOfCall(a, r, n + 1)
    OBVIOUS
  <2>2. s \in Seq(Lines) /\ Leads(a, r, w, s, <<t, n>>, <<t, n + 1>>)
    <3>1. n + 1 \in 1..m /\ (n + 1) - 1 = n
      BY <1>4
    <3>2. QED
      BY <1>2, <2>1, <3>1
  <2>3. Of(n) \in Seq(Seq(Lines))
    <3>1. \A k \in 1..n : LinesOfCall(a, r, k) \in Seq(Lines)
      <4>1. \A k \in 1..n : k \in 1..m
        BY <1>4
      <4>2. QED
        BY <1>2, <4>1
    <3>2. QED
      BY <3>1
  <2>4. Of(n + 1) = Append(Of(n), s)
    BY <2>1, <2>3
  <2>5. /\ FlattenSeq(Of(n)) \in Seq(Lines)
        /\ Leads(a, r, w, FlattenSeq(Of(n)), <<t, 0>>, <<t, n>>)
    BY <1>4
  <2> HIDE DEF Of, T
  <2>6. FlattenSeq(Of(n + 1)) = FlattenSeq(Of(n)) \o s
    BY <2>2, <2>3, <2>4, Flattens
  <2>7. FlattenSeq(Of(n)) \o s \in Seq(Lines)
    BY <2>2, <2>5
  <2>8. Leads(a, r, w, FlattenSeq(Of(n)) \o s, <<t, 0>>, <<t, n + 1>>)
    BY <2>2, <2>5, LeadsOn
  <2>9. QED
    BY <2>6, <2>7, <2>8
<1>5. \A n \in Nat : n \in T => n + 1 \in T
  <2> HIDE DEF Of
  <2>1. QED
    BY <1>4
<1>6. m \in T
  <2> HIDE DEF T
  <2>1. QED
    BY <1>3, <1>5, Flat!Induction
<1>7. CallLines(a, r) = FlattenSeq(Of(m))
  BY <1>1 DEF CallLines
<1> HIDE DEF Of
<1>8. /\ FlattenSeq(Of(m)) \in Seq(Lines)
      /\ Leads(a, r, w, FlattenSeq(Of(m)), <<t, 0>>, <<t, m>>)
  BY <1>6
<1> HIDE DEF T
<1>9. QED
  BY <1>1, <1>7, <1>8

\* All but the reason in one line, whose first call is the one that is read.
LEMMA PackedLeads ==
  ASSUME NEW a, NEW r, NEW w, WellSaid(r), w.packed
  PROVE  /\ Packed(r) \in Seq(Lines)
         /\ \E k \in Nat : Leads(a, r, w, Packed(r), <<0, 0>>, <<Len(r.text), k>>)
<1>1. PICK t \in Nat, m \in Nat : t = Len(r.text) /\ m = Len(r.calls) /\ DOMAIN r.calls = 1..m
  BY DEF WellSaid
<1>2. PICK calls : calls = [k \in 1..m |-> Call(r, k, Pieces(r, k))]
  OBVIOUS
<1>3. ASSUME NEW k \in 1..m
      PROVE  /\ calls[k] \in CallData /\ calls[k].index = k - 1 /\ calls[k].number = k
             /\ calls[k].pieces = Pieces(r, k)
             /\ calls[k].pieces # <<>> /\ calls[k].pieces[1][1] = k
  <2>1. PICK pieces : pieces = Pieces(r, k)
    OBVIOUS
  <2>2. pieces \in Arguments /\ pieces # <<>> /\ pieces[1][1] = k
    <3>1. 1 \in DOMAIN Pieces(r, k) /\ <<k, 1>>[1] = k
      BY PieceTypes
    <3>2. QED
      BY <2>1, <3>1, PieceTypes
  <2>3. calls[k] = Call(r, k, pieces) /\ k \in Nat \ {0}
    BY <1>2, <2>1
  <2>4. calls[k] \in CallData /\ calls[k].index = k - 1 /\ calls[k].number = k
        /\ calls[k].pieces = pieces
    BY <2>2, <2>3, CallTypes
  <2>5. QED
    BY <2>1, <2>2, <2>4
<1>4. calls \in Seq(CallData) /\ Len(calls) = m
  <2>1. calls = [k \in 1..m |-> calls[k]]
    BY <1>2
  <2>2. \A k \in 1..m : calls[k] \in CallData
    BY <1>3
  <2>3. QED
    BY <2>1, <2>2
<1>5. PICK d : d = Datum(r.text, calls, NULL)
  OBVIOUS
<1>6. r.text = Words(t) /\ r.text \in Seq(Nat)
  BY <1>1, WordsAre DEF WellSaid
<1>7. d \in Data
  <2>1. NULL \in AllReasons \cup {NULL}
    OBVIOUS
  <2>2. QED
    BY <1>4, <1>5, <1>6, <2>1, DatumTypes
<1>8. d.choice = TRUE /\ d.text = r.text /\ d.calls = calls /\ d.reason = NULL
  BY <1>5 DEF Datum
<1>9. PICK k \in Nat : k = IF calls = <<>> THEN 0 ELSE 1
  OBVIOUS
<1>10. calls # <<>> => CallSaid(a, r, w, calls[1], 0, k)
  <2> SUFFICES ASSUME calls # <<>> PROVE CallSaid(a, r, w, calls[1], 0, 1)
    BY <1>9
  <2>1. 1 \in 1..m /\ 1 = 0 + 1
    BY <1>4
  <2>2. QED
    BY <1>1, <1>3, <2>1 DEF CallSaid
<1>11. Part(0, t) = Words(t)
  BY PartsAre
<1>12. Says(a, r, w, d, <<0, 0>>, <<t, k>>)
  BY <1>6, <1>8, <1>9, <1>10, <1>11 DEF Says
<1>13. NULL \notin Data
  BY StreamAssumption
<1>14. Adds(a, r, w, d, <<0, 0>>, <<t, k>>)
  BY <1>1, <1>7, <1>9, <1>12, <1>13 DEF Adds
<1>15. PICK line : line = Line(d, r.marked # 0)
  OBVIOUS
<1>16. line \in Lines /\ line.datum = d
  BY <1>7, <1>15, LineFields
<1>17. Packed(r) = <<line>>
  BY <1>1, <1>2, <1>5, <1>15 DEF Packed
<1>18. <<0, 0>> \in Nat \X Nat /\ <<t, k>> \in Nat \X Nat
  OBVIOUS
<1>19. Leads(a, r, w, <<line>>, <<0, 0>>, <<t, k>>)
  BY <1>14, <1>16, <1>18, LeadsOne
<1>20. QED
  BY <1>1, <1>16, <1>17, <1>19

\* The line of the reason comes when the whole text has been said.
LEMMA ReasonLeads ==
  ASSUME NEW a, NEW r, NEW w, WellSaid(r), NEW k \in Nat
  PROVE  /\ ReasonLine(a, r) \in Seq(Lines)
         /\ Leads(a, r, w, ReasonLine(a, r), <<Len(r.text), k>>, <<Len(r.text), k>>)
<1>1. PICK t \in Nat : t = Len(r.text) /\ r.text = Words(t)
  BY DEF WellSaid
<1>2. <<t, k>> \in Nat \X Nat
  OBVIOUS
<1>3. CASE r.reason = NULL
  <2>1. ReasonLine(a, r) = <<>> /\ <<>> \in Seq(Lines)
    BY <1>3 DEF ReasonLine
  <2>2. QED
    BY <1>1, <1>2, <2>1, LeadsNone
<1>4. CASE r.reason # NULL
  <2>1. PICK text : text = IF a = "tongyi" THEN r.text ELSE <<>>
    OBVIOUS
  <2>2. text \in Seq(Nat) /\ <<>> \in Seq(CallData) /\ r.reason \in AllReasons \cup {NULL}
    BY <1>1, <2>1, WordsAre DEF WellSaid
  <2>3. PICK d : d = Datum(text, <<>>, r.reason)
    OBVIOUS
  <2>4. d \in Data
    BY <2>2, <2>3, DatumTypes
  <2>5. d.choice = TRUE /\ d.text = text /\ d.calls = <<>> /\ d.reason = r.reason
    BY <2>3 DEF Datum
  <2>6. Part(t, t) = <<>>
    BY PartsAre
  <2>7. Says(a, r, w, d, <<t, k>>, <<t, k>>)
    BY <1>1, <2>1, <2>5, <2>6 DEF Says
  <2>8. NULL \notin Data
    BY StreamAssumption
  <2>9. Adds(a, r, w, d, <<t, k>>, <<t, k>>)
    BY <1>1, <2>4, <2>7, <2>8 DEF Adds
  <2>10. PICK marked \in BOOLEAN : marked = (a = "tongyi" /\ r.marked # 0)
    OBVIOUS
  <2>11. PICK line : line = Line(d, marked)
    OBVIOUS
  <2>12. line \in Lines /\ line.datum = d
    BY <2>4, <2>11, LineFields
  <2>13. ReasonLine(a, r) = <<line>>
    BY <1>4, <2>1, <2>3, <2>10, <2>11 DEF ReasonLine
  <2>14. Leads(a, r, w, <<line>>, <<t, k>>, <<t, k>>)
    BY <1>2, <2>9, <2>12, LeadsOne
  <2>15. QED
    BY <1>1, <2>12, <2>13, <2>14
<1>5. QED
  BY <1>3, <1>4

\* A line that says nothing leads nowhere.
LEMMA NothingLeads ==
  ASSUME NEW a, NEW r, NEW w, NEW n \in Nat, NEW k \in Nat, n <= Len(r.text), Len(r.text) \in Nat,
         NEW line, line \in {Line(NULL, FALSE), Line(NULL, TRUE), Line(Usage, FALSE)}
  PROVE  line \in Lines /\ Leads(a, r, w, <<line>>, <<n, k>>, <<n, k>>)
<1>1. PICK d \in {NULL, Usage}, marked \in BOOLEAN : line = Line(d, marked)
  <2>1. TRUE \in BOOLEAN /\ FALSE \in BOOLEAN
    OBVIOUS
  <2>2. QED
    BY <2>1, Zenon
<1>2. Adds(a, r, w, d, <<n, k>>, <<n, k>>) /\ d \in Data \cup {NULL}
  BY NothingSaid
<1>3. line \in Lines /\ line.datum = d
  BY <1>1, <1>2, LineFields
<1>4. <<n, k>> \in Nat \X Nat
  OBVIOUS
<1>5. Leads(a, r, w, <<line>>, <<n, k>>, <<n, k>>)
  BY <1>2, <1>3, <1>4, LeadsOne
<1>6. QED
  BY <1>3, <1>5

\* All the lines of a reply lead from nothing said to all of the text.
LEMMA LinesLead ==
  ASSUME NEW a, NEW r, NEW w, WellSaid(r)
  PROVE  /\ LinesOf(a, r, w) \in Seq(Lines)
         /\ \E z : Leads(a, r, w, LinesOf(a, r, w), <<0, 0>>, z)
<1>1. PICK t \in Nat : t = Len(r.text)
  BY DEF WellSaid
<1>2. PICK said : said = IF w.packed THEN Packed(r) ELSE TextLines(a, r) \o CallLines(a, r)
  OBVIOUS
<1>3. said \in Seq(Lines) /\ \E k \in Nat : Leads(a, r, w, said, <<0, 0>>, <<t, k>>)
  <2>1. CASE w.packed
    BY <1>1, <1>2, <2>1, PackedLeads
  <2>2. CASE ~w.packed
    <3>1. PICK u, v : u = TextLines(a, r) /\ v = CallLines(a, r)
      OBVIOUS
    <3>2. u \in Seq(Lines) /\ Leads(a, r, w, u, <<0, 0>>, <<t, 0>>)
      BY <1>1, <3>1, TextLinesLead
    <3>3. v \in Seq(Lines) /\ Leads(a, r, w, v, <<t, 0>>, <<t, Len(r.calls)>>)
      BY <1>1, <2>2, <3>1, CallLinesLead
    <3>4. Leads(a, r, w, u \o v, <<0, 0>>, <<t, Len(r.calls)>>) /\ u \o v \in Seq(Lines)
      BY <3>2, <3>3, LeadsOn
    <3>5. Len(r.calls) \in Nat
      BY DEF WellSaid
    <3>6. QED
      BY <1>2, <2>2, <3>1, <3>4, <3>5
  <2>3. QED
    BY <2>1, <2>2
<1>4. PICK k \in Nat : Leads(a, r, w, said, <<0, 0>>, <<t, k>>)
  BY <1>3
<1>5. PICK front : front = IF w.usage = "front" THEN <<Line(NULL, FALSE), Line(Usage, FALSE)>>
                           ELSE <<>>
  OBVIOUS
<1>6. front \in Seq(Lines) /\ Leads(a, r, w, front, <<0, 0>>, <<0, 0>>)
  <2>1. CASE w.usage = "front"
    <3>1. PICK x, y : x = Line(NULL, FALSE) /\ y = Line(Usage, FALSE)
      OBVIOUS
    <3>2. 0 \in Nat /\ 0 <= Len(r.text) /\ Len(r.text) \in Nat
      BY <1>1
    <3>3. /\ x \in Lines /\ Leads(a, r, w, <<x>>, <<0, 0>>, <<0, 0>>)
          /\ y \in Lines /\ Leads(a, r, w, <<y>>, <<0, 0>>, <<0, 0>>)
      BY <3>1, <3>2, NothingLeads
    <3>4. <<x>> \o <<y>> = <<x, y>> /\ <<x, y>> \in Seq(Lines)
          /\ <<x>> \in Seq(Lines) /\ <<y>> \in Seq(Lines)
      BY <3>3, TwoLines
    <3>5. Leads(a, r, w, <<x>> \o <<y>>, <<0, 0>>, <<0, 0>>)
      BY <3>3, <3>4, LeadsOn
    <3>6. QED
      BY <1>5, <2>1, <3>1, <3>4, <3>5
  <2>2. CASE w.usage # "front"
    <3>1. front = <<>> /\ <<0, 0>> \in Nat \X Nat
      BY <1>5, <2>2
    <3>2. QED
      BY <3>1, LeadsNone
  <2>3. QED
    BY <2>1, <2>2
<1>7. PICK reason : reason = ReasonLine(a, r)
  OBVIOUS
<1>8. reason \in Seq(Lines) /\ Leads(a, r, w, reason, <<t, k>>, <<t, k>>)
  BY <1>1, <1>7, ReasonLeads
<1>9. PICK usage : usage = IF w.usage = "end" THEN <<Line(Usage, FALSE)>> ELSE <<>>
  OBVIOUS
<1>10. usage \in Seq(Lines) /\ Leads(a, r, w, usage, <<t, k>>, <<t, k>>)
  <2>1. CASE w.usage = "end"
    <3>1. PICK line : line = Line(Usage, FALSE)
      OBVIOUS
    <3>2. t <= Len(r.text) /\ Len(r.text) \in Nat
      BY <1>1
    <3>3. line \in Lines /\ Leads(a, r, w, <<line>>, <<t, k>>, <<t, k>>)
      BY <3>1, <3>2, NothingLeads
    <3>4. usage = <<line>>
      BY <1>9, <2>1, <3>1, Zenon
    <3>5. QED
      BY <3>3, <3>4
  <2>2. CASE w.usage # "end"
    <3>1. usage = <<>> /\ <<t, k>> \in Nat \X Nat
      BY <1>9, <2>2
    <3>2. QED
      BY <3>1, LeadsNone
  <2>3. QED
    BY <2>1, <2>2
<1>11. PICK done : done = <<Line(NULL, TRUE)>>
  OBVIOUS
<1>12. done \in Seq(Lines) /\ Leads(a, r, w, done, <<t, k>>, <<t, k>>)
  <2>1. PICK line : line = Line(NULL, TRUE)
    OBVIOUS
  <2>2. t <= Len(r.text) /\ Len(r.text) \in Nat
    BY <1>1
  <2>3. line \in Lines /\ Leads(a, r, w, <<line>>, <<t, k>>, <<t, k>>)
    BY <2>1, <2>2, NothingLeads
  <2>4. done = <<line>>
    BY <1>11, <2>1, Zenon
  <2>5. QED
    BY <2>3, <2>4
<1>13. PICK s1 : s1 = front \o said
  OBVIOUS
<1>14. s1 \in Seq(Lines) /\ Leads(a, r, w, s1, <<0, 0>>, <<t, k>>)
  BY <1>3, <1>4, <1>6, <1>13, LeadsOn
<1>15. PICK s2 : s2 = s1 \o reason
  OBVIOUS
<1>16. s2 \in Seq(Lines) /\ Leads(a, r, w, s2, <<0, 0>>, <<t, k>>)
  BY <1>8, <1>14, <1>15, LeadsOn
<1>17. PICK s3 : s3 = s2 \o usage
  OBVIOUS
<1>18. s3 \in Seq(Lines) /\ Leads(a, r, w, s3, <<0, 0>>, <<t, k>>)
  BY <1>10, <1>16, <1>17, LeadsOn
<1>19. s3 \o done \in Seq(Lines) /\ Leads(a, r, w, s3 \o done, <<0, 0>>, <<t, k>>)
  BY <1>12, <1>18, LeadsOn
<1>20. LinesOf(a, r, w) = s3 \o done
  BY <1>2, <1>5, <1>7, <1>9, <1>11, <1>13, <1>15, <1>17, Zenon DEF LinesOf
<1>21. QED
  BY <1>19, <1>20

-----------------------------------------------------------------------------
(***************************************************************************)
(* What every adapter makes of a datum, in one form: the text it adds, the *)
(* calls it goes on with, and a reason only if the datum has one.          *)
(***************************************************************************)
Goes(a, d) ==
  IF d.calls = <<>> \/ a \in {"baichuan", "cohere", "anthropic"}
     \/ (a = "google_gemini" /\ d.text # <<>>)
  THEN so.calls
  ELSE IF a \in AtZero THEN Gathered(so.calls, d.calls[1], 0)
  ELSE IF a = "wenxin" THEN [so.calls EXCEPT !.numbers = Append(@, d.calls[1].number),
                                             !.pieces  = Append(@, d.calls[1].pieces)]
  ELSE Gathered(so.calls, d.calls[1], d.calls[1].index)

Taken(a, d, read) ==
  /\ read.text = IF a = "tongyi" THEN SubSeq(d.text, Len(so.text) + 1, Len(d.text)) ELSE d.text
  /\ read.chunk <=> d.text # <<>>
  /\ d.reason = NULL => read.reason \in {NULL, "unknown"}
  /\ read.calls = Goes(a, d)
  /\ a = "google_gemini" /\ d.calls # <<>> /\ d.text = <<>> => so.calls.index # 0

Reads(a, d, read) ==
  \/ read.over /\ ~d.choice /\ ~read.raised
  \/ read.raised
  \/ ~read.over /\ ~read.raised /\ Taken(a, d, read)

\* The fields of what an adapter gives.
LEMMA GivesFields ==
  ASSUME NEW text, NEW calls, NEW reason, NEW g, g = Gives(text, calls, reason)
  PROVE  /\ ~g.over /\ (g.raised <=> reason = "raised") /\ (g.chunk <=> text # <<>>)
         /\ g.text = text /\ g.calls = calls /\ g.reason = reason
  BY DEF Gives

\* What is passed over has not failed.
LEMMA OverFields == Over.over /\ ~Over.raised
  BY DEF Over

\* What is broken has failed.
LEMMA BrokenFields == Broken.raised
  BY DEF Broken, Over

\* A datum whose text is given as it is has been read.
LEMMA GivesReads ==
  ASSUME NEW a, NEW d, NEW calls, NEW reason, a # "tongyi",
         NEW g, g = Gives(d.text, calls, reason),
         calls = Goes(a, d), d.reason = NULL => reason \in {NULL, "unknown"},
         a = "google_gemini" /\ d.calls # <<>> /\ d.text = <<>> => so.calls.index # 0
  PROVE  Reads(a, d, g)
<1>1. /\ ~g.over /\ (g.raised <=> reason = "raised") /\ (g.chunk <=> d.text # <<>>)
      /\ g.text = d.text /\ g.calls = calls /\ g.reason = reason
  BY GivesFields
<1>2. Taken(a, d, g)
  BY <1>1 DEF Taken
<1>3. QED
  BY <1>1, <1>2 DEF Reads

\* No reason is spoken where there is none.
LEMMA SpokenNull ==
  ASSUME NEW d, NEW names, d.reason = NULL
  PROVE  Spoken(d, names) = NULL
  BY DEF Spoken

\* A datum without a choice may be passed over.
LEMMA OverReads ==
  ASSUME NEW a, NEW d, ~d.choice
  PROVE  Reads(a, d, Over)
  BY OverFields DEF Reads

\* A datum may fail the adapter.
LEMMA BrokenReads ==
  ASSUME NEW a, NEW d
  PROVE  Reads(a, d, Broken)
  BY BrokenFields DEF Reads

ByIndex == {"openai", "azure_openai", "yi", "moonshot", "groq", "ollama", "localai", "lm_studio",
            "llama_api", "zhipu", "mistralai", "custom_tools", "togetherai"}

\* The calls as each way of gathering them makes them.
LEMMA GoesIs ==
  ASSUME NEW a, NEW d
  PROVE  /\ a \in ByIndex => Goes(a, d) = FirstGathered(so, d)
         /\ a \in {"minimax", "custom_function"} => Goes(a, d) = FirstAtZero(so, d)
         /\ a \in {"baichuan", "cohere", "anthropic"} => Goes(a, d) = so.calls
         /\ a = "google_gemini" => Goes(a, d) = IF d.text # <<>> THEN so.calls
                                                ELSE FirstAtZero(so, d)
<1>1. a \in ByIndex => Goes(a, d) = FirstGathered(so, d)
  BY DEF ByIndex, AtZero, Goes, FirstGathered
<1>2. a \in {"minimax", "custom_function"} => Goes(a, d) = FirstAtZero(so, d)
  BY DEF AtZero, Goes, FirstAtZero
<1>3. a \in {"baichuan", "cohere", "anthropic"} => Goes(a, d) = so.calls
  BY DEF Goes
<1>4. a = "google_gemini" => Goes(a, d) = IF d.text # <<>> THEN so.calls
                                          ELSE FirstAtZero(so, d)
  BY DEF AtZero, Goes, FirstAtZero
<1>5. QED
  BY <1>1, <1>2, <1>3, <1>4

\* Adapters that read the first choice, call by index.
LEMMA ChoiceReads ==
  ASSUME NEW a \in ByIndex, NEW d, NEW names
  PROVE  Reads(a, d, Choice(so, d, names))
<1>1. CASE ~d.choice
  BY <1>1, OverReads DEF Choice
<1>2. CASE d.choice
  <2>1. PICK g : g = Gives(d.text, FirstGathered(so, d), Spoken(d, names))
    OBVIOUS
  <2>2. Choice(so, d, names) = g
    BY <1>2, <2>1 DEF Choice
  <2>3. FirstGathered(so, d) = Goes(a, d)
    BY GoesIs
  <2>4. d.reason = NULL => Spoken(d, names) \in {NULL, "unknown"}
    BY SpokenNull
  <2>5. a # "tongyi" /\ a # "google_gemini"
    BY DEF ByIndex
  <2>6. Reads(a, d, g)
    BY <2>1, <2>3, <2>4, <2>5, GivesReads
  <2>7. QED
    BY <2>2, <2>6
<1>3. QED
  BY <1>1, <1>2

Chosen == {"openai", "azure_openai", "yi", "moonshot", "groq", "ollama", "localai", "lm_studio",
           "llama_api", "zhipu", "mistralai"}

\* The adapters with nothing more to them.
LEMMA ChosenRead ==
  ASSUME NEW a \in Chosen, NEW d
  PROVE  Reads(a, d, Reading(a, d))
<1>1. a \in ByIndex
  BY DEF Chosen, ByIndex
<1>2. \E names : Reading(a, d) = Choice(so, d, names)
  <2>1. CASE a = "openai"
    BY <2>1, Zenon DEF Reading, OpenaiDatum
  <2>2. CASE a = "azure_openai"
    BY <2>2, Zenon DEF Reading, AzureOpenaiDatum
  <2>3. CASE a = "yi"
    BY <2>3, Zenon DEF Reading, YiDatum
  <2>4. CASE a = "moonshot"
    BY <2>4, Zenon DEF Reading, MoonshotDatum
  <2>5. CASE a = "groq"
    BY <2>5, Zenon DEF Reading, GroqDatum
  <2>6. CASE a = "ollama"
    BY <2>6, Zenon DEF Reading, OllamaDatum
  <2>7. CASE a = "localai"
    BY <2>7, Zenon DEF Reading, LocalaiDatum
  <2>8. CASE a = "lm_studio"
    BY <2>8, Zenon DEF Reading, LmStudioDatum
  <2>9. CASE a = "llama_api"
    BY <2>9, Zenon DEF Reading, LlamaApiDatum
  <2>10. CASE a = "zhipu"
    BY <2>10, Zenon DEF Reading, ZhipuDatum
  <2>11. CASE a = "mistralai"
    BY <2>11, Zenon DEF Reading, MistralDatum
  <2>12. QED
    BY <2>1, <2>2, <2>3, <2>4, <2>5, <2>6, <2>7, <2>8, <2>9, <2>10, <2>11 DEF Chosen
<1>3. QED
  BY <1>1, <1>2, ChoiceReads

\* Baichuan's calls are not read.
LEMMA BaichuanReads ==
  ASSUME NEW d
  PROVE  Reads("baichuan", d, Reading("baichuan", d))
<1>1. Reading("baichuan", d) = BaichuanDatum(so, d)
  BY Zenon DEF Reading
<1>2. CASE ~d.choice
  BY <1>1, <1>2, OverReads DEF BaichuanDatum
<1>3. CASE d.choice
  <2>1. PICK g, reason : g = Gives(d.text, so.calls, reason)
                         /\ reason = Spoken(d, OpenaiReasons)
    OBVIOUS
  <2>2. BaichuanDatum(so, d) = g
    BY <1>3, <2>1 DEF BaichuanDatum
  <2>3. so.calls = Goes("baichuan", d)
    BY GoesIs
  <2>4. d.reason = NULL => reason \in {NULL, "unknown"}
    BY <2>1, SpokenNull
  <2>5. Reads("baichuan", d, g)
    BY <2>1, <2>3, <2>4, GivesReads
  <2>6. QED
    BY <1>1, <2>2, <2>5
<1>4. QED
  BY <1>2, <1>3

\* Minimax's calls are all at index 0.
LEMMA MinimaxReads ==
  ASSUME NEW d
  PROVE  Reads("minimax", d, Reading("minimax", d))
<1>1. Reading("minimax", d) = MinimaxDatum(so, d)
  BY Zenon DEF Reading
<1>2. CASE ~d.choice
  BY <1>1, <1>2, OverReads DEF MinimaxDatum
<1>3. CASE d.choice
  <2>1. PICK g, reason : g = Gives(d.text, FirstAtZero(so, d), reason)
                         /\ reason = Spoken(d, OpenaiReasons)
    OBVIOUS
  <2>2. MinimaxDatum(so, d) = g
    BY <1>3, <2>1 DEF MinimaxDatum
  <2>3. FirstAtZero(so, d) = Goes("minimax", d)
    BY GoesIs
  <2>4. d.reason = NULL => reason \in {NULL, "unknown"}
    BY <2>1, SpokenNull
  <2>5. Reads("minimax", d, g)
    BY <2>1, <2>3, <2>4, GivesReads
  <2>6. QED
    BY <1>1, <2>2, <2>5
<1>4. QED
  BY <1>2, <1>3

\* The custom host's data must have a choice.
LEMMA CustomToolsReads ==
  ASSUME NEW d
  PROVE  Reads("custom_tools", d, Reading("custom_tools", d))
<1>1. Reading("custom_tools", d) = CustomToolsDatum(so, d)
  BY Zenon DEF Reading
<1>2. CASE ~d.choice
  BY <1>1, <1>2, BrokenReads DEF CustomToolsDatum
<1>3. CASE d.choice
  <2>1. PICK g, reason : g = Gives(d.text, FirstGathered(so, d), reason)
                         /\ reason = Spoken(d, LocalReasons)
    OBVIOUS
  <2>2. CustomToolsDatum(so, d) = g
    BY <1>3, <2>1 DEF CustomToolsDatum
  <2>3. FirstGathered(so, d) = Goes("custom_tools", d)
    BY GoesIs DEF ByIndex
  <2>4. d.reason = NULL => reason \in {NULL, "unknown"}
    BY <2>1, SpokenNull
  <2>5. Reads("custom_tools", d, g)
    BY <2>1, <2>3, <2>4, GivesReads
  <2>6. QED
    BY <1>1, <2>2, <2>5
<1>4. QED
  BY <1>2, <1>3

\* The custom host's one function is at index 0.
LEMMA CustomFunctionReads ==
  ASSUME NEW d
  PROVE  Reads("custom_function", d, Reading("custom_function", d))
<1>1. Reading("custom_function", d) = CustomFunctionDatum(so, d)
  BY Zenon DEF Reading
<1>2. CASE ~d.choice
  BY <1>1, <1>2, BrokenReads DEF CustomFunctionDatum
<1>3. CASE d.choice
  <2>1. PICK g, reason : g = Gives(d.text, FirstAtZero(so, d), reason)
                         /\ reason = Spoken(d, FunctionStreamReasons)
    OBVIOUS
  <2>2. CustomFunctionDatum(so, d) = g
    BY <1>3, <2>1 DEF CustomFunctionDatum
  <2>3. FirstAtZero(so, d) = Goes("custom_function", d)
    BY GoesIs
  <2>4. d.reason = NULL => reason \in {NULL, "unknown"}
    BY <2>1, SpokenNull
  <2>5. Reads("custom_function", d, g)
    BY <2>1, <2>3, <2>4, GivesReads
  <2>6. QED
    BY <1>1, <2>2, <2>5
<1>4. QED
  BY <1>2, <1>3

\* A reason that is not there is unknown to Anthropic.
LEMMA NullUnknown == Translated(NULL, AnthropicReasons) = "unknown"
<1>1. NamesOf("anthropic") = DOMAIN AnthropicReasons
  BY Zenon DEF NamesOf
<1>2. "anthropic" \in Streaming \cup PlainOnly
  BY DEF Streaming
<1>3. NULL \notin DOMAIN AnthropicReasons /\ NULL \notin FinishReasons
  BY <1>1, <1>2, StreamAssumption DEF AllReasons
<1>4. QED
  BY <1>3 DEF Translated

\* Anthropic's stream has no calls.
LEMMA AnthropicReads ==
  ASSUME NEW d
  PROVE  Reads("anthropic", d, Reading("anthropic", d))
<1>1. Reading("anthropic", d) = AnthropicDatum(so, d)
  BY Zenon DEF Reading
<1>2. CASE ~d.choice
  BY <1>1, <1>2, OverReads DEF AnthropicDatum
<1>3. CASE d.choice
  <2>1. PICK g, reason : g = Gives(d.text, so.calls, reason)
                         /\ reason = Translated(d.reason, AnthropicReasons)
    OBVIOUS
  <2>2. AnthropicDatum(so, d) = g
    BY <1>3, <2>1 DEF AnthropicDatum
  <2>3. so.calls = Goes("anthropic", d)
    BY GoesIs
  <2>4. d.reason = NULL => reason \in {NULL, "unknown"}
    BY <2>1, NullUnknown
  <2>5. Reads("anthropic", d, g)
    BY <2>1, <2>3, <2>4, GivesReads
  <2>6. QED
    BY <1>1, <2>2, <2>5
<1>4. QED
  BY <1>2, <1>3

\* Together's missing reason is unknown.
LEMMA TogetheraiReads ==
  ASSUME NEW d
  PROVE  Reads("togetherai", d, Reading("togetherai", d))
<1>1. Reading("togetherai", d) = TogetheraiDatum(so, d)
  BY Zenon DEF Reading
<1>2. CASE ~d.choice
  BY <1>1, <1>2, OverReads DEF TogetheraiDatum
<1>3. CASE d.choice
  <2>1. PICK g, reason : g = Gives(d.text, FirstGathered(so, d), reason)
                         /\ reason = (CASE d.reason = NULL -> "unknown"
                                     [] d.reason = "eos_token" -> "unknown"
                                     [] OTHER -> Translated(d.reason, TogetheraiReasons))
    OBVIOUS
  <2>2. TogetheraiDatum(so, d) = g
    BY <1>3, <2>1 DEF TogetheraiDatum
  <2>3. FirstGathered(so, d) = Goes("togetherai", d)
    BY GoesIs DEF ByIndex
  <2>4. d.reason = NULL => reason \in {NULL, "unknown"}
    BY <2>1, StreamAssumption
  <2>5. Reads("togetherai", d, g)
    BY <2>1, <2>3, <2>4, GivesReads
  <2>6. QED
    BY <1>1, <2>2, <2>5
<1>4. QED
  BY <1>2, <1>3

\* Cohere's data are not passed over.
LEMMA CohereReads ==
  ASSUME NEW d
  PROVE  Reads("cohere", d, Reading("cohere", d))
<1>1. PICK g, reason : g = Gives(d.text, so.calls, reason) /\ reason = Spoken(d, CohereReasons)
  OBVIOUS
<1>2. Reading("cohere", d) = g
  BY <1>1, Zenon DEF Reading, CohereDatum
<1>3. so.calls = Goes("cohere", d)
  BY GoesIs
<1>4. d.reason = NULL => reason \in {NULL, "unknown"}
  BY <1>1, SpokenNull
<1>5. QED
  BY <1>1, <1>2, <1>3, <1>4, GivesReads

\* Wenxin's calls are added one by one.
LEMMA WenxinReads ==
  ASSUME NEW d
  PROVE  Reads("wenxin", d, Reading("wenxin", d))
<1>1. Reading("wenxin", d) = WenxinDatum(so, d)
  BY Zenon DEF Reading
<1>2. CASE ~d.choice
  BY <1>1, <1>2, BrokenReads DEF WenxinDatum
<1>3. CASE d.choice
  <2>1. PICK g, reason : g = Gives(d.text, Goes("wenxin", d), reason)
                         /\ reason = Spoken(d, WenxinReasons)
    OBVIOUS
  <2>2. WenxinDatum(so, d) = g
    BY <1>3, <2>1 DEF WenxinDatum, Goes, AtZero
  <2>3. d.reason = NULL => reason \in {NULL, "unknown"}
    BY <2>1, SpokenNull
  <2>4. Reads("wenxin", d, g)
    BY <2>1, <2>3, GivesReads
  <2>5. QED
    BY <1>1, <2>2, <2>4
<1>4. QED
  BY <1>2, <1>3

\* Gemini's text hides a call, and its second call fails.
LEMMA GeminiReads ==
  ASSUME NEW d
  PROVE  Reads("google_gemini", d, Reading("google_gemini", d))
<1>1. Reading("google_gemini", d) = GeminiDatum(so, d)
  BY Zenon DEF Reading
<1>2. CASE ~d.choice
  BY <1>1, <1>2, OverReads DEF GeminiDatum
<1>3. CASE d.choice /\ d.text = <<>> /\ d.calls # <<>> /\ so.calls.index = 0
  BY <1>1, <1>3, BrokenReads DEF GeminiDatum
<1>4. CASE d.choice /\ ~(d.text = <<>> /\ d.calls # <<>> /\ so.calls.index = 0)
  <2>1. PICK g, reason : g = Gives(d.text, Goes("google_gemini", d), reason)
                         /\ reason = Spoken(d, GeminiReasons)
    OBVIOUS
  <2>2. Goes("google_gemini", d) = IF d.text # <<>> THEN so.calls ELSE FirstAtZero(so, d)
    BY GoesIs
  <2>3. GeminiDatum(so, d) = g
    BY <1>4, <2>1, <2>2 DEF GeminiDatum
  <2>4. d.reason = NULL => reason \in {NULL, "unknown"}
    BY <2>1, SpokenNull
  <2>5. Reads("google_gemini", d, g)
    BY <1>4, <2>1, <2>4, GivesReads
  <2>6. QED
    BY <1>1, <2>3, <2>5
<1>5. QED
  BY <1>2, <1>3, <1>4

\* Tongyi's chunk is what is left of the text, but there is one even if nothing is.
LEMMA TongyiReads ==
  ASSUME NEW d
  PROVE  Reads("tongyi", d, Reading("tongyi", d))
<1>1. Reading("tongyi", d) = TongyiDatum(so, d)
  BY Zenon DEF Reading
<1>2. CASE ~d.choice
  BY <1>1, <1>2, OverReads DEF TongyiDatum
<1>3. CASE d.choice
  <2>1. PICK text, reason : /\ text = SubSeq(d.text, Len(so.text) + 1, Len(d.text))
                            /\ reason = Spoken(d, OpenaiReasons)
    OBVIOUS
  <2>2. PICK g : g = [Gives(text, FirstGathered(so, d), reason) EXCEPT !.chunk = d.text # <<>>]
    OBVIOUS
  <2>3. TongyiDatum(so, d) = g
    BY <1>3, <2>1, <2>2 DEF TongyiDatum
  <2>4. /\ ~g.over /\ (g.raised <=> reason = "raised") /\ (g.chunk <=> d.text # <<>>)
        /\ g.text = text /\ g.calls = FirstGathered(so, d) /\ g.reason = reason
    BY <2>2 DEF Gives
  <2>5. FirstGathered(so, d) = Goes("tongyi", d)
    BY DEF AtZero, Goes, FirstGathered
  <2>6. d.reason = NULL => reason \in {NULL, "unknown"}
    BY <2>1, SpokenNull
  <2>7. Taken("tongyi", d, g)
    BY <2>1, <2>4, <2>5, <2>6 DEF Taken
  <2>8. QED
    BY <1>1, <2>3, <2>4, <2>7 DEF Reads
<1>4. QED
  BY <1>2, <1>3

\* Every adapter with a stream reads data so.
LEMMA AllRead ==
  ASSUME NEW a \in Streaming, NEW d
  PROVE  Reads(a, d, Reading(a, d))
<1>1. a \in Chosen \cup {"tongyi", "custom_tools", "custom_function", "baichuan", "minimax",
                         "togetherai", "cohere", "wenxin", "google_gemini", "anthropic"}
  BY DEF Streaming, CustomHost, Chosen
<1>2. QED
  BY <1>1, ChosenRead, TongyiReads, CustomToolsReads, CustomFunctionReads, BaichuanReads,
     MinimaxReads, TogetheraiReads, CohereReads, WenxinReads, GeminiReads, AnthropicReads

-----------------------------------------------------------------------------
\* The words of a datum are those that come after the text read so far.
LEMMA TextTaken ==
  ASSUME NEW a, NEW r, NEW w, NEW d, NEW n \in Nat, NEW m \in Nat, NEW k, NEW j, NEW read,
         n <= m, m <= Len(r.text), Len(so.text) = n, so.text = Words(n),
         Says(a, r, w, d, <<n, k>>, <<m, j>>), Taken(a, d, read)
  PROVE  /\ read.text = Part(n, m)
         /\ ~read.chunk => n = m
         /\ read.reason \notin {NULL, "unknown"} => m = Len(r.text)
<1>1. CASE a # "tongyi"
  <2>1. d.text = Part(n, m) /\ read.text = d.text /\ (read.chunk <=> d.text # <<>>)
    BY <1>1 DEF Says, Taken
  <2>2. Part(n, m) = <<>> => n = m
    BY PartsAre
  <2>3. d.reason # NULL => m = Len(r.text)
    BY DEF Says
  <2>4. read.reason \notin {NULL, "unknown"} => d.reason # NULL
    BY DEF Taken
  <2>5. QED
    BY <2>1, <2>2, <2>3, <2>4
<1>2. CASE a = "tongyi"
  <2>1. read.text = SubSeq(d.text, n + 1, Len(d.text)) /\ (read.chunk <=> d.text # <<>>)
    BY <1>2 DEF Taken
  <2>2. d.text = Words(m) \/ (d.text = <<>> /\ m = n)
    BY <1>2 DEF Says
  <2>3. read.text = Part(n, m) /\ (~read.chunk => n = m)
    <3>1. CASE d.text = Words(m)
      <4>1. Words(m) \in Seq(Nat) /\ Len(Words(m)) = m /\ \A i \in 1..m : Words(m)[i] = i
        BY WordsAre
      <4>2. SubSeq(Words(m), n + 1, m) = Part(n, m)
        <5>1. PICK s \in Seq(Nat) : s = Words(m) /\ Len(s) = m /\ \A i \in 1..m : s[i] = i
          BY <4>1
        <5>2. /\ SubSeq(s, n + 1, m) \in Seq(Nat) /\ Len(SubSeq(s, n + 1, m)) = m - n
              /\ \A i \in 1..(m - n) : SubSeq(s, n + 1, m)[i] = n + i
          <6>1. n + 1 \in 1..(Len(s) + 1) /\ m \in n..Len(s)
            BY <5>1
          <6>2. SubSeq(s, n + 1, m) \in Seq(Nat) /\ Len(SubSeq(s, n + 1, m)) = m - n
            BY <5>1, <6>1
          <6>3. \A i \in 1..(m - n) : SubSeq(s, n + 1, m)[i] = s[n + i]
            BY <5>1, <6>1
          <6>4. QED
            BY <5>1, <6>2, <6>3
        <5>3. \A i \in 1..(m - n) : Part(n, m)[i] = n + i
          BY DEF Part
        <5>4. Part(n, m) \in Seq(Nat) /\ Len(Part(n, m)) = m - n
          BY PartsAre
        <5>5. PICK u, v : u = SubSeq(s, n + 1, m) /\ v = Part(n, m)
          OBVIOUS
        <5>6. u \in Seq(Nat) /\ v \in Seq(Nat) /\ Len(u) = Len(v)
              /\ \A i \in 1..Len(u) : u[i] = v[i]
          BY <5>2, <5>3, <5>4, <5>5
        <5>7. u = v
          BY <5>6, SeqEqual
        <5>8. QED
          BY <5>1, <5>5, <5>7
      <4>3. Words(m) = <<>> => m = 0
        BY <4>1
      <4>4. QED
        BY <2>1, <3>1, <4>1, <4>2, <4>3
    <3>2. CASE d.text = <<>> /\ m = n
      <4>1. SubSeq(<<>>, n + 1, 0) = <<>>
        BY SubSeqEmpty
      <4>2. Part(n, n) = <<>>
        BY PartsAre
      <4>3. QED
        BY <2>1, <3>2, <4>1, <4>2
    <3>3. QED
      BY <2>2, <3>1, <3>2
  <2>4. d.reason # NULL => m = Len(r.text)
    BY DEF Says
  <2>5. read.reason \notin {NULL, "unknown"} => d.reason # NULL
    BY DEF Taken
  <2>6. QED
    BY <2>3, <2>4, <2>5
<1>3. QED
  BY <1>1, <1>2

\* A call goes on: its first piece stays where it is.
LEMMA FirstStays ==
  ASSUME NEW S, NEW s \in Seq(S), NEW t \in Seq(S), s # <<>>
  PROVE  s \o t \in Seq(S) /\ s \o t # <<>> /\ (s \o t)[1] = s[1]
  OBVIOUS

\* A sequence with one element replaced.
LEMMA OneReplaced ==
  ASSUME NEW S, NEW s \in Seq(S), NEW i \in 1..Len(s), NEW e \in S,
         NEW t, t = [s EXCEPT ![i] = e]
  PROVE  t \in Seq(S) /\ Len(t) = Len(s) /\ t[i] = e /\ \A j \in 1..Len(s) : j # i => t[j] = s[j]
  OBVIOUS

\* A call that goes on is the same call.
LEMMA GoesOn ==
  ASSUME NEW a, NEW r, NEW c, NEW call \in CallData, CallsOwn(a, r, c),
         NEW i \in 1..Len(c.numbers), c.index = i - 1, a # "google_gemini",
         NEW new, new = Gathered(c, call, i - 1)
  PROVE  CallsOwn(a, r, new) /\ new.index = c.index /\ Len(new.numbers) = Len(c.numbers)
<1>1. PICK m \in Nat : m = Len(c.numbers) /\ m = Len(c.pieces) /\ i \in 1..m /\ i \in Nat
  BY DEF CallsOwn, Gathering
<1>2. new = [c EXCEPT !.pieces[(i - 1) + 1] = @ \o call.pieces]
  BY DEF Gathered
<1>3. c \in Gathering /\ c.pieces \in Seq(Arguments) /\ call.pieces \in Arguments
  BY DEF CallsOwn, Gathering, CallData
<1>4. PICK s : s = c.pieces[i] \o call.pieces
  OBVIOUS
<1>5. c.pieces[i] \in Arguments /\ c.pieces[i] # <<>> /\ c.pieces[i][1][1] = i
  BY <1>1, <1>3 DEF CallsOwn
<1>6. s \in Arguments /\ s # <<>> /\ s[1] = c.pieces[i][1]
  BY <1>3, <1>4, <1>5, FirstStays DEF Arguments
<1>7. new.index = c.index /\ new.numbers = c.numbers /\ new.pieces = [c.pieces EXCEPT ![i] = s]
  <2>1. (i - 1) + 1 = i
    OBVIOUS
  <2>2. QED
    BY <1>2, <1>3, <1>4, <2>1 DEF Gathering
<1>8. new \in Gathering
  <2>1. [c.pieces EXCEPT ![i] = s] \in Seq(Arguments)
    <3>1. PICK p, t : p = c.pieces /\ t = [p EXCEPT ![i] = s]
      OBVIOUS
    <3>2. p \in Seq(Arguments) /\ i \in 1..Len(p) /\ s \in Arguments
      BY <1>1, <1>3, <1>6, <3>1
    <3>3. t \in Seq(Arguments)
      BY <3>1, <3>2, OneReplaced
    <3>4. QED
      BY <3>1, <3>3
  <2>2. new = [c EXCEPT !.pieces = [c.pieces EXCEPT ![i] = s]]
    <3>1. (i - 1) + 1 = i
      OBVIOUS
    <3>2. new = [c EXCEPT !.pieces[i] = @ \o call.pieces]
      BY <1>2, <3>1
    <3>3. QED
      BY <1>4, <3>2
  <2>3. QED
    BY <1>3, <2>1, <2>2 DEF Gathering
<1>9. Len(new.pieces) = m
  BY <1>1, <1>3, <1>6, <1>7, OneReplaced
<1>10. \A x \in 1..m : new.pieces[x] # <<>> /\ new.pieces[x][1][1] = x
  <2> SUFFICES ASSUME NEW x \in 1..m
               PROVE  new.pieces[x] # <<>> /\ new.pieces[x][1][1] = x
    OBVIOUS
  <2>1. CASE x = i
    <3>1. new.pieces[x] = s
      BY <1>1, <1>3, <1>6, <1>7, <2>1, OneReplaced
    <3>2. QED
      BY <1>5, <1>6, <2>1, <3>1
  <2>2. CASE x # i
    <3>1. new.pieces[x] = c.pieces[x]
      <4>1. x \in 1..Len(c.pieces) /\ i \in 1..Len(c.pieces)
        BY <1>1
      <4>2. QED
        BY <1>3, <1>6, <1>7, <2>2, <4>1, OneReplaced
    <3>2. c.pieces[x] # <<>> /\ c.pieces[x][1][1] = x
      BY <1>1 DEF CallsOwn
    <3>3. QED
      BY <3>1, <3>2
  <2>3. QED
    BY <2>1, <2>2
<1>11. m <= Len(r.calls) /\ c.numbers = Words(m)
  BY <1>1 DEF CallsOwn
<1>12. QED
  BY <1>1, <1>7, <1>8, <1>9, <1>10, <1>11 DEF CallsOwn

\* The calls gathered, as a record.
LEMMA RecordGathers ==
  ASSUME NEW x \in Int, NEW s \in Seq(Nat), NEW t \in Seq(Arguments)
  PROVE  [index |-> x, numbers |-> s, pieces |-> t] \in Gathering
  BY DEF Gathering

\* The next call begins.
Begun(c, call, x) ==
  [index |-> x, numbers |-> Append(c.numbers, call.number),
   pieces |-> Append(c.pieces, call.pieces)]
OwnCall(a, r, call, n) ==
  /\ call.number = n /\ n \in DOMAIN r.calls
  /\ call.pieces # <<>> /\ call.pieces[1][1] = n
  /\ a = "google_gemini" => call.pieces = Pieces(r, n)

\* The call that begins is the next of the reply.
LEMMA Begins ==
  ASSUME NEW a, NEW r, NEW c, NEW call \in CallData, CallsOwn(a, r, c), NEW x \in Int,
         r.calls \in Seq({"args", "noargs"}), NEW n, n = Len(c.numbers) + 1,
         OwnCall(a, r, call, n), NEW new, new = Begun(c, call, x)
  PROVE  CallsOwn(a, r, new) /\ new.index = x /\ Len(new.numbers) = n
<1>1. PICK m \in Nat : m = Len(c.numbers) /\ m = Len(c.pieces)
  BY DEF CallsOwn, Gathering
<1>2. /\ c.numbers \in Seq(Nat) /\ c.pieces \in Seq(Arguments)
      /\ call.pieces \in Arguments /\ call.number = m + 1 /\ m + 1 <= Len(r.calls)
      /\ call.pieces # <<>> /\ call.pieces[1][1] = m + 1
      /\ a = "google_gemini" => call.pieces = Pieces(r, m + 1)
  BY <1>1 DEF CallsOwn, Gathering, CallData, OwnCall
<1>3. /\ new.index = x /\ new.numbers = Append(c.numbers, m + 1)
      /\ new.pieces = Append(c.pieces, call.pieces)
  BY <1>2 DEF Begun
<1>4. new \in Gathering
  <2>1. Append(c.numbers, call.number) \in Seq(Nat)
    BY <1>2
  <2>2. Append(c.pieces, call.pieces) \in Seq(Arguments)
    BY <1>2
  <2>3. QED
    BY <2>1, <2>2, RecordGathers, Zenon DEF Begun
<1>5. Len(new.numbers) = m + 1 /\ Len(new.pieces) = m + 1
  <2>1. Len(new.numbers) = m + 1
    <3>1. c.numbers \in Seq(Nat) /\ Len(c.numbers) = m /\ m + 1 \in Nat
      BY <1>1, <1>2
    <3>2. Len(Append(c.numbers, m + 1)) = m + 1
      BY <3>1, AppendProperties
    <3>3. QED
      BY <1>3, <3>2
  <2>2. Len(new.pieces) = m + 1
    BY <1>1, <1>2, <1>3, AppendProperties
  <2>3. QED
    BY <2>1, <2>2
<1>6. new.numbers = Words(m + 1)
  <2>1. c.numbers = Words(m)
    BY <1>1 DEF CallsOwn
  <2>2. Append(Words(m), m + 1) = Words(m + 1)
    BY DEF Words
  <2>3. QED
    BY <1>3, <2>1, <2>2
<1>7. ASSUME NEW i \in 1..(m + 1)
      PROVE  /\ new.pieces[i] # <<>> /\ new.pieces[i][1][1] = i
             /\ a = "google_gemini" => new.pieces[i] = Pieces(r, i)
  <2>1. CASE i = m + 1
    <3>1. new.pieces[i] = call.pieces
      BY <1>1, <1>2, <1>3, <2>1
    <3>2. QED
      BY <1>2, <2>1, <3>1
  <2>2. CASE i \in 1..m
    <3>1. new.pieces[i] = c.pieces[i]
      BY <1>1, <1>2, <1>3, <2>2
    <3>2. QED
      BY <1>1, <2>2, <3>1 DEF CallsOwn
  <2>3. i = m + 1 \/ i \in 1..m
    OBVIOUS
  <2>4. QED
    BY <2>1, <2>2, <2>3
<1>8. QED
  BY <1>1, <1>2, <1>3, <1>4, <1>5, <1>6, <1>7 DEF CallsOwn

\* A greater index begins a call.
LEMMA GatheredNext ==
  ASSUME NEW c, NEW call, NEW x \in Int, c.index \in Int, x > c.index
  PROVE  Gathered(c, call, x) = Begun(c, call, x)
<1>1. x # c.index
  OBVIOUS
<1>2. QED
  BY <1>1 DEF Gathered, Begun

\* After a datum the calls gathered are still the reply's first ones.
LEMMA CallsTaken ==
  ASSUME NEW a \in Streaming, NEW r, NEW w, NEW d \in Data, NEW new,
         NEW n \in Nat, NEW k \in Nat, NEW m \in Nat, NEW j \in Nat, k <= j, j <= k + 1,
         WellSaid(r), CallsOwn(a, r, so.calls), CallsAt(a, w, so.calls, k),
         Says(a, r, w, d, <<n, k>>, <<m, j>>), new = Goes(a, d),
         a = "google_gemini" /\ d.calls # <<>> /\ d.text = <<>> => so.calls.index # 0,
         a \in Untooled \cup {"anthropic"} => r.calls = <<>>
  PROVE  CallsOwn(a, r, new) /\ CallsAt(a, w, new, j)
<1>1. PICK c : c = so.calls
  OBVIOUS
<1>2. PICK x \in Nat : x = Len(c.numbers)
  BY <1>1 DEF CallsOwn, Gathering
<1>3. /\ CallsOwn(a, r, c) /\ CallsAt(a, w, c, k)
      /\ c.index \in Int
      /\ DOMAIN r.calls = 1..Len(r.calls) /\ Len(r.calls) \in Nat
      /\ r.calls \in Seq({"args", "noargs"})
  BY <1>1 DEF CallsOwn, Gathering, WellSaid
<1>4. CASE d.calls = <<>>
  <2>1. new = c
    BY <1>1, <1>4 DEF Goes
  <2>2. j = k
    BY <1>4 DEF Says
  <2>3. QED
    BY <1>3, <2>1, <2>2
<1>5. CASE d.calls # <<>>
  <2>1. PICK call \in CallData : call = d.calls[1]
    BY <1>5 DEF Data
  <2>2. CallSaid(a, r, w, call, k, j) /\ (~w.packed => d.text = <<>>)
    BY <1>5, <2>1 DEF Says
  <2>3. /\ j \in 1..Len(r.calls) /\ call.number = j /\ call.index = j - 1
        /\ call.pieces # <<>> /\ call.pieces[1][1] = j
        /\ InOne(a) => call.pieces = Pieces(r, j)
        /\ w.packed \/ InOne(a) => j = k + 1
        /\ w.packed => k = 0
    BY <1>3, <2>2 DEF CallSaid
  <2>4. OwnCall(a, r, call, j)
    BY <1>3, <2>3 DEF OwnCall, InOne
  <2>5. a \notin {"baichuan", "cohere", "anthropic"}
    <3>1. a \in {"baichuan", "cohere", "anthropic"} => r.calls = <<>>
      BY DEF Untooled
    <3>2. r.calls = <<>> => Len(r.calls) = 0
      OBVIOUS
    <3>3. Len(r.calls) # 0
      BY <1>3, <2>3
    <3>4. QED
      BY <3>1, <3>2, <3>3
  <2>6. CASE a = "google_gemini" /\ d.text # <<>>
    <3>1. new = c
      BY <1>1, <2>6 DEF Goes
    <3>2. w.packed
      BY <2>2, <2>6
    <3>3. CallsAt(a, w, c, j)
      BY <1>3, <2>6, <3>2 DEF CallsAt, AtZero
    <3>4. QED
      BY <1>3, <3>1, <3>3
  <2>7. CASE a \in AtZero /\ ~(a = "google_gemini" /\ d.text # <<>>)
    <3>1. new = Gathered(c, call, 0)
      BY <1>1, <1>5, <2>1, <2>7 DEF Goes, AtZero
    <3>2. x <= 1 /\ c.index = x - 1 /\ (x = 0 => k = 0 \/ w.packed)
      BY <1>2, <1>3, <2>7 DEF CallsAt
    <3>3. CASE x = 0
      <4>1. j = 1
        BY <2>3, <3>2, <3>3
      <4>2. new = Begun(c, call, 0)
        BY <1>3, <3>1, <3>2, <3>3, GatheredNext
      <4>3. j = Len(c.numbers) + 1
        BY <1>2, <3>3, <4>1
      <4>4. CallsOwn(a, r, new) /\ new.index = 0 /\ Len(new.numbers) = x + 1
        <5>1. 0 \in Int
          OBVIOUS
        <5>2. CallsOwn(a, r, new) /\ new.index = 0 /\ Len(new.numbers) = j
          BY <1>3, <2>4, <4>2, <4>3, <5>1, Begins
        <5>3. QED
          BY <1>2, <4>3, <5>2
      <4>5. CallsAt(a, w, new, j)
        BY <2>7, <3>3, <4>4 DEF CallsAt, AtZero
      <4>6. QED
        BY <4>4, <4>5
    <3>4. CASE x = 1
      <4>1. a # "google_gemini"
        BY <1>1, <1>5, <2>7, <3>2, <3>4
      <4>2. PICK i \in 1..Len(c.numbers) : i = 1
        BY <1>2, <3>4
      <4>3. CallsOwn(a, r, new) /\ new.index = c.index /\ Len(new.numbers) = Len(c.numbers)
        <5>1. c.index = i - 1 /\ 0 = i - 1
          BY <3>2, <3>4, <4>2
        <5>2. new = Gathered(c, call, i - 1)
          BY <3>1, <5>1
        <5>3. QED
          BY <1>3, <4>1, <5>1, <5>2, GoesOn
      <4>4. CallsAt(a, w, new, j)
        <5>1. Len(new.numbers) = 1 /\ new.index = 0
          <6>1. c.index = 0
            BY <3>2, <3>4
          <6>2. Len(c.numbers) = 1
            BY <1>2, <3>4
          <6>3. QED
            BY <4>3, <6>1, <6>2, Zenon
        <5>2. QED
          BY <2>7, <5>1 DEF CallsAt, AtZero
      <4>5. QED
        BY <4>3, <4>4
    <3>5. QED
      BY <3>2, <3>3, <3>4
  <2>8. CASE a = "wenxin"
    <3>1. new = [c EXCEPT !.numbers = Append(@, call.number), !.pieces = Append(@, call.pieces)]
      BY <1>1, <1>5, <2>1, <2>8 DEF Goes, AtZero
    <3>2. new = Begun(c, call, c.index)
      BY <1>3, <3>1 DEF CallsOwn, Gathering, Begun
    <3>3. c.index = -1 /\ x = k /\ j = k + 1
      BY <1>2, <1>3, <2>3, <2>8 DEF CallsAt, InOne
    <3>4. j = Len(c.numbers) + 1
      BY <1>2, <3>3
    <3>5. CallsOwn(a, r, new) /\ new.index = c.index /\ Len(new.numbers) = j
      BY <1>3, <2>4, <3>2, <3>4, Begins
    <3>6. CallsAt(a, w, new, j)
      BY <2>8, <3>3, <3>5 DEF CallsAt, AtZero
    <3>7. QED
      BY <3>5, <3>6
  <2>9. CASE a \notin AtZero \cup {"wenxin"}
    <3>1. new = Gathered(c, call, j - 1)
      BY <1>1, <1>5, <2>1, <2>3, <2>5, <2>9 DEF Goes, AtZero
    <3>2. c.index = x - 1 /\ x = k
      BY <1>2, <1>3, <2>9 DEF CallsAt
    <3>3. a # "google_gemini"
      BY <2>9 DEF AtZero
    <3>4. CASE j = k
      <4>1. j \in 1..Len(c.numbers) /\ c.index = j - 1
        BY <1>2, <2>3, <3>2, <3>4
      <4>2. CallsOwn(a, r, new) /\ new.index = c.index /\ Len(new.numbers) = Len(c.numbers)
        BY <1>3, <3>1, <3>3, <4>1, GoesOn
      <4>3. CallsAt(a, w, new, j)
        BY <1>2, <2>9, <3>2, <3>4, <4>2 DEF CallsAt
      <4>4. QED
        BY <4>2, <4>3
    <3>5. CASE j = k + 1
      <4>1. new = Begun(c, call, j - 1)
        BY <1>3, <3>1, <3>2, <3>5, GatheredNext
      <4>2. j = Len(c.numbers) + 1
        BY <1>2, <3>2, <3>5
      <4>3. CallsOwn(a, r, new) /\ new.index = j - 1 /\ Len(new.numbers) = x + 1
        <5>1. j - 1 \in Int
          OBVIOUS
        <5>2. CallsOwn(a, r, new) /\ new.index = j - 1 /\ Len(new.numbers) = j
          BY <1>3, <2>4, <4>1, <4>2, <5>1, Begins
        <5>3. QED
          BY <1>2, <4>2, <5>2
      <4>4. CallsAt(a, w, new, j)
        BY <2>9, <3>2, <3>5, <4>3 DEF CallsAt
      <4>5. QED
        BY <4>3, <4>4
    <3>6. QED
      BY <3>4, <3>5
  <2>10. QED
    BY <2>6, <2>7, <2>8, <2>9 DEF AtZero
<1>6. QED
  BY <1>4, <1>5

\* The deltas of the chunks.
LEMMA DeltasAre ==
  ASSUME NEW cs \in Seq(Chunks)
  PROVE  /\ Deltas(cs) \in Seq(Seq(Nat)) /\ Len(Deltas(cs)) = Len(cs)
         /\ \A i \in 1..Len(cs) : Deltas(cs)[i] = cs[i].delta
<1>1. PICK n \in Nat : n = Len(cs) /\ DOMAIN cs = 1..n
  OBVIOUS
<1>2. Deltas(cs) = [i \in 1..n |-> cs[i].delta]
  BY <1>1 DEF Deltas
<1>3. ASSUME NEW i \in 1..n PROVE cs[i].delta \in Seq(Nat)
  <2>1. cs[i] \in Chunks
    BY <1>1
  <2>2. QED
    BY <2>1 DEF Chunks
<1>4. PICK f \in [1..n -> Seq(Nat)] : f = Deltas(cs) /\ \A i \in 1..n : f[i] = cs[i].delta
  BY <1>2, <1>3
<1>5. f \in Seq(Seq(Nat)) /\ Len(f) = n
  OBVIOUS
<1>6. QED
  BY <1>1, <1>4, <1>5

\* A chunk adds its words to those of the chunks before it.
LEMMA ChunkAdded ==
  ASSUME NEW cs \in Seq(Chunks), NEW t \in Seq(Nat), NEW new,
         new = Append(cs, [index |-> Len(cs), delta |-> t]),
         \A i \in DOMAIN cs : cs[i].index = i - 1
  PROVE  /\ new \in Seq(Chunks)
         /\ \A i \in DOMAIN new : new[i].index = i - 1
         /\ FlattenSeq(Deltas(new)) = FlattenSeq(Deltas(cs)) \o t
<1>1. PICK c \in Chunks : c = [index |-> Len(cs), delta |-> t]
  BY DEF Chunks
<1>2. c.index = Len(cs) /\ c.delta = t
  BY <1>1
<1>3. PICK n \in Nat : n = Len(cs) /\ DOMAIN cs = 1..n
  OBVIOUS
<1>4. /\ new \in Seq(Chunks) /\ Len(new) = n + 1 /\ DOMAIN new = 1..(n + 1)
      /\ new[n + 1] = c /\ \A i \in 1..n : new[i] = cs[i]
  BY <1>1, <1>3, AppendProperties
<1>5. \A i \in DOMAIN new : new[i].index = i - 1
  BY <1>2, <1>3, <1>4
<1>6. PICK u, v : u = Deltas(cs) /\ v = Deltas(new)
  OBVIOUS
<1>7. u \in Seq(Seq(Nat)) /\ Len(u) = n /\ \A i \in 1..n : u[i] = cs[i].delta
  BY <1>3, <1>6, DeltasAre
<1>8. v \in Seq(Seq(Nat)) /\ Len(v) = n + 1 /\ \A i \in 1..(n + 1) : v[i] = new[i].delta
  BY <1>4, <1>6, DeltasAre
<1>9. Append(u, t) \in Seq(Seq(Nat)) /\ Len(Append(u, t)) = n + 1
      /\ Append(u, t)[n + 1] = t /\ \A i \in 1..n : Append(u, t)[i] = u[i]
  BY <1>7, AppendProperties
<1>10. PICK x : x = Append(u, t)
  OBVIOUS
<1>11. ASSUME NEW i \in 1..(n + 1) PROVE v[i] = x[i]
  <2>1. CASE i = n + 1
    <3>1. v[i] = t
      BY <1>2, <1>4, <1>8, <2>1
    <3>2. x[i] = t
      BY <1>9, <1>10, <2>1
    <3>3. QED
      BY <3>1, <3>2
  <2>2. CASE i \in 1..n
    <3>1. v[i] = cs[i].delta
      BY <1>4, <1>8, <2>2
    <3>2. x[i] = cs[i].delta
      BY <1>7, <1>9, <1>10, <2>2
    <3>3. QED
      BY <3>1, <3>2
  <2>3. i = n + 1 \/ i \in 1..n
    OBVIOUS
  <2>4. QED
    BY <2>1, <2>2, <2>3
<1>12. x \in Seq(Seq(Nat)) /\ Len(x) = Len(v) /\ \A i \in 1..Len(v) : v[i] = x[i]
  BY <1>8, <1>9, <1>10, <1>11
<1>13. v = x
  BY <1>8, <1>12, SeqEqual
<1>14. FlattenSeq(x) = FlattenSeq(u) \o t
  BY <1>7, <1>10, Flattens
<1>15. QED
  BY <1>4, <1>5, <1>6, <1>13, <1>14

-----------------------------------------------------------------------------
\* What a provider may reply is well said.
LEMMA ReplyWellSaid ==
  ASSUME NEW a \in Streaming \cup PlainOnly, NEW s, NEW r \in RepliesOf(a, s)
  PROVE  /\ WellSaid(r)
         /\ a \in Untooled \/ (a = "anthropic" /\ s) => r.calls = <<>>
<1>1. /\ r.text \in {Words(n) : n \in 0..MaxWords}
      /\ r.calls \in BoundedSeq({"args", "noargs"}, CallsOf(a, s))
      /\ r.reason \in ReasonsOf(a)
  BY DEF RepliesOf
<1>2. Len(r.text) \in Nat /\ r.text = Words(Len(r.text))
  <2>1. PICK n \in 0..MaxWords : r.text = Words(n)
    BY <1>1
  <2>2. n \in Nat
    BY StreamAssumption
  <2>3. QED
    BY <2>1, <2>2, WordsAre
<1>3. PICK n : n = CallsOf(a, s)
  OBVIOUS
<1>4. n \in Nat /\ (a \in Untooled \/ (a = "anthropic" /\ s) => n = 0)
  <2>1. CASE a \in Untooled \/ (a = "anthropic" /\ s)
    <3>1. n = 0
      <4>1. a \notin OneCall
        BY <2>1 DEF Untooled, OneCall, PlainOnly, Bedrock
      <4>2. QED
        BY <1>3, <2>1, <4>1 DEF CallsOf
    <3>2. QED
      BY <3>1
  <2>2. CASE ~(a \in Untooled \/ (a = "anthropic" /\ s)) /\ a \in OneCall
    <3>1. n = 1
      BY <1>3, <2>2 DEF CallsOf
    <3>2. QED
      BY <2>2, <3>1
  <2>3. CASE ~(a \in Untooled \/ (a = "anthropic" /\ s)) /\ a \notin OneCall
    <3>1. n = MaxCalls
      BY <1>3, <2>3 DEF CallsOf
    <3>2. QED
      BY <2>3, <3>1, StreamAssumption
  <2>4. QED
    BY <2>1, <2>2, <2>3
<1>5. PICK m \in 0..n : r.calls \in [1..m -> {"args", "noargs"}]
  BY <1>1, <1>3 DEF BoundedSeq, SeqOf
<1>6. r.calls \in Seq({"args", "noargs"}) /\ (n = 0 => r.calls = <<>>)
  BY <1>4, <1>5
<1>7. r.reason \in AllReasons \cup {NULL}
  BY <1>1 DEF ReasonsOf, AllReasons, FinishReasons
<1>8. r \in Said
  <2>1. r \in [text : {Words(i) : i \in 0..MaxWords}, marked : 0..MaxWords,
               calls : BoundedSeq({"args", "noargs"}, CallsOf(a, s)), reason : ReasonsOf(a)]
    BY DEF RepliesOf
  <2>2. r.text \in Seq(Nat)
    BY <1>2, WordsAre
  <2>3. 0..MaxWords \subseteq Nat
    BY StreamAssumption
  <2>4. QED
    BY <1>6, <1>7, <2>1, <2>2, <2>3 DEF Said
<1>9. QED
  BY <1>2, <1>4, <1>6, <1>7, <1>8 DEF WellSaid

\* When nothing has come yet, all the lines are on the way.
LEMMA StreamInitially == StreamInit => AdapterInv
<1> SUFFICES ASSUME StreamInit PROVE AdapterInv
  OBVIOUS
<1>1. adapter \in Streaming \cup PlainOnly /\ (streamed => adapter \in Streaming)
  <2>1. adapter \in PlainOnly => streamed \in {FALSE}
    BY DEF StreamInit
  <2>2. adapter \in Streaming \cup PlainOnly
    BY DEF StreamInit
  <2>3. QED
    BY <2>1, <2>2, Zenon
<1>2. reply \in RepliesOf(adapter, streamed)
  BY DEF StreamInit
<1>3. /\ WellSaid(reply)
      /\ adapter \in Untooled \/ (adapter = "anthropic" /\ streamed) => reply.calls = <<>>
  BY <1>1, <1>2, ReplyWellSaid
<1>4. so.text = <<>> /\ so.reason = "unknown" /\ so.calls = NoCalls
  BY DEF StreamInit
<1>5. Words(0) = <<>> /\ Len(<<>>) = 0 /\ 0 \in Nat
  BY DEF Words
<1>6. Len(reply.text) \in Nat /\ Len(reply.calls) \in Nat
  BY <1>3 DEF WellSaid
<1>7. TextOwn(so, reply)
  BY <1>4, <1>5, <1>6 DEF TextOwn
<1>8. ChunksOwn(chunks, so)
  <2>1. chunks = <<>> /\ <<>> \in Seq(Chunks) /\ DOMAIN <<>> = {}
    BY DEF StreamInit
  <2>2. Deltas(<<>>) = <<>>
    BY DEF Deltas
  <2>3. QED
    BY <1>4, <2>1, <2>2, FlattensNone DEF ChunksOwn
<1>9. so.calls \in Gathering /\ Len(so.calls.numbers) = 0 /\ so.calls.numbers = <<>>
      /\ so.calls.pieces = <<>> /\ so.calls.index = -1
  BY <1>4 DEF NoCalls, Gathering
<1>10. CallsOwn(adapter, reply, so.calls)
  BY <1>5, <1>6, <1>9 DEF CallsOwn
<1>11. Ended
  BY DEF StreamInit, Ended
<1>12. ASSUME streamed PROVE OnTheWay(adapter, reply, way, so, lines)
  <2>1. lines = LinesOf(adapter, reply, way)
    BY <1>12 DEF StreamInit
  <2>2. /\ LinesOf(adapter, reply, way) \in Seq(Lines)
        /\ \E z : Leads(adapter, reply, way, LinesOf(adapter, reply, way), <<0, 0>>, z)
    BY <1>3, LinesLead
  <2>3. CallsAt(adapter, way, so.calls, 0)
    BY <1>9 DEF CallsAt, AtZero
  <2>4. Len(so.text) = 0
    BY <1>4
  <2>5. QED
    BY <1>5, <2>1, <2>2, <2>3, <2>4 DEF OnTheWay
<1>13. QED
  BY <1>1, <1>3, <1>7, <1>8, <1>10, <1>11, <1>12 DEF AdapterInv

\* Nothing of a stream is read by a step that only ends the request.
LEMMA EndsOnly ==
  ASSUME AdapterInv, \/ final' = Plain(adapter, reply) /\ ~streamed
                     \/ final' = Refusal
                     \/ final' \in {Failed, AtEnd} /\ streamed,
         UNCHANGED <<adapter, streamed, reply, way, so, chunks>>,
         lines' = lines
  PROVE  AdapterInv'
  BY DEF AdapterInv, Ended, AtEnd

\* Once nothing is left to come, there is nothing to say about it.
LEMMA NothingLeft ==
  ASSUME NEW a, NEW r, NEW w, NEW s, NEW ls, OnTheWay(a, r, w, s, ls), Len(s.text) \in Nat
  PROVE  OnTheWay(a, r, w, s, <<>>)
<1>1. PICK k \in Nat : CallsAt(a, w, s.calls, k)
  BY DEF OnTheWay
<1>2. <<Len(s.text), k>> \in Nat \X Nat
  OBVIOUS
<1>3. Leads(a, r, w, <<>>, <<Len(s.text), k>>, <<Len(s.text), k>>)
  BY <1>2, LeadsNone
<1>4. <<>> \in Seq(Lines)
  OBVIOUS
<1>5. QED
  BY <1>1, <1>3, <1>4 DEF OnTheWay

\* The next line, the place it leads to, and the lines after it.
LEMMA NextLine ==
  ASSUME NEW a, NEW r, NEW w, NEW s, NEW ls, OnTheWay(a, r, w, s, ls), ls # <<>>
  PROVE  /\ Head(ls).datum \in Data \cup {NULL}
         /\ Tail(ls) \in Seq(Lines)
         /\ \E k \in Nat, m \in Nat, j \in Nat :
              /\ CallsAt(a, w, s.calls, k)
              /\ Adds(a, r, w, Head(ls).datum, <<Len(s.text), k>>, <<m, j>>)
              /\ \E z : Leads(a, r, w, Tail(ls), <<m, j>>, z)
<1>1. ls \in Seq(Lines)
  BY DEF OnTheWay
<1>2. Head(ls) \in Lines /\ Tail(ls) \in Seq(Lines)
  BY <1>1
<1>3. PICK k \in Nat : /\ CallsAt(a, w, s.calls, k)
                       /\ \E z : Leads(a, r, w, ls, <<Len(s.text), k>>, z)
  BY DEF OnTheWay
<1>4. PICK z : Leads(a, r, w, ls, <<Len(s.text), k>>, z)
  BY <1>3
<1>5. PICK p : p = <<Len(s.text), k>>
  OBVIOUS
<1>6. PICK q \in Nat \X Nat : Adds(a, r, w, Head(ls).datum, p, q) /\ Leads(a, r, w, Tail(ls), q, z)
  BY <1>1, <1>5, <1>4, LeadsTail
<1>7. PICK m \in Nat, j \in Nat : q = <<m, j>>
  OBVIOUS
<1>8. QED
  BY <1>2, <1>3, <1>5, <1>6, <1>7 DEF Lines

\* A line that is no JSON says nothing.
LEMMA SkipKeeps == AdapterInv /\ Skip => AdapterInv'
<1> SUFFICES ASSUME AdapterInv, Skip PROVE AdapterInv'
  OBVIOUS
<1>1. streamed /\ lines # <<>> /\ final = NULL /\ Head(lines).datum = NULL /\ lines' = Tail(lines)
      /\ UNCHANGED <<adapter, streamed, reply, way, so, chunks, final>>
  BY DEF Skip, Streams
<1>2. OnTheWay(adapter, reply, way, so, lines)
  BY <1>1 DEF AdapterInv
<1>3. PICK k \in Nat, m \in Nat, j \in Nat :
         /\ CallsAt(adapter, way, so.calls, k)
         /\ Adds(adapter, reply, way, Head(lines).datum, <<Len(so.text), k>>, <<m, j>>)
         /\ \E z : Leads(adapter, reply, way, Tail(lines), <<m, j>>, z)
  BY <1>1, <1>2, NextLine
<1>4. <<m, j>> = <<Len(so.text), k>>
  BY <1>1, <1>3 DEF Adds
<1>5. Tail(lines) \in Seq(Lines)
  BY <1>1, <1>2, NextLine
<1>6. OnTheWay(adapter, reply, way, so, Tail(lines))
  BY <1>3, <1>4, <1>5 DEF OnTheWay
<1>7. QED
  BY <1>1, <1>6 DEF AdapterInv, Ended

\* A datum that is read adds what it says, one that is passed over nothing.
LEMMA TakeKeeps == AdapterInv /\ Take => AdapterInv'
<1> SUFFICES ASSUME AdapterInv, Take PROVE AdapterInv'
  OBVIOUS
<1>1. PICK d, read : d = Head(lines).datum /\ read = Reading(adapter, d)
  OBVIOUS
<1>2. /\ streamed /\ lines # <<>> /\ final = NULL /\ d # NULL
      /\ UNCHANGED <<adapter, streamed, reply, way>>
      /\ lines' = IF read.raised THEN <<>> ELSE Tail(lines)
  BY <1>1 DEF Take, Streams
<1>3. read.over \/ read.raised =>
        /\ final' = IF read.raised THEN Failed ELSE NULL
        /\ UNCHANGED <<so, chunks>>
  BY <1>1 DEF Take
<1>4. ~(read.over \/ read.raised) =>
        /\ so' = [text |-> so.text \o read.text, calls |-> read.calls, empty |-> FALSE,
                  reason |-> IF read.reason = NULL /\ adapter \notin CustomHost
                             THEN so.reason ELSE read.reason]
        /\ chunks' = IF read.chunk
                     THEN Append(chunks, [index |-> Len(chunks), delta |-> read.text])
                     ELSE chunks
        /\ UNCHANGED final
  BY <1>1 DEF Take
<1>5. /\ WellSaid(reply) /\ adapter \in Streaming
      /\ (adapter \in Untooled \cup {"anthropic"} => reply.calls = <<>>)
      /\ TextOwn(so, reply) /\ ChunksOwn(chunks, so) /\ CallsOwn(adapter, reply, so.calls)
      /\ OnTheWay(adapter, reply, way, so, lines)
  BY <1>2 DEF AdapterInv
<1>6. PICK n \in Nat, t \in Nat : n = Len(so.text) /\ t = Len(reply.text)
  BY <1>5 DEF TextOwn, WellSaid
<1>7. so.text = Words(n) /\ reply.text = Words(t)
  BY <1>5, <1>6 DEF TextOwn, WellSaid
<1>8. PICK k \in Nat, m \in Nat, j \in Nat :
         /\ CallsAt(adapter, way, so.calls, k)
         /\ Adds(adapter, reply, way, d, <<n, k>>, <<m, j>>)
         /\ \E z : Leads(adapter, reply, way, Tail(lines), <<m, j>>, z)
  BY <1>1, <1>2, <1>5, <1>6, NextLine
<1>9. Tail(lines) \in Seq(Lines)
  BY <1>2, <1>5, NextLine
<1>10. /\ n <= m /\ m <= t /\ k <= j /\ j <= k + 1
       /\ d \in Data /\ Says(adapter, reply, way, d, <<n, k>>, <<m, j>>)
  BY <1>2, <1>6, <1>8 DEF Adds
<1>11. Reads(adapter, d, read)
  BY <1>1, <1>5, AllRead
<1>12. CASE read.raised
  <2>1. lines' = <<>> /\ final' = Failed /\ UNCHANGED <<so, chunks>>
    BY <1>2, <1>3, <1>12
  <2>2. OnTheWay(adapter, reply, way, so, <<>>)
    BY <1>5, <1>6, NothingLeft
  <2>3. QED
    BY <1>2, <2>1, <2>2 DEF AdapterInv, Ended
<1>13. CASE read.over /\ ~read.raised
  <2>1. lines' = Tail(lines) /\ final' = NULL /\ UNCHANGED <<so, chunks>>
    BY <1>2, <1>3, <1>13
  <2>2. ~d.choice
    BY <1>11, <1>13 DEF Reads
  <2>3. m = n /\ j = k
    BY <1>10, <2>2 DEF Says
  <2>4. OnTheWay(adapter, reply, way, so, Tail(lines))
    BY <1>6, <1>8, <1>9, <2>3 DEF OnTheWay
  <2>5. QED
    BY <1>2, <2>1, <2>4 DEF AdapterInv, Ended
<1>14. CASE ~read.over /\ ~read.raised
  <2>1. Taken(adapter, d, read)
    BY <1>11, <1>14 DEF Reads
  <2>2. lines' = Tail(lines) /\ final' = final
    BY <1>2, <1>4, <1>14
  <2>3. /\ read.text = Part(n, m)
        /\ ~read.chunk => n = m
        /\ read.reason \notin {NULL, "unknown"} => m = t
    <3>1. /\ n <= m /\ m <= Len(reply.text) /\ Len(so.text) = n /\ so.text = Words(n)
          /\ Says(adapter, reply, way, d, <<n, k>>, <<m, j>>)
      BY <1>6, <1>7, <1>10
    <3>2. /\ read.text = Part(n, m)
          /\ ~read.chunk => n = m
          /\ read.reason \notin {NULL, "unknown"} => m = Len(reply.text)
      BY <2>1, <3>1, TextTaken
    <3>3. QED
      BY <1>6, <3>2
  <2>4. Part(n, m) \in Seq(Nat) /\ Words(n) \o Part(n, m) = Words(m) /\ Len(Words(m)) = m
    BY <1>10, PartsAre, WordsAre
  <2>5. /\ so'.text = so.text \o read.text /\ so'.calls = read.calls
        /\ so'.reason = IF read.reason = NULL /\ adapter \notin CustomHost
                        THEN so.reason ELSE read.reason
    <3>1. so' = [text |-> so.text \o read.text, calls |-> read.calls, empty |-> FALSE,
                 reason |-> IF read.reason = NULL /\ adapter \notin CustomHost
                            THEN so.reason ELSE read.reason]
      BY <1>4, <1>14, Zenon
    <3>2. QED
      BY <3>1
  <2>6. so'.text = Words(m)
    BY <1>7, <2>3, <2>4, <2>5
  <2>7. TextOwn(so', reply)
    <3>1. ASSUME so'.reason \notin {"unknown", NULL} PROVE m = t
      <4>1. CASE so'.reason = read.reason
        BY <2>3, <3>1, <4>1
      <4>2. CASE so'.reason = so.reason
        <5>1. so.text = reply.text
          BY <1>5, <3>1, <4>2 DEF TextOwn
        <5>2. n = t
          BY <1>6, <5>1
        <5>3. QED
          BY <1>10, <5>2
      <4>3. QED
        BY <2>5, <4>1, <4>2
    <3>2. QED
      BY <1>6, <1>7, <1>10, <2>4, <2>6, <3>1 DEF TextOwn
  <2>8. ChunksOwn(chunks', so')
    <3>1. /\ chunks \in Seq(Chunks) /\ (\A i \in DOMAIN chunks : chunks[i].index = i - 1)
          /\ FlattenSeq(Deltas(chunks)) = so.text
      BY <1>5 DEF ChunksOwn
    <3>2. CASE read.chunk
      <4>1. chunks' = Append(chunks, [index |-> Len(chunks), delta |-> read.text])
        BY <1>4, <1>14, <3>2
      <4>2. read.text \in Seq(Nat)
        BY <2>3, <2>4
      <4>3. PICK new : new = chunks'
        OBVIOUS
      <4>4. /\ new \in Seq(Chunks) /\ (\A i \in DOMAIN new : new[i].index = i - 1)
            /\ FlattenSeq(Deltas(new)) = FlattenSeq(Deltas(chunks)) \o read.text
        BY <3>1, <4>1, <4>2, <4>3, ChunkAdded
      <4>5. QED
        BY <2>5, <3>1, <4>3, <4>4 DEF ChunksOwn
    <3>3. CASE ~read.chunk
      <4>1. chunks' = chunks /\ n = m
        BY <1>4, <1>14, <2>3, <3>3
      <4>2. so'.text = so.text
        BY <1>7, <2>6, <4>1
      <4>3. QED
        BY <3>1, <4>1, <4>2 DEF ChunksOwn
    <3>4. QED
      BY <3>2, <3>3
  <2>9. CallsOwn(adapter, reply, so'.calls) /\ CallsAt(adapter, way, so'.calls, j)
    <3>1. PICK new : new = read.calls
      OBVIOUS
    <3>2. new = Goes(adapter, d)
          /\ (adapter = "google_gemini" /\ d.calls # <<>> /\ d.text = <<>> => so.calls.index # 0)
      BY <2>1, <3>1 DEF Taken
    <3>3. CallsOwn(adapter, reply, new) /\ CallsAt(adapter, way, new, j)
      BY <1>5, <1>8, <1>10, <3>2, CallsTaken
    <3>4. QED
      BY <2>5, <3>1, <3>3
  <2>10. OnTheWay(adapter, reply, way, so', Tail(lines))
    BY <1>8, <1>9, <2>4, <2>6, <2>9 DEF OnTheWay
  <2>11. QED
    BY <1>2, <1>5, <2>2, <2>7, <2>8, <2>9, <2>10 DEF AdapterInv, Ended
<1>15. QED
  BY <1>12, <1>13, <1>14

\* The end adds nothing to what was read.
LEMMA EndsKeep ==
  AdapterInv /\ (CompletePlain \/ Refuse \/ StreamError \/ ReachDone \/ Close) => AdapterInv'
<1> SUFFICES ASSUME AdapterInv, CompletePlain \/ Refuse \/ StreamError \/ ReachDone \/ Close
             PROVE  AdapterInv'
  OBVIOUS
<1>1. CASE CompletePlain
  BY <1>1, EndsOnly DEF CompletePlain
<1>2. CASE Refuse
  BY <1>2, EndsOnly DEF Refuse
<1>3. CASE StreamError
  BY <1>3, EndsOnly DEF StreamError, Streams
<1>4. CASE Close
  BY <1>4, EndsOnly DEF Close, Streams
<1>5. CASE ReachDone
  <2>1. /\ streamed /\ final' = AtEnd /\ lines' \in {<<>>, lines}
        /\ UNCHANGED <<adapter, streamed, reply, way, so, chunks>>
    BY <1>5 DEF ReachDone, Streams
  <2>2. Len(so.text) \in Nat /\ OnTheWay(adapter, reply, way, so, lines)
    BY <2>1 DEF AdapterInv, TextOwn
  <2>3. OnTheWay(adapter, reply, way, so, <<>>)
    BY <2>2, NothingLeft
  <2>4. OnTheWay(adapter, reply, way, so, lines')
    BY <2>1, <2>2, <2>3
  <2>5. QED
    BY <2>1, <2>4 DEF AdapterInv, Ended, AtEnd
<1>6. QED
  BY <1>1, <1>2, <1>3, <1>4, <1>5

\* Every step keeps what is said true.
LEMMA StreamInductive == AdapterInv /\ [StreamNext]_streamVars => AdapterInv'
<1>1. AdapterInv /\ StreamNext => AdapterInv'
  BY SkipKeeps, TakeKeeps, EndsKeep DEF StreamNext
<1>2. AdapterInv /\ UNCHANGED streamVars => AdapterInv'
  <2> SUFFICES ASSUME AdapterInv, UNCHANGED streamVars PROVE AdapterInv'
    OBVIOUS
  <2>1. UNCHANGED <<adapter, streamed, reply, way, lines, so, chunks, final>>
    BY DEF streamVars
  <2>2. AtEnd' = AtEnd /\ Plain(adapter, reply)' = Plain(adapter, reply)
    BY <2>1 DEF AtEnd
  <2>3. Ended'
    BY <2>1, <2>2 DEF AdapterInv, Ended
  <2>4. QED
    BY <2>1, <2>3 DEF AdapterInv
<1>3. QED
  BY <1>1, <1>2

(***************************************************************************)
(* Whatever has been read of a stream is the reply's own (AdapterInv): the  *)
(* words are its first ones, so are the chunks, the calls gathered are its  *)
(* first ones, and the lines to come go on from there.                      *)
(***************************************************************************)
THEOREM StreamInvariance == StreamSpec => []AdapterInv
  BY StreamInitially, StreamInductive, PTL DEF StreamSpec

-----------------------------------------------------------------------------
\* What the completion of a stream is made of.
LEMMA Preparing ==
  ASSUME NEW text, NEW calls, NEW built, NEW reason, NEW p,
         p = Prepared(text, calls, built, reason), ~p.raised
  PROVE  \/ calls # <<>> /\ built /\ p.text = <<>> /\ p.calls = calls /\ p.reason = "function_calls"
         \/ calls = <<>> /\ text # <<>> /\ reason # NULL
              /\ p.text = text /\ p.calls = <<>> /\ p.reason = reason
<1>1. Failed.raised
  BY DEF Failed, Read
<1>2. CASE calls # <<>> /\ built
  <2>1. p = Read(<<>>, calls, "function_calls")
    BY <1>2, Zenon DEF Prepared
  <2>2. p.text = <<>> /\ p.calls = calls /\ p.reason = "function_calls"
    BY <2>1 DEF Read
  <2>3. QED
    BY <1>2, <2>2, Zenon
<1>3. CASE calls = <<>> /\ text # <<>> /\ reason # NULL
  <2>1. p = Read(text, <<>>, reason)
    BY <1>3, Zenon DEF Prepared
  <2>2. p.text = text /\ p.calls = <<>> /\ p.reason = reason
    BY <2>1 DEF Read
  <2>3. QED
    BY <1>3, <2>2, Zenon
<1>4. CASE ~(calls # <<>> /\ built) /\ ~(calls = <<>> /\ text # <<>> /\ reason # NULL)
  <2>1. p = Failed
    BY <1>4, Zenon DEF Prepared
  <2>2. QED
    BY <1>1, <2>1
<1>5. QED
  BY <1>2, <1>3, <1>4, Zenon

\* Every call gathered is built from pieces that make up one call.
Built ==
  \A i \in DOMAIN so.calls.numbers :
    IF adapter = "google_gemini" THEN Dictionary(reply, so.calls.numbers[i])
    ELSE Parses(reply, so.calls.pieces[i])

\* A completed stream has the calls gathered or the text read.
LEMMA StreamEnding ==
  ASSUME streamed, Ended, Completed
  PROVE  \/ /\ so.calls.numbers # <<>> /\ Built
            /\ final.calls = so.calls.numbers
         \/ /\ so.calls.numbers = <<>> /\ final.calls = <<>>
            /\ final.text = so.text /\ final.reason = so.reason /\ so.reason # NULL
<1>1. Failed.raised /\ Refusal.raised
  BY DEF Failed, Refusal, Read
<1>2. final # NULL /\ ~final.raised /\ final = AtEnd
  BY <1>1 DEF Ended, Completed
<1>3. final = Prepared(so.text, so.calls.numbers, Built, so.reason)
  <2>1. CASE so.empty /\ adapter \notin CustomHost
    BY <1>1, <1>2, <2>1 DEF AtEnd
  <2>2. CASE ~(so.empty /\ adapter \notin CustomHost)
    BY <1>2, <2>2, Zenon DEF AtEnd, Built
  <2>3. QED
    BY <2>1, <2>2
<1>4. QED
  BY <1>2, <1>3, Preparing

\* A shorter text begins a longer one.
LEMMA PrefixWords ==
  ASSUME NEW m \in Nat, NEW n \in Nat, m <= n
  PROVE  IsPrefix(Words(m), Words(n))
<1>1. SubSeq(Words(m), 1, m) = SubSeq(Words(n), 1, m)
  <2>1. PICK u, v, s, t : /\ s = Words(m) /\ t = Words(n)
                          /\ u = SubSeq(s, 1, m) /\ v = SubSeq(t, 1, m)
    OBVIOUS
  <2>2. /\ s \in Seq(Nat) /\ Len(s) = m /\ \A i \in 1..m : s[i] = i
        /\ t \in Seq(Nat) /\ Len(t) = n /\ \A i \in 1..n : t[i] = i
    BY <2>1, WordsAre
  <2>3. u \in Seq(Nat) /\ Len(u) = m /\ \A i \in 1..m : u[i] = i
    BY <2>1, <2>2
  <2>4. v \in Seq(Nat) /\ Len(v) = m /\ \A i \in 1..m : v[i] = i
    BY <2>1, <2>2
  <2>5. u = v
    BY <2>3, <2>4, SeqEqual
  <2>6. QED
    BY <2>1, <2>5
<1>2. QED
  BY <1>1, WordsAre DEF IsPrefix

\* The chunks make up the completion's text, and begin as the reply does.
LEMMA TextAsChunked == AdapterInv => ChunksMakeTheText
<1> SUFFICES ASSUME AdapterInv PROVE ChunksMakeTheText
  OBVIOUS
<1>1. TextOwn(so, reply) /\ ChunksOwn(chunks, so) /\ WellSaid(reply) /\ Ended
  BY DEF AdapterInv
<1>2. /\ \A i \in DOMAIN chunks : chunks[i].index = i - 1
      /\ FlattenSeq([i \in DOMAIN chunks |-> chunks[i].delta]) = so.text
  BY <1>1 DEF ChunksOwn, Deltas
<1>3. IsPrefix(so.text, reply.text)
  <2>1. PICK m \in Nat, n \in Nat : so.text = Words(m) /\ reply.text = Words(n) /\ m <= n
    BY <1>1 DEF TextOwn, WellSaid
  <2>2. QED
    BY <2>1, PrefixWords
<1>4. streamed /\ Completed /\ final.calls = <<>> => final.text = so.text
  BY <1>1, StreamEnding
<1>5. QED
  BY <1>2, <1>3, <1>4 DEF ChunksMakeTheText

\* The chunks are numbered from 0 and make up the text so far, and that of the
\* completion, for texts of any length, of every adapter.
THEOREM TheChunksMakeTheText == StreamSpec => []ChunksMakeTheText
  BY StreamInvariance, TextAsChunked, PTL

\* The calls of a finished stream are the reply's, each with all its pieces.
LEMMA StreamWhole ==
  ASSUME AdapterInv, streamed, Completed
  PROVE  /\ final.calls = <<>> /\ final.reason # "unknown" => final.text = reply.text
         /\ IsPrefix(final.calls, Numbers(reply))
         /\ \A i \in DOMAIN final.calls : so.calls.pieces[i] = Pieces(reply, i)
<1>1. TextOwn(so, reply) /\ CallsOwn(adapter, reply, so.calls) /\ WellSaid(reply) /\ Ended
  BY DEF AdapterInv
<1>2. PICK m \in Nat, n \in Nat : /\ m = Len(so.calls.numbers) /\ n = Len(reply.calls) /\ m <= n
                                  /\ DOMAIN reply.calls = 1..n
  BY <1>1 DEF CallsOwn, Gathering, WellSaid
<1>3. Numbers(reply) = Words(n) /\ so.calls.numbers = Words(m)
  BY <1>1, <1>2 DEF Numbers, Words, CallsOwn
<1>4. CASE so.calls.numbers # <<>> /\ Built /\ final.calls = so.calls.numbers
  <2>1. IsPrefix(final.calls, Numbers(reply))
    BY <1>2, <1>3, <1>4, PrefixWords
  <2>2. DOMAIN so.calls.numbers = 1..m
    BY <1>3 DEF Words
  <2>3. ASSUME NEW i \in 1..m PROVE so.calls.pieces[i] = Pieces(reply, i)
    <3>1. so.calls.pieces[i] # <<>> /\ so.calls.pieces[i][1][1] = i
          /\ (adapter = "google_gemini" => so.calls.pieces[i] = Pieces(reply, i))
      BY <1>1, <1>2 DEF CallsOwn
    <3>2. CASE adapter # "google_gemini"
      <4>1. Parses(reply, so.calls.pieces[i])
        BY <1>4, <2>2, <3>2 DEF Built
      <4>2. PICK k \in 1..n : so.calls.pieces[i] = Pieces(reply, k)
        BY <1>2, <4>1 DEF Parses
      <4>3. Pieces(reply, k)[1] = <<k, 1>>
        BY DEF Pieces
      <4>4. k = i
        BY <3>1, <4>2, <4>3
      <4>5. QED
        BY <4>2, <4>4
    <3>3. QED
      BY <3>1, <3>2
  <2>4. QED
    BY <1>4, <2>1, <2>2, <2>3
<1>5. CASE so.calls.numbers = <<>> /\ final.calls = <<>>
           /\ final.text = so.text /\ final.reason = so.reason /\ so.reason # NULL
  <2>1. Words(0) = <<>> /\ DOMAIN <<>> = {}
    BY DEF Words
  <2>2. IsPrefix(Words(0), Words(n))
    BY <1>2, PrefixWords
  <2>3. final.reason # "unknown" => final.text = reply.text
    BY <1>1, <1>5 DEF TextOwn
  <2>4. QED
    BY <1>3, <1>5, <2>1, <2>2, <2>3
<1>6. QED
  BY <1>1, <1>4, <1>5, StreamEnding

-----------------------------------------------------------------------------
(***************************************************************************)
(* A plain reply.  Whatever the adapter, its reason is translated into     *)
(* some x, and its text and calls are taken as they are, or dropped or     *)
(* refused as Shape says; s is a reply with the same reason and no calls.  *)
(***************************************************************************)
Taking(a, r, x, read) ==
  \/ read.raised /\ x = "raised"
  \/ a # "google_gemini" /\ read = Read(r.text, Numbers(r), x)
       /\ (a \in {"anthropic", "llama_api"} => \A k \in DOMAIN r.calls : Dictionary(r, k))
  \/ read.raised /\ r.text = <<>> /\ r.calls = <<>>
  \/ read.raised /\ a \in {"anthropic", "llama_api"}
       /\ \E k \in DOMAIN r.calls : ~Dictionary(r, k)
  \/ a = "google_gemini" /\ read = Read(r.text, <<>>, x) /\ (r.text # <<>> \/ r.calls = <<>>)
  \/ a = "google_gemini" /\ read = Read(<<>>, <<1>>, x) /\ Dictionary(r, 1)
       /\ r.text = <<>> /\ r.calls # <<>>
  \/ a = "google_gemini" /\ read.raised /\ ~Dictionary(r, 1)
       /\ r.text = <<>> /\ r.calls # <<>>

Shape(a, r, s) ==
  \E x \in FinishReasons \cup {"raised"} :
    /\ PlainReply(a, s).raised <=> x = "raised"
    /\ Taking(a, r, x, PlainReply(a, r))

Named(names) == \A word \in DOMAIN names : names[word] \in FinishReasons \cup {"raised"}

\* A word is translated into a reason or raised.
LEMMA TranslatedIs ==
  ASSUME NEW word, NEW names, Named(names)
  PROVE  Translated(word, names) \in FinishReasons \cup {"raised"}
<1>1. CASE word \in DOMAIN names
  BY <1>1 DEF Translated, Named
<1>2. CASE word \notin DOMAIN names /\ word \in FinishReasons
  BY <1>2 DEF Translated
<1>3. CASE word \notin DOMAIN names /\ word \notin FinishReasons
  <2>1. Translated(word, names) = "unknown"
    BY <1>3, Zenon DEF Translated
  <2>2. QED
    BY <2>1 DEF FinishReasons
<1>4. QED
  BY <1>1, <1>2, <1>3

\* The tables of the providers' words.
LEMMA AllNamed ==
  /\ Named(OpenaiReasons) /\ Named(LocalReasons) /\ Named(LlamaApiReasons)
  /\ Named(TogetheraiReasons) /\ Named(ZhipuReasons) /\ Named(MistralReasons)
  /\ Named(FunctionReasons) /\ Named(WenxinReasons) /\ Named(AnthropicReasons)
  /\ Named(GeminiReasons) /\ Named(CohereReasons)
<1>1. Named(OpenaiReasons)
  BY DEF Named, OpenaiReasons, FinishReasons
<1>2. Named(LocalReasons)
  BY DEF Named, LocalReasons, FinishReasons
<1>3. Named(LlamaApiReasons)
  BY DEF Named, LlamaApiReasons, FinishReasons
<1>4. Named(TogetheraiReasons)
  BY DEF Named, TogetheraiReasons, FinishReasons
<1>5. Named(ZhipuReasons)
  BY DEF Named, ZhipuReasons, FinishReasons
<1>6. Named(MistralReasons)
  BY DEF Named, MistralReasons, FinishReasons
<1>7. Named(FunctionReasons)
  BY DEF Named, FunctionReasons, FinishReasons
<1>8. Named(WenxinReasons)
  BY DEF Named, WenxinReasons, FinishReasons
<1>9. Named(AnthropicReasons)
  BY DEF Named, AnthropicReasons, FinishReasons
<1>10. Named(GeminiReasons)
  BY DEF Named, GeminiReasons, FinishReasons
<1>11. Named(CohereReasons)
  BY DEF Named, CohereReasons, FinishReasons
<1>12. QED
  BY <1>1, <1>2, <1>3, <1>4, <1>5, <1>6, <1>7, <1>8, <1>9, <1>10, <1>11

ByString == {"openai", "azure_openai", "yi", "moonshot", "minimax", "groq", "tongyi", "ollama",
             "localai", "lm_studio", "custom_tools", "custom_function", "zhipu", "mistralai",
             "wenxin"}

\* The fields of what has been read.
LEMMA ReadFields ==
  ASSUME NEW text, NEW calls, NEW reason, NEW p, p = Read(text, calls, reason)
  PROVE  /\ p.text = text /\ p.calls = calls /\ p.reason = reason
         /\ (p.raised <=> reason = "raised")
  BY DEF Read

\* A reply read as it is.
LEMMA WholeShape ==
  ASSUME NEW a, NEW r, NEW s, NEW x \in FinishReasons \cup {"raised"}, NEW text, NEW calls,
         a \notin {"google_gemini", "anthropic", "llama_api"},
         PlainReply(a, r) = Read(r.text, Numbers(r), x),
         PlainReply(a, s) = Read(text, calls, x)
  PROVE  Shape(a, r, s)
<1>1. PlainReply(a, s).raised <=> x = "raised"
  BY ReadFields
<1>2. Taking(a, r, x, PlainReply(a, r))
  BY DEF Taking
<1>3. QED
  BY <1>1, <1>2 DEF Shape

\* Adapters whose arguments are strings read all of a reply.
LEMMA StringShape ==
  ASSUME NEW a \in ByString, NEW r, NEW s, s.reason = r.reason
  PROVE  Shape(a, r, s)
<1>1. \E names : Named(names) /\ \A y \in {r, s} : PlainReply(a, y) = StringCalls(y, names)
  <2>1. CASE a = "openai"
    <3>1. \A y \in {r, s} : PlainReply(a, y) = StringCalls(y, OpenaiReasons)
      BY <2>1, Zenon DEF PlainReply, OpenaiReply
    <3>2. QED
      BY <3>1, AllNamed
  <2>2. CASE a = "azure_openai"
    <3>1. \A y \in {r, s} : PlainReply(a, y) = StringCalls(y, OpenaiReasons)
      BY <2>2, Zenon DEF PlainReply, AzureOpenaiReply
    <3>2. QED
      BY <3>1, AllNamed
  <2>3. CASE a = "yi"
    <3>1. \A y \in {r, s} : PlainReply(a, y) = StringCalls(y, OpenaiReasons)
      BY <2>3, Zenon DEF PlainReply, YiReply
    <3>2. QED
      BY <3>1, AllNamed
  <2>4. CASE a = "moonshot"
    <3>1. \A y \in {r, s} : PlainReply(a, y) = StringCalls(y, OpenaiReasons)
      BY <2>4, Zenon DEF PlainReply, MoonshotReply
    <3>2. QED
      BY <3>1, AllNamed
  <2>5. CASE a = "minimax"
    <3>1. \A y \in {r, s} : PlainReply(a, y) = StringCalls(y, OpenaiReasons)
      BY <2>5, Zenon DEF PlainReply, MinimaxReply
    <3>2. QED
      BY <3>1, AllNamed
  <2>6. CASE a = "groq"
    <3>1. \A y \in {r, s} : PlainReply(a, y) = StringCalls(y, OpenaiReasons)
      BY <2>6, Zenon DEF PlainReply, GroqReply
    <3>2. QED
      BY <3>1, AllNamed
  <2>7. CASE a = "tongyi"
    <3>1. \A y \in {r, s} : PlainReply(a, y) = StringCalls(y, OpenaiReasons)
      BY <2>7, Zenon DEF PlainReply, TongyiReply
    <3>2. QED
      BY <3>1, AllNamed
  <2>8. CASE a = "ollama"
    <3>1. \A y \in {r, s} : PlainReply(a, y) = StringCalls(y, LocalReasons)
      BY <2>8, Zenon DEF PlainReply, OllamaReply
    <3>2. QED
      BY <3>1, AllNamed
  <2>9. CASE a = "localai"
    <3>1. \A y \in {r, s} : PlainReply(a, y) = StringCalls(y, LocalReasons)
      BY <2>9, Zenon DEF PlainReply, LocalaiReply
    <3>2. QED
      BY <3>1, AllNamed
  <2>10. CASE a = "lm_studio"
    <3>1. \A y \in {r, s} : PlainReply(a, y) = StringCalls(y, LocalReasons)
      BY <2>10, Zenon DEF PlainReply, LmStudioReply
    <3>2. QED
      BY <3>1, AllNamed
  <2>11. CASE a = "custom_tools"
    <3>1. \A y \in {r, s} : PlainReply(a, y) = StringCalls(y, LocalReasons)
      BY <2>11, Zenon DEF PlainReply, CustomToolsReply
    <3>2. QED
      BY <3>1, AllNamed
  <2>12. CASE a = "custom_function"
    <3>1. \A y \in {r, s} : PlainReply(a, y) = StringCalls(y, FunctionReasons)
      BY <2>12, Zenon DEF PlainReply, CustomFunctionReply
    <3>2. QED
      BY <3>1, AllNamed
  <2>13. CASE a = "zhipu"
    <3>1. \A y \in {r, s} : PlainReply(a, y) = StringCalls(y, ZhipuReasons)
      BY <2>13, Zenon DEF PlainReply, ZhipuReply
    <3>2. QED
      BY <3>1, AllNamed
  <2>14. CASE a = "mistralai"
    <3>1. \A y \in {r, s} : PlainReply(a, y) = StringCalls(y, MistralReasons)
      BY <2>14, Zenon DEF PlainReply, MistralReply
    <3>2. QED
      BY <3>1, AllNamed
  <2>15. CASE a = "wenxin"
    <3>1. \A y \in {r, s} : PlainReply(a, y) = StringCalls(y, WenxinReasons)
      BY <2>15, Zenon DEF PlainReply, WenxinReply
    <3>2. QED
      BY <3>1, AllNamed
  <2>16. QED
    BY <2>1, <2>2, <2>3, <2>4, <2>5, <2>6, <2>7, <2>8, <2>9, <2>10,
       <2>11, <2>12, <2>13, <2>14, <2>15 DEF ByString
<1>2. PICK names : Named(names) /\ \A y \in {r, s} : PlainReply(a, y) = StringCalls(y, names)
  BY <1>1
<1>3. PICK x \in FinishReasons \cup {"raised"} : x = Translated(r.reason, names)
  BY <1>2, TranslatedIs
<1>4. /\ PlainReply(a, r) = Read(r.text, Numbers(r), x)
      /\ PlainReply(a, s) = Read(s.text, Numbers(s), x)
  BY <1>2, <1>3 DEF StringCalls
<1>5. a \notin {"google_gemini", "anthropic", "llama_api"}
  BY DEF ByString
<1>6. QED
  BY <1>4, <1>5, WholeShape

\* Adapters that read no calls, whose replies make none.
LEMMA TextShape ==
  ASSUME NEW a \in {"baichuan", "cohere", "ai21", "hugging_face", "hugging_face_endpoint"},
         NEW r, NEW s, s.reason = r.reason, Numbers(r) = <<>>
  PROVE  Shape(a, r, s)
<1>1. \E x \in FinishReasons \cup {"raised"} :
        PlainReply(a, r) = Read(r.text, <<>>, x) /\ PlainReply(a, s) = Read(s.text, <<>>, x)
  <2>1. CASE a = "baichuan"
    <3>1. \A y \in {r, s} :
            PlainReply(a, y) = Read(y.text, <<>>, Translated(y.reason, OpenaiReasons))
      BY <2>1, Zenon DEF PlainReply, BaichuanReply
    <3>2. QED
      BY <3>1, AllNamed, TranslatedIs
  <2>2. CASE a = "cohere"
    <3>1. \A y \in {r, s} :
            PlainReply(a, y) = Read(y.text, <<>>, Translated(y.reason, CohereReasons))
      BY <2>2, Zenon DEF PlainReply, CohereReply
    <3>2. QED
      BY <3>1, AllNamed, TranslatedIs
  <2>3. CASE a = "ai21"
    <3>1. PICK names : names = [endoftext |-> "stop"]
      OBVIOUS
    <3>2. \A y \in {r, s} : PlainReply(a, y) = Read(y.text, <<>>, Translated(y.reason, names))
      BY <2>3, <3>1, Zenon DEF PlainReply, Ai21Reply
    <3>3. Named(names)
      BY <3>1 DEF Named, FinishReasons
    <3>4. QED
      BY <3>2, <3>3, TranslatedIs
  <2>4. CASE a = "hugging_face"
    <3>1. \A y \in {r, s} : PlainReply(a, y) = Read(y.text, <<>>, "unknown")
      BY <2>4, Zenon DEF PlainReply, HuggingFaceReply
    <3>2. QED
      BY <3>1 DEF FinishReasons
  <2>5. CASE a = "hugging_face_endpoint"
    <3>1. \A y \in {r, s} : PlainReply(a, y) = Read(y.text, <<>>, "unknown")
      BY <2>5, Zenon DEF PlainReply, HuggingFaceEndpointReply
    <3>2. QED
      BY <3>1 DEF FinishReasons
  <2>6. QED
    BY <2>1, <2>2, <2>3, <2>4, <2>5
<1>2. PICK x \in FinishReasons \cup {"raised"} :
        PlainReply(a, r) = Read(r.text, <<>>, x) /\ PlainReply(a, s) = Read(s.text, <<>>, x)
  BY <1>1
<1>3. QED
  BY <1>2, WholeShape

\* Bedrock's reason must be there.
LEMMA BedrockShape ==
  ASSUME NEW a \in Bedrock, NEW r, NEW s, s.reason = r.reason, Numbers(r) = <<>>
  PROVE  Shape(a, r, s)
<1>1. \E prefix \in DOMAIN BedrockReasons :
        \A y \in {r, s} : PlainReply(a, y) = BedrockReply(y, prefix)
  <2> DEFINE P == {"amazon", "ai21", "anthropic", "cohere", "meta"}
  <2>1. DOMAIN BedrockReasons = P
    BY DEF BedrockReasons
  <2>2. \E prefix \in P : \A y \in {r, s} : PlainReply(a, y) = BedrockReply(y, prefix)
    <3>1. CASE a = "amazon"
      <4>1. \A y \in {r, s} : PlainReply(a, y) = BedrockReply(y, "amazon")
        BY <3>1, Zenon DEF PlainReply
      <4>2. QED
        BY <4>1
    <3>2. CASE a = "bedrock_ai21"
      <4>1. \A y \in {r, s} : PlainReply(a, y) = BedrockReply(y, "ai21")
        BY <3>2, Zenon DEF PlainReply
      <4>2. QED
        BY <4>1
    <3>3. CASE a = "bedrock_anthropic"
      <4>1. \A y \in {r, s} : PlainReply(a, y) = BedrockReply(y, "anthropic")
        BY <3>3, Zenon DEF PlainReply
      <4>2. QED
        BY <4>1
    <3>4. CASE a = "bedrock_cohere"
      <4>1. \A y \in {r, s} : PlainReply(a, y) = BedrockReply(y, "cohere")
        BY <3>4, Zenon DEF PlainReply
      <4>2. QED
        BY <4>1
    <3>5. CASE a = "meta"
      <4>1. \A y \in {r, s} : PlainReply(a, y) = BedrockReply(y, "meta")
        BY <3>5, Zenon DEF PlainReply
      <4>2. QED
        BY <4>1
    <3>6. QED
      BY <3>1, <3>2, <3>3, <3>4, <3>5 DEF Bedrock
  <2>3. QED
    BY <2>1, <2>2
<1>2. PICK prefix \in DOMAIN BedrockReasons :
        \A y \in {r, s} : PlainReply(a, y) = BedrockReply(y, prefix)
  BY <1>1
<1>3. PICK names : names = BedrockReasons[prefix]
  OBVIOUS
<1>4. Named(names)
  <2>1. prefix \in {"amazon", "ai21", "anthropic", "cohere", "meta"}
    BY DEF BedrockReasons
  <2>2. QED
    BY <1>3, <2>1 DEF BedrockReasons, Named, FinishReasons
<1>5. a \notin {"google_gemini", "anthropic", "llama_api"}
  BY DEF Bedrock
<1>6. CASE r.reason = NULL
  <2>1. PlainReply(a, r) = Failed /\ PlainReply(a, s) = Failed
    BY <1>2, <1>6 DEF BedrockReply
  <2>2. Failed.raised
    BY DEF Failed, Read
  <2>3. Taking(a, r, "raised", PlainReply(a, r))
    BY <2>1, <2>2 DEF Taking
  <2>4. QED
    BY <2>1, <2>2, <2>3 DEF Shape
<1>7. CASE r.reason # NULL
  <2>1. PICK x \in FinishReasons \cup {"raised"} :
          x = IF r.reason \in DOMAIN names THEN names[r.reason] ELSE "unknown"
    BY <1>4 DEF Named, FinishReasons
  <2>2. PlainReply(a, r) = Read(r.text, <<>>, x) /\ PlainReply(a, s) = Read(s.text, <<>>, x)
    BY <1>2, <1>3, <1>7, <2>1 DEF BedrockReply
  <2>3. QED
    BY <1>5, <2>2, WholeShape
<1>8. QED
  BY <1>6, <1>7

\* Together's names no reason when it stops.
LEMMA TogetherShape ==
  ASSUME NEW r \in Said, NEW s \in Said, s.reason = r.reason
  PROVE  Shape("togetherai", r, s)
<1>1. PICK word : word = IF r.reason = NULL THEN "stop" ELSE r.reason
  OBVIOUS
<1>2. PICK x \in FinishReasons \cup {"raised"} : x = Translated(word, TogetheraiReasons)
  BY AllNamed, TranslatedIs
<1>3. ASSUME NEW y \in {r, s} PROVE PlainReply("togetherai", y) = Read(y.text, Numbers(y), x)
  <2>1. PICK z : z = [y EXCEPT !.reason = IF @ = NULL THEN "stop" ELSE @]
    OBVIOUS
  <2>2. z.text = y.text /\ z.calls = y.calls /\ z.reason = word
    BY <1>1, <2>1 DEF Said
  <2>3. PlainReply("togetherai", y) = StringCalls(z, TogetheraiReasons)
    BY <2>1, Zenon DEF PlainReply, TogetheraiReply
  <2>4. QED
    BY <1>2, <2>2, <2>3 DEF StringCalls, Numbers
<1>4. QED
  BY <1>3, WholeShape

\* A call without arguments fails a reply whose arguments are a dictionary.
LEMMA LlamaShape ==
  ASSUME NEW r, NEW s, s.reason = r.reason, DOMAIN s.calls = {}
  PROVE  Shape("llama_api", r, s)
<1>1. \A y \in {r, s} : PlainReply("llama_api", y) = LlamaApiReply(y)
  BY Zenon DEF PlainReply
<1>2. PICK x \in FinishReasons \cup {"raised"} : x = Translated(r.reason, LlamaApiReasons)
  BY AllNamed, TranslatedIs
<1>3. PlainReply("llama_api", s) = Read(s.text, Numbers(s), x)
  BY <1>1, <1>2 DEF LlamaApiReply, StringCalls
<1>4. PlainReply("llama_api", s).raised <=> x = "raised"
  BY <1>3, ReadFields
<1>5. CASE \A k \in DOMAIN r.calls : Dictionary(r, k)
  <2>1. PlainReply("llama_api", r) = Read(r.text, Numbers(r), x)
    BY <1>1, <1>2, <1>5 DEF LlamaApiReply, StringCalls
  <2>2. QED
    BY <1>4, <1>5, <2>1 DEF Shape, Taking
<1>6. CASE \E k \in DOMAIN r.calls : ~Dictionary(r, k)
  <2>1. PlainReply("llama_api", r) = Failed
    BY <1>1, <1>6 DEF LlamaApiReply
  <2>2. Failed.raised
    BY DEF Failed, Read
  <2>3. QED
    BY <1>4, <1>6, <2>1, <2>2 DEF Shape, Taking
<1>7. QED
  BY <1>5, <1>6

\* Content without a block fails, and so does a call without arguments.
LEMMA AnthropicShape ==
  ASSUME NEW r, NEW s, s.reason = r.reason, DOMAIN s.calls = {}, s.text # <<>>
  PROVE  Shape("anthropic", r, s)
<1>1. \A y \in {r, s} : PlainReply("anthropic", y) = AnthropicReply(y)
  BY Zenon DEF PlainReply
<1>2. PICK x \in FinishReasons \cup {"raised"} : x = Translated(r.reason, AnthropicReasons)
  BY AllNamed, TranslatedIs
<1>3. PlainReply("anthropic", s) = Read(s.text, Numbers(s), x)
  BY <1>1, <1>2 DEF AnthropicReply, StringCalls
<1>4. PlainReply("anthropic", s).raised <=> x = "raised"
  BY <1>3, ReadFields
<1>5. Failed.raised
  BY DEF Failed, Read
<1>6. CASE r.text = <<>> /\ r.calls = <<>>
  <2>1. PlainReply("anthropic", r) = Failed
    BY <1>1, <1>6 DEF AnthropicReply
  <2>2. QED
    BY <1>4, <1>5, <1>6, <2>1 DEF Shape, Taking
<1>7. CASE \E k \in DOMAIN r.calls : ~Dictionary(r, k)
  <2>1. PlainReply("anthropic", r) = Failed
    BY <1>1, <1>7 DEF AnthropicReply
  <2>2. QED
    BY <1>4, <1>5, <1>7, <2>1 DEF Shape, Taking
<1>8. CASE ~(r.text = <<>> /\ r.calls = <<>>) /\ \A k \in DOMAIN r.calls : Dictionary(r, k)
  <2>1. PlainReply("anthropic", r) = Read(r.text, Numbers(r), x)
    BY <1>1, <1>2, <1>8 DEF AnthropicReply, StringCalls
  <2>2. QED
    BY <1>4, <1>8, <2>1 DEF Shape, Taking
<1>9. QED
  BY <1>6, <1>7, <1>8

\* Gemini's first part is all that is read of a reply.
LEMMA GeminiShape ==
  ASSUME NEW r, NEW s, s.reason = r.reason, s.text # <<>>
  PROVE  Shape("google_gemini", r, s)
<1>1. \A y \in {r, s} : PlainReply("google_gemini", y) = GeminiReply(y)
  BY Zenon DEF PlainReply
<1>2. PICK x \in FinishReasons \cup {"raised"} : x = Translated(r.reason, GeminiReasons)
  BY AllNamed, TranslatedIs
<1>3. PlainReply("google_gemini", s) = Read(s.text, <<>>, x)
  BY <1>1, <1>2, Zenon DEF GeminiReply
<1>4. PlainReply("google_gemini", s).raised <=> x = "raised"
  BY <1>3, ReadFields
<1>5. CASE r.text # <<>> \/ r.calls = <<>>
  <2>1. PlainReply("google_gemini", r) = Read(r.text, <<>>, x)
    BY <1>1, <1>2, <1>5, Zenon DEF GeminiReply
  <2>2. QED
    BY <1>4, <1>5, <2>1 DEF Shape, Taking
<1>6. CASE ~(r.text # <<>> \/ r.calls = <<>>) /\ Dictionary(r, 1)
  <2>1. PlainReply("google_gemini", r) = Read(<<>>, <<1>>, x)
    BY <1>1, <1>2, <1>6, Zenon DEF GeminiReply
  <2>2. QED
    BY <1>4, <1>6, <2>1 DEF Shape, Taking
<1>7. CASE ~(r.text # <<>> \/ r.calls = <<>>) /\ ~Dictionary(r, 1)
  <2>1. PlainReply("google_gemini", r) = Failed
    BY <1>1, <1>7, Zenon DEF GeminiReply
  <2>2. Failed.raised
    BY DEF Failed, Read
  <2>3. QED
    BY <1>4, <1>7, <2>1, <2>2 DEF Shape, Taking
<1>8. QED
  BY <1>5, <1>6, <1>7

\* Every adapter reads a plain reply so.
LEMMA PlainShape ==
  ASSUME NEW a \in Streaming \cup PlainOnly, NEW r \in Said, NEW s \in Said,
         s.reason = r.reason, s.calls = <<>>, s.text # <<>>,
         a \in Untooled => r.calls = <<>>
  PROVE  Shape(a, r, s)
<1>1. DOMAIN s.calls = {}
  OBVIOUS
<1>2. r.calls = <<>> => Numbers(r) = <<>>
  BY DEF Numbers
<1>3. CASE a \in ByString
  BY <1>3, StringShape
<1>4. CASE a \in {"baichuan", "cohere", "ai21", "hugging_face", "hugging_face_endpoint"}
  <2>1. a \in Untooled
    BY <1>4 DEF Untooled, PlainOnly
  <2>2. QED
    BY <1>2, <1>4, <2>1, TextShape
<1>5. CASE a \in Bedrock
  <2>1. a \in Untooled
    BY <1>5 DEF Untooled, PlainOnly
  <2>2. QED
    BY <1>2, <1>5, <2>1, BedrockShape
<1>6. CASE a = "togetherai"
  BY <1>6, TogetherShape
<1>7. CASE a = "llama_api"
  BY <1>1, <1>7, LlamaShape
<1>8. CASE a = "anthropic"
  BY <1>1, <1>8, AnthropicShape
<1>9. CASE a = "google_gemini"
  BY <1>9, GeminiShape
<1>10. QED
  BY <1>3, <1>4, <1>5, <1>6, <1>7, <1>8, <1>9 DEF Streaming, PlainOnly, CustomHost, ByString

\* What a reply that was read is completed with.
LEMMA Prepares ==
  ASSUME NEW text, NEW calls, NEW reason, reason # NULL
  PROVE  /\ calls # <<>> =>
              Prepared(text, calls, TRUE, reason) = Read(<<>>, calls, "function_calls")
         /\ calls = <<>> /\ text # <<>> =>
              Prepared(text, calls, TRUE, reason) = Read(text, <<>>, reason)
         /\ calls = <<>> /\ text = <<>> => Prepared(text, calls, TRUE, reason) = Failed
  BY Zenon DEF Prepared

\* "noargs" is among the calls if one of them has no dictionary.
LEMMA NoArguments ==
  ASSUME NEW r, r.calls \in Seq({"args", "noargs"})
  PROVE  "noargs" \in ToSet(r.calls) <=> \E k \in DOMAIN r.calls : ~Dictionary(r, k)
  BY DEF ToSet, Dictionary

\* The numbers of the calls of a reply.
LEMMA NumbersAre ==
  ASSUME NEW r, r.calls \in Seq({"args", "noargs"})
  PROVE  /\ Numbers(r) = Words(Len(r.calls)) /\ Len(r.calls) \in Nat
         /\ Numbers(r) = <<>> <=> r.calls = <<>>
         /\ Numbers(r) = <<1>> <=> Len(r.calls) = 1
<1>1. PICK n \in Nat : n = Len(r.calls) /\ DOMAIN r.calls = 1..n
  OBVIOUS
<1>2. Numbers(r) = Words(n)
  BY <1>1 DEF Numbers, Words
<1>3. Words(n) = <<>> <=> n = 0
  BY DEF Words
<1>4. n = 0 <=> r.calls = <<>>
  BY <1>1
<1>5. Words(n) = <<1>> <=> n = 1
  <2>1. Words(1) = <<1>>
    BY DEF Words
  <2>2. Len(<<1>>) = 1
    OBVIOUS
  <2>3. QED
    BY <2>1, <2>2, WordsAre
<1>6. QED
  BY <1>1, <1>2, <1>3, <1>4, <1>5

Wholly(r, f) ==
  /\ ~f.raised
  /\ f.calls = Numbers(r)
  /\ r.calls = <<>> => f.text = r.text
Apart(a, r, x) ==
  LET calls == r.calls
  IN  \/ r.text = <<>> /\ calls = <<>>
      \/ x = "raised"
      \/ a = "google_gemini" /\ calls # <<>>
           /\ (r.text # <<>> \/ Len(calls) > 1 \/ "noargs" \in ToSet(calls))
      \/ a \in {"anthropic", "llama_api"} /\ "noargs" \in ToSet(calls)
Partly(r, f) ==
  ~f.raised => /\ f.calls = <<>> => f.text = r.text
               /\ IsPrefix(f.calls, Numbers(r))

\* The completion has all of the reply exactly where Apart does not hold.
LEMMA PlainWhole ==
  ASSUME NEW a, NEW r \in Said, NEW x \in FinishReasons \cup {"raised"},
         Taking(a, r, x, PlainReply(a, r)), NEW f, f = Plain(a, r)
  PROVE  (Wholly(r, f) <=> ~Apart(a, r, x)) /\ Partly(r, f)
<1>1. PICK read : read = PlainReply(a, r)
  OBVIOUS
<1>2. Failed.raised
  BY DEF Failed, Read
<1>3. read.raised => f.raised
  BY <1>1, <1>2, Zenon DEF Plain
<1>4. ~read.raised => f = Prepared(read.text, read.calls, TRUE, read.reason)
  BY <1>1, Zenon DEF Plain
<1>5. r.calls \in Seq({"args", "noargs"})
  BY DEF Said
<1>6. x # NULL
  BY StreamAssumption DEF AllReasons
<1>7. ASSUME f.raised PROVE ~Wholly(r, f) /\ Partly(r, f)
  BY <1>7, Zenon DEF Wholly, Partly
<1>8. IsPrefix(Numbers(r), Numbers(r)) /\ IsPrefix(<<>>, Numbers(r))
      /\ (r.calls # <<>> => IsPrefix(<<1>>, Numbers(r)))
  <2>1. PICK n \in Nat : n = Len(r.calls) /\ Numbers(r) = Words(n)
    BY <1>5, NumbersAre
  <2>2. IsPrefix(Words(n), Words(n)) /\ IsPrefix(Words(0), Words(n))
    BY PrefixWords
  <2>3. Words(0) = <<>> /\ Words(1) = <<1>>
    BY DEF Words
  <2>4. r.calls # <<>> => n >= 1
    BY <1>5, <2>1
  <2>5. r.calls # <<>> => IsPrefix(Words(1), Words(n))
    BY <2>4, PrefixWords
  <2>6. QED
    BY <2>1, <2>2, <2>3, <2>5
<1>9. CASE read.raised /\ x = "raised"
  <2>1. Apart(a, r, x)
    BY <1>9 DEF Apart
  <2>2. QED
    BY <1>3, <1>7, <1>9, <2>1
<1>10. CASE read.raised /\ r.text = <<>> /\ r.calls = <<>>
  <2>1. Apart(a, r, x)
    BY <1>10 DEF Apart
  <2>2. QED
    BY <1>3, <1>7, <1>10, <2>1
<1>11. CASE read.raised /\ a \in {"anthropic", "llama_api"}
            /\ \E k \in DOMAIN r.calls : ~Dictionary(r, k)
  <2>1. Apart(a, r, x)
    BY <1>5, <1>11, NoArguments DEF Apart
  <2>2. QED
    BY <1>3, <1>7, <1>11, <2>1
<1>12. CASE a = "google_gemini" /\ read.raised /\ ~Dictionary(r, 1)
            /\ r.text = <<>> /\ r.calls # <<>>
  <2>1. 1 \in DOMAIN r.calls
    BY <1>5, <1>12
  <2>2. "noargs" \in ToSet(r.calls)
    BY <1>5, <1>12, <2>1, NoArguments
  <2>3. Apart(a, r, x)
    BY <1>12, <2>2 DEF Apart
  <2>4. QED
    BY <1>3, <1>7, <1>12, <2>3
<1>13. CASE a # "google_gemini" /\ read = Read(r.text, Numbers(r), x)
            /\ (a \in {"anthropic", "llama_api"} => \A k \in DOMAIN r.calls : Dictionary(r, k))
  <2>1. /\ read.text = r.text /\ read.calls = Numbers(r) /\ read.reason = x
        /\ (read.raised <=> x = "raised")
    BY <1>13, ReadFields
  <2>2. Apart(a, r, x) <=> (r.text = <<>> /\ r.calls = <<>>) \/ x = "raised"
    BY <1>5, <1>13, NoArguments DEF Apart
  <2>3. CASE x = "raised"
    BY <1>3, <1>7, <2>1, <2>2, <2>3
  <2>4. CASE x # "raised"
    <3>1. f = Prepared(r.text, Numbers(r), TRUE, x)
      BY <1>4, <2>1, <2>4
    <3>2. /\ Numbers(r) # <<>> => f = Read(<<>>, Numbers(r), "function_calls")
          /\ Numbers(r) = <<>> /\ r.text # <<>> => f = Read(r.text, <<>>, x)
          /\ Numbers(r) = <<>> /\ r.text = <<>> => f = Failed
      BY <1>6, <3>1, Prepares, Zenon
    <3>3. Numbers(r) = <<>> <=> r.calls = <<>>
      BY <1>5, NumbersAre
    <3>4. CASE r.calls # <<>>
      <4>1. ~f.raised /\ f.calls = Numbers(r) /\ f.calls # <<>>
        BY <3>2, <3>3, <3>4, ReadFields
      <4>2. Wholly(r, f)
        BY <3>4, <4>1, Zenon DEF Wholly
      <4>3. Partly(r, f)
        BY <1>8, <4>1, Zenon DEF Partly
      <4>4. QED
        BY <2>2, <2>4, <3>4, <4>2, <4>3
    <3>5. CASE r.calls = <<>> /\ r.text # <<>>
      <4>1. ~f.raised /\ f.calls = Numbers(r) /\ f.text = r.text
        BY <2>4, <3>2, <3>3, <3>5, ReadFields
      <4>2. Wholly(r, f)
        BY <4>1, Zenon DEF Wholly
      <4>3. Partly(r, f)
        BY <1>8, <4>1, Zenon DEF Partly
      <4>4. QED
        BY <2>2, <2>4, <3>5, <4>2, <4>3
    <3>6. CASE r.calls = <<>> /\ r.text = <<>>
      <4>1. f.raised
        BY <1>2, <3>2, <3>3, <3>6
      <4>2. QED
        BY <1>7, <2>2, <3>6, <4>1
    <3>7. QED
      BY <3>4, <3>5, <3>6
  <2>5. QED
    BY <2>3, <2>4
<1>14. CASE a = "google_gemini" /\ read = Read(r.text, <<>>, x) /\ (r.text # <<>> \/ r.calls = <<>>)
  <2>1. /\ read.text = r.text /\ read.calls = <<>> /\ read.reason = x
        /\ (read.raised <=> x = "raised")
    BY <1>14, ReadFields
  <2>2. Numbers(r) = <<>> <=> r.calls = <<>>
    BY <1>5, NumbersAre
  <2>3. CASE x = "raised"
    <3>1. Apart(a, r, x)
      BY <2>3 DEF Apart
    <3>2. QED
      BY <1>3, <1>7, <2>1, <2>3, <3>1
  <2>4. CASE x # "raised"
    <3>1. f = Prepared(r.text, <<>>, TRUE, x)
      BY <1>4, <2>1, <2>4
    <3>2. /\ r.text # <<>> => f = Read(r.text, <<>>, x)
          /\ r.text = <<>> => f = Failed
      BY <1>6, <3>1, Prepares, Zenon
    <3>3. CASE r.text = <<>>
      <4>1. Apart(a, r, x)
        BY <1>14, <3>3 DEF Apart
      <4>2. QED
        BY <1>2, <1>7, <3>2, <3>3, <4>1
    <3>4. CASE r.text # <<>>
      <4>1. ~f.raised /\ f.calls = <<>> /\ f.text = r.text
        BY <2>4, <3>2, <3>4, ReadFields
      <4>2. Wholly(r, f) <=> r.calls = <<>>
        BY <2>2, <4>1, Zenon DEF Wholly
      <4>3. Apart(a, r, x) <=> r.calls # <<>>
        BY <1>14, <2>4, <3>4 DEF Apart
      <4>4. Partly(r, f)
        BY <1>8, <4>1, Zenon DEF Partly
      <4>5. QED
        BY <4>2, <4>3, <4>4
    <3>5. QED
      BY <3>3, <3>4
  <2>5. QED
    BY <2>3, <2>4
<1>15. CASE a = "google_gemini" /\ read = Read(<<>>, <<1>>, x) /\ Dictionary(r, 1)
            /\ r.text = <<>> /\ r.calls # <<>>
  <2>1. /\ read.text = <<>> /\ read.calls = <<1>> /\ read.reason = x
        /\ (read.raised <=> x = "raised")
    BY <1>15, ReadFields
  <2>2. CASE x = "raised"
    <3>1. Apart(a, r, x)
      BY <2>2 DEF Apart
    <3>2. QED
      BY <1>3, <1>7, <2>1, <2>2, <3>1
  <2>3. CASE x # "raised"
    <3>1. f = Prepared(<<>>, <<1>>, TRUE, x)
      BY <1>4, <2>1, <2>3
    <3>2. <<1>> # <<>>
      OBVIOUS
    <3>3. ~f.raised /\ f.calls = <<1>>
      <4>1. f = Read(<<>>, <<1>>, "function_calls")
        BY <1>6, <3>1, <3>2, Prepares, Zenon
      <4>2. QED
        BY <4>1, ReadFields
    <3>4. Wholly(r, f) <=> Len(r.calls) = 1
      <4>1. Numbers(r) = <<1>> <=> Len(r.calls) = 1
        BY <1>5, NumbersAre
      <4>2. QED
        BY <1>15, <3>3, <4>1, Zenon DEF Wholly
    <3>5. Apart(a, r, x) <=> Len(r.calls) > 1
      <4>1. Apart(a, r, x) <=> Len(r.calls) > 1 \/ "noargs" \in ToSet(r.calls)
        BY <1>15, <2>3 DEF Apart
      <4>2. "noargs" \in ToSet(r.calls) => Len(r.calls) > 1
        <5>1. "noargs" \in ToSet(r.calls) => \E k \in DOMAIN r.calls : ~Dictionary(r, k)
          BY <1>5, NoArguments
        <5>2. \A k \in DOMAIN r.calls : ~Dictionary(r, k) => k # 1
          BY <1>15
        <5>3. \A k \in DOMAIN r.calls : k # 1 => Len(r.calls) > 1
          BY <1>5
        <5>4. QED
          BY <5>1, <5>2, <5>3
      <4>3. QED
        BY <4>1, <4>2
    <3>6. Len(r.calls) = 1 <=> ~(Len(r.calls) > 1)
      <4>1. PICK n \in Nat : n = Len(r.calls)
        BY <1>5
      <4>2. n # 0
        BY <1>5, <1>15, <4>1
      <4>3. n = 1 <=> ~(n > 1)
        BY <4>2
      <4>4. QED
        BY <4>1, <4>3, Zenon
    <3>7. Partly(r, f)
      BY <1>8, <1>15, <3>2, <3>3, Zenon DEF Partly
    <3>8. QED
      BY <3>4, <3>5, <3>6, <3>7
  <2>4. QED
    BY <2>2, <2>3
<1>16. QED
  BY <1>1, <1>9, <1>10, <1>11, <1>12, <1>13, <1>14, <1>15 DEF Taking

\* A plain reply in the adapter's words.
LEMMA PlainTaken ==
  ASSUME AdapterInv
  PROVE  \E x \in FinishReasons \cup {"raised"} :
           /\ Apart(adapter, reply, x) <=> PlainDiffers
           /\ Taking(adapter, reply, x, PlainReply(adapter, reply))
<1>1. PICK s : s = [reply EXCEPT !.calls = <<>>, !.text = <<1>>]
  OBVIOUS
<1>2. /\ reply \in Said /\ adapter \in Streaming \cup PlainOnly
      /\ (adapter \in Untooled => reply.calls = <<>>)
  BY DEF AdapterInv, WellSaid
<1>3. s \in Said /\ s.reason = reply.reason /\ s.calls = <<>> /\ s.text # <<>>
  <2>1. <<>> \in Seq({"args", "noargs"}) /\ <<1>> \in Seq(Nat) /\ <<1>> # <<>>
    OBVIOUS
  <2>2. QED
    BY <1>1, <1>2, <2>1 DEF Said
<1>4. Shape(adapter, reply, s)
  BY <1>2, <1>3, PlainShape
<1>5. PICK x \in FinishReasons \cup {"raised"} :
        /\ PlainReply(adapter, s).raised <=> x = "raised"
        /\ Taking(adapter, reply, x, PlainReply(adapter, reply))
  BY <1>4 DEF Shape
<1>6. Apart(adapter, reply, x) <=> PlainDiffers
  BY <1>1, <1>5, Zenon DEF Apart, PlainDiffers
<1>7. QED
  BY <1>5, <1>6

\* PlainIsWhole, of the reply that was made.
LEMMA PlainAsRead == AdapterInv => PlainIsWhole
<1> SUFFICES ASSUME AdapterInv, ~streamed, final \notin {NULL, Refusal}
             PROVE  Wholly(reply, final) <=> ~PlainDiffers
  BY Zenon DEF PlainIsWhole, Wholly
<1>1. final = Plain(adapter, reply) /\ reply \in Said
  BY DEF AdapterInv, Ended, WellSaid
<1>2. PICK x \in FinishReasons \cup {"raised"} :
        /\ Apart(adapter, reply, x) <=> PlainDiffers
        /\ Taking(adapter, reply, x, PlainReply(adapter, reply))
  BY PlainTaken
<1>3. Wholly(reply, final) <=> ~Apart(adapter, reply, x)
  BY <1>1, <1>2, PlainWhole
<1>4. QED
  BY <1>2, <1>3

\* FinishedIsWhole, of a stream and of a plain reply.
LEMMA FinishedAsSaid == AdapterInv => FinishedIsWhole
<1> SUFFICES ASSUME AdapterInv, Completed
             PROVE  /\ final.calls = <<>> /\ final.reason # "unknown" => final.text = reply.text
                    /\ IsPrefix(final.calls, Numbers(reply))
                    /\ streamed => \A i \in DOMAIN final.calls :
                                     so.calls.pieces[i] = Pieces(reply, i)
  BY Zenon DEF FinishedIsWhole
<1>1. CASE streamed
  BY <1>1, StreamWhole
<1>2. CASE ~streamed
  <2>1. Refusal.raised
    BY DEF Refusal, Failed, Read
  <2>2. ~final.raised /\ final = Plain(adapter, reply) /\ reply \in Said
    BY <1>2, <2>1 DEF AdapterInv, Ended, WellSaid, Completed
  <2>3. Partly(reply, final)
    BY <2>2, PlainTaken, PlainWhole
  <2>4. QED
    BY <1>2, <2>2, <2>3 DEF Partly
<1>3. QED
  BY <1>1, <1>2

\* A text that is said to have finished is the whole text, and the calls are the
\* reply's own with all of their arguments, wherever the stream was cut.
THEOREM AFinishedStreamIsWhole == StreamSpec => []FinishedIsWhole
  BY StreamInvariance, FinishedAsSaid, PTL

\* A plain reply is completed with all of its text or its calls, except exactly
\* where PlainDiffers says, for texts and calls of any length.
THEOREM APlainReplyIsWhole == StreamSpec => []PlainIsWhole
  BY StreamInvariance, PlainAsRead, PTL
=============================================================================
