--------------------------- MODULE EmbedBatchesProofs ---------------------------
(***************************************************************************)
(* Proofs about EmbedBatches, for inputs, batches and chunks of any size   *)
(* and any number of fallbacks: type correctness, that an answer holds     *)
(* every text once and in order, and that each model gets its own turn     *)
(* whole, whatever the tasks left behind by the others do.                 *)
(***************************************************************************)
EXTENDS EmbedBatches, FiniteSetTheorems, SequenceTheorems, TLAPS

\* FlattenSeq is no fold: any operation serves for its facts.
Latest(ctx, state, e) == e

Flat == INSTANCE FoldFacts WITH Op <- Latest

-----------------------------------------------------------------------------
\* How many texts the first b batches of size s hold, of t texts.
Upto(t, s, b) == IF b * s <= t THEN b * s ELSE t

\* The outputs of a model about the first n texts.
Whole(m, n) == [p \in 1..n |-> [by |-> m, text |-> p, index |-> (p - 1) % size[m]]]

\* What the integer division of the number of batches is.
LEMMA Division ==
  ASSUME NEW a \in Nat, NEW s \in Nat \ {0}
  PROVE  /\ a \div s \in Nat
         /\ (a \div s) * s <= a
         /\ a < (a \div s) * s + s
  OBVIOUS

\* A remainder is what is left below the divisor.
LEMMA Remainder ==
  ASSUME NEW c \in Nat, NEW s \in Nat \ {0}, NEW r \in 0..(s - 1)
  PROVE  (c * s + r) % s = r
  OBVIOUS

\* How many batches of size s t texts take.
NumBatches(t, s) == (t + s - 1) \div s

\* The batches hold all texts, and each of them at least one of its own.
LEMMA BatchesCover ==
  ASSUME NEW t \in Nat, NEW s \in Nat \ {0}
  PROVE  /\ NumBatches(t, s) \in Nat /\ NumBatches(t, s) <= t
         /\ \A b \in Nat : b >= NumBatches(t, s) => Upto(t, s, b) = t
         /\ \A b \in 1..NumBatches(t, s) : (b - 1) * s < t
<1> DEFINE n == NumBatches(t, s)
<1>1. t + s - 1 \in Nat
  OBVIOUS
<1>2. n \in Nat /\ n * s <= t + s - 1 /\ t + s - 1 < n * s + s
  BY <1>1, Division DEF NumBatches
<1> HIDE DEF n
<1>3. t <= n * s /\ (n - 1) * s < t
  <2>1. (n - 1) * s = n * s - s /\ n * s \in Nat
    BY <1>2
  <2>2. QED
    BY <1>2, <2>1
<1>4. ASSUME NEW b \in Nat, b >= n PROVE Upto(t, s, b) = t
  <2>1. b * s >= n * s /\ b * s \in Nat /\ n * s \in Nat
    BY <1>2, <1>4
  <2>2. b * s >= t
    BY <1>3, <2>1
  <2>3. QED
    BY <2>1, <2>2 DEF Upto
<1>5. ASSUME NEW b \in 1..n PROVE (b - 1) * s < t
  <2>1. (b - 1) * s <= (n - 1) * s /\ (b - 1) * s \in Int /\ (n - 1) * s \in Int
    BY <1>2
  <2>2. QED
    BY <1>3, <2>1
<1>6. n <= t
  <2>1. CASE n = 0
    BY <2>1
  <2>2. CASE n # 0
    <3>1. n - 1 \in Nat
      BY <1>2, <2>2
    <3>2. n - 1 <= (n - 1) * s
      BY <3>1
    <3>3. (n - 1) * s \in Nat
      BY <3>1
    <3>4. QED
      BY <1>2, <1>3, <3>1, <3>2, <3>3
  <2>3. QED
    BY <2>1, <2>2
<1>7. QED
  BY <1>2, <1>4, <1>5, <1>6 DEF n

\* The batches of a model.
LEMMA BatchesOf ==
  ASSUME NEW m \in Models, size[m] \in Nat \ {0}, texts \in Nat
  PROVE  /\ Batches(m) \in Nat /\ Batches(m) <= texts
         /\ \A b \in Nat : b >= Batches(m) => Upto(texts, size[m], b) = texts
         /\ \A b \in 1..Batches(m) : (b - 1) * size[m] < texts
<1>1. Batches(m) = NumBatches(texts, size[m])
  BY DEF Batches, NumBatches
<1>2. QED
  BY <1>1, BatchesCover

\* A batch is what the texts up to it have that those before it have not.
LEMMA BatchSize ==
  ASSUME NEW m \in Models, size[m] \in Nat \ {0}, texts \in Nat, NEW b \in 1..Batches(m)
  PROVE  /\ Upto(texts, size[m], b - 1) = (b - 1) * size[m]
         /\ Upto(texts, size[m], b) \in Nat
         /\ Cardinality(Batch(m, b)) = Upto(texts, size[m], b) - (b - 1) * size[m]
         /\ Cardinality(Batch(m, b)) \in 1..size[m]
<1> DEFINE s == size[m]
           low == (b - 1) * s
           high == Upto(texts, s, b)
<1>1. s \in Nat \ {0} /\ Batches(m) \in Nat /\ b \in Nat \ {0} /\ low < texts
  <2>1. /\ Batches(m) \in Nat
        /\ \A c \in 1..Batches(m) : (c - 1) * s < texts
    BY BatchesOf
  <2>2. QED
    BY <2>1
<1>2. low \in Nat /\ b * s = low + s
  BY <1>1
<1>3. high \in Nat /\ low < high /\ high <= low + s /\ high <= texts
  BY <1>1, <1>2 DEF Upto
<1>4. Upto(texts, s, b - 1) = low
  BY <1>1, <1>2 DEF Upto
<1>5. Batch(m, b) = (low + 1)..high
  <2>1. \A p \in 1..texts : p <= b * s <=> p <= high
    BY <1>1, <1>2 DEF Upto
  <2>2. Batch(m, b) = {p \in 1..texts : low < p /\ p <= high}
    BY <2>1 DEF Batch
  <2> HIDE DEF low, high
  <2>3. QED
    BY <1>2, <1>3, <2>2
<1> HIDE DEF low, high
<1>6. Cardinality(Batch(m, b)) = high - low
  <2>1. low + 1 \in Int /\ high \in Int /\ ~(low + 1 > high)
    BY <1>2, <1>3
  <2>2. Cardinality((low + 1)..high) = high - (low + 1) + 1
    BY <2>1, FS_Interval
  <2>3. QED
    BY <1>2, <1>3, <1>5, <2>2
<1>7. high - low \in 1..s
  BY <1>1, <1>2, <1>3
<1>8. QED
  BY <1>3, <1>4, <1>6, <1>7 DEF low, high

\* One more batch.
LEMMA OneBatch ==
  ASSUME NEW m \in Models, size[m] \in Nat \ {0}, texts \in Nat, NEW b \in 1..Batches(m)
  PROVE  Whole(m, Upto(texts, size[m], b - 1)) \o Outputs(m, b) = Whole(m, Upto(texts, size[m], b))
<1> DEFINE s == size[m]
           low == (b - 1) * s
           n == Cardinality(Batch(m, b))
           W(p) == [by |-> m, text |-> p, index |-> (p - 1) % s]
           O(k) == [by |-> m, text |-> low + k, index |-> k - 1]
<1>1. s \in Nat \ {0} /\ low \in Nat /\ b - 1 \in Nat
  OBVIOUS
<1>2. /\ Upto(texts, s, b - 1) = low /\ Upto(texts, s, b) = low + n
      /\ n \in 1..s
  <2>1. /\ Upto(texts, s, b - 1) = low
        /\ Upto(texts, s, b) \in Nat
        /\ n = Upto(texts, s, b) - low
        /\ n \in 1..s
    BY BatchSize
  <2> HIDE DEF low, n
  <2>2. QED
    BY <1>1, <2>1
<1>3. ASSUME NEW k \in 1..n PROVE W(low + k) = O(k)
  <2>1. k - 1 \in 0..(s - 1) /\ low + k - 1 = (b - 1) * s + (k - 1)
    BY <1>1, <1>2
  <2>2. (low + k - 1) % s = k - 1
    BY <1>1, <2>1, Remainder
  <2>3. QED
    BY <2>2
<1>4. /\ Whole(m, low) = [p \in 1..low |-> W(p)]
      /\ Whole(m, low + n) = [p \in 1..(low + n) |-> W(p)]
      /\ Outputs(m, b) = [k \in 1..n |-> O(k)]
  BY DEF Whole, Outputs
<1> HIDE DEF low, n, W, O
<1>5. [p \in 1..low |-> W(p)] \o [k \in 1..n |-> O(k)] = [p \in 1..(low + n) |-> W(p)]
  BY <1>1, <1>2, <1>3
<1>6. QED
  BY <1>2, <1>4, <1>5

\* An embedding of a text, and what it takes for outputs to be such.
Output == [by : Models, text : Nat, index : Nat]

\* What a model has made of the first n texts, and of a batch, are sequences of
\* embeddings.
LEMMA OutputTypes ==
  ASSUME NEW m \in Models, size[m] \in Nat \ {0}
  PROVE  /\ \A n \in Nat : Whole(m, n) \in Seq(Output)
         /\ texts \in Nat => \A b \in 1..Batches(m) : Outputs(m, b) \in Seq(Output)
<1>1. ASSUME NEW n \in Nat PROVE Whole(m, n) \in Seq(Output)
  <2>1. \A p \in 1..n : (p - 1) % size[m] \in Nat
    OBVIOUS
  <2>2. \A p \in 1..n : [by |-> m, text |-> p, index |-> (p - 1) % size[m]] \in Output
    BY <2>1 DEF Output
  <2>3. QED
    BY <2>2 DEF Whole
<1>2. ASSUME texts \in Nat, NEW b \in 1..Batches(m) PROVE Outputs(m, b) \in Seq(Output)
  <2> DEFINE n == Cardinality(Batch(m, b))
             low == (b - 1) * size[m]
  <2>1. n \in Nat /\ low \in Nat
    BY <1>2, BatchSize
  <2>2. \A k \in 1..n : low + k \in Nat /\ k - 1 \in Nat
    BY <2>1
  <2> HIDE DEF n, low
  <2>3. \A k \in 1..n : [by |-> m, text |-> low + k, index |-> k - 1] \in Output
    BY <2>2 DEF Output
  <2>4. [k \in 1..n |-> [by |-> m, text |-> low + k, index |-> k - 1]] \in Seq(Output)
    BY <2>1, <2>3
  <2>5. QED
    BY <2>4 DEF Outputs, n, low
<1>3. QED
  BY <1>1, <1>2

\* The outputs of k batches in a row, the first of them the batch f.
InRow(m, f, k) == [j \in 1..k |-> Outputs(m, f + j - 1)]

\* The outputs of a row of batches continue those of the batches before it.
LEMMA ManyBatches ==
  ASSUME NEW m \in Models, size[m] \in Nat \ {0}, texts \in Nat, NEW f \in Nat \ {0}
  PROVE  \A k \in Nat : f - 1 + k <= Batches(m) =>
           Whole(m, Upto(texts, size[m], f - 1)) \o FlattenSeq(InRow(m, f, k))
             = Whole(m, Upto(texts, size[m], f - 1 + k))
<1> DEFINE s == size[m]
           W(b) == Whole(m, Upto(texts, s, b))
           F(k) == FlattenSeq(InRow(m, f, k))
           Continues(k) == InRow(m, f, k) \in Seq(Seq(Output)) /\ W(f - 1) \o F(k) = W(f - 1 + k)
           T == {k \in Nat : f - 1 + k <= Batches(m) => Continues(k)}
<1>1. \A seqs : FlattenSeq(seqs) = Flat!FlattenSeq(seqs)
  BY DEF FlattenSeq, Flat!FlattenSeq
<1>2. Batches(m) \in Nat
  BY BatchesOf
<1>3. \A b \in Nat : W(b) \in Seq(Output)
  <2>1. \A b \in Nat : Upto(texts, s, b) \in Nat
    BY DEF Upto
  <2>2. QED
    BY <2>1, OutputTypes
<1>4. 0 \in T
  <2>1. InRow(m, f, 0) = <<>>
    BY DEF InRow
  <2>2. F(0) = <<>>
    BY <2>1 DEF FlattenSeq
  <2>3. f - 1 \in Nat /\ f - 1 + 0 = f - 1
    OBVIOUS
  <2>4. W(f - 1) \o <<>> = W(f - 1)
    <3>1. W(f - 1) \in Seq(Output)
      BY <1>3, <2>3
    <3> HIDE DEF W
    <3>2. QED
      BY <3>1
  <2>5. <<>> \in Seq(Seq(Output))
    OBVIOUS
  <2> HIDE DEF W, F
  <2>6. Continues(0)
    BY <2>1, <2>2, <2>3, <2>4, <2>5
  <2>7. QED
    BY <2>6
<1>5. ASSUME NEW k \in Nat, k \in T
      PROVE  k + 1 \in T
  <2> SUFFICES ASSUME f - 1 + (k + 1) <= Batches(m) PROVE Continues(k + 1)
    OBVIOUS
  <2> DEFINE row == InRow(m, f, k)
             b == f + k
             out == Outputs(m, b)
             head == W(f - 1)
  <2>1. f - 1 + k <= Batches(m) /\ b \in 1..Batches(m) /\ b - 1 = f - 1 + k
        /\ f - 1 + (k + 1) = b /\ f - 1 \in Nat
    BY <1>2
  <2>2. row \in Seq(Seq(Output)) /\ head \o FlattenSeq(row) = W(b - 1)
    BY <1>5, <2>1
  <2>3. out \in Seq(Output)
    BY <2>1, OutputTypes
  <2>4. InRow(m, f, k + 1) = Append(row, out)
    <3>1. f + (k + 1) - 1 = b
      OBVIOUS
    <3>2. row = [j \in 1..k |-> Outputs(m, f + j - 1)]
      BY DEF InRow
    <3>3. InRow(m, f, k + 1) = [j \in 1..(k + 1) |-> Outputs(m, f + j - 1)]
      BY DEF InRow
    <3>4. QED
      BY <3>1, <3>2, <3>3, SMTT(30)
  <2>5. head \in Seq(Output)
    BY <1>3, <2>1
  <2>6. W(b - 1) \o out = W(b)
    BY <2>1, OneBatch
  <2> HIDE DEF row, b, out, head, W
  <2>7. FlattenSeq(row) \in Seq(Output) /\ FlattenSeq(Append(row, out)) = FlattenSeq(row) \o out
    BY <1>1, <2>2, <2>3, Flat!FlattenAppend
  <2>8. head \o (FlattenSeq(row) \o out) = (head \o FlattenSeq(row)) \o out
    <3> DEFINE flat == FlattenSeq(row)
    <3>1. flat \in Seq(Output)
      BY <2>7
    <3> HIDE DEF flat
    <3>2. (head \o flat) \o out = head \o (flat \o out)
      BY <2>3, <2>5, <3>1, ConcatAssociative, SMTT(30)
    <3>3. QED
      BY <3>2 DEF flat
  <2>9. Append(row, out) \in Seq(Seq(Output))
    BY <2>2, <2>3
  <2>10. QED
    BY <2>1, <2>2, <2>4, <2>6, <2>7, <2>8, <2>9 DEF head
<1> HIDE DEF T
<1>6. \A k \in Nat : k \in T
  BY <1>4, <1>5, Flat!Induction
<1>7. QED
  BY <1>6 DEF T

-----------------------------------------------------------------------------
\* merged_results holds the outputs of the model being tried about the texts
\* of the batches before the current chunk; an answer comes after the last.
MergedInv ==
  /\ merged = Whole(turn, Upto(texts, size[turn], first - 1))
  /\ answer \in {NULL, Error} \/ (answer = Answer(turn) /\ first > Batches(turn))

IInv == TypeOK /\ MergedInv

\* What is known of the model being tried.
LEMMA Sizes ==
  ASSUME TypeOK
  PROVE  /\ turn \in Models /\ texts \in Nat /\ size[turn] \in Nat \ {0} /\ first \in Nat \ {0}
         /\ Batches(turn) \in Nat /\ Batches(turn) <= texts /\ texts <= MaxTexts
         /\ \A m \in Models : size[m] \in 1..MaxSize
<1>1. /\ turn \in Models /\ texts \in Nat /\ texts <= MaxTexts /\ first \in Nat \ {0}
      /\ \A m \in Models : size[m] \in 1..MaxSize
  BY EmbedAssumption DEF TypeOK
<1>2. size[turn] \in Nat \ {0}
  BY <1>1, EmbedAssumption
<1>3. Batches(turn) \in Nat /\ Batches(turn) <= texts
  BY <1>1, <1>2, BatchesOf
<1>4. QED
  BY <1>1, <1>2, <1>3

\* The outputs about texts of the input have the types that are asked for.
LEMMA WholeType ==
  ASSUME NEW m \in Models, size[m] \in 1..MaxSize, texts \in Nat, NEW n \in 0..texts
  PROVE  Whole(m, n) \in Seq([by : Models, text : 1..texts, index : 0..(MaxSize - 1)])
<1>1. \A p \in 1..n : p \in 1..texts /\ (p - 1) % size[m] \in 0..(MaxSize - 1)
  BY EmbedAssumption
<1>2. QED
  BY <1>1 DEF Whole

\* A chunk is a row of batches.
LEMMA ChunkIsRow ==
  ASSUME TypeOK, Chunk # {}
  PROVE  /\ first <= Batches(turn)
         /\ Cardinality(Chunk) \in Nat
         /\ first - 1 + Cardinality(Chunk) <= Batches(turn)
         /\ \/ Cardinality(Chunk) = MaxParallel
            \/ /\ Cardinality(Chunk) < MaxParallel
               /\ first - 1 + Cardinality(Chunk) = Batches(turn)
<1> DEFINE n == Batches(turn)
           last == IF first + MaxParallel - 1 <= n THEN first + MaxParallel - 1 ELSE n
<1>1. n \in Nat /\ first \in Nat \ {0} /\ MaxParallel \in Nat \ {0}
  BY Sizes, EmbedAssumption
<1>2. Chunk = {b \in 1..n : first <= b /\ b < first + MaxParallel}
  BY DEF Chunk
<1> HIDE DEF n
<1>3. first <= n
  BY <1>1, <1>2
<1>4. last \in Nat /\ first <= last
  BY <1>1, <1>3
<1>5. Chunk = first..last
  BY <1>1, <1>2, <1>3
<1>6. Cardinality(Chunk) = last - first + 1
  BY <1>1, <1>4, <1>5, FS_Interval
<1>7. QED
  BY <1>1, <1>3, <1>4, <1>6 DEF n

\* A request starts with no outputs.
LEMMA Initially == Init => IInv
<1> SUFFICES ASSUME Init PROVE IInv
  OBVIOUS
<1>1. /\ barred \subseteq Models /\ turn = 1 /\ answer = NULL /\ texts \in 0..MaxTexts
      /\ size \in [Models -> 1..MaxSize] /\ first = 1 /\ merged = <<>>
      /\ task = [mb \in Models \X (1..MaxTexts) |-> "none"]
  BY DEF Init, FallbackInit
<1>2. turn \in Models
  BY <1>1, ModelsAssumption DEF Models
<1>3. TypeOK
  <2>1. first \in 1..(MaxTexts + MaxParallel)
    BY <1>1, EmbedAssumption
  <2>2. task \in [Models \X (1..MaxTexts) -> {"none", "running", "done", "failed"}]
    BY <1>1
  <2>3. merged \in Seq([by : Models, text : 1..texts, index : 0..(MaxSize - 1)])
    BY <1>1
  <2>4. QED
    BY <1>1, <1>2, <2>1, <2>2, <2>3 DEF TypeOK
<1>4. merged = Whole(turn, Upto(texts, size[turn], first - 1))
  <2>1. size[turn] \in Nat \ {0} /\ texts \in Nat
    BY <1>3, Sizes
  <2>2. Upto(texts, size[turn], 0) = 0
    BY <2>1 DEF Upto
  <2>3. Whole(turn, 0) = <<>>
    BY DEF Whole
  <2>4. first - 1 = 0
    BY <1>1
  <2>5. QED
    BY <1>1, <2>2, <2>3, <2>4
<1>5. QED
  BY <1>1, <1>3, <1>4 DEF IInv, MergedInv

\* A chunk that has succeeded adds its outputs behind those before it.
LEMMA GatheredKeeps ==
  ASSUME IInv, Gathered
  PROVE  IInv'
<1> DEFINE n == Cardinality(Chunk)
           s == size[turn]
           f == first
<1>1. /\ Chunk # {} /\ answer = NULL /\ first' = f + MaxParallel
      /\ merged' = merged \o FlattenSeq(InRow(turn, f, n))
      /\ UNCHANGED <<fallbackVars, input, task>>
  BY DEF Gathered, InRow
<1>2. /\ f <= Batches(turn) /\ n \in Nat /\ f - 1 + n <= Batches(turn)
      /\ n = MaxParallel \/ (n < MaxParallel /\ f - 1 + n = Batches(turn))
  BY <1>1, ChunkIsRow DEF IInv
<1>3. /\ turn \in Models /\ texts \in Nat /\ s \in Nat \ {0} /\ f \in Nat \ {0}
      /\ Batches(turn) \in Nat /\ Batches(turn) <= texts /\ texts <= MaxTexts
      /\ s \in 1..MaxSize /\ MaxParallel \in Nat \ {0}
  BY Sizes, EmbedAssumption DEF IInv
<1> HIDE DEF n, f
<1>4. merged' = Whole(turn, Upto(texts, s, f - 1 + n))
  <2>1. merged = Whole(turn, Upto(texts, s, f - 1))
    BY DEF IInv, MergedInv, f
  <2>2. QED
    BY <1>1, <1>2, <1>3, <2>1, ManyBatches
<1>5. Upto(texts, s, f - 1 + n) = Upto(texts, s, first' - 1)
  <2> HIDE DEF s
  <2>1. CASE n = MaxParallel
    <3>1. f - 1 + n = first' - 1
      BY <1>1, <1>3, <2>1
    <3>2. QED
      BY <3>1
  <2>2. CASE n < MaxParallel /\ f - 1 + n = Batches(turn)
    <3>1. first' - 1 \in Nat /\ first' - 1 >= Batches(turn)
      BY <1>1, <1>2, <1>3, <2>2
    <3>2. \A b \in Nat : b >= Batches(turn) => Upto(texts, s, b) = texts
      BY <1>3, BatchesOf DEF s
    <3>3. QED
      BY <1>3, <2>2, <3>1, <3>2
  <2>3. QED
    BY <1>2, <2>1, <2>2
<1>6. first' \in 1..(MaxTexts + MaxParallel)
  BY <1>1, <1>2, <1>3, EmbedAssumption
<1>7. Upto(texts, s, f - 1 + n) \in 0..texts
  <2>1. f - 1 + n \in Nat
    BY <1>2, <1>3
  <2> HIDE DEF s
  <2>2. (f - 1 + n) * s \in Nat
    BY <1>3, <2>1
  <2>3. QED
    BY <1>3, <2>2 DEF Upto
<1>8. merged' \in Seq([by : Models, text : 1..texts, index : 0..(MaxSize - 1)])
  BY <1>3, <1>4, <1>7, WholeType
<1>9. TypeOK'
  BY <1>1, <1>6, <1>8 DEF IInv, TypeOK, fallbackVars, input
<1>10. MergedInv'
  <2>1. /\ answer' = NULL /\ turn' = turn /\ texts' = texts /\ size' = size
    BY <1>1 DEF fallbackVars, input
  <2>2. merged' = Whole(turn, Upto(texts, s, first' - 1))
    BY <1>4, <1>5
  <2>3. QED
    BY <2>1, <2>2 DEF MergedInv, Whole
<1>11. QED
  BY <1>9, <1>10 DEF IInv

\* A model whose turn comes has embedded nothing.
LEMMA FreshStart ==
  ASSUME NEW t \in Nat, NEW s \in Nat \ {0}, NEW m
  PROVE  Whole(m, Upto(t, s, 1 - 1)) = <<>>
<1>1. Upto(t, s, 1 - 1) = 0
  BY DEF Upto
<1>2. Whole(m, 0) = <<>>
  BY DEF Whole
<1>3. QED
  BY <1>1, <1>2

\* A model fails with nothing left of its outputs, whether one of its tasks
\* has failed or it could not be loaded.
LEMMA FailureKeeps ==
  ASSUME IInv, GatherFails \/ LoadFails
  PROVE  IInv'
<1>1. /\ Fails /\ first' = 1
      /\ UNCHANGED <<barred, texts, size, task>>
      /\ merged' = <<>> \/ (first = 1 /\ merged' = merged)
  BY DEF GatherFails, LoadFails, Fails, input
<1>2. /\ turn \in Models /\ texts \in Nat /\ \A m \in Models : size[m] \in 1..MaxSize
      /\ size[turn] \in Nat \ {0}
  BY Sizes DEF IInv
<1>3. merged' = <<>>
  <2>1. CASE first = 1 /\ merged' = merged
    <3>1. merged = Whole(turn, Upto(texts, size[turn], 1 - 1))
      BY <2>1 DEF IInv, MergedInv
    <3>2. QED
      BY <1>2, <2>1, <3>1, FreshStart
  <2>2. QED
    BY <1>1, <2>1
<1>4. turn' \in Models /\ answer' \in {NULL, Error}
  BY <1>1, <1>2, ModelsAssumption DEF Fails, Models
<1>5. TypeOK'
  <2>1. first' \in 1..(MaxTexts + MaxParallel)
    BY <1>1, EmbedAssumption
  <2>2. merged' \in Seq([by : Models, text : 1..texts', index : 0..(MaxSize - 1)])
    BY <1>3
  <2>3. /\ barred' \subseteq Models /\ texts' \in 0..MaxTexts
        /\ size' \in [Models -> 1..MaxSize]
        /\ task' \in [Models \X (1..MaxTexts) -> {"none", "running", "done", "failed"}]
    BY <1>1 DEF IInv, TypeOK
  <2>4. QED
    BY <1>4, <2>1, <2>2, <2>3 DEF TypeOK
<1>6. MergedInv'
  <2>1. size[turn'] \in Nat \ {0}
    BY <1>2, <1>4, EmbedAssumption
  <2>2. merged' = Whole(turn, Upto(texts, size[turn], first - 1))'
    <3>1. Upto(texts', size'[turn'], first' - 1) = 0
      BY <1>1, <1>2, <2>1 DEF Upto
    <3>2. QED
      BY <1>3, <3>1 DEF Whole
  <2>3. QED
    BY <1>4, <2>2 DEF MergedInv
<1>7. QED
  BY <1>5, <1>6 DEF IInv

\* The answer of a model comes when there is no further chunk, and a refusal
\* leaves the outputs alone.
LEMMA EndKeeps ==
  ASSUME IInv, Embedded \/ SizeDiffers
  PROVE  IInv'
<1>1. /\ UNCHANGED <<barred, turn, input, first, task, merged>>
      /\ answer' = Error \/ (answer' = Answer(turn) /\ first > Batches(turn))
  BY DEF Embedded, SizeDiffers, Succeeds, Refused
<1>2. answer' \in {NULL, Error} \cup {Answer(m) : m \in Models}
  BY <1>1 DEF IInv, TypeOK
<1>3. TypeOK'
  BY <1>1, <1>2 DEF IInv, TypeOK, input
<1>4. MergedInv'
  BY <1>1 DEF IInv, MergedInv, Whole, Upto, Batches, input, Answer
<1>5. QED
  BY <1>3, <1>4 DEF IInv

\* The tasks come and go beside the outputs.
LEMMA TasksKeep ==
  ASSUME IInv, \/ StartChunk
               \/ \E m \in Models, b \in 1..MaxTexts : TaskEnds(m, b)
               \/ UNCHANGED vars
  PROVE  IInv'
<1>1. /\ UNCHANGED <<barred, turn, answer, texts, size, first, merged>>
      /\ task' \in [Models \X (1..MaxTexts) -> {"none", "running", "done", "failed"}]
  <2>1. CASE StartChunk
    BY <2>1 DEF StartChunk, fallbackVars, input, IInv, TypeOK
  <2>2. CASE \E m \in Models, b \in 1..MaxTexts : TaskEnds(m, b)
    BY <2>2 DEF TaskEnds, fallbackVars, input, IInv, TypeOK
  <2>3. CASE UNCHANGED vars
    BY <2>3 DEF vars, fallbackVars, IInv, TypeOK
  <2>4. QED
    BY <2>1, <2>2, <2>3
<1>2. TypeOK'
  BY <1>1 DEF IInv, TypeOK
<1>3. MergedInv'
  BY <1>1 DEF IInv, MergedInv, Whole, Upto, Batches
<1>4. QED
  BY <1>2, <1>3 DEF IInv

\* Every state of a request satisfies the invariant.
LEMMA Invariance == Spec => []IInv
<1>1. IInv /\ [Next]_vars => IInv'
  BY GatheredKeeps, FailureKeeps, EndKeeps, TasksKeep DEF Next, Request
<1>2. QED
  BY <1>1, Initially, PTL DEF Spec

-----------------------------------------------------------------------------
\* The variables keep their types: no output names a text that is not there,
\* and no chunk starts far behind the last batch.
THEOREM EmbedTypes == Spec => []TypeOK
<1>1. IInv => TypeOK
  BY DEF IInv
<1>2. QED
  BY <1>1, Invariance, PTL

\* An answer holds every text once, in order, by the model it names.
THEOREM AnswersAreWhole == Spec => []AnswerIsWhole
<1>1. IInv => AnswerIsWhole
  <2> SUFFICES ASSUME IInv, answer \notin {NULL, Error} PROVE AnswerIsWhole
    BY DEF AnswerIsWhole
  <2>1. answer = Answer(turn) /\ first > Batches(turn)
    BY DEF IInv, MergedInv
  <2>2. answer.by = turn
    BY <2>1 DEF Answer
  <2>3. /\ turn \in Models /\ texts \in Nat /\ size[turn] \in Nat \ {0}
        /\ first - 1 \in Nat /\ first - 1 >= Batches(turn)
    BY <2>1, Sizes DEF IInv
  <2>4. Upto(texts, size[turn], first - 1) = texts
    BY <2>3, BatchesOf
  <2>5. merged = Whole(turn, texts)
    BY <2>4 DEF IInv, MergedInv
  <2>6. QED
    BY <2>2, <2>5 DEF Whole, AnswerIsWhole
<1>2. QED
  BY <1>1, Invariance, PTL

-----------------------------------------------------------------------------
\* The tasks of the model being tried: those before the current chunk have
\* succeeded, and those behind it are not there yet.
TasksOfTurn ==
  \A b \in 1..MaxTexts :
    /\ b <= Batches(turn) /\ b < first => task[<<turn, b>>] = "done"
    /\ b > Batches(turn) \/ b >= first + MaxParallel => task[<<turn, b>>] = "none"

TurnInv == EachTurnIsOwn /\ (answer = NULL => TasksOfTurn)

\* No model before the first has failed, and none has been started.
LEMMA TurnInitially == Init => TurnInv
<1> SUFFICES ASSUME Init PROVE TurnInv
  OBVIOUS
<1>1. /\ turn = 1 /\ answer = NULL /\ first = 1 /\ NULL # Error
      /\ \A m \in Models, b \in 1..MaxTexts : task[<<m, b>>] = "none"
  BY NoneAssumption DEF Init, FallbackInit
<1>2. N \in Nat \ {0} /\ Models = 1..N
  BY ModelsAssumption DEF Models
<1>3. \A m \in 2..N : Unstarted(m)
  <2>1. \A m \in 2..N : m \in Models
    BY <1>2
  <2>2. QED
    BY <1>1, <2>1 DEF Unstarted
<1>4. EachTurnIsOwn
  BY <1>1, <1>2, <1>3 DEF EachTurnIsOwn
<1>5. TasksOfTurn
  BY <1>1, <1>2 DEF TasksOfTurn
<1>6. QED
  BY <1>4, <1>5 DEF TurnInv

\* What the batches of a model and the tasks are.
LEMMA TaskFacts ==
  ASSUME TypeOK
  PROVE  /\ N \in Nat \ {0} /\ Models = 1..N /\ turn \in 1..N
         /\ first \in Nat \ {0} /\ MaxParallel \in Nat \ {0} /\ MaxTexts \in Nat
         /\ \A m \in Models : Batches(m) \in 0..MaxTexts
         /\ DOMAIN task = Models \X (1..MaxTexts)
<1>1. /\ texts \in 0..MaxTexts /\ \A m \in Models : size[m] \in Nat \ {0}
  BY EmbedAssumption DEF TypeOK
<1>2. \A m \in Models : Batches(m) \in 0..MaxTexts
  BY <1>1, BatchesOf, EmbedAssumption
<1>3. QED
  BY <1>2, Sizes, ModelsAssumption, EmbedAssumption DEF TypeOK, Models

\* A model that fails has failed itself, and the next one starts afresh.
LEMMA FailureKeepsTurns ==
  ASSUME TypeOK, TurnInv, GatherFails \/ LoadFails
  PROVE  TurnInv'
<1>1. /\ Fails /\ first' = 1 /\ UNCHANGED <<barred, texts, size, task>>
      /\ answer = NULL /\ turn \notin barred /\ EachTurnIsOwn /\ TasksOfTurn
  BY DEF GatherFails, LoadFails, Fails, input, TurnInv
<1>2. /\ N \in Nat \ {0} /\ Models = 1..N /\ turn \in 1..N
      /\ first \in Nat \ {0} /\ MaxParallel \in Nat \ {0} /\ MaxTexts \in Nat
      /\ \A m \in Models : Batches(m) \in 0..MaxTexts
  BY TaskFacts
<1>3. FailedItself(turn)
  <2>1. CASE GatherFails
    <3>1. PICK b \in Chunk : task[<<turn, b>>] = "failed"
      BY <2>1 DEF GatherFails
    <3>2. b \in 1..Batches(turn)
      BY DEF Chunk
    <3>3. QED
      BY <1>1, <3>1, <3>2 DEF FailedItself
  <2>2. CASE LoadFails
    <3>1. first = 1 /\ \A b \in Chunk : task[<<turn, b>>] = "none"
      BY <2>2 DEF LoadFails
    <3>2. ASSUME NEW b \in 1..MaxTexts PROVE task[<<turn, b>>] = "none"
      <4>1. b \in Chunk \/ b > Batches(turn) \/ b >= first + MaxParallel
        BY <1>2, <3>1 DEF Chunk
      <4>2. QED
        BY <1>1, <3>1, <4>1 DEF TasksOfTurn
    <3>3. QED
      BY <1>1, <3>2 DEF FailedItself, Unstarted
  <2>3. QED
    BY <2>1, <2>2
<1>4. /\ \A m \in Models : Batches(m)' = Batches(m)
      /\ \A m \in Models : Unstarted(m)' = Unstarted(m) /\ FailedItself(m)' = FailedItself(m)
  BY <1>1 DEF Batches, Unstarted, FailedItself
<1>5. CASE turn < N /\ turn' = turn + 1 /\ UNCHANGED answer
  <2>1. \A m \in 1..turn : FailedItself(m)
    BY <1>1, <1>2, <1>3 DEF EachTurnIsOwn
  <2>2. \A m \in (turn + 1)..N : Unstarted(m)
    BY <1>1 DEF EachTurnIsOwn
  <2>3. /\ \A m \in 1..(turn' - 1) : FailedItself(m)'
        /\ \A m \in (turn' + 1)..N : Unstarted(m)'
    <3>1. \A m \in 1..turn : m \in Models
      BY <1>2
    <3>2. \A m \in (turn' + 1)..N : m \in Models /\ m \in (turn + 1)..N
      BY <1>2, <1>5
    <3>3. 1..(turn' - 1) = 1..turn
      BY <1>2, <1>5
    <3>4. QED
      BY <1>4, <2>1, <2>2, <3>1, <3>2, <3>3
  <2>4. answer' = NULL /\ NULL # Error
    BY <1>1, <1>5, NoneAssumption
  <2>5. EachTurnIsOwn'
    BY <2>3, <2>4 DEF EachTurnIsOwn
  <2>6. turn' \in Models /\ Unstarted(turn')
    BY <1>2, <1>5, <2>2
  <2>7. TasksOfTurn'
    <3>1. \A b \in 1..MaxTexts : task'[<<turn', b>>] = "none" /\ ~(b < first')
      <4>1. \A b \in 1..MaxTexts : task[<<turn', b>>] = "none"
        BY <2>6 DEF Unstarted
      <4>2. task' = task /\ first' = 1
        BY <1>1
      <4>3. \A b \in 1..MaxTexts : ~(b < 1)
        BY EmbedAssumption
      <4>4. QED
        BY <4>1, <4>2, <4>3
    <3>2. QED
      BY <3>1 DEF TasksOfTurn
  <2>8. QED
    BY <2>5, <2>7 DEF TurnInv
<1>6. CASE turn = N /\ answer' = Error /\ UNCHANGED turn
  <2>1. /\ \A m \in 1..(turn' - 1) : FailedItself(m)'
        /\ \A m \in (turn' + 1)..N : Unstarted(m)'
        /\ FailedItself(turn)'
    <3>1. \A m \in 1..(turn - 1) : m \in Models /\ FailedItself(m)
      BY <1>1, <1>2 DEF EachTurnIsOwn
    <3>2. (turn' + 1)..N = {}
      BY <1>2, <1>6
    <3>3. FailedItself(turn)'
      BY <1>1, <1>3, <1>6 DEF FailedItself, Unstarted, Batches
    <3>4. QED
      BY <1>4, <1>6, <3>1, <3>2, <3>3
  <2>2. EachTurnIsOwn'
    BY <1>6, <2>1 DEF EachTurnIsOwn
  <2>3. answer' # NULL
    BY <1>6, NoneAssumption
  <2>4. QED
    BY <2>2, <2>3 DEF TurnInv
<1>7. QED
  BY <1>1, <1>5, <1>6 DEF Fails

\* The tasks of a chunk start with it, and each of them ends by itself.
LEMMA TasksKeepTurns ==
  ASSUME TypeOK, TurnInv,
         \/ StartChunk
         \/ \E m \in Models, b \in 1..MaxTexts : TaskEnds(m, b)
  PROVE  TurnInv'
<1>1. UNCHANGED <<barred, turn, answer, texts, size, first>>
  BY DEF StartChunk, TaskEnds, fallbackVars, input
<1>2. /\ N \in Nat \ {0} /\ Models = 1..N /\ turn \in 1..N
      /\ first \in Nat \ {0} /\ MaxParallel \in Nat \ {0} /\ MaxTexts \in Nat
      /\ \A m \in Models : Batches(m) \in 0..MaxTexts
      /\ DOMAIN task = Models \X (1..MaxTexts)
  BY TaskFacts
<1>3. \A m \in Models : Batches(m)' = Batches(m)
  BY <1>1 DEF Batches
\* A task that has ended stays so, and one that is not there is started only
\* as one of the current chunk.
<1>4. ASSUME NEW m \in Models, NEW b \in 1..MaxTexts
      PROVE  /\ task[<<m, b>>] \in {"done", "failed"} => task'[<<m, b>>] = task[<<m, b>>]
             /\ task[<<m, b>>] = "none" /\ ~(answer = NULL /\ m = turn /\ b \in Chunk)
                  => task'[<<m, b>>] = "none"
  <2>1. CASE StartChunk
    <3>1. /\ answer = NULL
          /\ \A c \in Chunk : task[<<turn, c>>] = "none"
          /\ task'[<<m, b>>] = IF m = turn /\ b \in Chunk THEN "running" ELSE task[<<m, b>>]
      BY <1>2, <2>1 DEF StartChunk
    <3>2. QED
      BY <3>1
  <2>2. CASE \E k \in Models, c \in 1..MaxTexts : TaskEnds(k, c)
    <3>1. PICK k \in Models, c \in 1..MaxTexts : TaskEnds(k, c)
      BY <2>2
    <3>2. CASE <<k, c>> = <<m, b>>
      BY <3>1, <3>2 DEF TaskEnds
    <3>3. CASE <<k, c>> # <<m, b>>
      BY <1>2, <3>1, <3>3 DEF TaskEnds
    <3>4. QED
      BY <3>2, <3>3
  <2>3. QED
    BY <2>1, <2>2
<1>5. ASSUME NEW m \in Models, m # turn \/ answer # NULL
      PROVE  /\ Unstarted(m) => Unstarted(m)'
             /\ FailedItself(m) => FailedItself(m)'
  <2>1. Unstarted(m) => Unstarted(m)'
    BY <1>4, <1>5 DEF Unstarted
  <2>2. ASSUME NEW b \in 1..Batches(m), task[<<m, b>>] = "failed"
        PROVE  task'[<<m, b>>] = "failed"
    BY <1>2, <1>4, <2>2
  <2>3. QED
    BY <1>1, <1>3, <2>1, <2>2 DEF FailedItself
<1>6. EachTurnIsOwn'
  <2>1. /\ \A m \in 1..(turn - 1) : FailedItself(m)'
        /\ \A m \in (turn + 1)..N : Unstarted(m)'
    BY <1>2, <1>5 DEF TurnInv, EachTurnIsOwn
  <2>2. answer' = Error => turn' \in barred' \/ (turn' = N /\ FailedItself(turn)')
    <3>1. ASSUME answer = Error, turn \notin barred PROVE turn = N /\ FailedItself(turn)'
      <4>1. turn = N /\ FailedItself(turn)
        BY <3>1, NoneAssumption DEF TurnInv, EachTurnIsOwn
      <4>2. \A m \in Models : m = turn => FailedItself(m)'
        BY <1>5, <3>1, <4>1, NoneAssumption
      <4>3. FailedItself(turn)'
        BY <1>1, <1>2, <4>2 DEF FailedItself, Unstarted, Batches
      <4>4. QED
        BY <4>1, <4>3
    <3>2. QED
      BY <1>1, <3>1
  <2>3. ASSUME answer \notin {NULL, Error}, NEW b \in 1..Batches(turn)
        PROVE  answer = Answer(turn) /\ task'[<<turn, b>>] = "done"
    BY <1>2, <1>4, <2>3 DEF TurnInv, EachTurnIsOwn
  <2>4. answer \notin {NULL, Error} => answer = Answer(turn)
    BY DEF TurnInv, EachTurnIsOwn
  <2>5. QED
    BY <1>1, <1>2, <1>3, <2>1, <2>2, <2>3, <2>4 DEF EachTurnIsOwn, Answer
<1>7. ASSUME answer = NULL, NEW b \in 1..MaxTexts
      PROVE  /\ b <= Batches(turn) /\ b < first => task'[<<turn, b>>] = "done"
             /\ b > Batches(turn) \/ b >= first + MaxParallel => task'[<<turn, b>>] = "none"
  <2>1. TasksOfTurn
    BY <1>7 DEF TurnInv
  <2>2. b > Batches(turn) \/ b >= first + MaxParallel => b \notin Chunk
    BY <1>2 DEF Chunk
  <2>3. QED
    BY <1>2, <1>4, <2>1, <2>2 DEF TasksOfTurn
<1>8. QED
  BY <1>1, <1>2, <1>3, <1>6, <1>7 DEF TurnInv, TasksOfTurn

\* A chunk is gathered when it has succeeded, and the answer comes behind the
\* last one.
LEMMA ChunksKeepTurns ==
  ASSUME TypeOK, TurnInv, Gathered \/ Embedded \/ SizeDiffers
  PROVE  TurnInv'
<1>1. UNCHANGED <<barred, turn, texts, size, task>>
  BY DEF Gathered, Embedded, SizeDiffers, Succeeds, Refused, fallbackVars, input
<1>2. /\ N \in Nat \ {0} /\ Models = 1..N /\ turn \in 1..N
      /\ first \in Nat \ {0} /\ MaxParallel \in Nat \ {0} /\ MaxTexts \in Nat
      /\ \A m \in Models : Batches(m) \in 0..MaxTexts
  BY TaskFacts
<1>3. answer = NULL /\ EachTurnIsOwn /\ TasksOfTurn
  BY DEF Gathered, Embedded, SizeDiffers, Succeeds, Refused, TurnInv
<1>4. /\ \A m \in Models : Batches(m)' = Batches(m)
      /\ \A m \in Models : Unstarted(m)' = Unstarted(m) /\ FailedItself(m)' = FailedItself(m)
  BY <1>1 DEF Batches, Unstarted, FailedItself
<1>5. /\ \A m \in 1..(turn' - 1) : FailedItself(m)'
      /\ \A m \in (turn' + 1)..N : Unstarted(m)'
  BY <1>1, <1>2, <1>3, <1>4 DEF EachTurnIsOwn
<1>6. CASE Gathered
  <2>1. /\ answer' = NULL /\ first' = first + MaxParallel
        /\ \A b \in Chunk : task[<<turn, b>>] = "done"
    BY <1>3, <1>6 DEF Gathered, fallbackVars
  <2>2. EachTurnIsOwn'
    BY <1>5, <2>1, NoneAssumption DEF EachTurnIsOwn
  <2>3. ASSUME NEW b \in 1..MaxTexts
        PROVE  /\ b <= Batches(turn) /\ b < first' => task[<<turn, b>>] = "done"
               /\ b > Batches(turn) \/ b >= first' + MaxParallel => task[<<turn, b>>] = "none"
    <3>1. b <= Batches(turn) /\ b < first' => b < first \/ b \in Chunk
      BY <1>2, <2>1 DEF Chunk
    <3>2. b >= first' + MaxParallel => b >= first + MaxParallel
      BY <1>2, <2>1
    <3>3. QED
      BY <1>3, <2>1, <3>1, <3>2 DEF TasksOfTurn
  <2>4. TasksOfTurn'
    BY <1>1, <1>2, <1>4, <2>3 DEF TasksOfTurn
  <2>5. QED
    BY <2>2, <2>4 DEF TurnInv
<1>7. CASE Embedded
  <2>1. answer' = Answer(turn) /\ first > Batches(turn)
    BY <1>7 DEF Embedded, Succeeds
  <2>2. answer' # NULL /\ answer' # Error
    BY <1>2, <2>1, NoneAssumption DEF Answer, Error
  <2>3. \A b \in 1..Batches(turn) : task[<<turn, b>>] = "done"
    BY <1>2, <1>3, <2>1 DEF TasksOfTurn
  <2>4. EachTurnIsOwn'
    BY <1>1, <1>2, <1>4, <1>5, <2>1, <2>2, <2>3 DEF EachTurnIsOwn, Answer
  <2>5. QED
    BY <2>2, <2>4 DEF TurnInv
<1>8. CASE SizeDiffers
  <2>1. answer' = Error /\ turn' \in barred'
    BY <1>1, <1>8 DEF SizeDiffers, Refused
  <2>2. QED
    BY <1>5, <2>1, NoneAssumption DEF TurnInv, EachTurnIsOwn
<1>9. QED
  BY <1>6, <1>7, <1>8

\* The request goes past a model only for a failure of its own, and answers
\* only when each batch has succeeded, whatever late tasks do.
THEOREM EveryTurnIsOwn == Spec => []EachTurnIsOwn
<1>1. TypeOK /\ TurnInv /\ [Next]_vars => TurnInv'
  <2> SUFFICES ASSUME TypeOK, TurnInv, [Next]_vars PROVE TurnInv'
    OBVIOUS
  <2>1. CASE UNCHANGED vars
    BY <2>1 DEF vars, fallbackVars, TurnInv, EachTurnIsOwn, TasksOfTurn, FailedItself, Unstarted,
                Batches, Answer
  <2>2. CASE Next
    BY <2>2, FailureKeepsTurns, TasksKeepTurns, ChunksKeepTurns DEF Next, Request
  <2>3. QED
    BY <2>1, <2>2
<1>2. TurnInv => EachTurnIsOwn
  BY DEF TurnInv
<1>3. QED
  BY <1>1, <1>2, TurnInitially, EmbedTypes, PTL DEF Spec
=============================================================================
