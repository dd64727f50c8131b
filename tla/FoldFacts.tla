------------------------------- MODULE FoldFacts -------------------------------
(***************************************************************************)
(* What a fold over a sequence computes, for any operation Op, and what    *)
(* FlattenSeq does.  A module that folds with an operation of its own      *)
(* takes an instance of this one, since a theorem with an operator for a   *)
(* parameter cannot be applied.  The operation may depend on a context     *)
(* that stays the same, such as the list whose positions it folds over.    *)
(***************************************************************************)
EXTENDS Naturals, Sequences, SequencesExt, WellFoundedInduction, TLAPS

CONSTANT Op(_, _, _)

Folded(ctx, base, seq) ==
  LET step(state, e) == Op(ctx, state, e) IN FoldLeft(step, base, seq)

-----------------------------------------------------------------------------
\* Induction, for a property that is given as the set of its numbers.
LEMMA Induction ==
  ASSUME NEW T, 0 \in T, \A n \in Nat : n \in T => n + 1 \in T
  PROVE  \A n \in Nat : n \in T
<1> DEFINE Left == {n \in Nat : n \notin T}
           Less == OpToRel(<, Nat)
<1> SUFFICES ASSUME Left # {} PROVE FALSE
  OBVIOUS
<1>1. PICK n \in Left : \A m \in Left : <<m, n>> \notin Less
  <2>1. IsWellFoundedOn(Less, Nat)
    BY NatLessThanWellFounded
  <2>2. Left \subseteq Nat
    OBVIOUS
  <2> HIDE DEF Left, Less
  <2>3. QED
    BY <2>1, <2>2, WFMin
<1>2. n \in Nat /\ n \notin T /\ n # 0
  OBVIOUS
<1>3. n - 1 \in Nat /\ n - 1 + 1 = n
  BY <1>2
<1>4. n - 1 \notin T
  BY <1>2, <1>3
<1>5. <<n - 1, n>> \in Less
  BY <1>2, <1>3 DEF OpToRel
<1>6. QED
  BY <1>1, <1>3, <1>4, <1>5

\* The same over sequences, which grow at their end.
LEMMA AppendInduction ==
  ASSUME NEW S, NEW T, <<>> \in T,
         \A s \in Seq(S) : \A e \in S : s \in T => Append(s, e) \in T
  PROVE  \A s \in Seq(S) : s \in T
<1> DEFINE Lengths == {n \in Nat : \A s \in Seq(S) : Len(s) = n => s \in T}
<1>1. 0 \in Lengths
  <2>1. \A s \in Seq(S) : Len(s) = 0 => s = <<>>
    OBVIOUS
  <2>2. QED
    BY <2>1
<1>2. ASSUME NEW n \in Nat, n \in Lengths
      PROVE  n + 1 \in Lengths
  <2> SUFFICES ASSUME NEW s \in Seq(S), Len(s) = n + 1
               PROVE  s \in T
    OBVIOUS
  <2> DEFINE front == SubSeq(s, 1, n)
             last  == s[n + 1]
  <2>1. last \in S
    OBVIOUS
  <2>2. front \in Seq(S) /\ Len(front) = n /\ \A k \in 1..n : front[k] = s[k]
    OBVIOUS
  <2>3. s = Append(front, last)
    <3>1. Append(front, last) \in Seq(S) /\ Len(Append(front, last)) = n + 1
      BY <2>1, <2>2
    <3>2. \A k \in 1..(n + 1) : Append(front, last)[k] = s[k]
      BY <2>1, <2>2
    <3> HIDE DEF front, last
    <3>3. \A q, r \in Seq(S) : Len(q) = n + 1 /\ Len(r) = n + 1
                               /\ (\A k \in 1..(n + 1) : q[k] = r[k]) => q = r
      OBVIOUS
    <3>4. QED
      BY <3>1, <3>2, <3>3
  <2>4. front \in T
    BY <1>2, <2>2
  <2> HIDE DEF front, last
  <2>5. QED
    BY <2>1, <2>2, <2>3, <2>4
<1> HIDE DEF Lengths
<1>3. \A n \in Nat : n \in Lengths
  BY <1>1, <1>2, Induction
<1>4. \A s \in Seq(S) : Len(s) \in Nat
  OBVIOUS
<1>5. QED
  BY <1>3, <1>4 DEF Lengths

-----------------------------------------------------------------------------
\* FoldLeft is defined by recursion over sets of positions, the largest first.
Recursion(ctx, g, n, base, seq) ==
  g = [S \in SUBSET (1..n) |->
         IF S = {} THEN base ELSE Op(ctx, g[S \ {Max(S)}], seq[Max(S)])]

\* The largest element of a set that has one.
LEMMA Largest ==
  ASSUME NEW n \in Nat, NEW S \in SUBSET (1..n), n \in S
  PROVE  Max(S) = n
<1>1. \A y \in S : n >= y
  OBVIOUS
<1>2. \A x \in S : (\A y \in S : x >= y) => x = n
  OBVIOUS
<1>3. QED
  BY <1>1, <1>2 DEF Max

\* A recursion over the positions up to n goes on to n + 1.
LEMMA RecursionGrows ==
  ASSUME NEW ctx, NEW base, NEW seq, NEW n \in Nat, NEW g, Recursion(ctx, g, n, base, seq)
  PROVE  \E h : Recursion(ctx, h, n + 1, base, seq)
<1> DEFINE h == [S \in SUBSET (1..(n + 1)) |->
                   IF S = {} THEN base
                   ELSE IF n + 1 \in S THEN Op(ctx, g[S \ {n + 1}], seq[n + 1]) ELSE g[S]]
<1>1. \A S \in SUBSET (1..n) :
        g[S] = IF S = {} THEN base ELSE Op(ctx, g[S \ {Max(S)}], seq[Max(S)])
  BY DEF Recursion
<1>2. \A S \in SUBSET (1..n) : S \in SUBSET (1..(n + 1)) /\ n + 1 \notin S
  OBVIOUS
<1>3. \A S \in SUBSET (1..n) : h[S] = g[S]
  BY <1>1, <1>2
<1>4. ASSUME NEW S \in SUBSET (1..(n + 1)), S # {}
      PROVE  h[S] = Op(ctx, h[S \ {Max(S)}], seq[Max(S)])
  <2>1. CASE n + 1 \in S
    <3>1. Max(S) = n + 1
      BY <2>1, Largest
    <3>2. S \ {n + 1} \in SUBSET (1..n)
      OBVIOUS
    <3>3. h[S] = Op(ctx, g[S \ {n + 1}], seq[n + 1])
      BY <2>1
    <3>4. h[S \ {n + 1}] = g[S \ {n + 1}]
      BY <1>3, <3>2
    <3> HIDE DEF h
    <3>5. QED
      BY <3>1, <3>3, <3>4
  <2>2. CASE n + 1 \notin S
    <3>1. S \in SUBSET (1..n) /\ S \ {Max(S)} \in SUBSET (1..n)
      <4>1. \A k \in 1..(n + 1) : k # n + 1 => k \in 1..n
        OBVIOUS
      <4>2. S \subseteq 1..n
        BY <2>2, <4>1
      <4>3. QED
        BY <4>2
    <3>2. h[S] = g[S] /\ h[S \ {Max(S)}] = g[S \ {Max(S)}]
      BY <1>3, <3>1
    <3> HIDE DEF h
    <3>3. QED
      BY <1>1, <1>4, <3>1, <3>2
  <2>3. QED
    BY <2>1, <2>2
<1>5. h[{}] = base
  OBVIOUS
<1>6. h = [S \in SUBSET (1..(n + 1)) |-> h[S]]
  OBVIOUS
<1> HIDE DEF h
<1>7. Recursion(ctx, h, n + 1, base, seq)
  BY <1>4, <1>5, <1>6 DEF Recursion
<1>8. QED
  BY <1>7

\* The recursion is defined for every number of positions.
LEMMA RecursionExists ==
  ASSUME NEW ctx, NEW base, NEW seq, NEW n \in Nat
  PROVE  \E g : Recursion(ctx, g, n, base, seq)
<1> DEFINE T == {m \in Nat : \E g : Recursion(ctx, g, m, base, seq)}
<1>1. 0 \in T
  <2> DEFINE g == [S \in SUBSET (1..0) |-> base]
  <2>1. \A S \in SUBSET (1..0) : S = {}
    OBVIOUS
  <2>2. Recursion(ctx, g, 0, base, seq)
    BY <2>1 DEF Recursion
  <2>3. QED
    BY <2>2
<1>2. \A m \in Nat : m \in T => m + 1 \in T
  BY RecursionGrows
<1> HIDE DEF T
<1>3. n \in T
  BY <1>1, <1>2, Induction
<1>4. QED
  BY <1>3 DEF T

\* The stages of a fold: the base, and for every position the result of the
\* operation on the stage before.
AreStages(ctx, h, n, base, seq) ==
  /\ h[0] = base
  /\ \A k \in 1..n : h[k] = Op(ctx, h[k - 1], seq[k])
  /\ Folded(ctx, base, seq) = h[n]

\* Every fold goes through its stages.
THEOREM Stages ==
  ASSUME NEW ctx, NEW base, NEW seq, NEW n \in Nat, DOMAIN seq = 1..n
  PROVE  \E h : AreStages(ctx, h, n, base, seq)
<1> DEFINE g == CHOOSE f : Recursion(ctx, f, n, base, seq)
           h == [k \in 0..n |-> g[1..k]]
<1>1. Recursion(ctx, g, n, base, seq)
  BY RecursionExists
<1>2. Folded(ctx, base, seq) = g[1..n]
  BY DEF Folded, FoldLeft, MapThenFoldSet, Recursion
<1> HIDE DEF g
<1>3. h[0] = base
  <2>1. 1..0 = {}
    OBVIOUS
  <2>2. QED
    BY <1>1, <2>1 DEF Recursion
<1>4. ASSUME NEW k \in 1..n
      PROVE  h[k] = Op(ctx, h[k - 1], seq[k])
  <2>1. Max(1..k) = k
    BY Largest
  <2>2. (1..k) \ {k} = 1..(k - 1)
    OBVIOUS
  <2>3. 1..k \in SUBSET (1..n) /\ 1..k # {}
    <3>1. k \in 1..k /\ \A i \in 1..k : i \in 1..n
      OBVIOUS
    <3>2. QED
      BY <3>1
  <2>4. g[1..k] = Op(ctx, g[(1..k) \ {k}], seq[k])
    BY <1>1, <2>1, <2>3 DEF Recursion
  <2>5. k \in 0..n /\ k - 1 \in 0..n
    OBVIOUS
  <2>6. QED
    BY <2>2, <2>4, <2>5
<1>5. h[n] = g[1..n]
  OBVIOUS
<1>6. QED
  BY <1>2, <1>3, <1>4, <1>5 DEF AreStages

\* A fold over nothing is the base.
THEOREM FoldEmpty ==
  ASSUME NEW ctx, NEW base
  PROVE  Folded(ctx, base, <<>>) = base
<1>1. 0 \in Nat /\ DOMAIN <<>> = 1..0
  OBVIOUS
<1>2. PICK h : AreStages(ctx, h, 0, base, <<>>)
  BY <1>1, Stages
<1>3. QED
  BY <1>2 DEF AreStages

\* A fold over one more element goes on from that over the others.
LEMMA FoldOneMore ==
  ASSUME NEW ctx, NEW base, NEW n \in Nat, NEW m \in Nat, m = n + 1, NEW less, NEW more,
         DOMAIN less = 1..n, DOMAIN more = 1..m, \A k \in 1..n : more[k] = less[k]
  PROVE  Folded(ctx, base, more) = Op(ctx, Folded(ctx, base, less), more[m])
<1>1. PICK h : AreStages(ctx, h, n, base, less)
  BY Stages
<1>2. PICK f : AreStages(ctx, f, m, base, more)
  BY Stages
<1> DEFINE T == {k \in Nat : k <= n => f[k] = h[k]}
<1>3. 0 \in T
  BY <1>1, <1>2 DEF AreStages
<1>4. ASSUME NEW k \in Nat, k \in T
      PROVE  k + 1 \in T
  <2> SUFFICES ASSUME k + 1 <= n PROVE f[k + 1] = h[k + 1]
    OBVIOUS
  <2>1. k + 1 \in 1..n /\ k + 1 \in 1..m /\ k + 1 - 1 = k /\ k <= n
    OBVIOUS
  <2>2. f[k] = h[k]
    BY <1>4, <2>1
  <2>3. f[k + 1] = Op(ctx, f[k], less[k + 1])
    BY <1>2, <2>1 DEF AreStages
  <2>4. h[k + 1] = Op(ctx, h[k], less[k + 1])
    BY <1>1, <2>1 DEF AreStages
  <2>5. QED
    BY <2>2, <2>3, <2>4
<1> HIDE DEF T
<1>5. n \in T
  BY <1>3, <1>4, Induction
<1>6. f[n] = h[n]
  BY <1>5 DEF T
<1>7. f[m] = Op(ctx, f[n], more[m])
  <2>1. m \in 1..m /\ m - 1 = n
    OBVIOUS
  <2>2. QED
    BY <1>2, <2>1 DEF AreStages
<1>8. QED
  BY <1>1, <1>2, <1>6, <1>7 DEF AreStages

\* A fold over an appended element is the operation on the fold before.
THEOREM FoldAppend ==
  ASSUME NEW ctx, NEW base, NEW S, NEW seq \in Seq(S), NEW e \in S
  PROVE  Folded(ctx, base, Append(seq, e)) = Op(ctx, Folded(ctx, base, seq), e)
<1> DEFINE n == Len(seq)
           m == n + 1
           less == seq
           more == Append(seq, e)
<1>1. n \in Nat /\ m \in Nat /\ m = n + 1
  OBVIOUS
<1>2. DOMAIN less = 1..n /\ DOMAIN more = 1..m
  OBVIOUS
<1>3. (\A k \in 1..n : more[k] = less[k]) /\ more[m] = e
  OBVIOUS
<1> HIDE DEF n, m, less, more
<1>4. Folded(ctx, base, more) = Op(ctx, Folded(ctx, base, less), more[m])
  BY <1>1, <1>2, <1>3, FoldOneMore
<1>5. QED
  BY <1>3, <1>4 DEF less, more
-----------------------------------------------------------------------------
\* FlattenSeq is defined by recursion over the positions.
Flattening(g, n, seqs) ==
  g = [i \in 1..n |-> IF i = 1 THEN seqs[i] ELSE g[i - 1] \o seqs[i]]

\* The recursion is defined for every number of positions.
LEMMA FlatteningExists ==
  ASSUME NEW seqs, NEW n \in Nat
  PROVE  \E g : Flattening(g, n, seqs)
<1> DEFINE T == {m \in Nat : \E g : Flattening(g, m, seqs)}
<1>1. 0 \in T
  <2> DEFINE g == [i \in 1..0 |-> seqs]
  <2>1. Flattening(g, 0, seqs)
    BY DEF Flattening
  <2>2. QED
    BY <2>1
<1>2. ASSUME NEW m \in Nat, m \in T
      PROVE  m + 1 \in T
  <2>1. PICK g : Flattening(g, m, seqs)
    BY <1>2
  <2> DEFINE h == [i \in 1..(m + 1) |->
                     IF i = m + 1 THEN IF i = 1 THEN seqs[i] ELSE g[m] \o seqs[i] ELSE g[i]]
  <2>2. \A i \in 1..m : h[i] = g[i] /\ i \in 1..(m + 1) /\ i # m + 1
    OBVIOUS
  <2>3. \A i \in 1..m : g[i] = IF i = 1 THEN seqs[i] ELSE g[i - 1] \o seqs[i]
    BY <2>1 DEF Flattening
  <2>4. ASSUME NEW i \in 1..(m + 1)
        PROVE  h[i] = IF i = 1 THEN seqs[i] ELSE h[i - 1] \o seqs[i]
    <3>1. CASE i = m + 1
      <4>1. i # 1 => i - 1 = m /\ m \in 1..m
        BY <3>1
      <4>2. QED
        BY <2>2, <3>1, <4>1
    <3>2. CASE i # m + 1
      <4>1. i \in 1..m /\ (i # 1 => i - 1 \in 1..m)
        BY <3>2
      <4>2. h[i] = g[i] /\ (i # 1 => h[i - 1] = g[i - 1])
        BY <2>2, <4>1
      <4> HIDE DEF h
      <4>3. QED
        BY <2>3, <4>1, <4>2
    <3>3. QED
      BY <3>1, <3>2
  <2>5. h = [i \in 1..(m + 1) |-> h[i]]
    OBVIOUS
  <2> HIDE DEF h
  <2>6. Flattening(h, m + 1, seqs)
    BY <2>4, <2>5 DEF Flattening
  <2>7. QED
    BY <2>6
<1> HIDE DEF T
<1>3. n \in T
  BY <1>1, <1>2, Induction
<1>4. QED
  BY <1>3 DEF T

\* What the recursion computes up to each position.
AreFlat(g, n, seqs) ==
  /\ g[1] = seqs[1]
  /\ \A i \in 2..n : g[i] = g[i - 1] \o seqs[i]
  /\ FlattenSeq(seqs) = g[n]

\* To flatten is to go through those stages.
LEMMA FlattenStages ==
  ASSUME NEW seqs, NEW n \in Nat, Len(seqs) = n, n # 0
  PROVE  \E g : AreFlat(g, n, seqs)
<1> DEFINE g == CHOOSE f : Flattening(f, n, seqs)
<1>1. Flattening(g, n, seqs)
  BY FlatteningExists
<1>2. FlattenSeq(seqs) = g[n]
  BY DEF FlattenSeq, Flattening
<1> HIDE DEF g
<1>3. 1 \in 1..n /\ \A i \in 2..n : i \in 1..n /\ i # 1
  OBVIOUS
<1>4. QED
  BY <1>1, <1>2, <1>3 DEF Flattening, AreFlat

\* To flatten one more sequence is to append it to the others, flattened.
LEMMA FlattenOneMore ==
  ASSUME NEW n \in Nat, NEW m \in Nat, m = n + 1, n # 0, NEW less, NEW more,
         Len(less) = n, Len(more) = m, \A k \in 1..n : more[k] = less[k]
  PROVE  FlattenSeq(more) = FlattenSeq(less) \o more[m]
<1>1. PICK h : AreFlat(h, n, less)
  BY FlattenStages
<1>2. PICK f : AreFlat(f, m, more)
  BY FlattenStages
<1> DEFINE T == {k \in Nat : k + 1 <= n => f[k + 1] = h[k + 1]}
<1>3. 0 \in T
  BY <1>1, <1>2 DEF AreFlat
<1>4. ASSUME NEW k \in Nat, k \in T
      PROVE  k + 1 \in T
  <2> SUFFICES ASSUME k + 1 + 1 <= n PROVE f[k + 1 + 1] = h[k + 1 + 1]
    OBVIOUS
  <2> DEFINE j == k + 1 + 1
  <2>1. j \in 2..n /\ j \in 2..m /\ j \in 1..n /\ j - 1 = k + 1 /\ k + 1 <= n
    OBVIOUS
  <2> HIDE DEF j
  <2>2. f[j - 1] = h[j - 1]
    BY <1>4, <2>1
  <2>3. f[j] = f[j - 1] \o more[j] /\ more[j] = less[j]
    BY <1>2, <2>1 DEF AreFlat
  <2>4. h[j] = h[j - 1] \o less[j]
    BY <1>1, <2>1 DEF AreFlat
  <2>5. f[j] = h[j]
    BY <2>2, <2>3, <2>4
  <2>6. QED
    BY <2>5 DEF j
<1> HIDE DEF T
<1>5. n - 1 \in T /\ n - 1 + 1 = n
  BY <1>3, <1>4, Induction
<1>6. f[n] = h[n]
  BY <1>5 DEF T
<1>7. m \in 2..m /\ m - 1 = n
  OBVIOUS
<1>8. f[m] = f[n] \o more[m]
  BY <1>2, <1>7 DEF AreFlat
<1>9. QED
  BY <1>1, <1>2, <1>6, <1>8 DEF AreFlat

\* Nothing, and one sequence.
LEMMA FlattenFew ==
  /\ FlattenSeq(<<>>) = <<>>
  /\ \A s : FlattenSeq(<<s>>) = s
<1>1. FlattenSeq(<<>>) = <<>>
  BY DEF FlattenSeq
<1>2. ASSUME NEW s PROVE FlattenSeq(<<s>>) = s
  <2>1. Len(<<s>>) = 1 /\ <<s>>[1] = s
    OBVIOUS
  <2>2. PICK g : AreFlat(g, 1, <<s>>)
    BY <2>1, FlattenStages
  <2>3. QED
    BY <2>1, <2>2 DEF AreFlat
<1>3. QED
  BY <1>1, <1>2

\* Sequences of sequences flatten to a sequence, one after the other.
THEOREM FlattenAppend ==
  ASSUME NEW S, NEW seqs \in Seq(Seq(S)), NEW s \in Seq(S)
  PROVE  /\ FlattenSeq(seqs) \in Seq(S)
         /\ FlattenSeq(Append(seqs, s)) = FlattenSeq(seqs) \o s
<1>1. FlattenSeq(Append(seqs, s)) = FlattenSeq(seqs) \o s
  <2>1. CASE seqs = <<>>
    <3>1. Append(seqs, s) = <<s>> /\ <<>> \o s = s
      BY <2>1
    <3>2. QED
      BY <2>1, <3>1, FlattenFew
  <2>2. CASE seqs # <<>>
    <3> DEFINE n == Len(seqs)
               m == n + 1
               less == seqs
               more == Append(seqs, s)
    <3>1. n \in Nat /\ m \in Nat /\ m = n + 1 /\ n # 0
      BY <2>2
    <3>2. Len(less) = n /\ Len(more) = m
      OBVIOUS
    <3>3. \A k \in 1..n : more[k] = less[k]
      OBVIOUS
    <3>4. more[m] = s
      OBVIOUS
    <3> HIDE DEF n, m, less, more
    <3>5. FlattenSeq(more) = FlattenSeq(less) \o more[m]
      BY <3>1, <3>2, <3>3, FlattenOneMore, SMTT(30)
    <3>6. QED
      BY <3>4, <3>5 DEF less, more
  <2>3. QED
    BY <2>1, <2>2
<1>2. FlattenSeq(seqs) \in Seq(S)
  <2>1. CASE seqs = <<>>
    <3>1. <<>> \in Seq(S)
      OBVIOUS
    <3>2. QED
      BY <2>1, <3>1, FlattenFew
  <2>2. CASE seqs # <<>>
    <3> DEFINE n == Len(seqs)
    <3>1. n \in Nat /\ n # 0 /\ \A k \in 1..n : seqs[k] \in Seq(S)
      BY <2>2
    <3>2. PICK g : AreFlat(g, n, seqs)
      BY <3>1, FlattenStages
    <3> HIDE DEF n
    <3> DEFINE T == {k \in Nat : k + 1 <= n => g[k + 1] \in Seq(S)}
    <3>3. 0 \in T
      BY <3>1, <3>2 DEF AreFlat
    <3>4. ASSUME NEW k \in Nat, k \in T
          PROVE  k + 1 \in T
      <4> SUFFICES ASSUME k + 1 + 1 <= n PROVE g[k + 1 + 1] \in Seq(S)
        OBVIOUS
      <4> DEFINE j == k + 1 + 1
      <4>1. j \in 2..n /\ j \in 1..n /\ j - 1 = k + 1 /\ k + 1 <= n
        BY <3>1
      <4> HIDE DEF j
      <4>2. g[j - 1] \in Seq(S) /\ seqs[j] \in Seq(S)
        BY <3>1, <3>4, <4>1
      <4>3. g[j] = g[j - 1] \o seqs[j]
        BY <3>2, <4>1 DEF AreFlat
      <4>4. g[j] \in Seq(S)
        BY <4>2, <4>3
      <4>5. QED
        BY <4>4 DEF j
    <3> HIDE DEF T
    <3>5. \A k \in Nat : k \in T
      BY <3>3, <3>4, Induction
    <3>6. n - 1 \in Nat /\ n - 1 + 1 = n
      BY <3>1
    <3>7. g[n] \in Seq(S)
      BY <3>5, <3>6 DEF T
    <3>8. QED
      BY <3>2, <3>7 DEF AreFlat
  <2>3. QED
    BY <2>1, <2>2
<1>3. QED
  BY <1>1, <1>2
=============================================================================
