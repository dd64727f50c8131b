--------------------------- MODULE ConversationProofs ---------------------------
(***************************************************************************)
(* Proofs about what the LLM hub does with the messages of a request, for  *)
(* lists of any length: that its scan accepts exactly the well-formed      *)
(* conversations, that a round of answered function calls is accepted,     *)
(* what the merge of consecutive texts keeps, that every adapter sends a   *)
(* result under the name of the call it answers, and the configs it is     *)
(* given once each.                                                        *)
(***************************************************************************)
EXTENDS Adapters, FiniteSetTheorems, TLAPS

KeepIn(ctx, kept, m) == Keep(kept, m)
ScanIn(ctx, s, m)    == Scan(s, m)

Keeps == INSTANCE FoldFacts WITH Op <- KeepIn
Scans == INSTANCE FoldFacts WITH Op <- ScanIn

Merges == INSTANCE FoldFacts WITH Op <- MergeStep

Start == [ok |-> TRUE, called |-> {}, answered |-> {}]

-----------------------------------------------------------------------------
\* The folds of the validation are instances of the general one.
LEMMA Folds ==
  /\ \A list : Converted(list) = Keeps!Folded(NULL, <<>>, list)
  /\ \A kept : Scanned(kept) = Scans!Folded(NULL, Start, kept)
<1>1. ASSUME NEW ms PROVE Converted(ms) = Keeps!Folded(NULL, <<>>, ms)
  BY DEF Converted, KeepIn, Keeps!Folded, FoldLeft, Keeps!FoldLeft, MapThenFoldSet,
         Keeps!MapThenFoldSet, Max, Keeps!Max
<1>2. ASSUME NEW kept PROVE Scanned(kept) = Scans!Folded(NULL, Start, kept)
  BY DEF Scanned, ScanIn, Start, Scans!Folded, FoldLeft, Scans!FoldLeft, MapThenFoldSet,
         Scans!MapThenFoldSet, Max, Scans!Max
<1>3. QED
  BY <1>1, <1>2

\* Converted takes the messages one by one and drops those that say nothing.
LEMMA ConvertedAppend ==
  /\ Converted(<<>>) = <<>>
  /\ \A S : \A ms \in Seq(S) : \A m \in S :
       Converted(Append(ms, m)) = Keep(Converted(ms), m)
<1>1. Converted(<<>>) = <<>>
  BY Folds, Keeps!FoldEmpty
<1>2. ASSUME NEW S, NEW ms \in Seq(S), NEW m \in S
      PROVE  Converted(Append(ms, m)) = Keep(Converted(ms), m)
  <2>1. Keeps!Folded(NULL, <<>>, Append(ms, m)) = KeepIn(NULL, Keeps!Folded(NULL, <<>>, ms), m)
    BY Keeps!FoldAppend
  <2>2. QED
    BY <2>1, Folds DEF KeepIn
<1>3. QED
  BY <1>1, <1>2

\* So does the scan.
LEMMA ScannedAppend ==
  /\ Scanned(<<>>) = Start
  /\ \A S : \A kept \in Seq(S) : \A m \in S :
       Scanned(Append(kept, m)) = Scan(Scanned(kept), m)
<1>1. Scanned(<<>>) = Start
  BY Folds, Scans!FoldEmpty
<1>2. ASSUME NEW S, NEW kept \in Seq(S), NEW m \in S
      PROVE  Scanned(Append(kept, m)) = Scan(Scanned(kept), m)
  <2>1. Scans!Folded(NULL, Start, Append(kept, m)) = ScanIn(NULL, Scans!Folded(NULL, Start, kept), m)
    BY Scans!FoldAppend
  <2>2. QED
    BY <2>1, Folds DEF ScanIn
<1>3. QED
  BY <1>1, <1>2

\* The elements of a longer sequence.
LEMMA ElementsAppend ==
  ASSUME NEW S, NEW r \in Seq(S), NEW m \in S
  PROVE  ToSet(Append(r, m)) = ToSet(r) \cup {m}
<1>1. /\ DOMAIN Append(r, m) = DOMAIN r \cup {Len(r) + 1}
      /\ \A k \in DOMAIN r : Append(r, m)[k] = r[k]
      /\ Append(r, m)[Len(r) + 1] = m
  OBVIOUS
<1>2. QED
  BY <1>1 DEF ToSet

\* What remains of a list are messages of it.
LEMMA ConvertedType ==
  ASSUME NEW S, NEW ms \in Seq(S)
  PROVE  Converted(ms) \in Seq(S) /\ ToSet(Converted(ms)) \subseteq ToSet(ms)
<1> DEFINE T == {q \in Seq(S) : Converted(q) \in Seq(S)
                                /\ ToSet(Converted(q)) \subseteq ToSet(q)}
<1>1. <<>> \in T
  <2>1. <<>> \in Seq(S) /\ Converted(<<>>) = <<>>
    BY ConvertedAppend
  <2>2. QED
    BY <2>1
<1>2. ASSUME NEW q \in Seq(S), NEW m \in S, q \in T
      PROVE  Append(q, m) \in T
  <2>1. Converted(q) \in Seq(S) /\ ToSet(Converted(q)) \subseteq ToSet(q)
    BY <1>2
  <2>2. Converted(Append(q, m)) \in {Converted(q), Append(Converted(q), m)}
    BY ConvertedAppend DEF Keep
  <2>3. Converted(Append(q, m)) \in Seq(S)
    BY <2>1, <2>2, SMTT(30)
  <2>4. \A r \in Seq(S) : ToSet(Append(r, m)) = ToSet(r) \cup {m}
    BY ElementsAppend
  <2>5. ToSet(Converted(Append(q, m))) \subseteq ToSet(Append(q, m))
    BY <2>1, <2>2, <2>4
  <2>6. QED
    BY <2>3, <2>5
<1> HIDE DEF T
<1>3. ms \in T
  BY <1>1, <1>2, Keeps!AppendInduction
<1>4. QED
  BY <1>3 DEF T

-----------------------------------------------------------------------------
\* What is asked of each message, without a scan.
Fits(kept, i) ==
  /\ IsText(kept[i]) => Called(kept, i - 1) = {}
  /\ IsCalls(kept[i]) => Called(kept, i - 1) \subseteq Answered(kept, i - 1)
  /\ kept[i].role = "function" => kept[i].id \in Called(kept, i - 1) \ Answered(kept, i - 1)

\* The calls and the answers up to a position are those before and its own.
LEMMA OneMoreMessage ==
  ASSUME NEW kept, NEW n \in Nat
  PROVE  /\ Called(kept, 0) = {} /\ Answered(kept, 0) = {}
         /\ IsCalls(kept[n + 1]) =>
              /\ Called(kept, n + 1) = Called(kept, n) \cup ToSet(kept[n + 1].calls)
              /\ Answered(kept, n + 1) = Answered(kept, n)
         /\ kept[n + 1].role = "function" =>
              /\ Called(kept, n + 1) = Called(kept, n)
              /\ Answered(kept, n + 1) = Answered(kept, n) \cup {kept[n + 1].id}
         /\ ~IsCalls(kept[n + 1]) /\ kept[n + 1].role # "function" =>
              /\ Called(kept, n + 1) = Called(kept, n)
              /\ Answered(kept, n + 1) = Answered(kept, n)
<1>1. \A k \in 1..(n + 1) : k \in 1..n \/ k = n + 1
  OBVIOUS
<1>2. 1..n \subseteq 1..(n + 1) /\ n + 1 \in 1..(n + 1)
  OBVIOUS
<1>3. Called(kept, 0) = {} /\ Answered(kept, 0) = {}
  BY DEF Called, Answered
<1>4. CASE IsCalls(kept[n + 1])
  <2>1. kept[n + 1].role # "function"
    BY <1>4 DEF IsCalls
  <2>2. {k \in 1..(n + 1) : IsCalls(kept[k])} = {k \in 1..n : IsCalls(kept[k])} \cup {n + 1}
    BY <1>1, <1>2, <1>4
  <2>3. {k \in 1..(n + 1) : kept[k].role = "function"} = {k \in 1..n : kept[k].role = "function"}
    BY <1>1, <1>2, <2>1
  <2>4. QED
    BY <1>3, <1>4, <2>1, <2>2, <2>3 DEF Called, Answered
<1>5. CASE ~IsCalls(kept[n + 1])
  <2>1. {k \in 1..(n + 1) : IsCalls(kept[k])} = {k \in 1..n : IsCalls(kept[k])}
    BY <1>1, <1>2, <1>5
  <2>2. Called(kept, n + 1) = Called(kept, n)
    BY <2>1 DEF Called
  <2>3. CASE kept[n + 1].role = "function"
    <3>1. {k \in 1..(n + 1) : kept[k].role = "function"}
            = {k \in 1..n : kept[k].role = "function"} \cup {n + 1}
      BY <1>1, <1>2, <2>3
    <3>2. QED
      BY <1>3, <1>5, <2>2, <2>3, <3>1 DEF Answered
  <2>4. CASE kept[n + 1].role # "function"
    <3>1. {k \in 1..(n + 1) : kept[k].role = "function"} = {k \in 1..n : kept[k].role = "function"}
      BY <1>1, <1>2, <2>4
    <3>2. QED
      BY <1>3, <1>5, <2>2, <2>4, <3>1 DEF Answered
  <2>5. QED
    BY <2>3, <2>4
<1>6. QED
  BY <1>4, <1>5

\* A later message changes nothing about those before it.
LEMMA LaterMessage ==
  ASSUME NEW S, NEW q \in Seq(S), NEW m \in S
  PROVE  /\ Len(q) \in Nat /\ Len(Append(q, m)) = Len(q) + 1
         /\ Append(q, m)[Len(q) + 1] = m
         /\ \A i \in 1..Len(q) : Append(q, m)[i] = q[i]
         /\ \A i \in 0..Len(q) : /\ Called(Append(q, m), i) = Called(q, i)
                                /\ Answered(Append(q, m), i) = Answered(q, i)
         /\ \A i \in 1..Len(q) : Fits(Append(q, m), i) <=> Fits(q, i)
<1> DEFINE n == Len(q)
           more == Append(q, m)
<1>1. /\ n \in Nat /\ Len(more) = n + 1 /\ more[n + 1] = m
      /\ \A i \in 1..n : more[i] = q[i]
  OBVIOUS
<1> HIDE DEF n, more
<1>2. ASSUME NEW i \in 0..n
      PROVE  Called(more, i) = Called(q, i) /\ Answered(more, i) = Answered(q, i)
  <2>1. \A k \in 1..i : more[k] = q[k]
    BY <1>1
  <2>2. /\ {k \in 1..i : IsCalls(more[k])} = {k \in 1..i : IsCalls(q[k])}
        /\ {k \in 1..i : more[k].role = "function"} = {k \in 1..i : q[k].role = "function"}
    BY <2>1
  <2>3. Called(more, i) = Called(q, i)
    BY <2>1, <2>2 DEF Called
  <2>4. Answered(more, i) = Answered(q, i)
    BY <2>1, <2>2 DEF Answered
  <2>5. QED
    BY <2>3, <2>4
<1>3. ASSUME NEW i \in 1..n
      PROVE  Fits(more, i) <=> Fits(q, i)
  <2>1. i - 1 \in 0..n
    BY <1>1
  <2>2. QED
    BY <1>1, <1>2, <2>1 DEF Fits
<1>4. QED
  BY <1>1, <1>2, <1>3 DEF n, more

\* One step of the scan, by the kind of the message.
LEMMA ScanStep ==
  ASSUME NEW s, NEW m, s = [ok |-> s.ok, called |-> s.called, answered |-> s.answered]
  PROVE  /\ IsCalls(m) =>
              Scan(s, m) = [ok |-> s.ok /\ s.called \subseteq s.answered,
                            called |-> s.called \cup ToSet(m.calls), answered |-> s.answered]
         /\ m.role = "function" =>
              Scan(s, m) = [ok |-> s.ok /\ m.id \in s.called \ s.answered,
                            called |-> s.called, answered |-> s.answered \cup {m.id}]
         /\ IsText(m) =>
              Scan(s, m) = [ok |-> s.ok /\ s.called = {},
                            called |-> s.called, answered |-> s.answered]
         /\ ~IsCalls(m) /\ m.role # "function" /\ ~IsText(m) => Scan(s, m) = s
<1>1. ASSUME IsCalls(m)
      PROVE  /\ m.role # "function" /\ ~IsText(m)
             /\ Scan(s, m) = [ok |-> s.ok /\ s.called \subseteq s.answered,
                              called |-> s.called \cup ToSet(m.calls), answered |-> s.answered]
  BY <1>1 DEF Scan, IsCalls, IsText
<1>2. ASSUME m.role = "function"
      PROVE  /\ ~IsCalls(m) /\ ~IsText(m)
             /\ Scan(s, m) = [ok |-> s.ok /\ m.id \in s.called \ s.answered,
                              called |-> s.called, answered |-> s.answered \cup {m.id}]
  BY <1>2 DEF Scan, IsCalls, IsText
<1>3. ASSUME IsText(m)
      PROVE  /\ ~IsCalls(m) /\ m.role # "function"
             /\ Scan(s, m) = [ok |-> s.ok /\ s.called = {},
                              called |-> s.called, answered |-> s.answered]
  <2>1. ~IsCalls(m) /\ m.role # "function"
    BY <1>3 DEF IsText
  <2>2. Scan(s, m) = [s EXCEPT !.ok = @ /\ s.called = {}]
    BY <1>3, <2>1 DEF Scan
  <2>3. [s EXCEPT !.ok = @ /\ s.called = {}]
          = [ok |-> s.ok /\ s.called = {}, called |-> s.called, answered |-> s.answered]
    OBVIOUS
  <2>4. QED
    BY <2>1, <2>2, <2>3
<1>4. ASSUME ~IsCalls(m), m.role # "function", ~IsText(m)
      PROVE  Scan(s, m) = s
  BY <1>4 DEF Scan
<1>5. QED
  BY <1>1, <1>2, <1>3, <1>4

\* A state of the scan, and the one after a list.
IsState(s) == s = [ok |-> s.ok, called |-> s.called, answered |-> s.answered]

ScanState(kept) ==
  /\ IsState(Scanned(kept))
  /\ Scanned(kept).called = Called(kept, Len(kept))
  /\ Scanned(kept).answered = Answered(kept, Len(kept))
  /\ Scanned(kept).ok <=> \A i \in 1..Len(kept) : Fits(kept, i)

\* What a state of the scan is made of.
LEMMA Fields ==
  ASSUME NEW t, NEW p \in BOOLEAN, NEW c, NEW a, t = [ok |-> p, called |-> c, answered |-> a]
  PROVE  IsState(t) /\ t.called = c /\ t.answered = a /\ (t.ok <=> p)
<1>1. t.ok = p /\ t.called = c /\ t.answered = a
  OBVIOUS
<1>2. t = [ok |-> t.ok, called |-> t.called, answered |-> t.answered]
  BY <1>1
<1>3. QED
  BY <1>1, <1>2 DEF IsState

\* The scan collects the calls and the answers, and is content as long as
\* every message fits those before it.
LEMMA ScanMeans ==
  ASSUME NEW S, NEW kept \in Seq(S)
  PROVE  ScanState(kept)
<1> DEFINE T == {q \in Seq(S) : ScanState(q)}
<1>1. <<>> \in T
  <2>1. <<>> \in Seq(S) /\ Len(<<>>) = 0 /\ 1..0 = {}
    OBVIOUS
  <2>2. Called(<<>>, 0) = {} /\ Answered(<<>>, 0) = {}
    BY DEF Called, Answered
  <2>3. Scanned(<<>>) = Start
    BY ScannedAppend
  <2>4. Start.ok /\ Start.called = {} /\ Start.answered = {} /\ IsState(Start)
    BY DEF Start, IsState
  <2>5. QED
    BY <2>1, <2>2, <2>3, <2>4 DEF ScanState
<1>2. ASSUME NEW q \in Seq(S), NEW m \in S, q \in T
      PROVE  Append(q, m) \in T
  <2> DEFINE n == Len(q)
             more == Append(q, m)
             s == Scanned(q)
  <2>1. more \in Seq(S)
    OBVIOUS
  <2>2. /\ n \in Nat /\ Len(more) = n + 1 /\ more[n + 1] = m
        /\ Called(more, n) = Called(q, n) /\ Answered(more, n) = Answered(q, n)
        /\ \A i \in 1..n : Fits(more, i) <=> Fits(q, i)
    BY LaterMessage
  <2>3. Scanned(more) = Scan(s, m)
    BY ScannedAppend
  <2>4. /\ IsState(s) /\ s.called = Called(q, n) /\ s.answered = Answered(q, n)
        /\ s.ok <=> \A i \in 1..n : Fits(q, i)
    BY <1>2 DEF ScanState
  <2> SUFFICES ScanState(more)
    BY <2>1
  <2> HIDE DEF n, more, s
  <2>5. s.called = Called(more, n) /\ s.answered = Answered(more, n)
    BY <2>2, <2>4
  <2>6. s = [ok |-> s.ok, called |-> s.called, answered |-> s.answered]
    BY <2>4 DEF IsState
  <2>7. (\A i \in 1..(n + 1) : Fits(more, i)) <=> (s.ok /\ Fits(more, n + 1))
    <3>1. (\A i \in 1..(n + 1) : Fits(more, i))
            <=> (\A i \in 1..n : Fits(more, i)) /\ Fits(more, n + 1)
      BY <2>2
    <3>2. QED
      BY <2>2, <2>4, <3>1
  <2>8. ASSUME NEW p \in BOOLEAN, p <=> s.ok /\ Fits(more, n + 1),
               Scan(s, m) = [ok |-> p, called |-> Called(more, n + 1),
                             answered |-> Answered(more, n + 1)]
        PROVE  ScanState(more)
    <3> DEFINE t == Scan(s, m)
    <3>1. /\ IsState(t) /\ t.called = Called(more, n + 1) /\ t.answered = Answered(more, n + 1)
          /\ t.ok <=> p
      BY <2>8, Fields
    <3> HIDE DEF t
    <3>2. t.ok <=> \A i \in 1..(n + 1) : Fits(more, i)
      BY <2>7, <2>8, <3>1
    <3>3. Scanned(more) = t /\ Len(more) = n + 1
      BY <2>2, <2>3 DEF t
    <3>4. QED
      BY <3>1, <3>2, <3>3 DEF ScanState
  <2>9. n + 1 - 1 = n
    BY <2>2
  <2>10. CASE IsCalls(m)
    <3>1. ~IsText(m) /\ m.role # "function"
      BY <2>10 DEF IsCalls, IsText
    <3>2. Fits(more, n + 1) <=> s.called \subseteq s.answered
      BY <2>2, <2>5, <2>9, <2>10, <3>1 DEF Fits
    <3>3. Scan(s, m) = [ok |-> s.ok /\ s.called \subseteq s.answered,
                        called |-> s.called \cup ToSet(m.calls), answered |-> s.answered]
      BY <2>6, <2>10, ScanStep
    <3>4. /\ Called(more, n + 1) = s.called \cup ToSet(m.calls)
          /\ Answered(more, n + 1) = s.answered
      BY <2>2, <2>5, <2>10, OneMoreMessage
    <3> DEFINE p == s.ok /\ s.called \subseteq s.answered
    <3>5. p \in BOOLEAN /\ (p <=> s.ok /\ Fits(more, n + 1))
      BY <3>2
    <3>6. Scan(s, m) = [ok |-> p, called |-> Called(more, n + 1),
                        answered |-> Answered(more, n + 1)]
      BY <3>3, <3>4
    <3> HIDE DEF p
    <3>7. QED
      BY <2>8, <3>5, <3>6
  <2>11. CASE m.role = "function"
    <3>1. ~IsText(m) /\ ~IsCalls(m)
      BY <2>11 DEF IsCalls, IsText
    <3>2. Fits(more, n + 1) <=> m.id \in s.called \ s.answered
      BY <2>2, <2>5, <2>9, <2>11, <3>1 DEF Fits
    <3>3. Scan(s, m) = [ok |-> s.ok /\ m.id \in s.called \ s.answered,
                        called |-> s.called, answered |-> s.answered \cup {m.id}]
      BY <2>6, <2>11, ScanStep
    <3>4. /\ Called(more, n + 1) = s.called
          /\ Answered(more, n + 1) = s.answered \cup {m.id}
      <4>1. /\ Called(more, n + 1) = Called(more, n)
            /\ Answered(more, n + 1) = Answered(more, n) \cup {m.id}
        BY <2>2, <2>11, OneMoreMessage, SMTT(30)
      <4>2. QED
        BY <2>5, <4>1
    <3> DEFINE p == s.ok /\ m.id \in s.called \ s.answered
    <3>5. p \in BOOLEAN /\ (p <=> s.ok /\ Fits(more, n + 1))
      BY <3>2
    <3>6. Scan(s, m) = [ok |-> p, called |-> Called(more, n + 1),
                        answered |-> Answered(more, n + 1)]
      BY <3>3, <3>4
    <3> HIDE DEF p
    <3>7. QED
      BY <2>8, <3>5, <3>6
  <2>12. CASE IsText(m)
    <3>1. m.role # "function" /\ ~IsCalls(m)
      BY <2>12 DEF IsText
    <3>2. Fits(more, n + 1) <=> s.called = {}
      BY <2>2, <2>5, <2>9, <2>12, <3>1 DEF Fits
    <3>3. Scan(s, m) = [ok |-> s.ok /\ s.called = {}, called |-> s.called,
                        answered |-> s.answered]
      BY <2>6, <2>12, ScanStep
    <3>4. Called(more, n + 1) = s.called /\ Answered(more, n + 1) = s.answered
      <4>1. Called(more, n + 1) = Called(more, n) /\ Answered(more, n + 1) = Answered(more, n)
        BY <2>2, <3>1, OneMoreMessage, SMTT(30)
      <4>2. QED
        BY <2>5, <4>1
    <3> DEFINE p == s.ok /\ s.called = {}
    <3>5. p \in BOOLEAN /\ (p <=> s.ok /\ Fits(more, n + 1))
      BY <3>2
    <3>6. Scan(s, m) = [ok |-> p, called |-> Called(more, n + 1),
                        answered |-> Answered(more, n + 1)]
      BY <3>3, <3>4
    <3> HIDE DEF p
    <3>7. QED
      BY <2>8, <3>5, <3>6
  <2>13. CASE ~IsCalls(m) /\ m.role # "function" /\ ~IsText(m)
    <3>1. Fits(more, n + 1)
      BY <2>2, <2>13 DEF Fits
    <3>2. Scan(s, m) = s
      BY <2>6, <2>13, ScanStep
    <3>3. Called(more, n + 1) = s.called /\ Answered(more, n + 1) = s.answered
      BY <2>2, <2>5, <2>13, OneMoreMessage
    <3>4. s.ok <=> \A i \in 1..(n + 1) : Fits(more, i)
      BY <2>7, <3>1
    <3>5. QED
      BY <2>2, <2>3, <2>4, <3>2, <3>3, <3>4 DEF ScanState
  <2>14. QED
    BY <2>10, <2>11, <2>12, <2>13
<1> HIDE DEF T
<1>3. kept \in T
  BY <1>1, <1>2, Keeps!AppendInduction
<1>4. QED
  BY <1>3 DEF T

\* The scan accepts exactly the well-formed lists, whatever they are made of.
LEMMA AcceptsMeans ==
  ASSUME NEW S, NEW ms \in Seq(S)
  PROVE  Accepts(ms) <=> WellFormed(Converted(ms))
<1> DEFINE kept == Converted(ms)
           end == Scanned(kept)
           n == Len(kept)
           Heads == SystemFirst(kept)
           Fit == \A i \in 1..n : Fits(kept, i)
           Closes == Called(kept, n) \subseteq Answered(kept, n)
<1>1. kept \in Seq(S)
  BY ConvertedType
<1>2. n \in Nat /\ DOMAIN kept = 1..n
  BY <1>1
<1>3. ScanState(kept)
  BY <1>1, ScanMeans
<1>4. Accepts(ms) <=> kept # <<>> /\ Heads /\ end.ok /\ end.called \subseteq end.answered
  BY DEF Accepts
<1>5. (end.ok <=> Fit) /\ (end.called \subseteq end.answered <=> Closes)
  BY <1>3 DEF ScanState
<1> DEFINE Well(i) ==
             /\ kept[i].role = "system" => i = 1
             /\ IsText(kept[i]) => Called(kept, i) = {}
             /\ IsCalls(kept[i]) => Called(kept, i - 1) \subseteq Answered(kept, i - 1)
             /\ kept[i].role = "function" => /\ kept[i].id \in Called(kept, i)
                                             /\ kept[i].id \notin Answered(kept, i - 1)
<1>6. WellFormed(kept) <=> kept # <<>> /\ (\A i \in DOMAIN kept : Well(i)) /\ Closes
  BY DEF WellFormed, Fitting
<1>7. ASSUME NEW i \in DOMAIN kept
      PROVE  Well(i) <=> (kept[i].role = "system" => i = 1) /\ Fits(kept, i)
  <2> HIDE DEF kept, n
  <2>1. i - 1 \in Nat /\ (i - 1) + 1 = i
    BY <1>2
  <2>2. ~IsCalls(kept[i]) => Called(kept, i) = Called(kept, i - 1)
    <3> DEFINE j == i - 1
    <3>1. j \in Nat /\ j + 1 = i
      BY <2>1
    <3> HIDE DEF j
    <3>2. ~IsCalls(kept[j + 1]) => Called(kept, j + 1) = Called(kept, j)
      BY <3>1, OneMoreMessage
    <3>3. j = i - 1
      BY DEF j
    <3>4. QED
      BY <3>1, <3>2, <3>3
  <2>3. IsText(kept[i]) => ~IsCalls(kept[i])
    BY DEF IsText
  <2>4. kept[i].role = "function" => ~IsCalls(kept[i])
    BY DEF IsCalls
  <2>5. QED
    BY <2>2, <2>3, <2>4 DEF Fits
<1>8. (\A i \in DOMAIN kept : Well(i)) <=> Heads /\ Fit
  <2> HIDE DEF kept, n, Well
  <2>1. QED
    BY <1>2, <1>7 DEF SystemFirst
<1> HIDE DEF kept, end, n, Heads, Fit, Closes, Well
<1>9. Accepts(ms) <=> WellFormed(kept)
  BY <1>4, <1>5, <1>6, <1>8
<1>10. QED
  BY <1>9 DEF kept

\* A client only ever builds lists of messages.
IInv == messages \in Seq(Message)

\* IInv is an invariant of the client that writes its messages.
LEMMA Invariance == Spec => []IInv
<1>1. Init => IInv
  BY DEF Init, IInv
<1>2. IInv /\ [Next]_messages => IInv'
  <2> SUFFICES ASSUME IInv, [Next]_messages PROVE IInv'
    OBVIOUS
  <2>1. CASE Next
    BY <2>1 DEF IInv, Next, Add
  <2>2. CASE UNCHANGED messages
    BY <2>2 DEF IInv
  <2>3. QED
    BY <2>1, <2>2
<1>3. QED
  BY <1>1, <1>2, PTL DEF Spec

\* validate_messages accepts exactly the well-formed conversations.
THEOREM ScanIsExact == Spec => []AcceptsWellFormed
<1>1. IInv => AcceptsWellFormed
  BY AcceptsMeans DEF IInv, AcceptsWellFormed
<1>2. QED
  BY <1>1, Invariance, PTL

-----------------------------------------------------------------------------
\* The list passes so far: its calls are C, of which A have been answered.
Reads(ms, C, A) ==
  /\ Converted(ms) # <<>>
  /\ SystemFirst(Converted(ms))
  /\ Scanned(Converted(ms)) = [ok |-> TRUE, called |-> C, answered |-> A]

\* A list is accepted when it passes and every call is answered.
LEMMA ReadAccepted ==
  ASSUME NEW ms, NEW C, NEW A, Reads(ms, C, A), C \subseteq A
  PROVE  Accepts(ms)
BY DEF Reads, Accepts

\* In an accepted list the calls are the answers, and calls of the list.
LEMMA AcceptedReads ==
  ASSUME NEW S, NEW ms \in Seq(S), Accepts(ms)
  PROVE  \E C : Reads(ms, C, C) /\ C \subseteq Called(ms, Len(ms))
<1> DEFINE kept == Converted(ms)
           n == Len(kept)
           s == Scanned(kept)
<1>1. kept \in Seq(S) /\ ToSet(kept) \subseteq ToSet(ms)
  BY ConvertedType
<1>2. n \in Nat /\ DOMAIN kept = 1..n
  BY <1>1
<1>3. IsState(s) /\ s.called = Called(kept, n) /\ s.answered = Answered(kept, n)
  BY <1>1, ScanMeans DEF ScanState
<1>4. WellFormed(kept)
  BY AcceptsMeans
<1>5. Called(kept, n) \subseteq Answered(kept, n)
  BY <1>4 DEF WellFormed
<1>6. Answered(kept, n) \subseteq Called(kept, n)
  <2> SUFFICES ASSUME NEW j \in 1..n, kept[j].role = "function"
               PROVE  kept[j].id \in Called(kept, n)
    BY DEF Answered
  <2>1. kept[j].id \in Called(kept, j)
    BY <1>2, <1>4 DEF WellFormed, Fitting
  <2>2. 1..j \subseteq 1..n
    BY <1>2
  <2>3. Called(kept, j) \subseteq Called(kept, n)
    BY <2>2 DEF Called
  <2>4. QED
    BY <2>1, <2>3
<1>7. Called(kept, n) \subseteq Called(ms, Len(ms))
  <2> SUFFICES ASSUME NEW j \in 1..n, IsCalls(kept[j])
               PROVE  ToSet(kept[j].calls) \subseteq Called(ms, Len(ms))
    BY DEF Called
  <2>1. kept[j] \in ToSet(ms)
    BY <1>1, <1>2 DEF ToSet
  <2>2. DOMAIN ms = 1..Len(ms)
    OBVIOUS
  <2>3. PICK k \in 1..Len(ms) : ms[k] = kept[j]
    BY <2>1, <2>2 DEF ToSet
  <2>4. QED
    BY <2>3 DEF Called
<1>8. s.called = s.answered /\ s.called \subseteq Called(ms, Len(ms))
  <2>1. Called(kept, n) = Answered(kept, n)
    BY <1>5, <1>6
  <2>2. QED
    BY <1>3, <1>7, <2>1
<1>9. s.ok = TRUE
  <2>1. s.ok <=> \A i \in 1..n : Fits(kept, i)
    BY <1>1, ScanMeans DEF ScanState
  <2>2. s.ok
    BY DEF Accepts
  <2>3. s.ok \in BOOLEAN
    BY <2>2
  <2>4. QED
    BY <2>2, <2>3
<1>10. Reads(ms, s.called, s.called)
  <2>1. s = [ok |-> TRUE, called |-> s.called, answered |-> s.called]
    BY <1>3, <1>8, <1>9 DEF IsState
  <2>2. kept # <<>> /\ SystemFirst(kept)
    BY <1>4 DEF WellFormed, Fitting, SystemFirst
  <2>3. QED
    BY <2>1, <2>2 DEF Reads
<1>11. QED
  BY <1>8, <1>10

\* A message that is kept and is no system message passes as the scan says.
LEMMA ReadsAppend ==
  ASSUME NEW S, NEW ms \in Seq(S), NEW m, NEW C, NEW A, NEW D, NEW B,
         Reads(ms, C, A), Kept(m), m.role # "system",
         Scan([ok |-> TRUE, called |-> C, answered |-> A], m)
           = [ok |-> TRUE, called |-> D, answered |-> B]
  PROVE  Reads(Append(ms, m), D, B)
<1> DEFINE T == S \cup {m}
           kept == Converted(ms)
           more == Append(kept, m)
<1>1. ms \in Seq(T) /\ m \in T
  OBVIOUS
<1>2. Converted(Append(ms, m)) = Keep(Converted(ms), m)
  BY <1>1, ConvertedAppend
<1>3. Converted(Append(ms, m)) = more
  BY <1>2 DEF Keep
<1>4. kept \in Seq(T)
  BY <1>1, ConvertedType
<1>5. Scanned(more) = Scan(Scanned(kept), m)
  BY <1>1, <1>4, ScannedAppend
<1>6. Scanned(more) = [ok |-> TRUE, called |-> D, answered |-> B]
  BY <1>5 DEF Reads
<1>7. more # <<>> /\ SystemFirst(more)
  <2>1. \A i \in DOMAIN kept : kept[i].role = "system" => i = 1
    BY DEF Reads, SystemFirst
  <2>2. /\ DOMAIN more = DOMAIN kept \cup {Len(kept) + 1}
        /\ \A i \in DOMAIN kept : more[i] = kept[i]
        /\ more[Len(kept) + 1] = m
    BY <1>1, <1>4
  <2>3. more # <<>>
    BY <1>1, <1>4
  <2>4. QED
    BY <2>1, <2>2, <2>3 DEF SystemFirst
<1> HIDE DEF more
<1>8. QED
  BY <1>3, <1>6, <1>7 DEF Reads

\* Calls pass once those before them are answered.
LEMMA CallsRead ==
  ASSUME NEW S, NEW ms \in Seq(S), NEW C, NEW ids, Reads(ms, C, C), ids \notin {NULL, <<>>}
  PROVE  Reads(Append(ms, Calls(ids)), C \cup ToSet(ids), C)
<1> DEFINE m == Calls(ids)
           s == [ok |-> TRUE, called |-> C, answered |-> C]
<1>1. m.role = "assistant" /\ m.calls = ids
  BY DEF Calls, Calling
<1>2. IsCalls(m) /\ Kept(m) /\ m.role # "system"
  BY <1>1 DEF IsCalls, Kept
<1> HIDE DEF m
<1>3. Scan(s, m) = [ok |-> s.ok /\ s.called \subseteq s.answered,
                    called |-> s.called \cup ToSet(m.calls), answered |-> s.answered]
  BY <1>2, ScanStep
<1>4. (s.ok /\ s.called \subseteq s.answered) = TRUE
  OBVIOUS
<1>5. Scan(s, m) = [ok |-> TRUE, called |-> C \cup ToSet(ids), answered |-> C]
  BY <1>1, <1>3, <1>4
<1>6. Reads(Append(ms, m), C \cup ToSet(ids), C)
  BY <1>2, <1>5, ReadsAppend
<1>7. QED
  BY <1>6 DEF m

\* The answer to a call that is still open passes.
LEMMA AnswerReads ==
  ASSUME NEW S, NEW ms \in Seq(S), NEW C, NEW A, NEW id \in C \ A, Reads(ms, C, A)
  PROVE  Reads(Append(ms, Function(id)), C, A \cup {id})
<1> DEFINE m == Function(id)
           s == [ok |-> TRUE, called |-> C, answered |-> A]
<1>1. m.role = "function" /\ m.id = id /\ m.content = "text"
  BY DEF Function, Returning
<1>2. Kept(m) /\ m.role # "system"
  BY <1>1 DEF Kept
<1> HIDE DEF m
<1>3. Scan(s, m) = [ok |-> s.ok /\ m.id \in s.called \ s.answered,
                    called |-> s.called, answered |-> s.answered \cup {m.id}]
  BY <1>1, ScanStep
<1>4. (s.ok /\ m.id \in s.called \ s.answered) = TRUE
  BY <1>1
<1>5. Scan(s, m) = [ok |-> TRUE, called |-> C, answered |-> A \cup {id}]
  BY <1>1, <1>3, <1>4
<1>6. Reads(Append(ms, m), C, A \cup {id})
  BY <1>2, <1>5, ReadsAppend
<1>7. QED
  BY <1>6 DEF m

-----------------------------------------------------------------------------
\* The messages of a round: the calls, and the answers to the first k.
AnswersTo(ids, k) == [j \in 1..k |-> Function(ids[j])]

Round(ms, ids, k) == Append(ms, Calls(ids)) \o AnswersTo(ids, k)

\* What a round is made of.
Parts(S, ids, k) == S \cup {Calls(ids)} \cup {Function(ids[j]) : j \in 1..k}

\* A list of messages with a round of calls and answers behind it is a list of
\* messages.
LEMMA RoundType ==
  ASSUME NEW S, NEW ms \in Seq(S), NEW ids, NEW k \in Nat
  PROVE  Round(ms, ids, k) \in Seq(Parts(S, ids, k))
<1>1. Append(ms, Calls(ids)) \in Seq(S \cup {Calls(ids)})
  OBVIOUS
<1>2. AnswersTo(ids, k) \in Seq({Function(ids[j]) : j \in 1..k})
  <2> DEFINE R == {Function(ids[j]) : j \in 1..k}
             reply(j) == Function(ids[j])
  <2>1. \A j \in 1..k : reply(j) \in R
    OBVIOUS
  <2> HIDE DEF R, reply
  <2>2. [j \in 1..k |-> reply(j)] \in Seq(R)
    BY <2>1
  <2>3. QED
    BY <2>2 DEF AnswersTo, R, reply
<1>3. QED
  BY <1>1, <1>2, SMTT(30) DEF Round, Parts

\* One more answer is one more message.
LEMMA RoundAppend ==
  ASSUME NEW S, NEW ms \in Seq(S), NEW ids, NEW k \in Nat
  PROVE  /\ Round(ms, ids, 0) = Append(ms, Calls(ids))
         /\ Round(ms, ids, k + 1) = Append(Round(ms, ids, k), Function(ids[k + 1]))
<1> DEFINE T == Parts(S, ids, k + 1)
           head == Append(ms, Calls(ids))
           m == Function(ids[k + 1])
<1>1. head \in Seq(T) /\ m \in T
  BY DEF Parts
<1>2. AnswersTo(ids, 0) = <<>>
  BY DEF AnswersTo
<1>3. AnswersTo(ids, k + 1) = Append(AnswersTo(ids, k), m)
  BY DEF AnswersTo
<1>4. AnswersTo(ids, k) \in Seq(T)
  BY DEF AnswersTo, Parts
<1> HIDE DEF T, m, head
<1>5. head \o Append(AnswersTo(ids, k), m) = Append(head \o AnswersTo(ids, k), m)
  BY <1>1, <1>4
<1>6. head \o <<>> = head
  BY <1>1
<1>7. Round(ms, ids, 0) = head
  BY <1>2, <1>6 DEF Round, head
<1>8. Round(ms, ids, k + 1) = Append(Round(ms, ids, k), m)
  BY <1>3, <1>5 DEF Round, head
<1>9. QED
  BY <1>7, <1>8 DEF head, m

\* A round of calls with fresh ids, all answered in order, keeps a list
\* acceptable, however many calls it has.
LEMMA RoundAccepted ==
  ASSUME NEW S, NEW ms \in Seq(S), NEW C, NEW ids \in Seq(C), ids \notin {NULL, <<>>},
         IsInjective(ids), Accepts(ms), ToSet(ids) \cap Called(ms, Len(ms)) = {}
  PROVE  Accepts(Round(ms, ids, Len(ids)))
<1>1. PICK B : Reads(ms, B, B) /\ B \subseteq Called(ms, Len(ms))
  BY AcceptedReads
<1> DEFINE n == Len(ids)
           D == B \cup ToSet(ids)
           Done(k) == B \cup {ids[j] : j \in 1..k}
           T == {k \in Nat : k <= n => Reads(Round(ms, ids, k), D, Done(k))}
<1>2. n \in Nat /\ DOMAIN ids = 1..n
  OBVIOUS
<1>3. ToSet(ids) = {ids[j] : j \in 1..n} /\ ToSet(ids) \cap B = {}
  BY <1>1, <1>2 DEF ToSet
<1>4. 0 \in T
  <2>1. Reads(Append(ms, Calls(ids)), D, B)
    BY <1>1, CallsRead
  <2>2. Done(0) = B
    OBVIOUS
  <2>3. Round(ms, ids, 0) = Append(ms, Calls(ids))
    BY RoundAppend
  <2>4. QED
    BY <2>1, <2>2, <2>3
<1>5. ASSUME NEW k \in Nat, k \in T
      PROVE  k + 1 \in T
  <2> SUFFICES ASSUME k + 1 <= n PROVE Reads(Round(ms, ids, k + 1), D, Done(k + 1))
    OBVIOUS
  <2>1. k <= n /\ k + 1 \in 1..n /\ 1..k \subseteq 1..n /\ k + 1 \notin 1..k
    BY <1>2
  <2>2. Reads(Round(ms, ids, k), D, Done(k))
    BY <1>5, <2>1
  <2>3. ids[k + 1] \in D \ Done(k)
    <3>1. ids[k + 1] \in ToSet(ids)
      BY <1>3, <2>1
    <3>2. \A j \in 1..k : ids[j] # ids[k + 1]
      BY <1>2, <2>1 DEF IsInjective
    <3>3. QED
      BY <1>3, <3>1, <3>2
  <2>4. Done(k + 1) = Done(k) \cup {ids[k + 1]}
    <3>1. 1..(k + 1) = 1..k \cup {k + 1}
      OBVIOUS
    <3>2. QED
      BY <3>1
  <2>5. Round(ms, ids, k) \in Seq(Parts(S, ids, k))
    BY RoundType
  <2> HIDE DEF D, Done, n
  <2>6. Round(ms, ids, k + 1) = Append(Round(ms, ids, k), Function(ids[k + 1]))
    BY RoundAppend
  <2>7. Reads(Append(Round(ms, ids, k), Function(ids[k + 1])), D, Done(k) \cup {ids[k + 1]})
    BY <2>2, <2>3, <2>5, AnswerReads
  <2>8. QED
    BY <2>4, <2>6, <2>7
<1> HIDE DEF T
<1>6. n \in T
  BY <1>2, <1>4, <1>5, Keeps!Induction
<1>7. Reads(Round(ms, ids, n), D, Done(n)) /\ D \subseteq Done(n)
  BY <1>2, <1>3, <1>6 DEF T
<1>8. QED
  BY <1>7, ReadAccepted

\* A round without calls adds a message that says nothing, which is dropped.
LEMMA NoRound ==
  ASSUME NEW S, NEW ms \in Seq(S), Accepts(ms)
  PROVE  Accepts(Round(ms, <<>>, Len(<<>>)))
<1> DEFINE m == Calls(<<>>)
<1>1. Round(ms, <<>>, Len(<<>>)) = Append(ms, m)
  <2>1. Len(<<>>) = 0 /\ 0 \in Nat
    OBVIOUS
  <2>2. QED
    BY <2>1, RoundAppend
<1>2. ~Kept(m)
  BY DEF Kept, Calls, Calling
<1> HIDE DEF m
<1>3. ms \in Seq(S \cup {m}) /\ m \in S \cup {m}
  OBVIOUS
<1>4. Converted(Append(ms, m)) = Keep(Converted(ms), m)
  BY <1>3, ConvertedAppend
<1>5. Converted(Append(ms, m)) = Converted(ms)
  BY <1>2, <1>4 DEF Keep
<1>6. QED
  BY <1>1, <1>5 DEF Accepts

\* The lists of calls of the client are sequences of ids.
LEMMA CallListsAreLists ==
  ASSUME NEW ids \in CallLists
  PROVE  ids \in Seq(CallIds) /\ ids # NULL
<1>1. PICK n \in 0..MaxCalls : ids \in [1..n -> CallIds]
  BY DEF CallLists, BoundedSeq, SeqOf
<1>2. n \in Nat
  BY BoundAssumption
<1>3. ids \in Seq(CallIds)
  BY <1>1, <1>2
<1>4. QED
  BY <1>3, BoundAssumption DEF CallLists

\* What the tool loop of the admin API sends back is accepted again.
THEOREM RoundsAreAccepted == Spec => []ToolRoundAccepted
<1>1. ASSUME IInv, NEW ids \in CallLists, Accepts(messages), IsInjective(ids),
             ToSet(ids) \cap Called(messages, Len(messages)) = {}
      PROVE  Accepts(Append(messages, Calls(ids)) \o [k \in DOMAIN ids |-> Function(ids[k])])
  <2>1. ids \in Seq(CallIds) /\ ids # NULL
    BY CallListsAreLists
  <2>2. Accepts(Round(messages, ids, Len(ids)))
    <3>1. CASE ids # <<>>
      BY <1>1, <2>1, <3>1, RoundAccepted DEF IInv
    <3>2. CASE ids = <<>>
      BY <1>1, <3>2, NoRound DEF IInv
    <3>3. QED
      BY <3>1, <3>2
  <2>3. DOMAIN ids = 1..Len(ids)
    BY <2>1
  <2>4. QED
    BY <2>2, <2>3 DEF Round, AnswersTo
<1>2. IInv => ToolRoundAccepted
  BY <1>1 DEF ToolRoundAccepted
<1>3. QED
  BY <1>2, Invariance, PTL

-----------------------------------------------------------------------------
\* The merge goes over the positions of a list, from its initial state.
Upto(k) == [i \in 1..k |-> i]

MergeStart == [out |-> <<>>, open |-> <<>>, prev |-> NULL, end |-> "merged"]

Merging(kept, k) == Merges!Folded(kept, MergeStart, Upto(k))

\* One more position is one more step of the merge.
LEMMA MergeFolds ==
  /\ \A S : \A kept \in Seq(S) : MergeAll(kept) = Merging(kept, Len(kept))
  /\ \A kept : Merging(kept, 0) = MergeStart
  /\ \A kept : \A k \in Nat : Merging(kept, k + 1) = MergeStep(kept, Merging(kept, k), k + 1)
<1>1. ASSUME NEW S, NEW kept \in Seq(S)
      PROVE  MergeAll(kept) = Merging(kept, Len(kept))
  <2>1. DOMAIN kept = 1..Len(kept)
    OBVIOUS
  <2>2. MergeAll(kept) = Merges!Folded(kept, MergeStart, [i \in DOMAIN kept |-> i])
    BY DEF MergeAll, MergeStart, FoldLeftDomain, Merges!Folded, FoldLeft, Merges!FoldLeft,
           MapThenFoldSet, Merges!MapThenFoldSet, Max, Merges!Max
  <2>3. QED
    BY <2>1, <2>2 DEF Merging, Upto
<1>2. ASSUME NEW kept PROVE Merging(kept, 0) = MergeStart
  <2>1. Upto(0) = <<>>
    BY DEF Upto
  <2>2. QED
    BY <2>1, Merges!FoldEmpty DEF Merging
<1>3. ASSUME NEW kept, NEW k \in Nat
      PROVE  Merging(kept, k + 1) = MergeStep(kept, Merging(kept, k), k + 1)
  <2>1. Upto(k + 1) = Append(Upto(k), k + 1) /\ Upto(k) \in Seq(Nat) /\ k + 1 \in Nat
    BY DEF Upto
  <2>2. Merges!Folded(kept, MergeStart, Append(Upto(k), k + 1))
          = MergeStep(kept, Merges!Folded(kept, MergeStart, Upto(k)), k + 1)
    BY <2>1, Merges!FoldAppend
  <2>3. QED
    BY <2>1, <2>2 DEF Merging
<1>4. QED
  BY <1>1, <1>2, <1>3

\* A merged message is of one role, and of texts or not.
IsPart(kept, p) ==
  /\ p \in Seq(Nat) /\ p # <<>>
  /\ \A k \in DOMAIN p : /\ kept[p[k]].role = kept[p[1]].role
                         /\ IsText(kept[p[k]]) <=> IsText(kept[p[1]])

\* Two texts in a row are not of one role.
MayFollow(kept, p, q) ==
  IsText(kept[p[1]]) /\ IsText(kept[q[1]]) => kept[p[1]].role # kept[q[1]].role

AreParts(kept, ps) ==
  /\ ps \in Seq(Seq(Nat))
  /\ \A i \in 1..Len(ps) : IsPart(kept, ps[i])
  /\ \A i \in 1..Len(ps) : i > 1 => MayFollow(kept, ps[i - 1], ps[i])

\* One more merged message.
LEMMA OneMorePart ==
  ASSUME NEW kept, NEW ps \in Seq(Seq(Nat)), NEW p \in Seq(Nat)
  PROVE  AreParts(kept, Append(ps, p)) <=>
           /\ AreParts(kept, ps)
           /\ IsPart(kept, p)
           /\ ps # <<>> => MayFollow(kept, ps[Len(ps)], p)
<1> DEFINE n == Len(ps)
           more == Append(ps, p)
<1>1. n \in Nat /\ (ps # <<>> <=> n > 0) /\ Len(more) = n + 1 /\ more \in Seq(Seq(Nat))
  OBVIOUS
<1>2. more[n + 1] = p /\ \A i \in 1..n : more[i] = ps[i]
  OBVIOUS
<1> HIDE DEF n, more
<1>3. (\A i \in 1..(n + 1) : IsPart(kept, more[i]))
        <=> (\A i \in 1..n : IsPart(kept, ps[i])) /\ IsPart(kept, p)
  BY <1>1, <1>2, SMTT(30)
<1>4. (\A i \in 1..(n + 1) : i > 1 => MayFollow(kept, more[i - 1], more[i]))
        <=> /\ \A i \in 1..n : i > 1 => MayFollow(kept, ps[i - 1], ps[i])
            /\ n > 0 => MayFollow(kept, ps[n], p)
  <2>1. \A i \in 1..n : i > 1 => more[i - 1] = ps[i - 1] /\ more[i] = ps[i]
    BY <1>1, <1>2
  <2>2. n > 0 => more[(n + 1) - 1] = ps[n] /\ n + 1 > 1
    BY <1>1, <1>2
  <2>3. n + 1 \in 1..(n + 1) /\ (n + 1 > 1 => n > 0)
    BY <1>1
  <2>4. \A i \in 1..(n + 1) : i \in 1..n \/ i = n + 1
    BY <1>1
  <2>5. 1..n \subseteq 1..(n + 1)
    BY <1>1
  <2>6. QED
    BY <1>1, <1>2, <2>1, <2>2, <2>3, <2>4, <2>5
<1>5. QED
  BY <1>1, <1>3, <1>4 DEF AreParts, n, more

\* A state of the merge.
IsMerge(s) == s = [out |-> s.out, open |-> s.open, prev |-> s.prev, end |-> s.end]

\* What one step of the merge does, unless the merge has raised or does so now.
LEMMA MergeCases ==
  ASSUME NEW kept, NEW i, NEW s, IsMerge(s), NEW t, t = MergeStep(kept, s, i), t.end # "raised"
  PROVE  /\ IsMerge(t) /\ s.end # "raised"
         /\ \/ /\ ~IsText(kept[i])
               /\ t.out = Append(Flushed(s), <<i>>) /\ t.open = <<>> /\ t.prev = s.prev
            \/ /\ IsText(kept[i]) /\ kept[i].role # s.prev
               /\ t.out = Flushed(s) /\ t.open = <<i>> /\ t.prev = kept[i].role
            \/ /\ IsText(kept[i]) /\ kept[i].role = s.prev /\ s.open # <<>>
               /\ t.out = s.out /\ t.open = Append(s.open, i) /\ t.prev = s.prev
<1>1. s.end # "raised"
  BY DEF MergeStep
<1>2. CASE ~IsText(kept[i])
  <2>1. t = [s EXCEPT !.out = Append(Flushed(s), <<i>>), !.open = <<>>]
    BY <1>1, <1>2 DEF MergeStep
  <2>2. t = [out |-> Append(Flushed(s), <<i>>), open |-> <<>>, prev |-> s.prev, end |-> s.end]
    BY <2>1 DEF IsMerge
  <2>3. QED
    BY <1>1, <1>2, <2>2 DEF IsMerge
<1>3. CASE IsText(kept[i]) /\ kept[i].role # s.prev
  <2>1. t = [s EXCEPT !.out = Flushed(s), !.open = <<i>>, !.prev = kept[i].role]
    BY <1>1, <1>3 DEF MergeStep
  <2>2. t = [out |-> Flushed(s), open |-> <<i>>, prev |-> kept[i].role, end |-> s.end]
    BY <2>1 DEF IsMerge
  <2>3. QED
    BY <1>1, <1>3, <2>2 DEF IsMerge
<1>4. CASE IsText(kept[i]) /\ kept[i].role = s.prev
  <2>1. t = Join(kept, s, i)
    BY <1>1, <1>4 DEF MergeStep
  <2>2. [s EXCEPT !.end = "raised"].end = "raised"
    BY DEF IsMerge
  <2>3. ~(s.open = <<>> \/ kept[i].content = "parts")
    BY <2>1, <2>2 DEF Join
  <2>4. PICK e : t = [s EXCEPT !.open = Append(s.open, i), !.end = e]
    BY <2>1, <2>3 DEF Join
  <2>5. t = [out |-> s.out, open |-> Append(s.open, i), prev |-> s.prev, end |-> e]
    BY <2>4 DEF IsMerge
  <2>6. QED
    BY <1>1, <1>4, <2>3, <2>5 DEF IsMerge
<1>5. QED
  BY <1>2, <1>3, <1>4

\* A step of the merge makes a state of a state.
LEMMA MergeStepType ==
  ASSUME NEW kept, NEW i, NEW s, IsMerge(s)
  PROVE  IsMerge(MergeStep(kept, s, i))
BY DEF MergeStep, Join, IsMerge

\* The state of the merge after the first k messages: what it has put out
\* and the open text are these messages, merged as they should be, and
\* prev_role is the role of the last text as long as that text is open.
MergeState(kept, s, k) ==
  /\ s.out \in Seq(Seq(Nat)) /\ s.open \in Seq(Nat)
  /\ FlattenSeq(s.out) \o s.open = Upto(k)
  /\ AreParts(kept, s.out)
  /\ s.open # <<>> => /\ IsPart(kept, s.open)
                      /\ IsText(kept[s.open[1]]) /\ kept[s.open[1]].role = s.prev
                      /\ s.out # <<>> => MayFollow(kept, s.out[Len(s.out)], s.open)
  /\ s.open = <<>> /\ s.out # <<>> => ~IsText(kept[s.out[Len(s.out)][1]])

\* One more merged message, and what the merged messages hold.
LEMMA FlattenedAppend ==
  ASSUME NEW ps \in Seq(Seq(Nat)), NEW p \in Seq(Nat)
  PROVE  /\ FlattenSeq(<<>>) = <<>> /\ FlattenSeq(ps) \in Seq(Nat)
         /\ FlattenSeq(Append(ps, p)) = FlattenSeq(ps) \o p
<1>1. \A seqs : FlattenSeq(seqs) = Keeps!FlattenSeq(seqs)
  BY DEF FlattenSeq, Keeps!FlattenSeq
<1>2. /\ Keeps!FlattenSeq(ps) \in Seq(Nat)
      /\ Keeps!FlattenSeq(Append(ps, p)) = Keeps!FlattenSeq(ps) \o p
  BY Keeps!FlattenAppend
<1>3. FlattenSeq(<<>>) = <<>>
  BY DEF FlattenSeq
<1>4. QED
  BY <1>1, <1>2, <1>3

\* The merged messages of a state, its open text included.
LEMMA FlushedParts ==
  ASSUME NEW kept, NEW s, NEW k \in Nat, MergeState(kept, s, k)
  PROVE  /\ Flushed(s) \in Seq(Seq(Nat)) /\ FlattenSeq(Flushed(s)) = Upto(k)
         /\ AreParts(kept, Flushed(s))
         /\ Flushed(s) # <<>> /\ IsText(kept[Flushed(s)[Len(Flushed(s))][1]])
              => kept[Flushed(s)[Len(Flushed(s))][1]].role = s.prev
<1>1. CASE s.open = <<>>
  <2>1. Flushed(s) = s.out
    BY <1>1 DEF Flushed
  <2>2. FlattenSeq(s.out) \in Seq(Nat)
    BY FlattenedAppend, s.open \in Seq(Nat) DEF MergeState
  <2>3. FlattenSeq(s.out) \o <<>> = FlattenSeq(s.out)
    BY <2>2
  <2>4. QED
    BY <1>1, <2>1, <2>3 DEF MergeState
<1>2. CASE s.open # <<>>
  <2> DEFINE out == s.out
             open == s.open
  <2>1. Flushed(s) = Append(out, open)
    BY <1>2 DEF Flushed
  <2>2. out \in Seq(Seq(Nat)) /\ open \in Seq(Nat)
    BY DEF MergeState
  <2>3. FlattenSeq(out) \o open = Upto(k) /\ AreParts(kept, out) /\ IsPart(kept, open)
    BY <1>2 DEF MergeState
  <2>4. /\ kept[open[1]].role = s.prev
        /\ out # <<>> => MayFollow(kept, out[Len(out)], open)
    BY <1>2 DEF MergeState
  <2> HIDE DEF out, open
  <2>5. AreParts(kept, Append(out, open))
    BY <2>2, <2>3, <2>4, OneMorePart
  <2>6. FlattenSeq(Append(out, open)) = Upto(k)
    BY <2>2, <2>3, FlattenedAppend
  <2>7. /\ Append(out, open) \in Seq(Seq(Nat))
        /\ Append(out, open)[Len(Append(out, open))] = open
    BY <2>2
  <2>8. QED
    BY <2>1, <2>4, <2>5, <2>6, <2>7
<1>3. QED
  BY <1>1, <1>2

\* A message is merged as it should be, unless the merge raises.
LEMMA MergeStepKeeps ==
  ASSUME NEW kept, NEW k \in Nat, NEW s, IsMerge(s), s.end # "raised" => MergeState(kept, s, k),
         NEW t, t = MergeStep(kept, s, k + 1), t.end # "raised"
  PROVE  IsMerge(t) /\ MergeState(kept, t, k + 1)
<1> DEFINE i == k + 1
           ps == Flushed(s)
           one == <<i>>
<1>1. IsMerge(t) /\ s.end # "raised"
  BY MergeCases
<1>2. MergeState(kept, s, k)
  BY <1>1
<1>3. /\ ps \in Seq(Seq(Nat)) /\ FlattenSeq(ps) = Upto(k) /\ AreParts(kept, ps)
      /\ ps # <<>> /\ IsText(kept[ps[Len(ps)][1]]) => kept[ps[Len(ps)][1]].role = s.prev
  BY <1>2, FlushedParts
<1>4. Upto(i) = Append(Upto(k), i) /\ Upto(k) \in Seq(Nat) /\ i \in Nat
  BY DEF Upto
<1>5. one \in Seq(Nat) /\ IsPart(kept, one) /\ one[1] = i /\ one # <<>>
  BY <1>4 DEF IsPart
<1>6. Upto(k) \o one = Upto(i) /\ Upto(i) \o <<>> = Upto(i)
  <2> DEFINE u == Upto(k)
  <2>1. u \in Seq(Nat) /\ i \in Nat /\ Upto(i) = Append(u, i)
    BY <1>4
  <2> HIDE DEF u, i
  <2>2. u \o <<i>> = Append(u, i)
    BY <2>1
  <2>3. Append(u, i) \o <<>> = Append(u, i)
    BY <2>1
  <2>4. QED
    BY <2>1, <2>2, <2>3 DEF u
<1> HIDE DEF one
<1>7. Append(ps, one) \in Seq(Seq(Nat)) /\ Append(ps, one)[Len(Append(ps, one))] = one
  BY <1>3, <1>5
<1> HIDE DEF i, ps
<1>8. CASE /\ ~IsText(kept[i])
           /\ t.out = Append(ps, one) /\ t.open = <<>> /\ t.prev = s.prev
  <2>1. t.out \in Seq(Seq(Nat)) /\ t.open \in Seq(Nat) /\ t.out[Len(t.out)] = one
    <3>1. <<>> \in Seq(Nat)
      OBVIOUS
    <3>2. t.out = Append(ps, one) /\ t.open = <<>>
      BY <1>8
    <3>3. QED
      BY <1>7, <3>1, <3>2, Zenon
  <2>2. FlattenSeq(t.out) = Upto(i)
    BY <1>3, <1>5, <1>6, <1>8, FlattenedAppend
  <2>3. ps # <<>> => MayFollow(kept, ps[Len(ps)], one)
    BY <1>5, <1>8 DEF MayFollow
  <2>4. AreParts(kept, t.out)
    <3>1. AreParts(kept, Append(ps, one))
      BY <1>3, <1>5, <2>3, OneMorePart
    <3>2. t.out = Append(ps, one)
      BY <1>8
    <3>3. QED
      BY <3>1, <3>2
  <2>5. MergeState(kept, t, i)
    BY <1>5, <1>6, <1>8, <2>1, <2>2, <2>4 DEF MergeState
  <2>6. QED
    BY <1>1, <2>5 DEF i
<1>9. CASE /\ IsText(kept[i]) /\ kept[i].role # s.prev
           /\ t.out = ps /\ t.open = one /\ t.prev = kept[i].role
  <2>1. ps # <<>> => MayFollow(kept, ps[Len(ps)], one)
    BY <1>3, <1>5, <1>9 DEF MayFollow
  <2>2. MergeState(kept, t, i)
    BY <1>3, <1>5, <1>6, <1>9, <2>1 DEF MergeState
  <2>3. QED
    BY <1>1, <2>2 DEF i
<1>10. CASE /\ IsText(kept[i]) /\ kept[i].role = s.prev /\ s.open # <<>>
           /\ t.out = s.out /\ t.open = Append(s.open, i) /\ t.prev = s.prev
  <2> DEFINE out == s.out
             open == s.open
             more == Append(open, i)
  <2>1. out \in Seq(Seq(Nat)) /\ open \in Seq(Nat) /\ AreParts(kept, out)
    BY <1>2 DEF MergeState
  <2>2. FlattenSeq(out) \o open = Upto(k)
    BY <1>2 DEF MergeState
  <2>3. /\ IsPart(kept, open) /\ IsText(kept[open[1]]) /\ kept[open[1]].role = s.prev
        /\ out # <<>> => MayFollow(kept, out[Len(out)], open)
    BY <1>2, <1>10 DEF MergeState
  <2>4. open # <<>> /\ t.out = out /\ t.open = more /\ t.prev = s.prev
    BY <1>10
  <2> HIDE DEF out, open
  <2>5. /\ more \in Seq(Nat) /\ more # <<>> /\ more[1] = open[1]
        /\ \A j \in DOMAIN more : more[j] = i \/ (j \in DOMAIN open /\ more[j] = open[j])
    <3>1. Len(open) \in Nat /\ Len(open) > 0 /\ i \in Nat
      BY <1>4, <2>1, <2>4
    <3>2. /\ DOMAIN more = DOMAIN open \cup {Len(open) + 1}
          /\ \A j \in DOMAIN open : more[j] = open[j]
          /\ more[Len(open) + 1] = i
      BY <2>1, <3>1
    <3>3. more \in Seq(Nat) /\ 1 \in DOMAIN open
      BY <2>1, <3>1
    <3>4. more # <<>>
      BY <3>2
    <3> HIDE DEF more
    <3>5. more[1] = open[1]
      BY <3>2, <3>3
    <3>6. ASSUME NEW j \in DOMAIN more
          PROVE  more[j] = i \/ (j \in DOMAIN open /\ more[j] = open[j])
      BY <3>2
    <3>7. QED
      BY <3>3, <3>4, <3>5, <3>6
  <2>6. FlattenSeq(out) \in Seq(Nat)
    BY <2>1, FlattenedAppend
  <2>7. FlattenSeq(out) \o more = Append(FlattenSeq(out) \o open, i)
    BY <1>4, <2>1, <2>6
  <2>8. FlattenSeq(out) \o more = Upto(i)
    BY <1>4, <2>2, <2>7
  <2> HIDE DEF more
  <2>9. IsPart(kept, more)
    <3>1. \A j \in DOMAIN more : kept[more[j]].role = kept[more[1]].role
      BY <1>10, <2>3, <2>5 DEF IsPart
    <3>2. \A j \in DOMAIN more : IsText(kept[more[j]]) <=> IsText(kept[more[1]])
      BY <1>10, <2>3, <2>5 DEF IsPart
    <3>3. QED
      BY <2>5, <3>1, <3>2 DEF IsPart
  <2>10. out # <<>> => MayFollow(kept, out[Len(out)], more)
    BY <2>3, <2>5 DEF MayFollow
  <2>11. IsText(kept[more[1]]) /\ kept[more[1]].role = s.prev
    BY <2>3, <2>5
  <2>12. MergeState(kept, t, i)
    BY <2>1, <2>4, <2>5, <2>8, <2>9, <2>10, <2>11 DEF MergeState
  <2>13. QED
    BY <1>1, <2>12 DEF i
<1>11. QED
  BY <1>8, <1>9, <1>10, MergeCases DEF i, ps, one

\* Every state of a merge that has not raised is as it should be.
LEMMA MergeStates ==
  ASSUME NEW kept
  PROVE  \A k \in Nat : LET s == Merging(kept, k) IN
                        IsMerge(s) /\ (s.end # "raised" => MergeState(kept, s, k))
<1> DEFINE Means(k) == LET s == Merging(kept, k) IN
                         IsMerge(s) /\ (s.end # "raised" => MergeState(kept, s, k))
           T == {k \in Nat : Means(k)}
<1>1. 0 \in T
  <2>1. Merging(kept, 0) = MergeStart
    BY MergeFolds
  <2>2. IsMerge(MergeStart)
    BY DEF IsMerge, MergeStart
  <2>3. MergeState(kept, MergeStart, 0)
    <3>1. Upto(0) = <<>> /\ FlattenSeq(<<>>) = <<>>
      BY DEF Upto, FlattenSeq
    <3>2. AreParts(kept, <<>>)
      BY DEF AreParts
    <3>3. <<>> \in Seq(Seq(Nat)) /\ <<>> \in Seq(Nat) /\ <<>> \o <<>> = <<>>
      OBVIOUS
    <3>4. QED
      BY <3>1, <3>2, <3>3 DEF MergeState, MergeStart
  <2>4. QED
    BY <2>1, <2>2, <2>3
<1>2. ASSUME NEW k \in Nat, k \in T
      PROVE  k + 1 \in T
  <2> DEFINE s == Merging(kept, k)
             t == Merging(kept, k + 1)
  <2>1. IsMerge(s) /\ (s.end # "raised" => MergeState(kept, s, k))
    BY <1>2
  <2>2. t = MergeStep(kept, s, k + 1)
    BY MergeFolds
  <2> HIDE DEF s, t
  <2>3. t.end # "raised" => IsMerge(t) /\ MergeState(kept, t, k + 1)
    BY <2>1, <2>2, MergeStepKeeps
  <2>4. IsMerge(t)
    BY <2>1, <2>2, MergeStepType
  <2>5. QED
    BY <2>3, <2>4 DEF t
<1> HIDE DEF T
<1>3. \A k \in Nat : k \in T
  BY <1>1, <1>2, Keeps!Induction
<1>4. QED
  BY <1>3 DEF T

\* The merge of a list is its last state, the open text put out.
LEMMA MergeEnds ==
  ASSUME NEW S, NEW kept \in Seq(S)
  PROVE  LET s == Merging(kept, Len(kept)) IN
         Merge(kept) = [messages |-> Flushed(s), end |-> s.end]
<1> DEFINE s == Merging(kept, Len(kept))
<1>1. MergeAll(kept) = s
  BY MergeFolds
<1>2. QED
  BY <1>1 DEF Merge

\* What a merge that has not raised makes of a list of any length.
LEMMA MergeMeans ==
  ASSUME NEW S, NEW kept \in Seq(S), Merge(kept).end # "raised"
  PROVE  /\ FlattenSeq(Merge(kept).messages) = Upto(Len(kept))
         /\ AreParts(kept, Merge(kept).messages)
<1> DEFINE s == Merging(kept, Len(kept))
<1>1. Len(kept) \in Nat /\ Merge(kept) = [messages |-> Flushed(s), end |-> s.end]
  BY MergeEnds
<1>2. MergeState(kept, s, Len(kept))
  BY <1>1, MergeStates
<1> HIDE DEF s
<1>3. QED
  BY <1>1, <1>2, FlushedParts

\* The merge loses no message, repeats none and changes no order.
THEOREM MergesAreWhole == Spec => []MergeKeepsAll
<1>1. ASSUME IInv, Merge(Converted(messages)).end # "raised"
      PROVE  FlattenSeq(Merge(Converted(messages)).messages)
               = [i \in DOMAIN Converted(messages) |-> i]
  <2> DEFINE kept == Converted(messages)
  <2>1. kept \in Seq(Message)
    BY <1>1, ConvertedType DEF IInv
  <2>2. FlattenSeq(Merge(kept).messages) = Upto(Len(kept))
    BY <1>1, <2>1, MergeMeans
  <2>3. DOMAIN kept = 1..Len(kept)
    BY <2>1
  <2>4. QED
    BY <2>2, <2>3 DEF Upto
<1>2. IInv => MergeKeepsAll
  BY <1>1 DEF MergeKeepsAll
<1>3. QED
  BY <1>2, Invariance, PTL

\* Merged texts alternate, and a merged message is of one role and kind.
THEOREM MergesAlternate == Spec => []MergedTextAlternates
<1>1. ASSUME NEW kept, NEW ps, AreParts(kept, ps), NEW i \in DOMAIN ps
      PROVE  /\ \A k \in DOMAIN ps[i] : kept[ps[i][k]].role = kept[ps[i][1]].role
             /\ \A k \in DOMAIN ps[i] : IsText(kept[ps[i][k]]) = IsText(kept[ps[i][1]])
             /\ i > 1 /\ IsText(kept[ps[i][1]]) /\ IsText(kept[ps[i - 1][1]])
                  => kept[ps[i][1]].role # kept[ps[i - 1][1]].role
  <2>1. i \in 1..Len(ps)
    BY <1>1 DEF AreParts
  <2>2. IsPart(kept, ps[i])
    BY <1>1, <2>1 DEF AreParts
  <2>3. i > 1 => MayFollow(kept, ps[i - 1], ps[i])
    BY <1>1, <2>1 DEF AreParts
  <2>4. \A k \in DOMAIN ps[i] : kept[ps[i][k]].role = kept[ps[i][1]].role
    BY <2>2 DEF IsPart
  <2>5. \A k \in DOMAIN ps[i] : IsText(kept[ps[i][k]]) <=> IsText(kept[ps[i][1]])
    BY <2>2 DEF IsPart
  <2>6. \A k \in DOMAIN ps[i] : IsText(kept[ps[i][k]]) = IsText(kept[ps[i][1]])
    BY <2>5 DEF IsText
  <2>7. QED
    BY <2>3, <2>4, <2>6 DEF MayFollow
<1>2. ASSUME IInv PROVE MergedTextAlternates
  <2> DEFINE kept == Converted(messages)
             ps == Merge(kept).messages
  <2>1. kept \in Seq(Message)
    BY <1>2, ConvertedType DEF IInv
  <2>2. Merge(kept).end # "raised" => AreParts(kept, ps)
    BY <2>1, MergeMeans
  <2>3. QED
    BY <1>1, <2>2 DEF MergedTextAlternates
<1>3. QED
  BY <1>2, Invariance, PTL
-----------------------------------------------------------------------------
\* Each merged message starts behind the one before it, and every message that
\* is no text starts one.
Starts(kept, ps, k) ==
  /\ \A i \in 1..Len(ps) : ps[i][1] \in 1..k
  /\ \A i, j \in 1..Len(ps) : i < j => ps[i][1] < ps[j][1]
  /\ \A a \in 1..k : ~IsText(kept[a]) => \E i \in 1..Len(ps) : ps[i][1] = a

\* The next message starts a merged message.
LEMMA StartsAppend ==
  ASSUME NEW kept, NEW k \in Nat, NEW ps \in Seq(Seq(Nat)), Starts(kept, ps, k),
         NEW p \in Seq(Nat), p[1] = k + 1
  PROVE  Starts(kept, Append(ps, p), k + 1)
<1> DEFINE n == Len(ps)
           more == Append(ps, p)
<1>1. n \in Nat /\ Len(more) = n + 1
  OBVIOUS
<1>2. more[n + 1] = p /\ \A i \in 1..n : more[i] = ps[i]
  OBVIOUS
<1>3. /\ \A i \in 1..n : ps[i][1] \in 1..k
      /\ \A i, j \in 1..n : i < j => ps[i][1] < ps[j][1]
      /\ \A a \in 1..k : ~IsText(kept[a]) => \E i \in 1..n : ps[i][1] = a
  BY DEF Starts
<1> HIDE DEF n, more
<1>4. more[n + 1][1] = k + 1 /\ \A i \in 1..n : more[i][1] = ps[i][1]
  BY <1>2
<1>5. \A i \in 1..(n + 1) : i \in 1..n \/ i = n + 1
  BY <1>1
<1>6. ASSUME NEW i \in 1..(n + 1)
      PROVE  more[i][1] \in 1..(k + 1)
  <2>1. CASE i \in 1..n
    <3>1. more[i][1] \in 1..k
      BY <1>3, <1>4, <2>1
    <3>2. QED
      BY <3>1
  <2>2. CASE i = n + 1
    BY <1>4, <2>2
  <2>3. QED
    BY <1>5, <2>1, <2>2
<1>7. ASSUME NEW i \in 1..(n + 1), NEW j \in 1..(n + 1), i < j
      PROVE  more[i][1] < more[j][1]
  <2>1. i \in 1..n
    BY <1>1, <1>7
  <2>2. CASE j \in 1..n
    BY <1>3, <1>4, <1>7, <2>1, <2>2
  <2>3. CASE j = n + 1
    <3>1. more[i][1] \in 1..k
      BY <1>3, <1>4, <2>1
    <3>2. more[j][1] = k + 1
      BY <1>4, <2>3
    <3>3. QED
      BY <3>1, <3>2
  <2>4. QED
    BY <1>5, <2>2, <2>3
<1>8. ASSUME NEW a \in 1..(k + 1), ~IsText(kept[a])
      PROVE  \E i \in 1..(n + 1) : more[i][1] = a
  <2>1. CASE a = k + 1
    BY <1>1, <1>4, <2>1
  <2>2. CASE a \in 1..k
    <3>1. PICK i \in 1..n : ps[i][1] = a
      BY <1>3, <1>8, <2>2
    <3>2. more[i][1] = a /\ i \in 1..(n + 1)
      BY <1>1, <1>4, <3>1
    <3>3. QED
      BY <3>2
  <2>3. QED
    BY <2>1, <2>2
<1>9. QED
  BY <1>1, <1>6, <1>7, <1>8 DEF Starts, n, more

\* The next message is a text that joins the open one.
LEMMA StartsJoined ==
  ASSUME NEW kept, NEW k \in Nat, NEW ps, NEW qs, Starts(kept, ps, k),
         Len(qs) = Len(ps), \A i \in 1..Len(ps) : qs[i][1] = ps[i][1], IsText(kept[k + 1])
  PROVE  Starts(kept, qs, k + 1)
<1>1. \A i \in 1..Len(qs) : qs[i][1] \in 1..(k + 1)
  BY DEF Starts
<1>2. \A i, j \in 1..Len(qs) : i < j => qs[i][1] < qs[j][1]
  BY DEF Starts
<1>3. \A a \in 1..(k + 1) : ~IsText(kept[a]) => \E i \in 1..Len(qs) : qs[i][1] = a
  BY DEF Starts
<1>4. QED
  BY <1>1, <1>2, <1>3 DEF Starts

\* What a merge that has not raised has put out starts as it should.
LEMMA MergeStarts ==
  ASSUME NEW kept
  PROVE  \A k \in Nat : LET s == Merging(kept, k) IN
                        s.end # "raised" => Starts(kept, Flushed(s), k)
<1> DEFINE Means(k) == LET s == Merging(kept, k) IN
                         s.end # "raised" => Starts(kept, Flushed(s), k)
           T == {k \in Nat : Means(k)}
<1>1. 0 \in T
  <2>1. Flushed(MergeStart) = <<>>
    BY DEF Flushed, MergeStart
  <2>2. Merging(kept, 0) = MergeStart
    BY MergeFolds
  <2>3. Starts(kept, <<>>, 0)
    BY DEF Starts
  <2>4. QED
    BY <2>1, <2>2, <2>3
<1>2. ASSUME NEW k \in Nat, k \in T
      PROVE  k + 1 \in T
  <2> DEFINE s == Merging(kept, k)
             t == Merging(kept, k + 1)
             one == <<k + 1>>
  <2> SUFFICES ASSUME t.end # "raised" PROVE Starts(kept, Flushed(t), k + 1)
    OBVIOUS
  <2>1. s.end # "raised" => Starts(kept, Flushed(s), k) /\ MergeState(kept, s, k)
    BY <1>2, MergeStates
  <2>2. t = MergeStep(kept, s, k + 1) /\ IsMerge(s)
    BY MergeFolds, MergeStates
  <2> HIDE DEF s, t
  <2>3. /\ s.end # "raised"
        /\ \/ t.out = Append(Flushed(s), one) /\ t.open = <<>>
           \/ t.out = Flushed(s) /\ t.open = one
           \/ /\ IsText(kept[k + 1]) /\ s.open # <<>>
              /\ t.out = s.out /\ t.open = Append(s.open, k + 1)
    BY <2>2, MergeCases
  <2>4. Starts(kept, Flushed(s), k) /\ MergeState(kept, s, k)
    BY <2>1, <2>3
  <2>5. one \in Seq(Nat) /\ one[1] = k + 1 /\ one # <<>>
    OBVIOUS
  <2>6. Flushed(s) \in Seq(Seq(Nat)) /\ s.out \in Seq(Seq(Nat)) /\ s.open \in Seq(Nat)
    BY <2>4, FlushedParts DEF MergeState
  <2> HIDE DEF one
  <2>7. CASE t.out = Append(Flushed(s), one) /\ t.open = <<>>
    BY <2>4, <2>5, <2>6, <2>7, StartsAppend DEF Flushed
  <2>8. CASE t.out = Flushed(s) /\ t.open = one
    BY <2>4, <2>5, <2>6, <2>8, StartsAppend DEF Flushed
  <2>9. CASE /\ IsText(kept[k + 1]) /\ s.open # <<>>
             /\ t.out = s.out /\ t.open = Append(s.open, k + 1)
    <3> DEFINE open == s.open
               out == s.out
               more == Append(open, k + 1)
    <3>1. more # <<>> /\ more[1] = open[1] /\ more \in Seq(Nat)
      <4>1. open \in Seq(Nat) /\ open # <<>> /\ k + 1 \in Nat
        BY <2>6, <2>9
      <4> HIDE DEF open
      <4>2. more \in Seq(Nat) /\ Len(more) = Len(open) + 1 /\ Len(open) \in Nat /\ Len(open) > 0
        BY <4>1
      <4>3. more[1] = open[1]
        BY <4>1, <4>2
      <4>4. QED
        BY <4>2, <4>3
    <3>2. Flushed(s) = Append(out, open) /\ Flushed(t) = Append(out, more)
      BY <2>9, <3>1 DEF Flushed
    <3> HIDE DEF open, out, more
    <3>3. out \in Seq(Seq(Nat)) /\ open \in Seq(Nat)
      BY <2>6 DEF open, out
    <3>4. Len(Append(out, open)) = Len(out) + 1 /\ Len(Append(out, more)) = Len(out) + 1
      BY <3>1, <3>3
    <3>5. \A i \in 1..(Len(out) + 1) : Append(out, more)[i][1] = Append(out, open)[i][1]
      BY <3>1, <3>3
    <3>6. QED
      BY <2>4, <2>9, <3>2, <3>4, <3>5, StartsJoined
  <2>10. QED
    BY <2>3, <2>7, <2>8, <2>9
<1> HIDE DEF T
<1>3. \A k \in Nat : k \in T
  BY <1>1, <1>2, Keeps!Induction
<1>4. QED
  BY <1>3 DEF T

-----------------------------------------------------------------------------
\* A list of messages as the adapters are handed it.
IsMessage(m) == m = [role |-> m.role, form |-> m.form, text |-> m.text,
                     calls |-> m.calls, names |-> m.names, id |-> m.id]
AreMessages(ms) ==
  /\ Len(ms) \in Nat /\ DOMAIN ms = 1..Len(ms) /\ ms \in Seq(ToSet(ms))
  /\ \A i \in 1..Len(ms) : IsMessage(ms[i])

\* Every result in such a list follows the calls that it answers.
Paired(ms) ==
  /\ AreMessages(ms)
  /\ \A i \in 1..Len(ms) : ms[i].role = "system" => i = 1
  /\ \A i \in 1..Len(ms) : IsCalls(ms[i]) =>
       ms[i].calls \in Seq(CallIds) /\ DOMAIN ms[i].names = DOMAIN ms[i].calls
  /\ \A i \in 1..Len(ms) : ms[i].role = "function" =>
       \E k \in 1..(i - 1) : IsCalls(ms[k]) /\ ms[i].id \in ToSet(ms[k].calls)

\* The calls of a client's message are a list of ids, each with a name.
LEMMA CallsOfMessages ==
  ASSUME NEW m \in Message, IsCalls(m)
  PROVE  m.calls \in Seq(CallIds) /\ DOMAIN m.names = DOMAIN m.calls
<1>1. m.calls # NULL
  BY DEF IsCalls
<1>2. PICK ids \in CallLists : \E c \in Forms, names \in [DOMAIN ids -> FunctionNames] :
                                  m = Calling(c, ids, names)
  BY <1>1 DEF Message, Text, Returning
<1>3. m.calls = ids /\ DOMAIN m.names = DOMAIN ids
  BY <1>2 DEF Calling
<1>4. QED
  BY <1>3, CallListsAreLists

\* What an adapter is handed of an accepted list that has been merged: the
\* roles, calls and ids of the messages that start the merged ones.
LEMMA HandedFields ==
  ASSUME IInv, Requested
  PROVE  \E h :
           LET ms == Handed(messages) IN
           /\ AreMessages(ms)
           /\ \A i \in 1..Len(ms) : /\ h[i] \in 1..Len(messages)
                                    /\ ms[i].role = messages[h[i]].role
                                    /\ ms[i].calls = messages[h[i]].calls
                                    /\ ms[i].names = messages[h[i]].names
                                    /\ ms[i].id = messages[h[i]].id
           /\ \A i, j \in 1..Len(ms) : i < j => h[i] < h[j]
           /\ \A a \in 1..Len(messages) :
                ~IsText(messages[a]) => \E i \in 1..Len(ms) : h[i] = a
<1> DEFINE n == Len(messages)
           s == Merging(messages, n)
           ps == Flushed(s)
           m == Len(ps)
           h == [i \in 1..m |-> ps[i][1]]
           ms == Handed(messages)
<1>1. messages \in Seq(Message) /\ n \in Nat
  BY DEF IInv
<1>2. Converted(messages) = messages /\ Merge(messages).end # "raised"
  BY DEF Requested
<1>3. Merge(messages) = [messages |-> ps, end |-> s.end]
  BY <1>1, MergeEnds
<1>4. Starts(messages, ps, n) /\ MergeState(messages, s, n)
  BY <1>1, <1>2, <1>3, MergeStates, MergeStarts
<1>5. ps \in Seq(Seq(Nat))
  BY <1>1, <1>4, FlushedParts
<1>6. m \in Nat /\ DOMAIN ps = 1..m
  BY <1>5
<1> DEFINE built(g) == [role |-> messages[g[1]].role, form |-> messages[g[1]].content,
                        text |-> FlattenSeq([k \in DOMAIN g |-> WordsAt(messages[g[k]].content, g[k])]),
                        calls |-> messages[g[1]].calls, names |-> messages[g[1]].names,
                        id |-> messages[g[1]].id]
<1>7. ms = [j \in DOMAIN ps |-> built(ps[j])]
  BY <1>2, <1>3 DEF Handed
<1>8. \A g : /\ built(g).role = messages[g[1]].role
             /\ built(g).calls = messages[g[1]].calls
             /\ built(g).names = messages[g[1]].names
             /\ built(g).id = messages[g[1]].id
             /\ IsMessage(built(g))
  BY DEF IsMessage
<1> HIDE DEF built, s, ps, n
<1>9. ms = [j \in 1..m |-> built(ps[j])]
  BY <1>6, <1>7
<1>10. Len(ms) = m /\ DOMAIN ms = 1..m
  BY <1>6, <1>9
<1>11. \A i \in 1..m : ms[i] = built(ps[i]) /\ h[i] = ps[i][1]
  BY <1>9
<1>12. \A i \in 1..m : /\ ms[i].role = messages[h[i]].role
                       /\ ms[i].calls = messages[h[i]].calls
                       /\ ms[i].names = messages[h[i]].names
                       /\ ms[i].id = messages[h[i]].id
  BY <1>8, <1>11
<1> HIDE DEF m, h, ms
<1>13. /\ \A i \in 1..m : h[i] \in 1..n
       /\ \A i, j \in 1..m : i < j => h[i] < h[j]
       /\ \A a \in 1..n : ~IsText(messages[a]) => \E i \in 1..m : h[i] = a
  BY <1>4, <1>11 DEF Starts, m
<1>14. AreMessages(ms)
  <2>1. ms \in Seq(ToSet(ms))
    <3>1. ms \in [1..m -> ToSet(ms)]
      BY <1>9 DEF ToSet
    <3>2. QED
      BY <1>6, <3>1
  <2>2. \A i \in 1..m : IsMessage(ms[i])
    BY <1>8, <1>11
  <2>3. QED
    BY <1>6, <1>10, <2>1, <2>2 DEF AreMessages
<1>15. /\ AreMessages(ms)
       /\ \A i \in 1..Len(ms) : /\ h[i] \in 1..Len(messages)
                                /\ ms[i].role = messages[h[i]].role
                                /\ ms[i].calls = messages[h[i]].calls
                                /\ ms[i].names = messages[h[i]].names
                                /\ ms[i].id = messages[h[i]].id
       /\ \A i, j \in 1..Len(ms) : i < j => h[i] < h[j]
       /\ \A a \in 1..Len(messages) :
            ~IsText(messages[a]) => \E i \in 1..Len(ms) : h[i] = a
  BY <1>10, <1>12, <1>13, <1>14 DEF n
<1>16. QED
  BY <1>15, Zenon DEF ms

\* In what an adapter is handed, results and calls are paired.
LEMMA HandedPaired ==
  ASSUME IInv, Requested
  PROVE  Paired(Handed(messages))
<1> DEFINE ms == Handed(messages)
           m == Len(ms)
           n == Len(messages)
<1>1. PICK h :
        /\ AreMessages(ms) /\ m \in Nat /\ DOMAIN ms = 1..m
        /\ \A i \in 1..m : /\ h[i] \in 1..n
                           /\ ms[i].role = messages[h[i]].role
                           /\ ms[i].calls = messages[h[i]].calls
                           /\ ms[i].names = messages[h[i]].names
                           /\ ms[i].id = messages[h[i]].id
        /\ \A i, j \in 1..m : i < j => h[i] < h[j]
        /\ \A a \in 1..n : ~IsText(messages[a]) => \E i \in 1..m : h[i] = a
  BY HandedFields DEF AreMessages
<1>2. messages \in Seq(Message) /\ n \in Nat /\ DOMAIN messages = 1..n
  BY DEF IInv
<1>3. WellFormed(messages)
  <2>1. Accepts(messages) /\ Converted(messages) = messages
    BY DEF Requested
  <2>2. QED
    BY <1>2, <2>1, AcceptsMeans
<1> HIDE DEF ms, m, n
<1>4. \A i \in 1..m : IsCalls(ms[i]) <=> IsCalls(messages[h[i]])
  BY <1>1 DEF IsCalls
<1>5. ASSUME NEW i \in 1..m, ms[i].role = "system"
      PROVE  i = 1
  <2>1. messages[h[i]].role = "system" /\ h[i] \in 1..n
    BY <1>1, <1>5
  <2>2. h[i] = 1
    BY <1>2, <1>3, <2>1 DEF WellFormed, Fitting
  <2>3. 1 \in 1..m /\ h[1] \in 1..n
    BY <1>1, <1>5
  <2>4. i > 1 => h[1] < h[i]
    BY <1>1, <2>3
  <2>5. QED
    BY <1>1, <1>2, <2>2, <2>3, <2>4
<1>6. ASSUME NEW i \in 1..m, IsCalls(ms[i])
      PROVE  ms[i].calls \in Seq(CallIds) /\ DOMAIN ms[i].names = DOMAIN ms[i].calls
  <2>1. IsCalls(messages[h[i]]) /\ messages[h[i]] \in Message
    BY <1>1, <1>2, <1>4, <1>6
  <2>2. QED
    BY <1>1, <2>1, CallsOfMessages
<1>7. ASSUME NEW i \in 1..m, ms[i].role = "function"
      PROVE  \E k \in 1..(i - 1) : IsCalls(ms[k]) /\ ms[i].id \in ToSet(ms[k].calls)
  <2> DEFINE a == h[i]
  <2>1. a \in 1..n /\ messages[a].role = "function" /\ messages[a].id = ms[i].id
    BY <1>1, <1>7
  <2>2. messages[a].id \in Called(messages, a)
    BY <1>2, <1>3, <2>1 DEF WellFormed, Fitting
  <2>3. PICK b \in 1..a : IsCalls(messages[b]) /\ messages[a].id \in ToSet(messages[b].calls)
    BY <2>2 DEF Called
  <2>4. b # a /\ ~IsText(messages[b])
    BY <2>1, <2>3 DEF IsCalls, IsText
  <2>5. b \in 1..n /\ b < a
    BY <1>2, <2>1, <2>3, <2>4
  <2>6. PICK k \in 1..m : h[k] = b
    BY <1>1, <2>4, <2>5
  <2>7. k < i
    <3>1. k # i
      BY <2>4, <2>6
    <3>2. i < k => a < b
      BY <1>1, <2>6
    <3>3. QED
      BY <1>1, <1>2, <2>1, <2>5, <3>1, <3>2
  <2>8. k \in 1..(i - 1)
    BY <1>1, <2>7
  <2>9. IsCalls(ms[k]) /\ ms[i].id \in ToSet(ms[k].calls)
    BY <1>1, <1>4, <2>1, <2>3, <2>6
  <2>10. QED
    BY <2>8, <2>9
<1>8. QED
  BY <1>1, <1>5, <1>6, <1>7 DEF Paired, ms, m

-----------------------------------------------------------------------------
\* In a body whose messages stand d places before those it was made of, the
\* result i names a call of the id it answers, and none of another id in the
\* same message.
NamesItsCall(ms, i, wire, d) ==
  \E k \in 1..(i - 1) :
    /\ IsCalls(ms[k])
    /\ DOMAIN wire[k - d].calls = DOMAIN ms[k].calls
    /\ \E n \in DOMAIN ms[k].calls : wire[k - d].calls[n] = wire[i - d].answers
    /\ \A n \in DOMAIN ms[k].calls :
         wire[k - d].calls[n] = wire[i - d].answers => ms[k].calls[n] = ms[i].id

NamesCalls(ms, i, body) ==
  ~body.raised => NamesItsCall(ms, i, body.messages, Len(ms) - Len(body.messages))

\* What the fields of a body are.
LEMMA BodyFields ==
  /\ \A wire, configs, tools :
       /\ Body(wire, configs, tools).messages = wire
       /\ Body(wire, configs, tools).raised = FALSE
  /\ Raised.raised = TRUE
BY DEF Body, Raised

\* What the fields of a message of a body are.
LEMMA WireFields ==
  /\ \A role, words, id : Answers(role, words, id).answers = id
  /\ \A role, ids : Asks(role, ids).calls = ids
BY DEF Answers, Asks

\* An adapter that passes the ids on names the calls.
LEMMA SameIdsName ==
  ASSUME NEW ms, Paired(ms), NEW i \in 1..Len(ms), ms[i].role = "function",
         NEW wire, NEW d, wire[i - d].answers = ms[i].id,
         \A k \in 1..(i - 1) : IsCalls(ms[k]) => wire[k - d].calls = ms[k].calls
  PROVE  NamesItsCall(ms, i, wire, d)
<1>1. PICK k \in 1..(i - 1) : IsCalls(ms[k]) /\ ms[i].id \in ToSet(ms[k].calls)
  BY DEF Paired
<1>2. wire[k - d].calls = ms[k].calls
  BY <1>1
<1>3. QED
  BY <1>1, <1>2 DEF NamesItsCall, ToSet

\* The adapters that speak the API of OpenAI.
Openai == {"openai", "azure_openai", "localai", "lm_studio", "ollama", "yi", "moonshot",
           "llama_api", "custom_tools", "custom_function", "minimax", "zhipu", "togetherai"}

OpenaiWire(ms) == [j \in DOMAIN ms |-> OpenaiMessage(ms[j])]

IsOpenai(body, ms) == body = Raised \/ \E c, t : body = Body(OpenaiWire(ms), c, t)

\* Each of these adapters has a copy of the code that makes OpenAI's messages.
LEMMA OpenaiBodies ==
  ASSUME NEW ms, NEW name \in Openai
  PROVE  IsOpenai(NamedRequest(name, Plain(ms)), ms)
<1> DEFINE req == Plain(ms)
<1>1. req.messages = ms
  BY DEF Plain
<1>2. IsOpenai(Raised, ms) /\ \A c, t : IsOpenai(Body(OpenaiWire(ms), c, t), ms)
  BY DEF IsOpenai
<1> HIDE DEF req
<1>3. IsOpenai(OpenaiRequest(req), ms)
  BY <1>1, <1>2 DEF OpenaiRequest, Chat, Each, OpenaiWire
<1>4. IsOpenai(YiRequest(req), ms)
  BY <1>1, <1>2 DEF YiRequest, YiMessage, Chat, Each, OpenaiWire
<1>5. IsOpenai(MoonshotRequest(req), ms)
  BY <1>1, <1>2 DEF MoonshotRequest, MoonshotMessage, Chat, Each, OpenaiWire
<1>6. IsOpenai(LlamaApiRequest(req), ms)
  BY <1>1, <1>2 DEF LlamaApiRequest, LlamaApiMessage, Chat, Each, OpenaiWire
<1>7. IsOpenai(CustomHostToolsRequest(req), ms)
  BY <1>1, <1>2 DEF CustomHostToolsRequest, CustomHostMessage, Chat, Each, OpenaiWire
<1>8. IsOpenai(CustomHostFunctionRequest(req), ms)
  BY <1>1, <1>2 DEF CustomHostFunctionRequest, CustomHostMessage, Chat, Each, OpenaiWire
<1>9. IsOpenai(MinimaxRequest(req), ms)
  BY <1>1, <1>2 DEF MinimaxRequest, MinimaxMessage, Chat, Each, OpenaiWire
<1>10. IsOpenai(ZhipuRequest(req), ms)
  BY <1>1, <1>2 DEF ZhipuRequest, ZhipuMessage, Chat, Each, OpenaiWire
<1>11. IsOpenai(TogetheraiRequest(req), ms)
  BY <1>1, <1>2 DEF TogetheraiRequest, TogetheraiMessage, Chat, Each, OpenaiWire
<1>12. name \in {"openai", "azure_openai", "localai", "lm_studio", "ollama"}
         => NamedRequest(name, req) = OpenaiRequest(req)
  BY DEF NamedRequest, AzureOpenaiRequest, LocalaiRequest, LmStudioRequest, OllamaRequest
<1>13. /\ name = "yi"              => NamedRequest(name, req) = YiRequest(req)
       /\ name = "moonshot"        => NamedRequest(name, req) = MoonshotRequest(req)
       /\ name = "llama_api"       => NamedRequest(name, req) = LlamaApiRequest(req)
       /\ name = "custom_tools"    => NamedRequest(name, req) = CustomHostToolsRequest(req)
       /\ name = "custom_function" => NamedRequest(name, req) = CustomHostFunctionRequest(req)
       /\ name = "minimax"         => NamedRequest(name, req) = MinimaxRequest(req)
       /\ name = "zhipu"           => NamedRequest(name, req) = ZhipuRequest(req)
       /\ name = "togetherai"      => NamedRequest(name, req) = TogetheraiRequest(req)
  BY DEF NamedRequest
<1>14. QED
  BY <1>3, <1>4, <1>5, <1>6, <1>7, <1>8, <1>9, <1>10, <1>11, <1>12, <1>13 DEF Openai, req

\* A call and a result keep their ids in OpenAI's messages.
LEMMA OpenaiIds ==
  ASSUME NEW x
  PROVE  /\ x.role = "function" => OpenaiMessage(x).answers = x.id
         /\ IsCalls(x) => OpenaiMessage(x).calls = x.calls
<1>1. ASSUME x.role = "function"
      PROVE  OpenaiMessage(x) = Answers("tool", x.text, x.id) /\ ~IsCalls(x)
  BY <1>1 DEF OpenaiMessage, IsCalls
<1>2. ASSUME IsCalls(x)
      PROVE  OpenaiMessage(x) = Asks("assistant", x.calls) /\ x.role # "function"
  BY <1>2 DEF OpenaiMessage, IsCalls
<1>3. QED
  BY <1>1, <1>2, WireFields

\* They name the calls by the ids that they were given.
LEMMA OpenaiNames ==
  ASSUME NEW ms, Paired(ms), NEW i \in 1..Len(ms), ms[i].role = "function", NEW name \in Openai
  PROVE  NamesCalls(ms, i, NamedRequest(name, Plain(ms)))
<1> DEFINE body == NamedRequest(name, Plain(ms))
           m == Len(ms)
           wire == OpenaiWire(ms)
<1>1. body = Raised \/ \E c, t : body = Body(wire, c, t)
  <2>1. IsOpenai(NamedRequest(name, Plain(ms)), ms)
    BY OpenaiBodies
  <2>2. QED
    BY <2>1 DEF IsOpenai
<1>2. m \in Nat /\ DOMAIN ms = 1..m
  BY DEF Paired, AreMessages
<1>3. Len(wire) = m /\ \A j \in 1..m : wire[j] = OpenaiMessage(ms[j])
  BY <1>2 DEF OpenaiWire
<1> HIDE DEF wire, m, body
<1>4. wire[i].answers = ms[i].id
  BY <1>3, OpenaiIds DEF m
<1>5. \A k \in 1..(i - 1) : k \in 1..m /\ k - 0 = k
  BY <1>2
<1>6. \A k \in 1..(i - 1) : IsCalls(ms[k]) => wire[k].calls = ms[k].calls
  BY <1>3, <1>5, OpenaiIds
<1>7. NamesItsCall(ms, i, wire, 0)
  <2>1. i - 0 = i
    BY <1>2
  <2>2. wire[i - 0].answers = ms[i].id
    BY <1>4, <2>1
  <2>3. \A k \in 1..(i - 1) : IsCalls(ms[k]) => wire[k - 0].calls = ms[k].calls
    BY <1>5, <1>6
  <2>4. QED
    BY <2>2, <2>3, SameIdsName DEF m
<1>8. CASE body = Raised
  BY <1>8, BodyFields DEF NamesCalls, body
<1>9. CASE \E c, t : body = Body(wire, c, t)
  <2>1. body.messages = wire /\ m - Len(wire) = 0
    BY <1>2, <1>3, <1>9, BodyFields
  <2>2. QED
    BY <1>7, <2>1 DEF NamesCalls, body, m
<1>10. QED
  BY <1>1, <1>8, <1>9 DEF wire, body

-----------------------------------------------------------------------------
\* A call and a result keep their ids in Anthropic's messages.
LEMMA AnthropicIds ==
  ASSUME NEW x
  PROVE  /\ x.role = "function" => AnthropicMessage(x).answers = x.id
         /\ IsCalls(x) => AnthropicMessage(x).calls = x.calls
<1>1. ASSUME x.role = "function"
      PROVE  AnthropicMessage(x) = Answers("user", x.text, x.id) /\ ~IsCalls(x)
  BY <1>1 DEF AnthropicMessage, IsCalls
<1>2. ASSUME IsCalls(x)
      PROVE  AnthropicMessage(x) = Asks("assistant", x.calls) /\ x.role # "function"
  BY <1>2 DEF AnthropicMessage, IsCalls
<1>3. QED
  BY <1>1, <1>2, WireFields

\* Anthropic's messages are those of the list, or those after its head.
AnthropicWire(ms) == Each(IF Instructed(ms) THEN Tail(ms) ELSE ms, AnthropicMessage)

\* Anthropic's body has these messages.
LEMMA AnthropicBody ==
  ASSUME NEW ms
  PROVE  LET body == AnthropicRequest(Plain(ms)) IN body.raised \/ body.messages = AnthropicWire(ms)
<1> DEFINE req == Plain(ms)
           rest == IF Instructed(ms) THEN Tail(ms) ELSE ms
           configs == Defaulted(Renamed(req.given, [stop |-> "stop_sequences"]), {"max_tokens"})
           chat == Chat([req EXCEPT !.messages = rest], AnthropicMessage, AnthropicRefuses, configs)
           system == IF Instructed(ms) THEN ms[1].text ELSE <<>>
<1>1. req.messages = ms /\ ~(req.stream /\ req.functions)
  BY DEF Plain
<1>2. [req EXCEPT !.messages = rest].messages = rest
  BY DEF Plain
<1>3. chat = Raised \/ \E c, t : chat = Body(AnthropicWire(ms), c, t)
  BY <1>2 DEF Chat, AnthropicWire
<1>4. AnthropicRequest(req) \in {Raised, [chat EXCEPT !.system = system]}
  BY <1>1 DEF AnthropicRequest
<1> HIDE DEF req, rest, configs, chat, system
<1>5. CASE chat = Raised
  <2>1. [chat EXCEPT !.system = system].raised
    BY <1>5 DEF Raised, Body
  <2>2. QED
    BY <1>4, <2>1, BodyFields DEF req
<1>6. CASE \E c, t : chat = Body(AnthropicWire(ms), c, t)
  <2>1. [chat EXCEPT !.system = system].messages = AnthropicWire(ms)
    BY <1>6 DEF Body
  <2>2. QED
    BY <1>4, <2>1, BodyFields DEF req
<1>7. QED
  BY <1>3, <1>5, <1>6

\* Anthropic's adapter names the calls by the ids that it was given.
LEMMA AnthropicNames ==
  ASSUME NEW ms, Paired(ms), NEW i \in 1..Len(ms), ms[i].role = "function"
  PROVE  NamesCalls(ms, i, AnthropicRequest(Plain(ms)))
<1> DEFINE body == AnthropicRequest(Plain(ms))
           m == Len(ms)
           wire == AnthropicWire(ms)
<1>1. body.raised \/ body.messages = wire
  BY AnthropicBody
<1>2. m \in Nat /\ DOMAIN ms = 1..m /\ ms \in Seq(ToSet(ms))
  BY DEF Paired, AreMessages
<1>3. CASE Instructed(ms)
  <2> DEFINE rest == Tail(ms)
  <2>1. ms # <<>> /\ ms[1].role = "system"
    BY <1>3 DEF Instructed
  <2>2. /\ DOMAIN rest = 1..(m - 1) /\ Len(rest) = m - 1
        /\ \A j \in 1..(m - 1) : rest[j] = ms[j + 1]
    BY <1>2, <2>1
  <2>3. wire = [j \in DOMAIN rest |-> AnthropicMessage(rest[j])]
    BY <1>3 DEF AnthropicWire, Each
  <2> HIDE DEF wire, m, body, rest
  <2>4. Len(wire) = m - 1 /\ \A j \in 1..(m - 1) : wire[j] = AnthropicMessage(ms[j + 1])
    BY <1>2, <2>2, <2>3
  <2>5. \A k \in 2..m : wire[k - 1] = AnthropicMessage(ms[k])
    <3>1. ASSUME NEW k \in 2..m PROVE k - 1 \in 1..(m - 1) /\ k - 1 + 1 = k
      BY <1>2
    <3>2. QED
      BY <2>4, <3>1
  <2>6. i \in 2..m /\ \A k \in 1..(i - 1) : IsCalls(ms[k]) => k \in 2..m
    <3>1. ~IsCalls(ms[1]) /\ i # 1 /\ i \in 1..m
      BY <2>1 DEF IsCalls, m
    <3>2. QED
      BY <1>2, <3>1
  <2>7. wire[i - 1].answers = ms[i].id
    BY <2>5, <2>6, AnthropicIds
  <2>8. \A k \in 1..(i - 1) : IsCalls(ms[k]) => wire[k - 1].calls = ms[k].calls
    BY <2>5, <2>6, AnthropicIds
  <2>9. NamesItsCall(ms, i, wire, 1)
    BY <2>7, <2>8, SameIdsName DEF m
  <2>10. m - Len(wire) = 1
    BY <1>2, <2>4
  <2>11. QED
    BY <1>1, <2>9, <2>10 DEF NamesCalls, body, m
<1>4. CASE ~Instructed(ms)
  <2>1. wire = [j \in DOMAIN ms |-> AnthropicMessage(ms[j])]
    BY <1>4 DEF AnthropicWire, Each
  <2> HIDE DEF wire, m, body
  <2>2. Len(wire) = m /\ \A j \in 1..m : wire[j] = AnthropicMessage(ms[j])
    BY <1>2, <2>1
  <2>3. i - 0 = i /\ i \in 1..m /\ \A k \in 1..(i - 1) : k \in 1..m /\ k - 0 = k
    BY <1>2 DEF m
  <2>4. wire[i - 0].answers = ms[i].id
    BY <2>2, <2>3, AnthropicIds
  <2>5. \A k \in 1..(i - 1) : IsCalls(ms[k]) => wire[k - 0].calls = ms[k].calls
    BY <2>2, <2>3, AnthropicIds
  <2>6. NamesItsCall(ms, i, wire, 0)
    BY <2>4, <2>5, SameIdsName DEF m
  <2>7. m - Len(wire) = 0
    BY <1>2, <2>2
  <2>8. QED
    BY <1>1, <2>6, <2>7 DEF NamesCalls, body, m
<1>5. QED
  BY <1>3, <1>4

-----------------------------------------------------------------------------
\* A list of one element.
LEMMA OneElement ==
  ASSUME NEW S, NEW s \in Seq(S), Len(s) = 1
  PROVE  s = <<s[1]>> /\ ToSet(s) = {s[1]} /\ DOMAIN s = {1}
<1>1. s = <<s[1]>> /\ DOMAIN s = {1}
  OBVIOUS
<1>2. QED
  BY <1>1 DEF ToSet

\* Where each message makes one call and no id is called again, a result has
\* one call behind it that Wenxin and Gemini know by name.
LEMMA KnownCall ==
  ASSUME NEW ms, Paired(ms), CallsOnce(ms), NEW i \in 1..Len(ms), ms[i].role = "function"
  PROVE  \E k \in 1..(i - 1) :
           /\ IsCalls(ms[k]) /\ ms[k].calls[1] = ms[i].id
           /\ DOMAIN ms[k].calls = {1} /\ DOMAIN ms[k].names = {1}
           /\ CallingFirst(ms, ms[i].id) = {k}
<1>1. PICK k \in 1..(i - 1) : IsCalls(ms[k]) /\ ms[i].id \in ToSet(ms[k].calls)
  BY DEF Paired
<1>2. Len(ms) \in Nat /\ DOMAIN ms = 1..Len(ms)
  BY DEF Paired, AreMessages
<1>3. k \in DOMAIN ms
  BY <1>2
<1>4. ASSUME NEW j \in DOMAIN ms, IsCalls(ms[j])
      PROVE  /\ ms[j].calls \in Seq(CallIds) /\ Len(ms[j].calls) = 1
             /\ DOMAIN ms[j].names = DOMAIN ms[j].calls
  BY <1>2, <1>4 DEF Paired, CallsOnce
<1>5. ASSUME NEW j \in DOMAIN ms, IsCalls(ms[j])
      PROVE  /\ ms[j].calls = <<ms[j].calls[1]>> /\ ToSet(ms[j].calls) = {ms[j].calls[1]}
             /\ DOMAIN ms[j].calls = {1}
  BY <1>4, <1>5, OneElement
<1>6. ms[k].calls[1] = ms[i].id
  BY <1>1, <1>3, <1>5
<1>7. ASSUME NEW j \in CallingFirst(ms, ms[i].id)
      PROVE  j = k
  <2>1. j \in DOMAIN ms /\ IsCalls(ms[j]) /\ ms[j].calls[1] = ms[i].id
    BY DEF CallingFirst
  <2>2. ms[j].calls = ms[k].calls
    BY <1>1, <1>3, <1>5, <1>6, <2>1
  <2>3. QED
    BY <1>1, <1>3, <2>1, <2>2 DEF CallsOnce
<1>8. k \in CallingFirst(ms, ms[i].id)
  BY <1>1, <1>3, <1>6 DEF CallingFirst
<1>9. CallingFirst(ms, ms[i].id) = {k}
  BY <1>7, <1>8
<1>10. QED
  BY <1>1, <1>3, <1>4, <1>5, <1>6, <1>9

\* The name of an id that one message calls first.
LEMMA OneName ==
  ASSUME NEW ms, NEW id, NEW k \in Nat, CallingFirst(ms, id) = {k}
  PROVE  NameOf(ms, id) = ms[k].names[1]
<1>1. (CHOOSE c \in {k} : \A j \in {k} : j <= c) = k
  OBVIOUS
<1>2. QED
  BY <1>1 DEF NameOf

\* An adapter that passes the name on names the call.
LEMMA NameNames ==
  ASSUME NEW ms, NEW i, NEW k \in 1..(i - 1), NEW wire, NEW d,
         IsCalls(ms[k]), ms[k].calls[1] = ms[i].id, DOMAIN ms[k].calls = {1},
         DOMAIN wire[k - d].calls = {1}, wire[k - d].calls[1] = wire[i - d].answers
  PROVE  NamesItsCall(ms, i, wire, d)
BY DEF NamesItsCall

\* Wenxin's messages.
WenxinWire(ms) == [j \in DOMAIN ms |-> WenxinMessage(ms, ms[j])]

\* Wenxin's body has these messages.
LEMMA WenxinBody ==
  ASSUME NEW ms
  PROVE  LET body == WenxinRequest(Plain(ms)) IN body.raised \/ body.messages = WenxinWire(ms)
<1> DEFINE req == Plain(ms)
<1>1. req.messages = ms
  BY DEF Plain
<1> HIDE DEF req
<1>2. WenxinRequest(req) = Raised \/ \E c, t : WenxinRequest(req) = Body(WenxinWire(ms), c, t)
  BY <1>1 DEF WenxinRequest, Chat, Each, WenxinWire
<1>3. QED
  BY <1>2, BodyFields DEF req

\* The names of a call and of a result in Wenxin's messages.
LEMMA WenxinIds ==
  ASSUME NEW ms, NEW x
  PROVE  /\ x.role = "function" => WenxinMessage(ms, x).answers = NameOf(ms, x.id)
         /\ IsCalls(x) => WenxinMessage(ms, x).calls = <<x.names[1]>>
<1>1. ASSUME x.role = "function"
      PROVE  WenxinMessage(ms, x) = Answers("function", x.text, NameOf(ms, x.id))
  BY <1>1 DEF WenxinMessage, IsCalls
<1>2. ASSUME IsCalls(x)
      PROVE  WenxinMessage(ms, x) = Asks("assistant", <<x.names[1]>>)
  BY <1>2 DEF WenxinMessage, IsCalls
<1>3. QED
  BY <1>1, <1>2, WireFields

\* Wenxin's adapter names the calls, if each message makes one of its own.
LEMMA WenxinNames ==
  ASSUME NEW ms, Paired(ms), CallsOnce(ms), NEW i \in 1..Len(ms), ms[i].role = "function"
  PROVE  NamesCalls(ms, i, WenxinRequest(Plain(ms)))
<1> DEFINE body == WenxinRequest(Plain(ms))
           m == Len(ms)
           wire == WenxinWire(ms)
<1>1. body.raised \/ body.messages = wire
  BY WenxinBody
<1>2. m \in Nat /\ DOMAIN ms = 1..m
  BY DEF Paired, AreMessages
<1>3. wire = [j \in DOMAIN ms |-> WenxinMessage(ms, ms[j])]
  BY DEF WenxinWire
<1> HIDE DEF wire, m, body
<1>4. Len(wire) = m /\ \A j \in 1..m : wire[j] = WenxinMessage(ms, ms[j])
  BY <1>2, <1>3
<1>5. i - 0 = i /\ i \in 1..m /\ \A k \in 1..(i - 1) : k \in 1..m /\ k - 0 = k
  BY <1>2 DEF m
<1>6. PICK k \in 1..(i - 1) :
        /\ IsCalls(ms[k]) /\ ms[k].calls[1] = ms[i].id
        /\ DOMAIN ms[k].calls = {1} /\ CallingFirst(ms, ms[i].id) = {k}
  BY KnownCall DEF m
<1>7. wire[i - 0].answers = ms[k].names[1] /\ wire[k - 0].calls = <<ms[k].names[1]>>
  <2>1. wire[i - 0].answers = NameOf(ms, ms[i].id)
    BY <1>4, <1>5, WenxinIds
  <2>2. NameOf(ms, ms[i].id) = ms[k].names[1]
    BY <1>6, OneName
  <2>3. wire[k - 0].calls = <<ms[k].names[1]>>
    BY <1>4, <1>5, <1>6, WenxinIds
  <2>4. QED
    BY <2>1, <2>2, <2>3
<1>8. NamesItsCall(ms, i, wire, 0)
  <2>1. DOMAIN wire[k - 0].calls = {1} /\ wire[k - 0].calls[1] = wire[i - 0].answers
    BY <1>7
  <2>2. QED
    BY <1>6, <2>1, NameNames
<1>9. m - Len(wire) = 0
  BY <1>2, <1>4
<1>10. QED
  BY <1>1, <1>8, <1>9 DEF NamesCalls, body, m

-----------------------------------------------------------------------------
\* What Gemini's adapter makes of the list: a system message goes into the
\* one after it, which keeps its role, its calls and names, and its id.
LEMMA GeminiFolds ==
  ASSUME NEW ms, Paired(ms)
  PROVE  LET list == GeminiFold(ms)
             m == Len(ms)
         IN  \/ list = ms
             \/ /\ m > 1 /\ ms[1].role = "system"
                /\ Len(list) = m - 1 /\ DOMAIN list = 1..(m - 1)
                /\ \A j \in 1..(m - 1) : /\ list[j].role = ms[j + 1].role
                                         /\ list[j].calls = ms[j + 1].calls
                                         /\ list[j].names = ms[j + 1].names
                                         /\ list[j].id = ms[j + 1].id
<1> DEFINE m == Len(ms)
           next == [ms[2] EXCEPT !.text = @ \o ms[1].text,
                                 !.form = GeminiForm(@, ms[1].form)]
           rest == SubSeq(ms, 3, m)
           list == GeminiFold(ms)
<1>1. m \in Nat /\ DOMAIN ms = 1..m /\ ms \in Seq(ToSet(ms)) /\ \A i \in 1..m : IsMessage(ms[i])
  BY DEF Paired, AreMessages
<1>2. \/ list = ms
      \/ m > 1 /\ ms[1].role = "system" /\ list = <<next>> \o rest
  BY DEF GeminiFold
<1>3. ASSUME m > 1
      PROVE  /\ next.role = ms[2].role /\ next.calls = ms[2].calls
             /\ next.names = ms[2].names /\ next.id = ms[2].id
  <2>1. ms[2] = [role |-> ms[2].role, form |-> ms[2].form, text |-> ms[2].text,
                 calls |-> ms[2].calls, names |-> ms[2].names, id |-> ms[2].id]
    BY <1>1, <1>3 DEF IsMessage
  <2>2. QED
    BY <2>1
<1> HIDE DEF next
<1>4. ASSUME m > 1
      PROVE  /\ rest \in Seq(ToSet(ms)) /\ Len(rest) = m - 2
             /\ \A j \in 1..(m - 2) : rest[j] = ms[j + 2]
  BY <1>1, <1>4
<1> HIDE DEF rest, list, m
<1>5. ASSUME m > 1, ms[1].role = "system", list = <<next>> \o rest
      PROVE  /\ Len(list) = m - 1 /\ DOMAIN list = 1..(m - 1)
             /\ \A j \in 1..(m - 1) : /\ list[j].role = ms[j + 1].role
                                      /\ list[j].calls = ms[j + 1].calls
                                      /\ list[j].names = ms[j + 1].names
                                      /\ list[j].id = ms[j + 1].id
  <2> DEFINE S == ToSet(ms) \cup {next}
  <2>1. rest \in Seq(S) /\ <<next>> \in Seq(S) /\ Len(rest) = m - 2
    BY <1>4, <1>5
  <2> HIDE DEF S
  <2>2. /\ list \in Seq(S) /\ Len(list) = m - 1 /\ list[1] = next
        /\ \A j \in 2..(m - 1) : list[j] = rest[j - 1]
    BY <1>1, <1>5, <2>1
  <2>3. \A j \in 2..(m - 1) : list[j] = ms[j + 1]
    <3>1. ASSUME NEW j \in 2..(m - 1) PROVE j - 1 \in 1..(m - 2) /\ j - 1 + 2 = j + 1
      BY <1>1
    <3>2. QED
      BY <1>4, <1>5, <2>2, <3>1
  <2>4. DOMAIN list = 1..(m - 1)
    BY <2>2
  <2>5. ASSUME NEW j \in 1..(m - 1)
        PROVE  /\ list[j].role = ms[j + 1].role
               /\ list[j].calls = ms[j + 1].calls
               /\ list[j].names = ms[j + 1].names
               /\ list[j].id = ms[j + 1].id
    <3>1. CASE j = 1
      BY <1>3, <1>5, <2>2, <3>1
    <3>2. CASE j # 1
      <4>1. j \in 2..(m - 1)
        BY <1>1, <3>2
      <4>2. QED
        BY <2>3, <4>1
    <3>3. QED
      BY <3>1, <3>2
  <2>6. QED
    BY <2>2, <2>4, <2>5
<1>6. QED
  BY <1>2, <1>5 DEF list, m

\* Gemini's messages, of a list from which the system message is gone.
GeminiWire(list) == [j \in DOMAIN list |-> GeminiMessage(list, list[j])]

\* Gemini's body has these messages.
LEMMA GeminiBody ==
  ASSUME NEW ms
  PROVE  LET body == GeminiRequest(Plain(ms))
             list == GeminiFold(ms)
         IN  body.raised \/ /\ ~(Len(list) > 1 /\ list[1].role = "system")
                            /\ body.messages = GeminiWire(list)
<1> DEFINE req == Plain(ms)
           list == GeminiFold(ms)
<1>1. req.messages = ms
  BY DEF Plain
<1> HIDE DEF req, list
<1>2. \/ GeminiRequest(req) = Raised
      \/ /\ ~(Len(list) > 1 /\ list[1].role = "system")
         /\ \E c, t : GeminiRequest(req) = Body(GeminiWire(list), c, t)
  BY <1>1 DEF GeminiRequest, Each, GeminiWire, list
<1>3. QED
  BY <1>2, BodyFields DEF req, list

\* The names of calls and of a result in Gemini's messages.
LEMMA GeminiIds ==
  ASSUME NEW list, NEW x
  PROVE  /\ x.role = "function" => GeminiMessage(list, x).answers = NameOf(list, x.id)
         /\ IsCalls(x) => GeminiMessage(list, x).calls = x.names
<1>1. ASSUME x.role = "function"
      PROVE  \E words : GeminiMessage(list, x) = Answers("function", words, NameOf(list, x.id))
  BY <1>1 DEF GeminiMessage, IsCalls
<1>2. ASSUME IsCalls(x)
      PROVE  GeminiMessage(list, x) = Asks("model", x.names)
  BY <1>2 DEF GeminiMessage, IsCalls
<1>3. QED
  BY <1>1, <1>2, WireFields

\* Gemini's adapter names the calls, if each message makes one of its own.
LEMMA GeminiNames ==
  ASSUME NEW ms, Paired(ms), CallsOnce(ms), NEW i \in 1..Len(ms), ms[i].role = "function"
  PROVE  NamesCalls(ms, i, GeminiRequest(Plain(ms)))
<1> DEFINE body == GeminiRequest(Plain(ms))
           m == Len(ms)
           list == GeminiFold(ms)
           wire == GeminiWire(list)
<1>1. body.raised \/ body.messages = wire
  BY GeminiBody
<1>2. m \in Nat /\ DOMAIN ms = 1..m /\ i \in 1..m
  BY DEF Paired, AreMessages
<1>3. wire = [j \in DOMAIN list |-> GeminiMessage(list, list[j])]
  BY DEF GeminiWire
<1>4. \/ list = ms
      \/ /\ m > 1 /\ ms[1].role = "system"
         /\ Len(list) = m - 1 /\ DOMAIN list = 1..(m - 1)
         /\ \A j \in 1..(m - 1) : /\ list[j].role = ms[j + 1].role
                                  /\ list[j].calls = ms[j + 1].calls
                                  /\ list[j].names = ms[j + 1].names
                                  /\ list[j].id = ms[j + 1].id
  BY GeminiFolds
<1>5. PICK k \in 1..(i - 1) :
        /\ IsCalls(ms[k]) /\ ms[k].calls[1] = ms[i].id
        /\ DOMAIN ms[k].calls = {1} /\ DOMAIN ms[k].names = {1}
        /\ CallingFirst(ms, ms[i].id) = {k}
  BY KnownCall
<1> HIDE DEF wire, m, body, list
<1>6. CASE list = ms
  <2>1. Len(wire) = m /\ \A j \in 1..m : wire[j] = GeminiMessage(ms, ms[j])
    BY <1>2, <1>3, <1>6
  <2>2. i - 0 = i /\ k \in 1..m /\ k - 0 = k
    BY <1>2
  <2>3. wire[i - 0].answers = ms[k].names[1]
    <3>1. NameOf(ms, ms[i].id) = ms[k].names[1]
      BY <1>5, OneName
    <3>2. QED
      BY <1>2, <2>1, <2>2, <3>1, GeminiIds
  <2>4. wire[k - 0].calls = ms[k].names
    BY <1>5, <2>1, <2>2, GeminiIds
  <2>5. NamesItsCall(ms, i, wire, 0)
    BY <1>5, <2>3, <2>4, NameNames
  <2>6. m - Len(wire) = 0
    BY <1>2, <2>1
  <2>7. QED
    BY <1>1, <2>5, <2>6 DEF NamesCalls, body, m
<1>7. CASE /\ m > 1 /\ ms[1].role = "system"
           /\ Len(list) = m - 1 /\ DOMAIN list = 1..(m - 1)
           /\ \A j \in 1..(m - 1) : /\ list[j].role = ms[j + 1].role
                                    /\ list[j].calls = ms[j + 1].calls
                                    /\ list[j].names = ms[j + 1].names
                                    /\ list[j].id = ms[j + 1].id
  <2>1. Len(wire) = m - 1 /\ \A j \in 1..(m - 1) : wire[j] = GeminiMessage(list, list[j])
    BY <1>2, <1>3, <1>7
  <2>2. ASSUME NEW j \in 2..m
        PROVE  /\ j - 1 \in 1..(m - 1)
               /\ list[j - 1].role = ms[j].role /\ list[j - 1].calls = ms[j].calls
               /\ list[j - 1].names = ms[j].names /\ list[j - 1].id = ms[j].id
    <3>1. j - 1 \in 1..(m - 1) /\ j - 1 + 1 = j
      BY <1>2
    <3>2. QED
      BY <1>7, <3>1
  <2>3. i \in 2..m /\ k \in 2..m
    <3>1. ~IsCalls(ms[1]) /\ i # 1
      BY <1>7 DEF IsCalls
    <3>2. QED
      BY <1>2, <1>5, <3>1
  <2>4. CallingFirst(list, ms[i].id) = {k - 1}
    <3>1. ASSUME NEW j \in CallingFirst(list, ms[i].id) PROVE j = k - 1
      <4>1. j \in 1..(m - 1) /\ IsCalls(list[j]) /\ list[j].calls[1] = ms[i].id
        BY <1>7 DEF CallingFirst
      <4>2. j + 1 \in 1..m /\ IsCalls(ms[j + 1]) /\ ms[j + 1].calls[1] = ms[i].id
        BY <1>2, <1>7, <4>1 DEF IsCalls
      <4>3. j + 1 \in CallingFirst(ms, ms[i].id)
        BY <1>2, <4>2 DEF CallingFirst
      <4>4. QED
        BY <1>2, <1>5, <4>1, <4>3
    <3>2. k - 1 \in DOMAIN list /\ IsCalls(list[k - 1]) /\ list[k - 1].calls[1] = ms[i].id
      BY <1>5, <1>7, <2>2, <2>3 DEF IsCalls
    <3>3. k - 1 \in CallingFirst(list, ms[i].id)
      BY <3>2 DEF CallingFirst
    <3>4. QED
      BY <3>1, <3>3
  <2>5. wire[i - 1].answers = ms[k].names[1]
    <3>1. /\ wire[i - 1] = GeminiMessage(list, list[i - 1])
          /\ list[i - 1].role = "function" /\ list[i - 1].id = ms[i].id
      BY <2>1, <2>2, <2>3
    <3>2. k - 1 \in Nat /\ list[k - 1].names = ms[k].names
      BY <1>2, <2>2, <2>3
    <3>3. NameOf(list, ms[i].id) = list[k - 1].names[1]
      <4> DEFINE id == ms[i].id
                 before == k - 1
      <4>1. before \in Nat /\ CallingFirst(list, id) = {before}
        BY <2>4, <3>2
      <4> HIDE DEF id, before
      <4>2. NameOf(list, id) = list[before].names[1]
        BY <4>1, OneName
      <4>3. QED
        BY <4>2 DEF id, before
    <3>4. QED
      BY <3>1, <3>2, <3>3, GeminiIds
  <2>6. wire[k - 1].calls = ms[k].names
    <3>1. /\ wire[k - 1] = GeminiMessage(list, list[k - 1])
          /\ IsCalls(list[k - 1]) /\ list[k - 1].names = ms[k].names
      BY <1>5, <2>1, <2>2, <2>3 DEF IsCalls
    <3>2. QED
      BY <3>1, GeminiIds
  <2>7. NamesItsCall(ms, i, wire, 1)
    BY <1>5, <2>5, <2>6, NameNames
  <2>8. m - Len(wire) = 1
    BY <1>2, <2>1
  <2>9. QED
    BY <1>1, <2>7, <2>8 DEF NamesCalls, body, m
<1>8. QED
  BY <1>4, <1>6, <1>7

-----------------------------------------------------------------------------
\* A set of positions that is not empty has a last one.
LEMMA LastOne ==
  ASSUME NEW n \in Nat, NEW K \in SUBSET (1..n), K # {}
  PROVE  \E k \in K : \A j \in K : j <= k
<1> DEFINE T == {p \in Nat : \A J \in SUBSET (1..p) : J # {} => \E k \in J : \A j \in J : j <= k}
<1>1. 0 \in T
  <2>1. 1..0 = {}
    OBVIOUS
  <2>2. QED
    BY <2>1
<1>2. ASSUME NEW p \in Nat, p \in T
      PROVE  p + 1 \in T
  <2> SUFFICES ASSUME NEW J \in SUBSET (1..(p + 1)), J # {}
               PROVE  \E k \in J : \A j \in J : j <= k
    OBVIOUS
  <2>1. CASE p + 1 \in J
    BY <2>1
  <2>2. CASE p + 1 \notin J
    <3>1. \A k \in 1..(p + 1) : k \in 1..p \/ k = p + 1
      OBVIOUS
    <3>2. J \in SUBSET (1..p)
      BY <2>2, <3>1
    <3>3. QED
      BY <1>2, <3>2
  <2>3. QED
    BY <2>1, <2>2
<1> HIDE DEF T
<1>3. \A p \in Nat : p \in T
  BY <1>1, <1>2, Keeps!Induction
<1>4. QED
  BY <1>3 DEF T

\* Mistral's fresh id of a call is the place of the last call before a message
\* that has the id.
LEMMA MistralPlace ==
  ASSUME NEW ms, Paired(ms), NEW i \in 1..Len(ms), ms[i].role = "function"
  PROVE  \E k \in 1..(i - 1) : \E n \in DOMAIN ms[k].calls :
           /\ IsCalls(ms[k]) /\ ms[k].calls[n] = ms[i].id
           /\ MistralIds(ms, i)[ms[i].id] = <<k, n>>
<1> DEFINE id == ms[i].id
           called == {k \in 1..(i - 1) : IsCalls(ms[k])}
           places(k) == {n \in DOMAIN ms[k].calls : ms[k].calls[n] = id}
           at == UNION {{k} \X places(k) : k \in called}
           K == {k \in called : places(k) # {}}
           place == CHOOSE p \in at : \A q \in at : q[1] <= p[1]
<1>1. i - 1 \in Nat
  BY DEF Paired, AreMessages
<1>2. PICK b \in 1..(i - 1) : IsCalls(ms[b]) /\ id \in ToSet(ms[b].calls)
  BY DEF Paired
<1>3. id \in UNION {ToSet(ms[k].calls) : k \in called}
  BY <1>2
<1>4. MistralIds(ms, i)[id] = place
  BY <1>3 DEF MistralIds
<1>5. b \in K
  BY <1>2 DEF ToSet
<1>6. PICK k \in K : \A j \in K : j <= k
  <2>1. K \in SUBSET (1..(i - 1)) /\ K # {}
    BY <1>5
  <2> HIDE DEF K
  <2>2. QED
    BY <1>1, <2>1, LastOne
<1>7. PICK n \in places(k) : TRUE
  BY <1>6
<1>8. <<k, n>> \in at
  BY <1>6, <1>7
<1>9. ASSUME NEW q \in at
      PROVE  q[1] \in K /\ q[2] \in places(q[1]) /\ q = <<q[1], q[2]>>
  <2>1. PICK j \in called : q \in {j} \X places(j)
    BY <1>9
  <2>2. QED
    BY <2>1
<1>10. \A q \in at : q[1] <= <<k, n>>[1]
  BY <1>6, <1>9
<1>11. place \in at
  <2> HIDE DEF at
  <2>1. QED
    BY <1>8, <1>10
<1>12. place[1] \in K /\ place[2] \in places(place[1]) /\ place = <<place[1], place[2]>>
  <2> HIDE DEF at, place, K, places
  <2>1. QED
    BY <1>9, <1>11
<1>13. /\ place[1] \in 1..(i - 1) /\ IsCalls(ms[place[1]])
       /\ place[2] \in DOMAIN ms[place[1]].calls
       /\ ms[place[1]].calls[place[2]] = id
  <2> HIDE DEF at, place
  <2>1. QED
    BY <1>12
<1> HIDE DEF place, at, K, places, called
<1>14. QED
  BY <1>4, <1>12, <1>13 DEF id

\* Mistral's messages.
MistralWire(ms) == [j \in DOMAIN ms |-> MistralMessage(ms, j)]

\* Mistral's body has these messages.
LEMMA MistralBody ==
  ASSUME NEW ms
  PROVE  LET body == MistralRequest(Plain(ms)) IN body.raised \/ body.messages = MistralWire(ms)
<1> DEFINE req == Plain(ms)
<1>1. req.messages = ms
  BY DEF Plain
<1> HIDE DEF req
<1>2. MistralRequest(req) = Raised \/ \E c, t : MistralRequest(req) = Body(MistralWire(ms), c, t)
  BY <1>1 DEF MistralRequest, MistralWire
<1>3. QED
  BY <1>2, BodyFields DEF req

\* The ids in Mistral's messages.
LEMMA MistralFresh ==
  ASSUME NEW ms, NEW j
  PROVE  /\ ms[j].role = "function" =>
              MistralMessage(ms, j).answers = MistralIds(ms, j)[ms[j].id]
         /\ IsCalls(ms[j]) =>
              MistralMessage(ms, j).calls = [n \in DOMAIN ms[j].calls |-> <<j, n>>]
<1>1. ASSUME ms[j].role = "function"
      PROVE  MistralMessage(ms, j) = Answers("tool", ms[j].text, MistralIds(ms, j)[ms[j].id])
  BY <1>1 DEF MistralMessage, IsCalls
<1>2. ASSUME IsCalls(ms[j])
      PROVE  MistralMessage(ms, j) = Asks("assistant", [n \in DOMAIN ms[j].calls |-> <<j, n>>])
  BY <1>2 DEF MistralMessage, IsCalls
<1>3. QED
  BY <1>1, <1>2, WireFields

\* Mistral's adapter names the calls by ids of its own.
LEMMA MistralNames ==
  ASSUME NEW ms, Paired(ms), NEW i \in 1..Len(ms), ms[i].role = "function"
  PROVE  NamesCalls(ms, i, MistralRequest(Plain(ms)))
<1> DEFINE body == MistralRequest(Plain(ms))
           m == Len(ms)
           wire == MistralWire(ms)
<1>1. body.raised \/ body.messages = wire
  BY MistralBody
<1>2. m \in Nat /\ DOMAIN ms = 1..m /\ i \in 1..m
  BY DEF Paired, AreMessages
<1>3. wire = [j \in DOMAIN ms |-> MistralMessage(ms, j)]
  BY DEF MistralWire
<1>4. PICK k \in 1..(i - 1) : \E p \in DOMAIN ms[k].calls :
        /\ IsCalls(ms[k]) /\ ms[k].calls[p] = ms[i].id
        /\ MistralIds(ms, i)[ms[i].id] = <<k, p>>
  BY MistralPlace
<1>5. PICK p \in DOMAIN ms[k].calls :
        /\ IsCalls(ms[k]) /\ ms[k].calls[p] = ms[i].id
        /\ MistralIds(ms, i)[ms[i].id] = <<k, p>>
  BY <1>4
<1> HIDE DEF wire, m, body
<1>6. Len(wire) = m /\ \A j \in 1..m : wire[j] = MistralMessage(ms, j)
  BY <1>2, <1>3
<1>7. k \in 1..m /\ k - 0 = k /\ i - 0 = i
  BY <1>2
<1>8. wire[i - 0].answers = <<k, p>>
  <2>1. wire[i - 0] = MistralMessage(ms, i)
    BY <1>2, <1>6, <1>7
  <2>2. MistralMessage(ms, i).answers = MistralIds(ms, i)[ms[i].id]
    BY MistralFresh
  <2>3. QED
    BY <1>5, <2>1, <2>2
<1>9. wire[k - 0].calls = [n \in DOMAIN ms[k].calls |-> <<k, n>>]
  <2>1. wire[k - 0] = MistralMessage(ms, k)
    BY <1>6, <1>7
  <2>2. MistralMessage(ms, k).calls = [n \in DOMAIN ms[k].calls |-> <<k, n>>]
    BY <1>5, MistralFresh
  <2>3. QED
    BY <2>1, <2>2
<1>10. /\ wire[k - 0].calls[p] = wire[i - 0].answers
       /\ \A n \in DOMAIN ms[k].calls :
            wire[k - 0].calls[n] = wire[i - 0].answers => ms[k].calls[n] = ms[i].id
  BY <1>5, <1>8, <1>9
<1>11. DOMAIN wire[k - 0].calls = DOMAIN ms[k].calls
  BY <1>9
<1>12. NamesItsCall(ms, i, wire, 0)
  BY <1>5, <1>10, <1>11 DEF NamesItsCall
<1>13. m - Len(wire) = 0
  BY <1>2, <1>6
<1>14. QED
  BY <1>1, <1>12, <1>13 DEF NamesCalls, body, m

-----------------------------------------------------------------------------
\* A list the adapters are handed, and a result in it: the bodies of all the
\* adapters that take functions name the call.
LEMMA AllName ==
  ASSUME NEW ms, Paired(ms), NEW i \in 1..Len(ms), ms[i].role = "function",
         NEW name \in Tooled, name \in {"wenxin", "google_gemini"} => CallsOnce(ms)
  PROVE  NamesCalls(ms, i, NamedRequest(name, Plain(ms)))
<1>1. name \in Openai \cup {"mistralai", "wenxin", "google_gemini", "anthropic"}
  BY DEF Tooled, Openai
<1>2. /\ name = "mistralai" => NamedRequest(name, Plain(ms)) = MistralRequest(Plain(ms))
      /\ name = "wenxin" => NamedRequest(name, Plain(ms)) = WenxinRequest(Plain(ms))
      /\ name = "google_gemini" => NamedRequest(name, Plain(ms)) = GeminiRequest(Plain(ms))
      /\ name = "anthropic" => NamedRequest(name, Plain(ms)) = AnthropicRequest(Plain(ms))
  BY DEF NamedRequest
<1>3. CASE name \in Openai
  BY <1>3, OpenaiNames
<1>4. CASE name = "mistralai"
  BY <1>2, <1>4, MistralNames
<1>5. CASE name = "wenxin"
  BY <1>2, <1>5, WenxinNames
<1>6. CASE name = "google_gemini"
  BY <1>2, <1>6, GeminiNames
<1>7. CASE name = "anthropic"
  BY <1>2, <1>7, AnthropicNames
<1>8. QED
  BY <1>1, <1>3, <1>4, <1>5, <1>6, <1>7

\* A result names, in the body that an adapter sends, a call of the id that it
\* answers and none of another id in the same message, under the ids that the
\* request had (OpenAI, Anthropic), under fresh ones (Mistral) or, where no id
\* is called again, under the names of the functions (Wenxin, Gemini), in
\* conversations of any length.
THEOREM ResultsAreNamed == Spec => []ResultsNameTheirCalls
<1>1. IInv => ResultsNameTheirCalls
  <2> SUFFICES ASSUME IInv, Requested PROVE ResultsNameTheirCalls
    BY DEF ResultsNameTheirCalls
  <2> DEFINE ms == Handed(messages)
  <2>1. Paired(ms)
    BY HandedPaired
  <2>2. ASSUME NEW p \in {"adapter"} \X Tooled, NEW i \in DOMAIN ms,
               ~Request(p, Plain(ms)).raised, ms[i].role = "function",
               p[2] \in {"wenxin", "google_gemini"} => CallsOnce(ms)
        PROVE  NamesItsCall(ms, i, Request(p, Plain(ms)).messages,
                            Len(ms) - Len(Request(p, Plain(ms)).messages))
    <3>1. p[2] \in Tooled /\ p \notin Bedrock
      BY DEF Bedrock
    <3>2. Request(p, Plain(ms)) = NamedRequest(p[2], Plain(ms))
      BY <3>1 DEF Request
    <3>3. i \in 1..Len(ms)
      BY <2>1 DEF Paired, AreMessages
    <3> HIDE DEF ms
    <3>4. NamesCalls(ms, i, NamedRequest(p[2], Plain(ms)))
      BY <2>1, <2>2, <3>1, <3>3, AllName
    <3>5. QED
      BY <2>2, <3>2, <3>4 DEF NamesCalls
  <2>3. QED
    BY <2>2, Zenon DEF ResultsNameTheirCalls, NamesItsCall
<1>2. QED
  BY <1>1, Invariance, PTL

-----------------------------------------------------------------------------
\* Where a config is among those of a body.
Under(configs, key) == {n \in DOMAIN configs : configs[n].key = key}

\* Each of the configs has one place among those of a body, with its value,
\* and what else is there is one default at most.
IsKept(configs, sent) ==
  /\ \A key \in DOMAIN sent : \E n : Under(configs, key) = {n}
  /\ \A n \in DOMAIN configs :
       \/ configs[n] = Default
       \/ configs[n].key \in DOMAIN sent /\ configs[n].value = sent[configs[n].key]
  /\ \E d : Under(configs, "default") \subseteq {d}

KeepsConfigs(body, sent) == body.raised \/ IsKept(body.configs, sent)

NameIn(names, key) == IF key \in DOMAIN names THEN names[key] ELSE key

Distinct(names) == \A a, b \in ConfigKeys : NameIn(names, a) = NameIn(names, b) => a = b

\* Configs that are sent under distinct names are kept, and a default does not
\* take the place of one.
LEMMA RenamedKept ==
  ASSUME NEW given, DOMAIN given \subseteq ConfigKeys, NEW names, Distinct(names)
  PROVE  /\ IsKept(Renamed(given, names), given)
         /\ IsKept(Defaulted(Renamed(given, names), {}), given)
         /\ \A d : IsKept(Defaulted(Renamed(given, names), {d}), given)
<1> DEFINE c == Renamed(given, names)
           name(key) == NameIn(names, key)
           keyOf(n) == CHOOSE key \in DOMAIN given : name(key) = n
<1>1. c = [n \in {name(key) : key \in DOMAIN given} |->
             [key |-> keyOf(n), value |-> given[keyOf(n)]]]
  BY DEF Renamed, NameIn
<1>2. \A a, b \in DOMAIN given : name(a) = name(b) => a = b
  BY DEF Distinct
<1>3. "default" \notin DOMAIN given
  BY DEF ConfigKeys
<1> HIDE DEF c, name
<1>4. DOMAIN c = {name(key) : key \in DOMAIN given}
  BY <1>1
<1>5. ASSUME NEW key \in DOMAIN given
      PROVE  /\ name(key) \in DOMAIN c
             /\ c[name(key)].key = key
             /\ c[name(key)].value = given[key]
  <2>1. keyOf(name(key)) = key
    BY <1>2
  <2> HIDE DEF keyOf
  <2>2. name(key) \in DOMAIN c
    BY <1>4
  <2>3. c[name(key)] = [key |-> keyOf(name(key)), value |-> given[keyOf(name(key))]]
    BY <1>1, <1>4, <2>2
  <2>4. QED
    BY <2>1, <2>2, <2>3
<1>6. ASSUME NEW n \in DOMAIN c
      PROVE  /\ c[n].key \in DOMAIN given
             /\ c[n].value = given[c[n].key]
             /\ name(c[n].key) = n
  <2>1. PICK key \in DOMAIN given : name(key) = n
    BY <1>4
  <2>2. c[n].key = key /\ c[n].value = given[key]
    BY <1>5, <2>1
  <2>3. QED
    BY <2>1, <2>2
<1>7. ASSUME NEW key \in DOMAIN given
      PROVE  Under(c, key) = {name(key)}
  <2>1. name(key) \in Under(c, key)
    BY <1>5 DEF Under
  <2>2. \A n \in Under(c, key) : n = name(key)
    BY <1>6 DEF Under
  <2>3. QED
    BY <2>1, <2>2
<1>8. IsKept(c, given)
  <2>1. Under(c, "default") \subseteq {"default"}
    BY <1>3, <1>6 DEF Under
  <2>2. QED
    BY <1>6, <1>7, <2>1 DEF IsKept
<1>9. ASSUME NEW D, NEW d, D \subseteq {d}
      PROVE  IsKept(Defaulted(c, D), given)
  <2> DEFINE e == Defaulted(c, D)
  <2>1. /\ DOMAIN e = DOMAIN c \cup D
        /\ \A n \in DOMAIN c : e[n] = c[n]
        /\ \A n \in D : n \notin DOMAIN c => e[n] = Default
    BY DEF Defaulted
  <2> HIDE DEF e
  <2>2. \A n \in DOMAIN e : n \in DOMAIN c \/ e[n] = Default
    BY <2>1
  <2>3. Default.key = "default"
    BY DEF Default
  <2>4. \A key \in DOMAIN given : Under(e, key) = {name(key)}
    <3>1. ASSUME NEW key \in DOMAIN given
          PROVE  Under(e, key) = Under(c, key)
      BY <1>3, <2>1, <2>2, <2>3 DEF Under
    <3>2. QED
      BY <1>7, <3>1
  <2>5. \A n \in DOMAIN e : \/ e[n] = Default
                            \/ e[n].key \in DOMAIN given /\ e[n].value = given[e[n].key]
    BY <1>6, <2>1, <2>2
  <2>6. Under(e, "default") \subseteq {d}
    BY <1>3, <1>6, <1>9, <2>1 DEF Under
  <2>7. QED
    BY <2>4, <2>5, <2>6 DEF IsKept, e
<1>10. \A d : {} \subseteq {d} /\ {d} \subseteq {d}
  OBVIOUS
<1>11. IsKept(Defaulted(c, {}), given) /\ \A d : IsKept(Defaulted(c, {d}), given)
  BY <1>9, <1>10
<1>12. QED
  BY <1>8, <1>11 DEF c

\* What the configs of a body are.
LEMMA BodyConfigs ==
  ASSUME NEW given
  PROVE  /\ KeepsConfigs(Raised, given)
         /\ \A wire, configs, tools :
              IsKept(configs, given) => KeepsConfigs(Body(wire, configs, tools), given)
BY DEF KeepsConfigs, Body, Raised

\* The adapters that send each config under its own name.
LEMMA SameNamesKept ==
  ASSUME NEW req, DOMAIN req.given \subseteq ConfigKeys
  PROVE  /\ KeepsConfigs(OpenaiRequest(req), req.given)
         /\ KeepsConfigs(YiRequest(req), req.given)
         /\ KeepsConfigs(MoonshotRequest(req), req.given)
         /\ KeepsConfigs(LlamaApiRequest(req), req.given)
         /\ KeepsConfigs(CustomHostToolsRequest(req), req.given)
         /\ KeepsConfigs(CustomHostFunctionRequest(req), req.given)
         /\ KeepsConfigs(MinimaxRequest(req), req.given)
         /\ KeepsConfigs(ZhipuRequest(req), ZhipuValues(req.given))
         /\ KeepsConfigs(TogetheraiRequest(req), req.given)
         /\ KeepsConfigs(GroqRequest(req), req.given)
         /\ KeepsConfigs(TongyiRequest(req), req.given)
         /\ KeepsConfigs(BaichuanRequest(req), req.given)
         /\ KeepsConfigs(MistralRequest(req), req.given)
<1> DEFINE given == req.given
<1>1. Distinct(<<>>)
  BY DEF Distinct, NameIn
<1>2. /\ IsKept(Sent(given), given)
      /\ IsKept(Defaulted(Sent(given), {}), given)
      /\ IsKept(Defaulted(Sent(given), {"max_tokens"}), given)
  BY <1>1, RenamedKept DEF Sent
<1>3. KeepsConfigs(Raised, given)
  BY BodyConfigs
<1>4. \A wire, tools : /\ KeepsConfigs(Body(wire, Sent(given), tools), given)
                       /\ KeepsConfigs(Body(wire, Defaulted(Sent(given), {}), tools), given)
                       /\ KeepsConfigs(Body(wire, Defaulted(Sent(given), {"max_tokens"}), tools), given)
  BY <1>2, BodyConfigs
<1>5. KeepsConfigs(OpenaiRequest(req), given)
  BY <1>3, <1>4 DEF OpenaiRequest, Chat
<1>6. KeepsConfigs(YiRequest(req), given)
  BY <1>3, <1>4 DEF YiRequest, Chat
<1>7. KeepsConfigs(MoonshotRequest(req), given)
  BY <1>3, <1>4 DEF MoonshotRequest, Chat
<1>8. KeepsConfigs(LlamaApiRequest(req), given)
  BY <1>3, <1>4 DEF LlamaApiRequest, Chat
<1>9. KeepsConfigs(CustomHostToolsRequest(req), given)
  BY <1>3, <1>4 DEF CustomHostToolsRequest, Chat
<1>10. KeepsConfigs(CustomHostFunctionRequest(req), given)
  BY <1>3, <1>4 DEF CustomHostFunctionRequest, Chat
<1>11. KeepsConfigs(MinimaxRequest(req), given)
  BY <1>3, <1>4 DEF MinimaxRequest, Chat
<1>12. KeepsConfigs(ZhipuRequest(req), ZhipuValues(given))
  <2> DEFINE values == ZhipuValues(given)
  <2>1. DOMAIN values \subseteq ConfigKeys
    BY DEF ZhipuValues
  <2> HIDE DEF values
  <2>2. IsKept(Sent(values), values)
    BY <1>1, <2>1, RenamedKept DEF Sent
  <2>3. /\ KeepsConfigs(Raised, values)
        /\ \A wire, tools : KeepsConfigs(Body(wire, Sent(values), tools), values)
    BY <2>2, BodyConfigs
  <2>4. QED
    BY <2>3 DEF ZhipuRequest, Chat, values
<1>13. KeepsConfigs(TogetheraiRequest(req), given)
  BY <1>3, <1>4 DEF TogetheraiRequest, Chat
<1>14. KeepsConfigs(GroqRequest(req), given)
  BY <1>3, <1>4 DEF GroqRequest, Chat
<1>15. KeepsConfigs(TongyiRequest(req), given)
  BY <1>3, <1>4 DEF TongyiRequest, Chat
<1>16. KeepsConfigs(BaichuanRequest(req), given)
  BY <1>3, <1>4 DEF BaichuanRequest, Chat
<1>17. KeepsConfigs(MistralRequest(req), given)
  BY <1>3, <1>4 DEF MistralRequest
<1>18. QED
  BY <1>5, <1>6, <1>7, <1>8, <1>9, <1>10, <1>11, <1>12, <1>13, <1>14, <1>15, <1>16, <1>17

\* The adapters that have names of their own for some configs.
LEMMA OwnNamesKept ==
  ASSUME NEW req, DOMAIN req.given \subseteq ConfigKeys
  PROVE  /\ KeepsConfigs(CohereRequest(req), req.given)
         /\ KeepsConfigs(WenxinRequest(req), req.given)
         /\ KeepsConfigs(GeminiRequest(req), req.given)
         /\ KeepsConfigs(ReplicateRequest(req), ReplicateValues(req.given))
         /\ KeepsConfigs(Ai21Request(req), req.given)
         /\ KeepsConfigs(AnthropicRequest(req), req.given)
<1> DEFINE given == req.given
           cohere == [top_p |-> "p", top_k |-> "k"]
           wenxin == [max_tokens |-> "max_output_tokens"]
           gemini == [max_tokens |-> "maxOutputTokens", top_p |-> "topP", top_k |-> "topK"]
           replicate == [max_tokens |-> "max_new_tokens"]
           ai21 == [temperature |-> "temperature", top_p |-> "topP", max_tokens |-> "maxTokens",
                    stop |-> "stopSequences", top_k |-> "topKReturn"]
           anthropic == [stop |-> "stop_sequences"]
<1>1. /\ Distinct(cohere) /\ Distinct(wenxin) /\ Distinct(gemini)
      /\ Distinct(replicate) /\ Distinct(ai21) /\ Distinct(anthropic)
  BY DEF Distinct, NameIn, ConfigKeys
<1>2. DOMAIN given \cap DOMAIN ai21 = DOMAIN given
  BY DEF ConfigKeys
<1>3. KeepsConfigs(Raised, given)
  BY BodyConfigs
<1>4. ASSUME NEW names, Distinct(names), NEW wire, NEW tools
      PROVE  KeepsConfigs(Body(wire, Renamed(given, names), tools), given)
  BY <1>4, RenamedKept, BodyConfigs
<1>5. KeepsConfigs(CohereRequest(req), given)
  <2>1. \A wire, tools : KeepsConfigs(Body(wire, Renamed(given, cohere), tools), given)
    BY <1>1, <1>4
  <2>2. QED
    BY <1>3, <2>1 DEF CohereRequest, Chat
<1>6. KeepsConfigs(WenxinRequest(req), given)
  <2>1. \A wire, tools : KeepsConfigs(Body(wire, Renamed(given, wenxin), tools), given)
    BY <1>1, <1>4
  <2>2. QED
    BY <1>3, <2>1 DEF WenxinRequest, Chat
<1>7. KeepsConfigs(GeminiRequest(req), given)
  <2>1. \A wire, tools : KeepsConfigs(Body(wire, Renamed(given, gemini), tools), given)
    BY <1>1, <1>4
  <2>2. QED
    BY <1>3, <2>1 DEF GeminiRequest
<1>8. KeepsConfigs(ReplicateRequest(req), ReplicateValues(given))
  <2> DEFINE values == ReplicateValues(given)
  <2>1. DOMAIN values \subseteq ConfigKeys
    BY DEF ReplicateValues
  <2> HIDE DEF values
  <2>2. IsKept(Renamed(values, replicate), values)
    BY <1>1, <2>1, RenamedKept
  <2>3. /\ KeepsConfigs(Raised, values)
        /\ \A wire, tools : KeepsConfigs(Body(wire, Renamed(values, replicate), tools), values)
    BY <2>2, BodyConfigs
  <2>4. QED
    BY <2>3 DEF ReplicateRequest, Prompt, values
<1>9. KeepsConfigs(Ai21Request(req), given)
  <2> DEFINE kept == Restrict(given, DOMAIN given \cap DOMAIN ai21)
             configs == Renamed(kept, ai21)
             body == Body(Each(OthersOf(req.messages), Ai21Message), configs, FALSE)
             system == Words(SystemOf(req.messages))
  <2>1. DOMAIN kept = DOMAIN given /\ \A key \in DOMAIN given : kept[key] = given[key]
    BY <1>2 DEF Restrict
  <2>2. Ai21Request(req) \in {Raised, [body EXCEPT !.system = system]}
    BY DEF Ai21Request, Ai21Keys
  <2>3. [body EXCEPT !.system = system].configs = configs
    BY DEF Body
  <2> HIDE DEF body, system, kept
  <2>4. IsKept(configs, kept)
    BY <1>1, <2>1, RenamedKept
  <2> HIDE DEF configs
  <2>5. IsKept(configs, given)
    BY <2>1, <2>4 DEF IsKept
  <2>6. QED
    BY <1>3, <2>2, <2>3, <2>5 DEF KeepsConfigs
<1>10. KeepsConfigs(AnthropicRequest(req), given)
  <2> DEFINE configs == Defaulted(Renamed(given, anthropic), {"max_tokens"})
             ms == IF Instructed(req.messages) THEN Tail(req.messages) ELSE req.messages
             chat == Chat([req EXCEPT !.messages = ms], AnthropicMessage, AnthropicRefuses, configs)
             system == IF Instructed(req.messages) THEN req.messages[1].text ELSE <<>>
  <2>1. AnthropicRequest(req) \in {Raised, [chat EXCEPT !.system = system]}
    BY DEF AnthropicRequest
  <2>2. chat = Raised \/ \E w, t : chat = Body(w, configs, t)
    BY DEF Chat
  <2> HIDE DEF chat, system, configs
  <2>3. CASE chat = Raised
    <3>1. [chat EXCEPT !.system = system].raised = TRUE
      BY <2>3 DEF Raised, Body
    <3>2. QED
      BY <1>3, <2>1, <3>1 DEF KeepsConfigs
  <2>4. CASE \E w, t : chat = Body(w, configs, t)
    <3>1. [chat EXCEPT !.system = system].configs = configs
      BY <2>4 DEF Body
    <3>2. IsKept(configs, given)
      BY <1>1, RenamedKept DEF configs
    <3>3. QED
      BY <1>3, <2>1, <3>1, <3>2 DEF KeepsConfigs
  <2>5. QED
    BY <2>2, <2>3, <2>4
<1>11. QED
  BY <1>5, <1>6, <1>7, <1>8, <1>9, <1>10

\* Hugging Face's adapters take all the configs but the stop words.
LEMMA HuggingFaceKept ==
  ASSUME NEW req, DOMAIN req.given \subseteq ConfigKeys
  PROVE  LET sent == Restrict(req.given, DOMAIN req.given \ {"stop"})
         IN  /\ KeepsConfigs(HuggingFaceRequest(req), sent)
             /\ KeepsConfigs(HuggingFaceEndpointRequest(req), sent)
<1> DEFINE given == req.given
           sent == Restrict(given, DOMAIN given \ {"stop"})
           names == [top_p |-> "top_p", temperature |-> "temperature",
                     max_tokens |-> "max_new_tokens", top_k |-> "top_k"]
<1>1. Distinct(names)
  BY DEF Distinct, NameIn, ConfigKeys
<1>2. DOMAIN given \cap DOMAIN names = DOMAIN given \ {"stop"}
  BY DEF ConfigKeys
<1>3. HuggingFaceKeys(given) = Renamed(sent, names)
  BY <1>2 DEF HuggingFaceKeys
<1>4. DOMAIN sent \subseteq ConfigKeys
  BY DEF Restrict
<1> HIDE DEF sent
<1>5. IsKept(HuggingFaceKeys(given), sent)
  BY <1>1, <1>3, <1>4, RenamedKept
<1>6. KeepsConfigs(Raised, sent)
      /\ \A wire, tools : KeepsConfigs(Body(wire, HuggingFaceKeys(given), tools), sent)
  BY <1>5, BodyConfigs
<1>7. KeepsConfigs(HuggingFaceRequest(req), sent)
  BY <1>6 DEF HuggingFaceRequest, Prompt
<1>8. KeepsConfigs(HuggingFaceEndpointRequest(req), sent)
  BY <1>6 DEF HuggingFaceEndpointRequest, Prompt
<1>9. QED
  BY <1>7, <1>8 DEF sent

\* So do those of Bedrock, each with its own names.
LEMMA BedrockKept ==
  ASSUME NEW req, DOMAIN req.given \subseteq ConfigKeys, NEW prefix \in ModelPrefixes
  PROVE  KeepsConfigs(BedrockRequest(req, prefix), req.given)
<1> DEFINE given == req.given
           names == BedrockNames[prefix]
           configs == Renamed(given, names)
<1>1. Distinct(names)
  <2>1. prefix = "amazon" => names = [max_tokens |-> "maxTokenCount", top_p |-> "topP"]
    BY DEF BedrockNames
  <2>2. prefix = "ai21" => names = [max_tokens |-> "maxTokens", stop |-> "stopSequences",
                                    top_k |-> "topKReturn", top_p |-> "topP"]
    BY DEF BedrockNames
  <2>3. prefix = "anthropic" => names = [max_tokens |-> "max_tokens_to_sample",
                                         stop |-> "stop_sequences"]
    BY DEF BedrockNames
  <2>4. prefix = "cohere" => names = [top_p |-> "p", top_k |-> "k"]
    BY DEF BedrockNames
  <2>5. prefix = "meta" => names = [max_tokens |-> "max_gen_len"]
    BY DEF BedrockNames
  <2> HIDE DEF names
  <2>6. prefix = "amazon" => Distinct(names)
    BY <2>1 DEF Distinct, NameIn, ConfigKeys
  <2>7. prefix = "ai21" => Distinct(names)
    BY <2>2 DEF Distinct, NameIn, ConfigKeys
  <2>8. prefix = "anthropic" => Distinct(names)
    BY <2>3 DEF Distinct, NameIn, ConfigKeys
  <2>9. prefix = "cohere" => Distinct(names)
    BY <2>4 DEF Distinct, NameIn, ConfigKeys
  <2>10. prefix = "meta" => Distinct(names)
    BY <2>5 DEF Distinct, NameIn, ConfigKeys
  <2>11. QED
    BY <2>6, <2>7, <2>8, <2>9, <2>10 DEF ModelPrefixes
<1>2. BedrockDefaults(prefix) \in {{}, {"maxTokens"}, {"max_tokens_to_sample"}}
  BY DEF BedrockDefaults
<1> HIDE DEF names
<1>3. IsKept(configs, given) /\ IsKept(Defaulted(configs, BedrockDefaults(prefix)), given)
  BY <1>1, <1>2, RenamedKept
<1> DEFINE defaulted == Defaulted(configs, BedrockDefaults(prefix))
<1>4. \E w, t : BedrockRequest(req, prefix) \in
                  {Raised, Body(w, configs, t), Body(w, defaulted, t)}
  <2> DEFINE first == <<Says("prompt", req.messages[1].text)>>
             prompt == <<Says("prompt", PromptOf(BedrockPrompted(req.messages), Printed))>>
             one == Body(first, configs, FALSE)
             all == Body(prompt, defaulted, FALSE)
             cohere == prefix = "cohere" /\ ~IsList(req.messages[1])
             other == prefix # "cohere" /\ ~\E i \in DOMAIN req.messages :
                        \/ req.messages[i].role = "function"
                        \/ req.messages[i].role = "system" /\ IsList(req.messages[i])
  <2>1. BedrockRequest(req, prefix) =
          CASE req.stream -> Raised [] cohere -> one [] other -> all [] OTHER -> Raised
    BY DEF BedrockRequest, Prompt, names
  <2> HIDE DEF first, prompt, one, all, cohere, other, configs, defaulted
  <2>2. BedrockRequest(req, prefix) \in {Raised, one, all}
    BY <2>1
  <2>3. QED
    BY <2>2 DEF one, all
<1> HIDE DEF configs, defaulted
<1>5. QED
  BY <1>3, <1>4, BodyConfigs DEF defaulted

\* The configs that an adapter has a name for, with the values it means to send.
SentBy(p, given) ==
  [key \in DOMAIN given \cap KnownTo(p) |-> MeantBy(p, key, given[key])]

\* Only the domain of what is sent and its values matter.
LEMMA SameSent ==
  ASSUME NEW body, NEW f, NEW g,
         DOMAIN f = DOMAIN g, \A key \in DOMAIN f : f[key] = g[key], KeepsConfigs(body, f)
  PROVE  KeepsConfigs(body, g)
<1>1. SUFFICES ASSUME IsKept(body.configs, f)
               PROVE  IsKept(body.configs, g)
  BY DEF KeepsConfigs
<1> DEFINE configs == body.configs
<1> HIDE DEF configs
<1>2. IsKept(configs, f) => IsKept(configs, g)
  BY DEF IsKept
<1>3. QED
  BY <1>1, <1>2 DEF configs

\* What every adapter does with the configs.
LEMMA AllKept ==
  ASSUME NEW req, DOMAIN req.given \subseteq ConfigKeys, NEW p \in Providers
  PROVE  KeepsConfigs(Request(p, req), SentBy(p, req.given))
<1> DEFINE given == req.given
           name == p[2]
           sent == SentBy(p, given)
<1>1. CASE p \in Bedrock
  <2>1. name \in ModelPrefixes /\ Request(p, req) = BedrockRequest(req, name)
    BY <1>1 DEF Bedrock, Request
  <2>2. name \notin {"zhipu", "replicate", "hugging_face", "hugging_face_endpoint"}
    BY <2>1 DEF ModelPrefixes
  <2>3. DOMAIN given = DOMAIN sent /\ \A key \in DOMAIN given : given[key] = sent[key]
    BY <2>2 DEF KnownTo, SentBy, MeantBy
  <2> HIDE DEF given, name, sent
  <2>4. KeepsConfigs(BedrockRequest(req, name), given)
    BY <2>1, BedrockKept DEF given
  <2>5. KeepsConfigs(BedrockRequest(req, name), sent)
    BY <2>3, <2>4, SameSent
  <2>6. QED
    BY <2>1, <2>5 DEF sent, given
<1>2. CASE p \notin Bedrock
  <2>1. name \in Named /\ Request(p, req) = NamedRequest(name, req)
    BY <1>2 DEF Providers, Request
  <2>2. CASE name \in {"hugging_face", "hugging_face_endpoint"}
    <3> DEFINE less == Restrict(given, DOMAIN given \ {"stop"})
    <3>1. DOMAIN less = DOMAIN sent /\ \A key \in DOMAIN less : less[key] = sent[key]
      BY <2>2 DEF KnownTo, SentBy, MeantBy, Restrict
    <3>2. /\ name = "hugging_face" => NamedRequest(name, req) = HuggingFaceRequest(req)
          /\ name = "hugging_face_endpoint" =>
               NamedRequest(name, req) = HuggingFaceEndpointRequest(req)
      BY DEF NamedRequest
    <3>3. /\ KeepsConfigs(HuggingFaceRequest(req), less)
          /\ KeepsConfigs(HuggingFaceEndpointRequest(req), less)
      BY HuggingFaceKept
    <3> HIDE DEF given, name, sent, less
    <3>4. KeepsConfigs(NamedRequest(name, req), less)
      BY <2>2, <3>2, <3>3
    <3>5. KeepsConfigs(NamedRequest(name, req), sent)
      BY <3>1, <3>4, SameSent
    <3>6. QED
      BY <2>1, <3>5 DEF sent, given
  <2>3. CASE name = "zhipu"
    <3> DEFINE values == ZhipuValues(given)
    <3>1. DOMAIN values = DOMAIN sent
      BY <2>3 DEF KnownTo, SentBy, ZhipuValues
    <3>2. \A key \in DOMAIN values : values[key] = sent[key]
      BY <2>3 DEF KnownTo, SentBy, MeantBy, ZhipuValues
    <3>3. NamedRequest("zhipu", req) = ZhipuRequest(req)
      BY DEF NamedRequest
    <3>4. KeepsConfigs(ZhipuRequest(req), values)
      BY SameNamesKept
    <3> HIDE DEF given, name, sent, values
    <3>5. KeepsConfigs(ZhipuRequest(req), sent)
      BY <3>1, <3>2, <3>4, SameSent
    <3>6. QED
      BY <2>1, <2>3, <3>3, <3>5 DEF sent, given
  <2>4. CASE name = "replicate"
    <3> DEFINE values == ReplicateValues(given)
    <3>1. DOMAIN values = DOMAIN sent
      BY <2>4 DEF KnownTo, SentBy, ReplicateValues
    <3>2. \A key \in DOMAIN values : values[key] = sent[key]
      BY <2>4 DEF KnownTo, SentBy, MeantBy, ReplicateValues
    <3>3. NamedRequest("replicate", req) = ReplicateRequest(req)
      BY DEF NamedRequest
    <3>4. KeepsConfigs(ReplicateRequest(req), values)
      BY OwnNamesKept
    <3> HIDE DEF given, name, sent, values
    <3>5. KeepsConfigs(ReplicateRequest(req), sent)
      BY <3>1, <3>2, <3>4, SameSent
    <3>6. QED
      BY <2>1, <2>4, <3>3, <3>5 DEF sent, given
  <2>5. CASE name \notin {"hugging_face", "hugging_face_endpoint", "zhipu", "replicate"}
    <3>1. DOMAIN given = DOMAIN sent /\ \A key \in DOMAIN given : given[key] = sent[key]
      BY <2>5 DEF KnownTo, SentBy, MeantBy
    <3>2. name \in {"openai", "azure_openai", "localai", "lm_studio", "ollama"}
            => NamedRequest(name, req) = OpenaiRequest(req)
      BY DEF NamedRequest, AzureOpenaiRequest, LocalaiRequest, LmStudioRequest, OllamaRequest
    <3>3. /\ name = "yi"              => NamedRequest(name, req) = YiRequest(req)
          /\ name = "moonshot"        => NamedRequest(name, req) = MoonshotRequest(req)
          /\ name = "llama_api"       => NamedRequest(name, req) = LlamaApiRequest(req)
          /\ name = "custom_tools"    => NamedRequest(name, req) = CustomHostToolsRequest(req)
          /\ name = "custom_function" => NamedRequest(name, req) = CustomHostFunctionRequest(req)
          /\ name = "minimax"         => NamedRequest(name, req) = MinimaxRequest(req)
          /\ name = "togetherai"      => NamedRequest(name, req) = TogetheraiRequest(req)
          /\ name = "groq"            => NamedRequest(name, req) = GroqRequest(req)
          /\ name = "tongyi"          => NamedRequest(name, req) = TongyiRequest(req)
          /\ name = "baichuan"        => NamedRequest(name, req) = BaichuanRequest(req)
          /\ name = "mistralai"       => NamedRequest(name, req) = MistralRequest(req)
          /\ name = "cohere"          => NamedRequest(name, req) = CohereRequest(req)
          /\ name = "wenxin"          => NamedRequest(name, req) = WenxinRequest(req)
          /\ name = "google_gemini"   => NamedRequest(name, req) = GeminiRequest(req)
          /\ name = "ai21"            => NamedRequest(name, req) = Ai21Request(req)
          /\ name = "anthropic"       => NamedRequest(name, req) = AnthropicRequest(req)
      BY DEF NamedRequest
    <3>4. name \in {"openai", "azure_openai", "localai", "lm_studio", "ollama"}
            \/ name \in {"yi", "moonshot", "llama_api", "custom_tools", "custom_function",
                        "minimax", "togetherai", "groq", "tongyi", "baichuan",
                        "mistralai", "cohere", "wenxin", "google_gemini", "ai21", "anthropic"}
      BY <2>1, <2>5 DEF Named, Tooled, Prompted
    <3> HIDE DEF given, name, sent
    <3>5. KeepsConfigs(NamedRequest(name, req), given)
      BY <3>2, <3>3, <3>4, SameNamesKept, OwnNamesKept DEF given
    <3>6. KeepsConfigs(NamedRequest(name, req), sent)
      BY <3>1, <3>5, SameSent
    <3>7. QED
      BY <2>1, <3>6 DEF sent, given
  <2>6. QED
    BY <2>2, <2>3, <2>4, <2>5
<1>3. QED
  BY <1>1, <1>2

\* Every config that is given, whatever its value, reaches the body of the
\* adapters that have a name for it, once, with the value the adapter means to
\* send; no default takes its place, and there is one default at most: for all
\* the messages that pass.
THEOREM ConfigsAreSent == Spec => []ConfigsSent
<1>1. ConfigsSent
  <2> DEFINE req(given, vision) == [Plain(Handed(messages)) EXCEPT !.given = given, !.vision = vision]
             named(body, key) == {n \in DOMAIN body.configs : body.configs[n].key = key}
  <2>1. ASSUME NEW p \in Providers, NEW given \in Given, NEW vision \in BOOLEAN,
               ~Request(p, req(given, vision)).raised
        PROVE  LET body == Request(p, req(given, vision)) IN
               /\ \A key \in DOMAIN given \cap KnownTo(p) : Cardinality(named(body, key)) = 1
               /\ \A n \in DOMAIN body.configs :
                    \/ body.configs[n] = Default
                    \/ LET key == body.configs[n].key
                       IN  key \in DOMAIN given
                           /\ body.configs[n].value = MeantBy(p, key, given[key])
               /\ Cardinality(named(body, "default")) <= 1
    <3> DEFINE body == Request(p, req(given, vision))
               sent == SentBy(p, given)
    <3>1. req(given, vision).given = given
      BY DEF Plain
    <3>2. DOMAIN given \subseteq ConfigKeys
      BY DEF Given
    <3>3. KeepsConfigs(body, sent)
      <4> HIDE DEF req
      <4>1. QED
        BY <3>1, <3>2, AllKept
    <3>4. /\ DOMAIN sent = DOMAIN given \cap KnownTo(p)
          /\ \A key \in DOMAIN sent : sent[key] = MeantBy(p, key, given[key])
      BY DEF SentBy
    <3> HIDE DEF req, sent
    <3>5. ~body.raised
      BY <2>1
    <3> HIDE DEF body
    <3>6. IsKept(body.configs, sent)
      BY <3>3, <3>5 DEF KeepsConfigs
    <3>7. ASSUME NEW key \in DOMAIN given \cap KnownTo(p)
          PROVE  Cardinality(named(body, key)) = 1
      <4>1. PICK n : named(body, key) = {n}
        BY <3>4, <3>6 DEF IsKept, Under
      <4>2. QED
        BY <4>1, FS_Singleton
    <3>8. ASSUME NEW n \in DOMAIN body.configs, body.configs[n] # Default
          PROVE  /\ body.configs[n].key \in DOMAIN given
                 /\ body.configs[n].value = MeantBy(p, body.configs[n].key, given[body.configs[n].key])
      BY <3>4, <3>6, <3>8 DEF IsKept
    <3>9. Cardinality(named(body, "default")) <= 1
      <4>1. PICK d : named(body, "default") \subseteq {d}
        BY <3>6 DEF IsKept, Under
      <4> HIDE DEF named
      <4>2. named(body, "default") = {} \/ named(body, "default") = {d}
        BY <4>1
      <4>3. Cardinality({d}) = 1 /\ Cardinality({}) = 0
        BY FS_Singleton, FS_EmptySet
      <4>4. QED
        BY <4>2, <4>3
    <3>10. QED
      BY <3>7, <3>8, <3>9 DEF body
  <2>2. QED
    BY <2>1, Zenon DEF ConfigsSent
<1>2. QED
  BY <1>1, PTL

=============================================================================
