---------------------------- MODULE FormatsProofs ----------------------------
(***************************************************************************)
(* What holds of every document in every shape it is given.                *)
(***************************************************************************)
EXTENDS Formats, FiniteSetTheorems, SequenceTheorems, TLAPS

Joined(s, t) == s \o t
\* Concatenation, folded.
JoinFold == INSTANCE Folding WITH Op <- Joined

(***************************************************************************)
(* Sequences of sequences, put together                                    *)
(***************************************************************************)
LEMMA JoinedType ==
    ASSUME NEW E
    PROVE  \A ss \in Seq(Seq(E)) : JoinFold!Fold(<<>>, ss) \in Seq(E)
<1> DEFINE T == {ss \in Seq(Seq(E)) : JoinFold!Fold(<<>>, ss) \in Seq(E)}
<1>1. <<>> \in T
      BY JoinFold!FoldEmpty, EmptySeq, Zenon
<1>2. ASSUME NEW ss \in Seq(Seq(E)), NEW s \in Seq(E), ss \in T PROVE Append(ss, s) \in T
  <2>1. JoinFold!Fold(<<>>, Append(ss, s)) = Joined(JoinFold!Fold(<<>>, ss), s)
        BY JoinFold!FoldAppend
  <2>2. Append(ss, s) \in Seq(Seq(E)) /\ Joined(JoinFold!Fold(<<>>, ss), s) \in Seq(E)
        BY <1>2, AppendProperties, ConcatProperties DEF Joined
  <2> QED BY <2>1, <2>2
<1> HIDE DEF T
<1>3. \A ss \in Seq(Seq(E)) : ss \in T
      BY <1>1, <1>2, JoinFold!SeqInduction
<1> QED BY <1>3 DEF T

\* Flattening folds concatenation over the sequence, from the left.
LEMMA FlattenIsFold ==
    ASSUME NEW E, NEW ss \in Seq(Seq(E))
    PROVE  FlattenSeq(ss) = JoinFold!Fold(<<>>, ss)
<1> DEFINE n == Len(ss)
           First(k) == SubSeq(ss, 1, k)
           At(k) == JoinFold!Fold(<<>>, First(k))
           Flattens(f) == f = [i \in 1..n |-> IF i = 1 THEN ss[i] ELSE f[i - 1] \o ss[i]]
<1>1. n \in Nat
      OBVIOUS
<1>2. CASE n = 0
  <2>1. ss = <<>>
        BY <1>2
  <2> QED BY <2>1, JoinFold!FoldEmpty DEF FlattenSeq
<1>3. CASE n # 0
  <2>1. At(0) = <<>>
    <3>1. First(0) = <<>>
          BY SubSeqEmpty
    <3> HIDE DEF First
    <3> QED BY <3>1, JoinFold!FoldEmpty
  <2>2. ASSUME NEW k \in 1..n PROVE At(k) = At(k - 1) \o ss[k] /\ ss[k] \in Seq(E) /\ At(k - 1) \in Seq(E)
    <3>1. /\ First(k - 1) \in Seq(Seq(E)) /\ ss[k] \in Seq(E)
          /\ First(k) = First(k - 1) \o <<ss[k]>>
          BY <1>1, SubSeqRecursiveSecond
    <3>2. First(k) = Append(First(k - 1), ss[k])
          BY <3>1, AppendIsConcat
    <3> HIDE DEF First
    <3>3. At(k) = Joined(At(k - 1), ss[k])
      <4>1. JoinFold!Fold(<<>>, Append(First(k - 1), ss[k])) = Joined(At(k - 1), ss[k])
            BY <3>1, JoinFold!FoldAppend
      <4> QED BY <3>2, <4>1
    <3>4. At(k - 1) \in Seq(E)
          BY <3>1, JoinedType
    <3> HIDE DEF At
    <3> QED BY <3>1, <3>3, <3>4, Zenon DEF Joined
  <2> HIDE DEF First, At
  <2> DEFINE g == [k \in 1..n |-> At(k)]
  <2>3. ASSUME NEW k \in 1..n PROVE g[k] = IF k = 1 THEN ss[k] ELSE g[k - 1] \o ss[k]
    <3>0. g[k] = At(k)
          OBVIOUS
    <3>1. CASE k = 1
      <4>1. k - 1 = 0
            BY <3>1
      <4>2. At(k) = <<>> \o ss[k] /\ ss[k] \in Seq(E)
            BY <2>1, <2>2, <4>1
      <4>3. At(k) = ss[k]
            BY <4>2, ConcatEmptySeq
      <4> HIDE DEF g
      <4> QED BY <3>0, <3>1, <4>3
    <3>2. CASE k # 1
      <4>1. k - 1 \in 1..n
            BY <1>1, <3>2
      <4>2. g[k - 1] = At(k - 1)
            BY <4>1
      <4>3. At(k) = At(k - 1) \o ss[k]
            BY <2>2
      <4> HIDE DEF g
      <4> QED BY <3>0, <3>2, <4>2, <4>3
    <3> QED BY <3>1, <3>2
  <2>4. g = [k \in 1..n |-> g[k]]
        OBVIOUS
  <2> HIDE DEF g
  <2>5. Flattens(g)
        BY <2>3, <2>4
  <2> DEFINE f == CHOOSE f : Flattens(f)
  <2>6. Flattens(f)
        BY <2>5
  <2>7. FlattenSeq(ss) = f[n]
        BY <1>1, <1>3 DEF FlattenSeq
  <2> HIDE DEF f
  <2>8. \A k \in 1..n : f[k] = IF k = 1 THEN ss[k] ELSE f[k - 1] \o ss[k]
        BY <2>6
  <2> DEFINE Same == {k \in 0..n : k = 0 \/ f[k] = g[k]}
  <2>9. 0 \in Same
        BY <1>1
  <2>10. \A k \in 0..(n - 1) : k \in Same => k + 1 \in Same
    <3> SUFFICES ASSUME NEW k \in 0..(n - 1), k \in Same PROVE k + 1 \in Same
          OBVIOUS
    <3>1. k + 1 \in 1..n /\ (k + 1) - 1 = k
          BY <1>1
    <3>2. CASE k = 0
          BY <2>3, <2>8, <3>1, <3>2
    <3>3. CASE k # 0
      <4>0. k + 1 # 1 /\ f[k] = g[k]
            BY <3>3
      <4>1. f[k + 1] = f[(k + 1) - 1] \o ss[k + 1]
            BY <2>8, <3>1, <4>0
      <4>2. g[k + 1] = g[(k + 1) - 1] \o ss[k + 1]
            BY <2>3, <3>1, <4>0
      <4>3. f[k + 1] = g[k + 1]
            BY <3>1, <4>0, <4>1, <4>2, Zenon
      <4> QED BY <1>1, <3>1, <4>3
    <3> QED BY <3>2, <3>3
  <2>11. n \in Same
    <3> HIDE DEF Same
    <3>1. \A k \in 0..n : k \in Same
          BY <1>1, <2>9, <2>10, JoinFold!BoundedInduction
    <3> QED BY <1>1, <3>1
  <2>12. n \in 1..n
        BY <1>1, <1>3
  <2>13. FlattenSeq(ss) = At(n)
        BY <1>3, <2>7, <2>11, <2>12 DEF g
  <2> QED BY <2>13, SubSeqFull DEF At, First
<1> QED BY <1>2, <1>3

\* Nothing flattens to nothing.
LEMMA FlattenEmpty == FlattenSeq(<<>>) = <<>>
      BY DEF FlattenSeq

\* Flattening keeps the members.
LEMMA FlattenType ==
    ASSUME NEW E, NEW ss \in Seq(Seq(E))
    PROVE  FlattenSeq(ss) \in Seq(E)
      BY FlattenIsFold, JoinedType

\* Concatenation is associative, as Folding asks of an operator that is folded.
LEMMA Associative ==
    ASSUME NEW E
    PROVE  \A s, t, u \in Seq(E) : (s \o t) \o u = s \o (t \o u)
      BY ConcatAssociative

\* One sequence more adds its members at the end.
LEMMA FlattenAppend ==
    ASSUME NEW E, NEW ss \in Seq(Seq(E)), NEW s \in Seq(E)
    PROVE  FlattenSeq(Append(ss, s)) = FlattenSeq(ss) \o s
<1>1. Append(ss, s) \in Seq(Seq(E))
      BY AppendProperties
<1>2. JoinFold!Fold(<<>>, Append(ss, s)) = Joined(JoinFold!Fold(<<>>, ss), s)
      BY JoinFold!FoldAppend
<1> QED BY <1>1, <1>2, FlattenIsFold, Zenon DEF Joined

\* A function on the first numbers is a sequence; the first elements of one are one.
LEMMA AFunctionIsASeq ==
    ASSUME NEW S, NEW n \in Nat, NEW f, f = [i \in 1..n |-> f[i]], \A i \in 1..n : f[i] \in S
    PROVE  f \in Seq(S) /\ Len(f) = n /\ DOMAIN f = 1..n
<1>1. f \in [1..n -> S]
      OBVIOUS
<1>2. f \in Seq(S)
      BY <1>1, SeqDef
<1>3. DOMAIN f = 1..n /\ DOMAIN f = 1..Len(f) /\ Len(f) \in Nat
      BY <1>1, <1>2, LenProperties
<1> QED BY <1>2, <1>3

\* The first k members are a sequence of k.
LEMMA FirstsAreASeq ==
    ASSUME NEW S, NEW s \in Seq(S), NEW k \in 0..Len(s)
    PROVE  SubSeq(s, 1, k) \in Seq(S) /\ Len(SubSeq(s, 1, k)) = k
<1>1. k \in Nat /\ 1 \in Int /\ k \in Int /\ \A i \in 1..k : s[i] \in S
      BY ElementOfSeq
<1>2. /\ SubSeq(s, 1, k) \in Seq(S)
      /\ Len(SubSeq(s, 1, k)) = IF 1 <= k THEN k - 1 + 1 ELSE 0
      BY <1>1, SubSeqProperties
<1> QED BY <1>1, <1>2

\* What is put together of one sequence more.
LEMMA FlattenMore ==
    ASSUME NEW E, NEW ss \in Seq(Seq(E)), NEW more \in Seq(Seq(E)), NEW n \in Nat,
           n = Len(ss), Len(more) = n + 1, \A i \in 1..n : more[i] = ss[i]
    PROVE  FlattenSeq(more) = FlattenSeq(ss) \o more[n + 1] /\ more[n + 1] \in Seq(E)
<1>1. more[n + 1] \in Seq(E)
      OBVIOUS
<1> DEFINE s == more[n + 1]
<1> HIDE DEF s
<1>2. s \in Seq(E) /\ Append(ss, s) \in Seq(Seq(E)) /\ Len(Append(ss, s)) = n + 1
      BY <1>1, AppendProperties DEF s
<1>3. \A i \in 1..(n + 1) : Append(ss, s)[i] = more[i]
      BY <1>2, AppendProperties DEF s
<1>4. more = Append(ss, s)
      BY <1>2, <1>3, SeqEqual
<1> QED BY <1>2, <1>4, FlattenAppend DEF s

\* Flattening goes through concatenation.
LEMMA FlattenConcat ==
    ASSUME NEW E, NEW s \in Seq(Seq(E))
    PROVE  \A t \in Seq(Seq(E)) : FlattenSeq(s \o t) = FlattenSeq(s) \o FlattenSeq(t)
<1> DEFINE T == {t \in Seq(Seq(E)) : FlattenSeq(s \o t) = FlattenSeq(s) \o FlattenSeq(t)}
<1>0. FlattenSeq(s) \in Seq(E)
      BY FlattenType
<1>1. <<>> \in T
  <2>1. s \o <<>> = s /\ FlattenSeq(s) \o <<>> = FlattenSeq(s)
        BY <1>0, ConcatEmptySeq
  <2>2. <<>> \in Seq(Seq(E))
        BY EmptySeq
  <2> QED BY <2>1, <2>2, FlattenEmpty
<1>2. ASSUME NEW t \in Seq(Seq(E)), NEW e \in Seq(E), t \in T PROVE Append(t, e) \in T
  <2>1. /\ s \o t \in Seq(Seq(E)) /\ Append(t, e) \in Seq(Seq(E))
        /\ FlattenSeq(t) \in Seq(E)
        BY AppendProperties, ConcatProperties, FlattenType
  <2>2. s \o Append(t, e) = Append(s \o t, e)
    <3>1. Append(t, e) = t \o <<e>> /\ Append(s \o t, e) = (s \o t) \o <<e>>
          BY <2>1, AppendIsConcat
    <3>2. <<e>> \in Seq(Seq(E))
          OBVIOUS
    <3>3. (s \o t) \o <<e>> = s \o (t \o <<e>>)
          BY <3>2, ConcatAssociative
    <3> QED BY <3>1, <3>3
  <2>3. FlattenSeq(Append(s \o t, e)) = FlattenSeq(s \o t) \o e
        BY <2>1, FlattenAppend
  <2>4. FlattenSeq(Append(t, e)) = FlattenSeq(t) \o e
        BY FlattenAppend
  <2>5. FlattenSeq(s \o t) = FlattenSeq(s) \o FlattenSeq(t)
        BY <1>2
  <2>6. (FlattenSeq(s) \o FlattenSeq(t)) \o e = FlattenSeq(s) \o (FlattenSeq(t) \o e)
        BY <1>0, <2>1, ConcatAssociative
  <2> QED BY <2>1, <2>2, <2>3, <2>4, <2>5, <2>6
<1> HIDE DEF T
<1>3. \A t \in Seq(Seq(E)) : t \in T
      BY <1>1, <1>2, JoinFold!SeqInduction
<1> QED BY <1>3 DEF T

\* A single sequence flattens to itself.
LEMMA FlattenOne ==
    ASSUME NEW E, NEW s \in Seq(E)
    PROVE  FlattenSeq(<<s>>) = s
<1>1. <<>> \in Seq(Seq(E)) /\ Append(<<>>, s) = <<s>>
      BY EmptySeq
<1>2. FlattenSeq(<<s>>) = <<>> \o s
      BY <1>1, FlattenAppend, FlattenEmpty
<1> QED BY <1>2, ConcatEmptySeq

\* What is put together of the first sequences, one by one.
LEMMA FlattenFirst ==
    ASSUME NEW E, NEW ss \in Seq(Seq(E)), NEW k \in 0..(Len(ss) - 1)
    PROVE  /\ FlattenSeq(SubSeq(ss, 1, 0)) = <<>>
           /\ FlattenSeq(SubSeq(ss, 1, k)) \in Seq(E) /\ ss[k + 1] \in Seq(E)
           /\ FlattenSeq(SubSeq(ss, 1, k + 1)) = FlattenSeq(SubSeq(ss, 1, k)) \o ss[k + 1]
<1>1. /\ Len(ss) \in Nat /\ k \in Nat /\ k + 1 \in 1..Len(ss) /\ 1 \in 1..Len(ss)
      /\ (k + 1) - 1 = k /\ k + 1 \in 1..Len(ss)
      OBVIOUS
<1>2. SubSeq(ss, 1, k) \in Seq(Seq(E)) /\ ss[k + 1] \in Seq(E)
      BY <1>1
<1>3. SubSeq(ss, 1, k + 1) = SubSeq(ss, 1, k) \o <<ss[k + 1]>>
      BY <1>1, SubSeqRecursiveSecond
<1>4. SubSeq(ss, 1, k + 1) = Append(SubSeq(ss, 1, k), ss[k + 1])
      BY <1>2, <1>3, AppendIsConcat
<1>5. FlattenSeq(SubSeq(ss, 1, 0)) = <<>>
  <2>1. SubSeq(ss, 1, 0) = <<>>
        BY SubSeqEmpty
  <2> QED BY <2>1, FlattenEmpty
<1>6. FlattenSeq(SubSeq(ss, 1, k)) \in Seq(E)
      BY <1>2, FlattenType
<1>7. FlattenSeq(SubSeq(ss, 1, k + 1)) = FlattenSeq(SubSeq(ss, 1, k)) \o ss[k + 1]
      BY <1>2, <1>4, FlattenAppend
<1> QED BY <1>2, <1>5, <1>6, <1>7

\* What is put together of two sequences, one behind the other.
LEMMA FlattenBoth ==
    ASSUME NEW E, NEW s \in Seq(Seq(E)), NEW t \in Seq(Seq(E)), NEW both,
           NEW n \in Nat, NEW m \in Nat, n = Len(s), m = Len(t),
           both = [i \in 1..(n + m) |-> both[i]],
           \A i \in 1..n : both[i] = s[i],
           \A i \in 1..m : both[n + i] = t[i]
    PROVE  FlattenSeq(both) = FlattenSeq(s) \o FlattenSeq(t)
<1> DEFINE L == n + m
           S == Seq(E)
<1>1. L \in Nat /\ s \o t \in Seq(S) /\ Len(s \o t) = L
      BY ConcatProperties
<1>2. \A i \in 1..L : (s \o t)[i] = both[i]
  <2> SUFFICES ASSUME NEW i \in 1..L PROVE (s \o t)[i] = both[i]
        OBVIOUS
  <2>1. (s \o t)[i] = IF i <= n THEN s[i] ELSE t[i - n]
        BY ConcatProperties
  <2>2. CASE i <= n
    <3>1. i \in 1..n
          BY <2>2
    <3> QED BY <2>1, <2>2, <3>1
  <2>3. CASE ~(i <= n)
    <3>1. i - n \in 1..m /\ n + (i - n) = i
          BY <2>3
    <3>2. both[n + (i - n)] = t[i - n]
          BY <3>1
    <3> QED BY <2>1, <2>3, <3>1, <3>2
  <2> QED BY <2>2, <2>3
<1>3. both = [i \in 1..L |-> both[i]]
      OBVIOUS
<1> HIDE DEF L, S
<1>4. \A i \in 1..L : both[i] \in S
      BY <1>1, <1>2, ElementOfSeq
<1>5. both \in Seq(S) /\ Len(both) = L
      BY <1>1, <1>3, <1>4, AFunctionIsASeq
<1>6. both = s \o t
      BY <1>1, <1>2, <1>5, SeqEqual
<1> QED BY <1>6, FlattenConcat

\* What each element of a sequence stands for, put together.
Each(f, s) == FlattenSeq([i \in DOMAIN s |-> f[s[i]]])

\* What each member contributes, put together, is a sequence.
LEMMA EachType ==
    ASSUME NEW E, NEW D, NEW f \in [D -> Seq(E)], NEW s \in Seq(D)
    PROVE  Each(f, s) \in Seq(E) /\ [i \in DOMAIN s |-> f[s[i]]] \in Seq(Seq(E))
<1> DEFINE n == Len(s)
           S == Seq(E)
           made == [i \in 1..n |-> f[s[i]]]
<1>1. n \in Nat /\ DOMAIN s = 1..n /\ \A i \in 1..n : s[i] \in D
      BY LenProperties, ElementOfSeq
<1> HIDE DEF n, S
<1>2. \A i \in 1..n : made[i] \in S
      BY <1>1 DEF S
<1>3. made = [i \in 1..n |-> made[i]]
      OBVIOUS
<1>4. made = [i \in DOMAIN s |-> f[s[i]]]
      BY <1>1
<1> HIDE DEF made
<1>5. made \in Seq(S)
      BY <1>1, <1>2, <1>3, AFunctionIsASeq
<1> QED BY <1>4, <1>5, FlattenType DEF Each, S

\* Each of two sequences, one after the other.
LEMMA EachOfBoth ==
    ASSUME NEW E, NEW D, NEW f \in [D -> Seq(E)], NEW s \in Seq(D), NEW t \in Seq(D)
    PROVE  Each(f, s \o t) = Each(f, s) \o Each(f, t)
<1> DEFINE n == Len(s)
           m == Len(t)
           L == n + m
           a == [i \in DOMAIN s |-> f[s[i]]]
           b == [i \in DOMAIN t |-> f[t[i]]]
           both == [i \in DOMAIN (s \o t) |-> f[(s \o t)[i]]]
<1>1. n \in Nat /\ m \in Nat /\ DOMAIN s = 1..n /\ DOMAIN t = 1..m /\ DOMAIN (s \o t) = 1..L
      BY LenProperties, ConcatProperties
<1>2. a \in Seq(Seq(E)) /\ b \in Seq(Seq(E))
      BY EachType
<1>3. Len(a) = n /\ Len(b) = m
      BY <1>1
<1>4. both = [i \in 1..L |-> both[i]]
      BY <1>1
<1>5. ASSUME NEW i \in 1..n PROVE both[i] = a[i]
  <2>1. i \in 1..L /\ i <= n
        BY <1>1
  <2>2. (s \o t)[i] = s[i]
        BY <2>1, ConcatProperties
  <2> QED BY <1>1, <2>1, <2>2
<1>6. ASSUME NEW i \in 1..m PROVE both[n + i] = b[i]
  <2> DEFINE j == n + i
  <2>1. j \in 1..L /\ ~(j <= n) /\ j - n = i
        BY <1>1
  <2> HIDE DEF j
  <2>2. (s \o t)[j] = t[i]
        BY <2>1, ConcatProperties
  <2>3. both[j] = b[i]
        BY <1>1, <2>1, <2>2
  <2> QED BY <2>3 DEF j
<1> HIDE DEF a, b, both, n, m
<1>7. FlattenSeq(both) = FlattenSeq(a) \o FlattenSeq(b)
      BY <1>1, <1>2, <1>3, <1>4, <1>5, <1>6, FlattenBoth DEF L
<1> QED BY <1>7 DEF Each, a, b, both

\* Each of nothing is nothing.
LEMMA EachOfNone ==
    ASSUME NEW f
    PROVE  Each(f, <<>>) = <<>>
<1>1. [i \in DOMAIN <<>> |-> f[<<>>[i]]] = <<>>
      OBVIOUS
<1> QED BY <1>1, FlattenEmpty DEF Each

\* Each of a single member is what that member contributes.
LEMMA EachOfOne ==
    ASSUME NEW E, NEW f, NEW d, f[d] \in Seq(E)
    PROVE  Each(f, <<d>>) = f[d]
<1>1. [i \in DOMAIN <<d>> |-> f[<<d>>[i]]] = <<f[d]>>
      OBVIOUS
<1> QED BY <1>1, FlattenOne DEF Each

\* One member more contributes at the end.
LEMMA EachOfMore ==
    ASSUME NEW E, NEW D, NEW f \in [D -> Seq(E)], NEW s \in Seq(D), NEW d \in D
    PROVE  Each(f, Append(s, d)) = Each(f, s) \o f[d]
<1>1. <<d>> \in Seq(D) /\ Append(s, d) = s \o <<d>>
      BY AppendIsConcat
<1>2. Each(f, s \o <<d>>) = Each(f, s) \o Each(f, <<d>>)
  <2> DEFINE one == <<d>>
  <2>1. one \in Seq(D)
        BY <1>1
  <2> HIDE DEF one
  <2>2. Each(f, s \o one) = Each(f, s) \o Each(f, one)
        BY <2>1, EachOfBoth
  <2> QED BY <2>2 DEF one
<1>3. Each(f, <<d>>) = f[d]
      BY EachOfOne
<1> QED BY <1>1, <1>2, <1>3

\* If every member contributes itself, the sequence is unchanged.
LEMMA EachIsSame ==
    ASSUME NEW D, NEW E, NEW one \in [D -> Seq(E)], \A d \in D : one[d] = <<d>>
    PROVE  \A s \in Seq(D) : Each(one, s) = s
<1> DEFINE T == {s \in Seq(D) : Each(one, s) = s}
<1> HIDE DEF T
<1>1. <<>> \in T
      BY EachOfNone, EmptySeq DEF T
<1>2. ASSUME NEW s \in Seq(D), NEW d \in D, s \in T PROVE Append(s, d) \in T
  <2>1. Each(one, Append(s, d)) = Each(one, s) \o one[d]
        BY EachOfMore
  <2>2. Append(s, d) \in Seq(D) /\ Append(s, d) = s \o <<d>>
        BY AppendProperties, AppendIsConcat
  <2> QED BY <1>2, <2>1, <2>2 DEF T
<1>3. \A s \in Seq(D) : s \in T
      BY <1>1, <1>2, JoinFold!SeqInduction
<1> QED BY <1>3 DEF T

\* A sequence that is not empty is its front and its last member.
LEMMA FrontLast ==
    ASSUME NEW E, NEW s \in Seq(E), s # <<>>
    PROVE  /\ Front(s) \in Seq(E) /\ Last(s) \in E /\ s = Append(Front(s), Last(s))
           /\ Len(Front(s)) = Len(s) - 1
<1>1. /\ Len(s) \in Nat \ {0} /\ Len(s) \in 1..Len(s) /\ 1 \in 1..Len(s)
      OBVIOUS
<1>2. Front(s) \in Seq(E) /\ Last(s) \in E /\ Len(Front(s)) = Len(s) - 1
  <2>1. Last(s) \in E
        BY <1>1 DEF Last
  <2> DEFINE n == Len(s) - 1
  <2>2. n \in 0..Len(s)
        BY <1>1
  <2> HIDE DEF n
  <2>3. SubSeq(s, 1, n) \in Seq(E) /\ Len(SubSeq(s, 1, n)) = n
        BY <2>2, FirstsAreASeq
  <2> QED BY <2>1, <2>3 DEF Front, n
<1>3. SubSeq(s, 1, Len(s)) = Front(s) \o <<Last(s)>>
      BY <1>1, SubSeqRecursiveSecond DEF Front, Last
<1>4. s = Front(s) \o <<Last(s)>>
      BY <1>3, SubSeqFull
<1> QED BY <1>2, <1>4, AppendIsConcat

\* The lesser of two integers.
LEMMA TheLesser ==
    ASSUME NEW a \in Int, NEW b \in Int
    PROVE  Min({a, b}) = IF a <= b THEN a ELSE b
      BY DEF Min
\* The greater of two integers.
LEMMA TheGreater ==
    ASSUME NEW a \in Int, NEW b \in Int
    PROVE  Max({a, b}) = IF a <= b THEN b ELSE a
      BY DEF Max

\* Cuts are as long as they may be and not empty, and together they are what was cut.
LEMMA CutsJoin ==
    ASSUME NEW E, NEW seq \in Seq(E), NEW size \in Nat \ {0}
    PROVE  /\ Cuts(seq, size) \in Seq(Seq(E))
           /\ \A k \in DOMAIN Cuts(seq, size) : Len(Cuts(seq, size)[k]) \in 1..size
           /\ FlattenSeq(Cuts(seq, size)) = seq
<1> DEFINE L == Len(seq)
           n == (L + size - 1) \div size
           Upto(k) == IF k * size <= L THEN k * size ELSE L
           Nth(k) == SubSeq(seq, (k - 1) * size + 1, Upto(k))
           cuts == Cuts(seq, size)
<1>1. L \in Nat /\ n \in Nat
      OBVIOUS
<1>2. n * size >= L /\ (n = 0 \/ (n - 1) * size < L)
      BY <1>1
<1>3. ASSUME NEW k \in 1..n
      PROVE  /\ (k - 1) * size \in Nat /\ k * size \in Nat
             /\ k * size = (k - 1) * size + size /\ (k - 1) * size < L
  <2>1. k - 1 \in Nat /\ k - 1 <= n - 1 /\ n # 0
        BY <1>1
  <2>2. (k - 1) * size <= (n - 1) * size
        BY <1>1, <2>1
  <2> QED BY <1>1, <1>2, <2>1, <2>2
<1> HIDE DEF L, n
<1>4. \A k \in 1..n : Min({k * size, L}) = Upto(k)
      BY <1>1, <1>3, TheLesser
<1>5. cuts = [k \in 1..n |-> Nth(k)]
      BY <1>4 DEF Cuts, L, n
<1>6. ASSUME NEW k \in 1..n
      PROVE  Nth(k) \in Seq(E) /\ Len(Nth(k)) \in 1..size /\ Upto(k) \in Nat
             /\ (k - 1) * size + 1 \in 1..L /\ Upto(k) \in ((k - 1) * size + 1)..L
  <2>1. /\ (k - 1) * size + 1 \in 1..L /\ Upto(k) \in ((k - 1) * size + 1)..L
        /\ Upto(k) - (k - 1) * size \in 1..size /\ Upto(k) \in Nat
        BY <1>1, <1>3
  <2> DEFINE lo == (k - 1) * size + 1
             hi == Upto(k)
  <2>2. lo \in Int /\ hi \in Int /\ lo <= hi /\ hi - lo + 1 \in 1..size
        BY <1>1, <1>3, <2>1
  <2> HIDE DEF lo, hi
  <2>3. \A i \in lo..hi : seq[i] \in E
        BY <2>1, ElementOfSeq DEF L, lo, hi
  <2>4. SubSeq(seq, lo, hi) \in Seq(E) /\ Len(SubSeq(seq, lo, hi)) = hi - lo + 1
        BY <2>2, <2>3, SubSeqProperties
  <2> QED BY <2>1, <2>2, <2>4 DEF lo, hi
<1> HIDE DEF Nth, Upto
<1>7. cuts \in Seq(Seq(E)) /\ Len(cuts) = n /\ \A k \in 1..n : cuts[k] = Nth(k)
      BY <1>1, <1>5, <1>6
<1> DEFINE Joins == {k \in 0..n : FlattenSeq(SubSeq(cuts, 1, k)) = SubSeq(seq, 1, Upto(k))}
<1>8. 0 \in Joins
  <2>1. Upto(0) = 0
        BY <1>1 DEF Upto
  <2>2. SubSeq(cuts, 1, 0) = <<>> /\ SubSeq(seq, 1, 0) = <<>>
        BY SubSeqEmpty
  <2>3. 0 \in 0..n
        BY <1>1
  <2> QED BY <2>1, <2>2, <2>3, FlattenEmpty
<1>9. ASSUME NEW k \in 0..(n - 1), k \in Joins PROVE k + 1 \in Joins
  <2>1. k + 1 \in 1..n /\ (k + 1) - 1 = k /\ k \in Nat /\ k + 1 \in 0..n
        BY <1>1
  <2>2. Upto(k) = k * size /\ k * size \in Nat /\ k * size < L
    <3> DEFINE j == k + 1
    <3>1. j \in 1..n /\ j - 1 = k
          BY <2>1
    <3> HIDE DEF j
    <3>2. (j - 1) * size \in Nat /\ (j - 1) * size < L
          BY <1>3, <3>1
    <3>3. k * size \in Nat /\ k * size < L
          BY <3>1, <3>2
    <3> QED BY <1>1, <3>3 DEF Upto
  <2>3. Nth(k + 1) = SubSeq(seq, Upto(k) + 1, Upto(k + 1)) /\ Nth(k + 1) \in Seq(E)
        BY <1>6, <2>1, <2>2 DEF Nth
  <2>4. SubSeq(cuts, 1, k) \in Seq(Seq(E))
        BY <1>7, <2>1
  <2>5. SubSeq(cuts, 1, k + 1) = Append(SubSeq(cuts, 1, k), Nth(k + 1))
    <3>1. 1 \in 1..n /\ k + 1 \in 1..n
          BY <1>1, <2>1
    <3>2. SubSeq(cuts, 1, k + 1) = SubSeq(cuts, 1, k) \o <<cuts[k + 1]>>
          BY <1>7, <2>1, <3>1, SubSeqRecursiveSecond
    <3>3. cuts[k + 1] = Nth(k + 1)
          BY <1>7, <2>1
    <3> QED BY <2>3, <2>4, <3>2, <3>3, AppendIsConcat
  <2>6. FlattenSeq(SubSeq(cuts, 1, k + 1)) = FlattenSeq(SubSeq(cuts, 1, k)) \o Nth(k + 1)
        BY <2>3, <2>4, <2>5, FlattenAppend
  <2>7. SubSeq(seq, 1, Upto(k)) \o SubSeq(seq, Upto(k) + 1, Upto(k + 1)) = SubSeq(seq, 1, Upto(k + 1))
    <3>1. 1 \in 1..(L + 1) /\ Upto(k) \in (1 - 1)..L /\ Upto(k + 1) \in Upto(k)..L
          BY <1>1, <1>6, <2>1, <2>2
    <3> QED BY <3>1, ConcatAdjacentSubSeq DEF L
  <2> QED BY <1>9, <2>1, <2>3, <2>6, <2>7
<1>10. n \in Joins
  <2> HIDE DEF Joins
  <2>1. \A k \in 0..n : k \in Joins
        BY <1>1, <1>8, <1>9, JoinFold!BoundedInduction
  <2> QED BY <1>1, <2>1
<1>11. SubSeq(cuts, 1, n) = cuts
      BY <1>7, SubSeqFull
<1>12. Upto(n) = L
      BY <1>1, <1>2 DEF Upto
<1>13. FlattenSeq(cuts) = seq
      BY <1>10, <1>11, <1>12, SubSeqFull DEF L
<1>14. DOMAIN cuts = 1..n
      BY <1>5
<1> HIDE DEF cuts
<1>15. /\ cuts \in Seq(Seq(E)) /\ FlattenSeq(cuts) = seq
       /\ \A k \in DOMAIN cuts : Len(cuts[k]) \in 1..size
      BY <1>6, <1>7, <1>13, <1>14
<1> QED BY <1>15 DEF cuts

(***************************************************************************)
(* Documents                                                               *)
(***************************************************************************)
LEMMA TagsAreEvents ==
    /\ Open("figure") \in Events /\ Close("figure") \in Events
    /\ OpenWith("table", "scoped") \in Events
      BY DEF Events, Open, Close, OpenWith, Tags, Attrs, Values

\* Escaping a part on display leaves it a part that is not empty.
LEMMA RenderedIsPart ==
    ASSUME NEW part \in Seq(Events) \ {<<>>}
    PROVE  Rendered(part) \in Seq(Events) \ {<<>>}
<1> DEFINE made == Promoted(part)
<1>1. made \in Seq(Events) \ {<<>>}
  <2>1. CASE Len(part) = 3
    <3>1. part[2] \in Events
          BY <2>1
    <3>2. <<Open("figure"), part[2], Close("figure")>> \in Seq(Events) \ {<<>>}
          BY <3>1, TagsAreEvents
    <3> QED BY <3>2 DEF Promoted
  <2>2. CASE Len(part) # 3
        BY <2>2 DEF Promoted
  <2> QED BY <2>1, <2>2
<1> HIDE DEF made
<1>2. HeadersScoped(made) \in Seq(Events) \ {<<>>}
  <2> DEFINE scoped == HeadersScoped(made)
             n == Len(made)
  <2>1. n \in Nat \ {0} /\ DOMAIN made = 1..n /\ \A i \in 1..n : made[i] \in Events
        BY <1>1
  <2> HIDE DEF n
  <2>2. scoped = [i \in 1..n |-> IF Opens(made[i], "table") /\ made[i].attr = "unscoped"
                                THEN OpenWith("table", "scoped") ELSE made[i]]
        BY <2>1 DEF HeadersScoped
  <2>3. \A i \in 1..n : scoped[i] \in Events
        BY <2>1, <2>2, TagsAreEvents
  <2>4. scoped = [i \in 1..n |-> scoped[i]]
        BY <2>2
  <2> HIDE DEF scoped
  <2>5. scoped \in Seq(Events) /\ Len(scoped) = n
        BY <2>1, <2>3, <2>4
  <2>6. scoped # <<>>
        BY <2>1, <2>5
  <2> QED BY <2>5, <2>6 DEF scoped
<1> QED BY <1>2 DEF Rendered, made

\* The page is the parts put together.
LEMMA PageType ==
    ASSUME TypeOK
    PROVE  Page \in Seq(Events)
<1>1. body \in Seq(Seq(Events))
      BY SeqMonotonic DEF TypeOK
<1> QED BY <1>1, FlattenType DEF Page

(***************************************************************************)
(* The score and the gate                                                  *)
(***************************************************************************)
Rules ==
    {"lang-attribute-missing", "title-missing", "title-too-short", "no-headings", "no-h1",
     "multiple-h1", "heading-level-skip", "img-alt-missing", "img-decorative-needs-confirm",
     "img-alt-too-short", "table-missing-th", "table-th-needs-scope", "table-no-caption",
     "link-name-missing", "link-generic-text", "control-name-missing", "font-element-present"}
\* The findings there can be.
Findings == [rule : Rules, severity : Severities]

\* No finding of a severity is counted only when there is none.
LEMMA NothingCounted ==
    ASSUME NEW report \in Seq(Findings), NEW severity, Count(report, severity) = 0
    PROVE  \A i \in DOMAIN report : report[i].severity # severity
<1> DEFINE Those == {i \in DOMAIN report : report[i].severity = severity}
<1>1. DOMAIN report = 1..Len(report) /\ Len(report) \in Nat
      OBVIOUS
<1>2. IsFiniteSet(1..Len(report))
      BY <1>1, FS_Interval
<1>3. IsFiniteSet(Those)
      BY <1>1, <1>2, FS_Subset
<1>4. Those = {}
      BY <1>3, FS_EmptySet DEF Count
<1> QED BY <1>4

\* What counts findings is a number.
LEMMA CountIsNatural ==
    ASSUME NEW report \in Seq(Findings), NEW severity
    PROVE  Count(report, severity) \in Nat
<1>1. DOMAIN report = 1..Len(report) /\ Len(report) \in Nat
      OBVIOUS
<1>2. IsFiniteSet({i \in DOMAIN report : report[i].severity = severity})
  <2>1. IsFiniteSet(1..Len(report))
        BY <1>1, FS_Interval
  <2> QED BY <1>1, <2>1, FS_Subset
<1> QED BY <1>2, FS_CardinalityType DEF Count

\* Whatever was found and however much of it, one error already costs the
\* darkest green (canvas_panorama.py:866-876, 1493-1548).
LEMMA DarkGreenPasses ==
    ASSUME NEW report \in Seq(Findings), Score(report) >= 90
    PROVE  ~GateBlocked(report, {}, ChecklistItems)
<1>1. Count(report, "error") \in Nat /\ Count(report, "warning") \in Nat
      BY CountIsNatural
<1>2. Score(report) \in Nat /\ Score(report) >= 90
  <2>1. Score(report) \in Nat
        BY <1>1 DEF Score
  <2> QED BY <2>1
<1>3. Count(report, "error") = 0
      BY <1>1, <1>2 DEF Score
<1> QED BY <1>3, NothingCounted DEF GateBlocked

\* The findings of each element, put together.
LEMMA EachReported ==
    ASSUME NEW F, NEW n \in Nat, NEW found, found = [i \in 1..n |-> found[i]],
           \A i \in 1..n : found[i] \in Seq(F)
    PROVE  FlattenSeq(found) \in Seq(F)
<1>1. found \in Seq(Seq(F))
      OBVIOUS
<1> QED BY <1>1, FlattenType

\* What each element is found to lack.
LEMMA FindingsOfOne ==
    \A attr : /\ ImageFinding(attr) \in Seq(Findings)
              /\ TableFinding(attr) \in Seq(Findings)
              /\ LinkFinding(attr) \in Seq(Findings)
              /\ ControlFinding(attr) \in Seq(Findings)
<1> SUFFICES ASSUME NEW attr
             PROVE  /\ ImageFinding(attr) \in Seq(Findings)
                    /\ TableFinding(attr) \in Seq(Findings)
                    /\ LinkFinding(attr) \in Seq(Findings)
                    /\ ControlFinding(attr) \in Seq(Findings)
      OBVIOUS
<1>1. \A rule \in Rules, severity \in Severities : <<Finding(rule, severity)>> \in Seq(Findings)
      BY DEF Finding, Findings
<1>2. <<>> \in Seq(Findings)
      BY EmptySeq
<1> DEFINE Lacks(rule, severity) == <<Finding(rule, severity)>>
<1>3. /\ Lacks("img-alt-missing", "error") \in Seq(Findings)
      /\ Lacks("img-decorative-needs-confirm", "info") \in Seq(Findings)
      /\ Lacks("img-alt-too-short", "warning") \in Seq(Findings)
      /\ Lacks("table-missing-th", "error") \in Seq(Findings)
      /\ Lacks("table-th-needs-scope", "warning") \in Seq(Findings)
      /\ Lacks("table-no-caption", "info") \in Seq(Findings)
      /\ Lacks("link-name-missing", "error") \in Seq(Findings)
      /\ Lacks("link-generic-text", "warning") \in Seq(Findings)
      /\ Lacks("control-name-missing", "error") \in Seq(Findings)
      BY <1>1 DEF Rules, Severities
<1>4. ImageFinding(attr) \in Seq(Findings)
      BY <1>2, <1>3, Zenon DEF ImageFinding
<1>5. LinkFinding(attr) \in Seq(Findings)
      BY <1>2, <1>3, Zenon DEF LinkFinding
<1>6. ControlFinding(attr) \in Seq(Findings)
      BY <1>2, <1>3, Zenon DEF ControlFinding
<1>7. TableFinding(attr) \in Seq(Findings)
  <2> DEFINE headers == CASE attr = "none" -> Lacks("table-missing-th", "error")
                          [] attr = "unscoped" -> Lacks("table-th-needs-scope", "warning")
                          [] OTHER -> <<>>
  <2>1. headers \in Seq(Findings)
        BY <1>2, <1>3, Zenon
  <2>2. TableFinding(attr) = headers \o Lacks("table-no-caption", "info")
        BY DEF TableFinding
  <2> HIDE DEF headers, Lacks
  <2> QED BY <1>3, <2>1, <2>2, ConcatProperties
<1> QED BY <1>4, <1>5, <1>6, <1>7

\* A report is a sequence of findings, whatever document it is about.
LEMMA ReportType ==
    ASSUME NEW page \in Seq(Events), NEW name
    PROVE  Report(name, page) \in Seq(Findings)
<1> DEFINE head == <<OpenWith("html", "en"), OpenWith("title", name), Open("h1"), Data(<<Say(name)>>), Close("h1")>>
           document == FullDocument(name, page)
           E == Events \union {head[i] : i \in 1..5}
           n == Len(document)
           S == Seq(Findings)
<1>1. document \in Seq(E)
  <2>1. head \in Seq(E)
        OBVIOUS
  <2>2. page \in Seq(E)
        BY SeqMonotonic
  <2>3. document = head \o page
        BY DEF FullDocument
  <2> HIDE DEF head, E, document
  <2> QED BY <2>1, <2>2, <2>3, ConcatProperties
<1> HIDE DEF head, document, E
<1>2. n \in Nat /\ DOMAIN document = 1..n
      BY <1>1
<1>3. <<>> \in S
      BY EmptySeq
<1>4. \A rule \in Rules, severity \in Severities : <<Finding(rule, severity)>> \in S
      BY DEF Finding, Findings
<1>5. \A attr : /\ ImageFinding(attr) \in S /\ TableFinding(attr) \in S
                /\ LinkFinding(attr) \in S /\ ControlFinding(attr) \in S
      BY FindingsOfOne
<1>6. /\ <<Finding("lang-attribute-missing", "error")>> \in S
      /\ <<Finding("title-missing", "error")>> \in S
      /\ <<Finding("title-too-short", "warning")>> \in S
      /\ <<Finding("no-headings", "error")>> \in S
      /\ <<Finding("no-h1", "warning")>> \in S
      /\ <<Finding("multiple-h1", "warning")>> \in S
      /\ <<Finding("heading-level-skip", "warning")>> \in S
      /\ <<Finding("font-element-present", "warning")>> \in S
      BY <1>4 DEF Rules, Severities
<1> HIDE DEF n, S
<1>7. LangFindings(document) \in S
      BY <1>3, <1>6, Zenon DEF LangFindings
<1>8. TitleFindings(document) \in S
      BY <1>3, <1>6, Zenon DEF TitleFindings
<1>9. HeadingFindings(document) \in S
      BY <1>3, <1>6, Zenon DEF HeadingFindings
<1>10. FontFindings(document) \in S
      BY <1>3, <1>6, Zenon DEF FontFindings
<1>11. SkipFindings(document) \in S
  <2> DEFINE level(i) == IF document[i].event = "open" /\ Level(document[i].tag) > 0
                         THEN <<Level(document[i].tag)>> ELSE <<>>
             found == [i \in 1..n |-> level(i)]
             levels == Levels(document)
             m == Len(levels)
             skip(i) == IF i > 1 /\ levels[i] > levels[i - 1] + 1
                        THEN <<Finding("heading-level-skip", "warning")>> ELSE <<>>
             skips == [i \in 1..m |-> skip(i)]
  <2>1. \A tag : Level(tag) \in 0..6
        BY DEF Level
  <2>2. ASSUME NEW i \in 1..n PROVE level(i) \in Seq(0..6)
    <3>1. <<>> \in Seq(0..6)
          BY EmptySeq
    <3>2. <<Level(document[i].tag)>> \in Seq(0..6)
          BY <2>1
    <3> QED BY <3>1, <3>2, Zenon
  <2>3. levels = FlattenSeq(found)
        BY <1>2 DEF Levels
  <2> HIDE DEF level
  <2>4. levels \in Seq(0..6)
        BY <1>2, <2>2, <2>3, EachReported
  <2> HIDE DEF levels, found
  <2>5. m \in Nat /\ DOMAIN levels = 1..m
        BY <2>4
  <2>6. \A i \in 1..m : skip(i) \in S
        BY <1>3, <1>6, Zenon
  <2>7. SkipFindings(document) = FlattenSeq(skips)
        BY <2>5 DEF SkipFindings, levels
  <2> HIDE DEF skip, m
  <2> QED BY <2>5, <2>6, <2>7, EachReported DEF S
<1>12. OfEach(document, "img", ImageFinding) \in S
  <2> DEFINE found == [i \in 1..n |-> IF Opens(document[i], "img") THEN ImageFinding(document[i].attr) ELSE <<>>]
  <2>1. \A i \in 1..n : found[i] \in S
        BY <1>3, <1>5
  <2>2. OfEach(document, "img", ImageFinding) = FlattenSeq(found)
        BY <1>2 DEF OfEach
  <2>3. found = [i \in 1..n |-> found[i]]
        OBVIOUS
  <2> HIDE DEF found
  <2> QED BY <1>2, <2>1, <2>2, <2>3, EachReported DEF S
<1>13. OfEach(document, "table", TableFinding) \in S
  <2> DEFINE found == [i \in 1..n |-> IF Opens(document[i], "table") THEN TableFinding(document[i].attr) ELSE <<>>]
  <2>1. \A i \in 1..n : found[i] \in S
        BY <1>3, <1>5
  <2>2. OfEach(document, "table", TableFinding) = FlattenSeq(found)
        BY <1>2 DEF OfEach
  <2>3. found = [i \in 1..n |-> found[i]]
        OBVIOUS
  <2> HIDE DEF found
  <2> QED BY <1>2, <2>1, <2>2, <2>3, EachReported DEF S
<1>14. OfEach(document, "a", LinkFinding) \in S
  <2> DEFINE found == [i \in 1..n |-> IF Opens(document[i], "a") THEN LinkFinding(document[i].attr) ELSE <<>>]
  <2>1. \A i \in 1..n : found[i] \in S
        BY <1>3, <1>5
  <2>2. OfEach(document, "a", LinkFinding) = FlattenSeq(found)
        BY <1>2 DEF OfEach
  <2>3. found = [i \in 1..n |-> found[i]]
        OBVIOUS
  <2> HIDE DEF found
  <2> QED BY <1>2, <2>1, <2>2, <2>3, EachReported DEF S
<1>15. OfEach(document, "button", ControlFinding) \in S
  <2> DEFINE found == [i \in 1..n |-> IF Opens(document[i], "button") THEN ControlFinding(document[i].attr) ELSE <<>>]
  <2>1. \A i \in 1..n : found[i] \in S
        BY <1>3, <1>5
  <2>2. OfEach(document, "button", ControlFinding) = FlattenSeq(found)
        BY <1>2 DEF OfEach
  <2>3. found = [i \in 1..n |-> found[i]]
        OBVIOUS
  <2> HIDE DEF found
  <2> QED BY <1>2, <2>1, <2>2, <2>3, EachReported DEF S
<1>16. \A r, s \in S : r \o s \in S
      BY ConcatProperties DEF S
<1>17. RunWcagChecks(document) \in S
      BY <1>7, <1>8, <1>9, <1>10, <1>11, <1>12, <1>13, <1>14, <1>15, <1>16 DEF RunWcagChecks
<1> QED BY <1>17 DEF Report, document, S

\* A score is a natural number.
LEMMA ScoreType ==
    ASSUME NEW report \in Seq(Findings)
    PROVE  Score(report) \in Nat
<1>1. Count(report, "error") \in Nat /\ Count(report, "warning") \in Nat
      BY CountIsNatural
<1> QED BY <1>1 DEF Score

\* The computed score of any page is a number.
LEMMA ScoreIsNumber ==
    ASSUME NEW name \in Texts \union {NoText}, NEW parts \in Seq(Seq(Events) \ {<<>>})
    PROVE  ScoreOf(name, parts) \in Nat
<1>1. parts \in Seq(Seq(Events))
      BY SeqMonotonic
<1>2. FlattenSeq(parts) \in Seq(Events)
      BY <1>1, FlattenType
<1>3. Report(name, FlattenSeq(parts)) \in Seq(Findings)
      BY <1>2, ReportType
<1> QED BY <1>3, ScoreType DEF ScoreOf

\* A step keeps documents well formed.
LEMMA TypeStep == TypeOK /\ [Next]_vars => TypeOK'
<1> DEFINE P == Seq(Events) \ {<<>>}
<1> SUFFICES ASSUME TypeOK, [Next]_vars PROVE TypeOK'
      OBVIOUS
<1>1. ASSUME NEW part \in Parts, Add(part) PROVE TypeOK'
  <2>1. part \in P
        BY DocumentsAssumption
  <2> HIDE DEF P
  <2>2. Append(body, part) \in Seq(P)
        BY <2>1, AppendProperties DEF TypeOK, P
  <2> QED BY <1>1, <2>2 DEF TypeOK, Add, P
<1>2. ASSUME NEW i \in DOMAIN body, NEW repair \in Repairs, Repair(i, repair) PROVE TypeOK'
  <2>1. repair[2] \in P
        BY DocumentsAssumption
  <2> HIDE DEF P
  <2>2. body \in Seq(P) /\ i \in 1..Len(body)
        BY DEF TypeOK, P
  <2>3. [body EXCEPT ![i] = repair[2]] \in Seq(P)
        BY <2>1, <2>2, ExceptSeq
  <2> QED BY <1>2, <2>3 DEF TypeOK, Repair, P
<1>3. CASE ComputeScore
  <2>1. ScoreOf(title, body) \in Nat /\ Len(body) \in Nat
        BY ScoreIsNumber, DocumentsAssumption DEF TypeOK
  <2> QED BY <1>3, <2>1 DEF TypeOK, ComputeScore
<1>4. CASE CacheScore \/ DropScore
      BY <1>4 DEF TypeOK, CacheScore, DropScore, NoDial
<1>5. CASE UNCHANGED vars
      BY <1>5 DEF TypeOK, vars
<1> QED BY <1>1, <1>2, <1>3, <1>4, <1>5 DEF Next

\* The documents there are, converted and edited, are well formed.
LEMMA TypeCorrect == Spec => []TypeOK
<1> DEFINE P == Seq(Events) \ {<<>>}
<1>1. Init => TypeOK
  <2> SUFFICES ASSUME Init PROVE TypeOK
        OBVIOUS
  <2>1. PICK parts \in BoundedSeq(Parts, MaxConverted) : body = [i \in DOMAIN parts |-> Rendered(parts[i])]
        BY DEF Init
  <2>2. PICK n \in 0..MaxConverted : parts \in [1..n -> Parts]
        BY <2>1 DEF BoundedSeq, SeqOf
  <2>3. n \in Nat
        BY <2>2, DocumentsAssumption
  <2>4. \A i \in 1..n : Rendered(parts[i]) \in P
        BY <2>2, RenderedIsPart, DocumentsAssumption
  <2> HIDE DEF P
  <2>5. body = [i \in 1..n |-> Rendered(parts[i])]
        BY <2>1, <2>2
  <2>6. body \in Seq(P)
        BY <2>3, <2>4, <2>5
  <2>7. dial \in [at : {"none", "computed", "cached"}, score : Nat, parts : Nat]
        BY DEF Init, NoDial
  <2> QED BY <2>6, <2>7 DEF Init, TypeOK, P
<1> QED BY <1>1, TypeStep, PTL DEF Spec

(***************************************************************************)
(* The text that is read aloud                                             *)
(***************************************************************************)
SentenceFold == INSTANCE Folding WITH Op <- Extend
\* Sentences taken into calls, folded.
CallFold == INSTANCE Folding WITH Op <- Take

\* Letters, words of them, and what calls are made of: words, and the pieces of
\* sentences that were cut, blanks among their letters.
Letter == STRING \ {" "}
\* Words, and what a call is made of: words and the blanks between them.
Word == Seq(Letter) \ {<<>>}
Character == Letter \union {" "}
Token == Seq(Character) \ {<<>>}

\* A word is a token of a call.
LEMMA WordsAreTokens == Word \subseteq Token
      BY SeqMonotonic DEF Word, Token, Character

\* The words of a text are words.
LEMMA PlainTextType ==
    ASSUME NEW page \in Seq(Events)
    PROVE  PlainText(page) \in Seq(Word)
<1> DEFINE Piece == [text : Texts, page : BOOLEAN]
           n == Len(page)
           found == [i \in 1..n |-> IF IsData(page[i]) THEN page[i].pieces ELSE <<>>]
           pieces == FlattenSeq(found)
           m == Len(pieces)
           spelled == [i \in 1..m |-> Letters[pieces[i].text]]
<1>1. n \in Nat /\ DOMAIN page = 1..n /\ \A i \in 1..n : page[i] \in Events
      OBVIOUS
<1>2. \A e \in Events : IsData(e) => e.pieces \in Seq(Piece)
      BY DEF Events, IsData
<1>3. <<>> \in Seq(Piece)
      BY EmptySeq
<1> HIDE DEF n, Piece
<1>4. \A i \in 1..n : found[i] \in Seq(Piece)
      BY <1>1, <1>2, <1>3
<1>5. found = [i \in 1..n |-> found[i]]
      OBVIOUS
<1> HIDE DEF found
<1>6. pieces \in Seq(Piece)
      BY <1>1, <1>4, <1>5, EachReported
<1> HIDE DEF pieces
<1>7. m \in Nat /\ DOMAIN pieces = 1..m /\ \A i \in 1..m : pieces[i].text \in Texts
  <2>1. m \in Nat /\ DOMAIN pieces = 1..m /\ \A i \in 1..m : pieces[i] \in Piece
        BY <1>6
  <2> QED BY <2>1 DEF Piece
<1> HIDE DEF m
<1>8. \A i \in 1..m : spelled[i] \in Seq(Word)
      BY <1>7, TextsAssumption DEF Word, Letter
<1>9. spelled = [i \in 1..m |-> spelled[i]]
      OBVIOUS
<1>10. PlainText(page) = FlattenSeq(spelled)
      BY <1>1, <1>7 DEF PlainText, pieces, found
<1> HIDE DEF spelled
<1> QED BY <1>7, <1>8, <1>9, <1>10, EachReported

\* Sentences are not empty, and together they are the text.
LEMMA SentencesJoin ==
    \A text \in Seq(Word) :
        /\ Sentences(text) \in Seq(Seq(Word) \ {<<>>})
        /\ FlattenSeq(Sentences(text)) = text
<1> DEFINE Split(text) == SentenceFold!Fold(<<>>, text)
           S == Seq(Word) \ {<<>>}
           T == {text \in Seq(Word) : Split(text) \in Seq(S) /\ FlattenSeq(Split(text)) = text}
<1>1. \A text : Sentences(text) = Split(text)
      BY Zenon DEF Sentences, FoldLeft, MapThenFoldSet, SentenceFold!Fold, Max
<1>2. <<>> \in T
  <2>1. Split(<<>>) = <<>>
        BY SentenceFold!FoldEmpty
  <2>2. <<>> \in Seq(Word) /\ <<>> \in Seq(S)
        BY EmptySeq
  <2> QED BY <2>1, <2>2, FlattenEmpty
<1>3. ASSUME NEW text \in Seq(Word), NEW w \in Word, text \in T PROVE Append(text, w) \in T
  <2> DEFINE d == Split(text)
             e == Split(Append(text, w))
  <2>1. e = Extend(d, w)
        BY SentenceFold!FoldAppend
  <2>2. d \in Seq(S) /\ FlattenSeq(d) = text
        BY <1>3
  <2>3. d \in Seq(Seq(Word))
        BY <2>2, SeqMonotonic
  <2> HIDE DEF d, e
  <2>4. Append(text, w) \in Seq(Word) /\ Append(text, w) = text \o <<w>>
        BY AppendProperties, AppendIsConcat
  <2>5. CASE e = Append(d, <<w>>)
    <3>1. <<w>> \in S
          OBVIOUS
    <3>2. e \in Seq(S)
          BY <2>2, <2>5, <3>1, AppendProperties
    <3>3. FlattenSeq(e) = FlattenSeq(d) \o <<w>>
          BY <2>3, <2>5, <3>1, FlattenAppend
    <3> QED BY <2>2, <2>4, <3>2, <3>3 DEF e
  <2>6. CASE d # <<>> /\ e = Append(Front(d), Append(Last(d), w))
    <3>1. Front(d) \in Seq(S) /\ Last(d) \in S /\ d = Append(Front(d), Last(d))
          BY <2>2, <2>6, FrontLast
    <3>2. /\ Append(Last(d), w) \in Seq(Word) /\ Append(Last(d), w) # <<>>
          /\ Append(Last(d), w) = Last(d) \o <<w>>
          BY <3>1, AppendProperties, AppendIsConcat
    <3>3. e \in Seq(S)
          BY <2>6, <3>1, <3>2, AppendProperties
    <3>4. Front(d) \in Seq(Seq(Word)) /\ Last(d) \in Seq(Word) /\ <<w>> \in Seq(Word)
          BY <3>1, SeqMonotonic
    <3>5. FlattenSeq(e) = FlattenSeq(Front(d)) \o (Last(d) \o <<w>>)
          BY <2>6, <3>2, <3>4, FlattenAppend
    <3>6. FlattenSeq(d) = FlattenSeq(Front(d)) \o Last(d)
          BY <3>1, <3>4, FlattenAppend
    <3>7. FlattenSeq(Front(d)) \in Seq(Word)
          BY <3>4, FlattenType
    <3>8. FlattenSeq(e) = FlattenSeq(d) \o <<w>>
          BY <3>4, <3>5, <3>6, <3>7, ConcatAssociative
    <3> QED BY <2>2, <2>4, <3>3, <3>8 DEF e
  <2> QED BY <2>1, <2>5, <2>6, Zenon DEF Extend
<1>4. \A text \in Seq(Word) : text \in T
  <2> HIDE DEF T
  <2> QED BY <1>2, <1>3, SentenceFold!SeqInduction
<1> QED BY <1>1, <1>4

\* Letters without their blanks.
Seen == [l \in Character |-> IF l = " " THEN <<>> ELSE <<l>>]

\* Dropping the blanks is done character by character.
LEMMA UnspacedIsEach ==
    /\ Seen \in [Character -> Seq(Letter)]
    /\ \A s \in Seq(Character) : Unspaced(s) = Each(Seen, s)
    /\ \A l \in Letter : Seen[l] = <<l>>
    /\ Seen[" "] = <<>>
<1>1. ASSUME NEW l \in Character PROVE Seen[l] \in Seq(Letter)
  <2>1. <<>> \in Seq(Letter)
        BY EmptySeq
  <2>2. l # " " => l \in Letter
        BY DEF Character, Letter
  <2>3. \A x \in Letter : <<x>> \in Seq(Letter)
        OBVIOUS
  <2> QED BY <2>1, <2>2, <2>3 DEF Seen
<1>2. Seen \in [Character -> Seq(Letter)]
      BY <1>1 DEF Seen
<1>3. ASSUME NEW s \in Seq(Character) PROVE Unspaced(s) = Each(Seen, s)
  <2>1. \A i \in DOMAIN s : s[i] \in Character
        BY LenProperties, ElementOfSeq
  <2>2. [i \in DOMAIN s |-> IF s[i] = " " THEN <<>> ELSE <<s[i]>>] = [i \in DOMAIN s |-> Seen[s[i]]]
        BY <2>1 DEF Seen
  <2> QED BY <2>2 DEF Unspaced, Each
<1>4. (\A l \in Letter : Seen[l] = <<l>>) /\ Seen[" "] = <<>>
      BY DEF Seen, Letter, Character
<1> QED BY <1>2, <1>3, <1>4

\* Dropping the blanks of two texts put together.
LEMMA UnspacedOfBoth ==
    ASSUME NEW s \in Seq(Character), NEW t \in Seq(Character)
    PROVE  /\ Unspaced(s) \in Seq(Letter)
           /\ Unspaced(s \o t) = Unspaced(s) \o Unspaced(t)
<1>1. s \o t \in Seq(Character)
      BY ConcatProperties
<1>2. Unspaced(s) = Each(Seen, s) /\ Unspaced(t) = Each(Seen, t) /\ Unspaced(s \o t) = Each(Seen, s \o t)
      BY <1>1, UnspacedIsEach
<1>3. Seen \in [Character -> Seq(Letter)]
      BY UnspacedIsEach
<1>4. Each(Seen, s) \in Seq(Letter)
      BY <1>3, EachType
<1>5. Each(Seen, s \o t) = Each(Seen, s) \o Each(Seen, t)
      BY <1>3, EachOfBoth
<1> QED BY <1>2, <1>4, <1>5

\* Nothing is left of a blank.
LEMMA UnspacedBlank == Unspaced(<<>>) = <<>> /\ Unspaced(<<" ">>) = <<>>
<1>0. Seen \in [Character -> Seq(Letter)]
      BY UnspacedIsEach
<1>1. " " \in Character /\ <<" ">> \in Seq(Character) /\ <<>> \in Seq(Character)
      BY EmptySeq DEF Character
<1>2. ASSUME NEW l \in Character PROVE Each(Seen, <<l>>) = Seen[l]
      BY <1>0, EachOfOne
<1>3. Unspaced(<<" ">>) = <<>>
      BY <1>1, <1>2, UnspacedIsEach
<1>4. Unspaced(<<>>) = <<>>
      BY <1>1, EachOfNone, UnspacedIsEach
<1> QED BY <1>3, <1>4

\* A text without blanks is left alone.
LEMMA UnspacedLetters == \A s \in Seq(Letter) : Unspaced(s) = s
<1> DEFINE T == {s \in Seq(Letter) : Unspaced(s) = s}
<1>1. <<>> \in T
      BY UnspacedBlank, EmptySeq
<1>2. ASSUME NEW s \in Seq(Letter), NEW l \in Letter, s \in T PROVE Append(s, l) \in T
  <2>1. s \in Seq(Character) /\ l \in Character /\ Append(s, l) \in Seq(Letter)
        BY SeqMonotonic, AppendProperties DEF Character
  <2>2. Append(s, l) \in Seq(Character)
        BY <2>1, AppendProperties
  <2>0. Seen \in [Character -> Seq(Letter)]
        BY UnspacedIsEach
  <2>3. Each(Seen, Append(s, l)) = Each(Seen, s) \o Seen[l]
        BY <2>0, <2>1, EachOfMore
  <2>4. Seen[l] = <<l>> /\ Unspaced(s) = s /\ Append(s, l) = s \o <<l>>
        BY <1>2, UnspacedIsEach, AppendIsConcat
  <2>5. Unspaced(Append(s, l)) = Append(s, l)
        BY <2>1, <2>2, <2>3, <2>4, UnspacedIsEach
  <2> QED BY <2>1, <2>5
<1> HIDE DEF T
<1>3. \A s \in Seq(Letter) : s \in T
      BY <1>1, <1>2, SentenceFold!SeqInduction
<1> QED BY <1>3 DEF T

\* Words with blanks in them say what the words without them say.
LEMMA UnspacedWords ==
    ASSUME NEW s \in Seq(Seq(Letter)), NEW t \in Seq(Seq(Character)), NEW n \in Nat,
           n = Len(s), n = Len(t), \A i \in 1..n : Unspaced(t[i]) = s[i]
    PROVE  Unspaced(FlattenSeq(t)) = FlattenSeq(s)
<1> DEFINE T == {k \in 0..n : Unspaced(FlattenSeq(SubSeq(t, 1, k))) = FlattenSeq(SubSeq(s, 1, k))}
<1>1. 0 \in T
  <2>1. SubSeq(t, 1, 0) = <<>> /\ SubSeq(s, 1, 0) = <<>>
        BY SubSeqEmpty
  <2>2. 0 \in 0..n
        OBVIOUS
  <2> QED BY <2>1, <2>2, FlattenEmpty, UnspacedBlank
<1>2. ASSUME NEW k \in 0..(n - 1), k \in T PROVE k + 1 \in T
  <2>1. k + 1 \in 1..n /\ k + 1 \in 0..n
        OBVIOUS
  <2>2. /\ FlattenSeq(SubSeq(t, 1, k)) \in Seq(Character) /\ t[k + 1] \in Seq(Character)
        /\ FlattenSeq(SubSeq(t, 1, k + 1)) = FlattenSeq(SubSeq(t, 1, k)) \o t[k + 1]
        BY FlattenFirst
  <2>3. FlattenSeq(SubSeq(s, 1, k + 1)) = FlattenSeq(SubSeq(s, 1, k)) \o s[k + 1]
        BY FlattenFirst
  <2>4. Unspaced(FlattenSeq(SubSeq(t, 1, k + 1))) = Unspaced(FlattenSeq(SubSeq(t, 1, k))) \o Unspaced(t[k + 1])
        BY <2>2, UnspacedOfBoth
  <2>5. Unspaced(t[k + 1]) = s[k + 1] /\ Unspaced(FlattenSeq(SubSeq(t, 1, k))) = FlattenSeq(SubSeq(s, 1, k))
        BY <1>2, <2>1
  <2> QED BY <2>1, <2>3, <2>4, <2>5
<1>3. n \in T
  <2> HIDE DEF T
  <2>1. \A k \in 0..n : k \in T
        BY <1>1, <1>2, SentenceFold!BoundedInduction
  <2> QED BY <2>1
<1>4. SubSeq(t, 1, n) = t /\ SubSeq(s, 1, n) = s
      BY SubSeqFull
<1> QED BY <1>3, <1>4

\* How much room words take.
LEMMA WidthType ==
    ASSUME NEW E, NEW words \in Seq(Seq(E) \ {<<>>})
    PROVE  Width(words) \in Nat /\ (words # <<>> => Width(words) >= 1)
<1>1. words \in Seq(Seq(E))
      BY SeqMonotonic
<1>2. Ink(words) \in Seq(E)
      BY <1>1, FlattenType DEF Ink
<1>3. CASE words = <<>>
      BY <1>3 DEF Width
<1>4. CASE words # <<>>
  <2> DEFINE f == Front(words)
             w == Last(words)
  <2>1. f \in Seq(Seq(E) \ {<<>>}) /\ w \in Seq(E) \ {<<>>} /\ words = Append(f, w)
        BY <1>4, FrontLast
  <2>2. f \in Seq(Seq(E))
        BY <2>1, SeqMonotonic
  <2>3. Ink(words) = FlattenSeq(f) \o w /\ FlattenSeq(f) \in Seq(E)
        BY <2>1, <2>2, FlattenAppend, FlattenType DEF Ink
  <2>4. Len(w) >= 1 /\ Len(w) \in Nat /\ Len(FlattenSeq(f)) \in Nat
        BY <2>1, <2>3
  <2>5. Len(Ink(words)) >= 1
        BY <2>1, <2>3, <2>4, ConcatProperties
  <2>6. Len(words) >= 1 /\ Len(words) \in Nat /\ Len(Ink(words)) \in Nat
        BY <1>2, <1>4
  <2> HIDE DEF f, w
  <2> QED BY <1>4, <2>5, <2>6 DEF Width
<1> QED BY <1>3, <1>4

\* Two texts put together are as wide as both and a blank.
LEMMA WidthOfBoth ==
    ASSUME NEW E, NEW a \in Seq(Seq(E)), NEW b \in Seq(Seq(E)), b # <<>>
    PROVE  Width(a \o b) = IF a = <<>> THEN Width(b) ELSE Width(a) + Width(b) + 1
<1>1. CASE a = <<>>
      BY <1>1, ConcatEmptySeq
<1>2. CASE a # <<>>
  <2>1. Ink(a \o b) = Ink(a) \o Ink(b) /\ Ink(a) \in Seq(E) /\ Ink(b) \in Seq(E)
        BY FlattenConcat, FlattenType DEF Ink
  <2>2. Len(Ink(a \o b)) = Len(Ink(a)) + Len(Ink(b)) /\ Len(Ink(a)) \in Nat /\ Len(Ink(b)) \in Nat
        BY <2>1, ConcatProperties
  <2>3. Len(a \o b) = Len(a) + Len(b) /\ Len(a) \in Nat /\ Len(b) \in Nat /\ a \o b # <<>>
        BY ConcatProperties
  <2> QED BY <1>2, <2>2, <2>3 DEF Width
<1> QED BY <1>1, <1>2

\* A single word is as wide as it has letters.
LEMMA WidthOfOne ==
    ASSUME NEW E, NEW w \in Seq(E)
    PROVE  Width(<<w>>) = Len(w)
<1>1. Ink(<<w>>) = w
      BY FlattenOne DEF Ink
<1>2. <<w>> # <<>> /\ Len(<<w>>) = 1
      OBVIOUS
<1> QED BY <1>1, <1>2 DEF Width

\* A sentence cut at every ChunkSize letters says what it did.
LEMMA HardSplitSays ==
    ASSUME NEW s \in Seq(Word) \ {<<>>}
    PROVE  /\ HardSplit(s) \in Seq(Seq(Token))
           /\ \A k \in DOMAIN HardSplit(s) : Width(HardSplit(s)[k]) \in 1..ChunkSize
           /\ FlattenSeq(HardSplit(s)) \in Seq(Seq(Character))
           /\ Unspaced(Ink(FlattenSeq(HardSplit(s)))) = Ink(s)
<1> DEFINE n == Len(s)
           spell(i) == IF i = n THEN s[i] ELSE Append(s[i], " ")
           spells == [i \in 1..n |-> spell(i)]
           spelled == FlattenSeq(spells)
           cuts == Cuts(spelled, ChunkSize)
           m == Len(cuts)
           split == [k \in 1..m |-> <<cuts[k]>>]
           C == Seq(Character)
<1>1. n \in Nat /\ DOMAIN s = 1..n /\ \A i \in 1..n : s[i] \in Word
      BY LenProperties, ElementOfSeq
<1>2. ChunkSize \in Nat \ {0}
      BY DocumentsAssumption
<1>3. s \in Seq(Seq(Letter))
      BY SeqMonotonic DEF Word
<1>4. spelled = FlattenSeq([i \in DOMAIN s |-> IF i = Len(s) THEN s[i] ELSE Append(s[i], " ")])
      BY <1>1
<1> HIDE DEF n
<1>5. ASSUME NEW i \in 1..n PROVE spell(i) \in C /\ Unspaced(spell(i)) = s[i]
  <2>1. s[i] \in Seq(Letter) /\ s[i] \in Seq(Character)
        BY <1>1, SeqMonotonic DEF Word, Character
  <2>2. " " \in Character /\ <<" ">> \in Seq(Character)
        BY DEF Character
  <2>3. Append(s[i], " ") = s[i] \o <<" ">> /\ Append(s[i], " ") \in Seq(Character)
        BY <2>1, <2>2, AppendIsConcat, AppendProperties
  <2>4. Unspaced(s[i]) = s[i]
        BY <2>1, UnspacedLetters
  <2>5. Unspaced(s[i] \o <<" ">>) = s[i] \o <<>>
        BY <2>1, <2>2, <2>4, UnspacedOfBoth, UnspacedBlank
  <2>6. s[i] \o <<>> = s[i]
        BY <2>1, ConcatEmptySeq
  <2> QED BY <2>1, <2>3, <2>4, <2>5, <2>6, Zenon
<1>6. spells = [i \in 1..n |-> spells[i]] /\ \A i \in 1..n : spells[i] = spell(i)
      OBVIOUS
<1> HIDE DEF spell, spells, C
<1>7. spells \in Seq(C) /\ Len(spells) = n
      BY <1>1, <1>5, <1>6, AFunctionIsASeq
<1>8. spelled \in Seq(Character)
      BY <1>7, FlattenType DEF C
<1>9. Unspaced(spelled) = FlattenSeq(s)
  <2>1. spells \in Seq(Seq(Character)) /\ n = Len(s)
        BY <1>7 DEF C, n
  <2>2. \A i \in 1..n : Unspaced(spells[i]) = s[i]
        BY <1>5, <1>6
  <2> QED BY <1>1, <1>3, <1>7, <2>1, <2>2, UnspacedWords
<1> HIDE DEF spelled
<1>10. /\ cuts \in Seq(Seq(Character)) /\ FlattenSeq(cuts) = spelled
       /\ \A k \in DOMAIN cuts : Len(cuts[k]) \in 1..ChunkSize
      BY <1>2, <1>8, CutsJoin
<1>11. split = HardSplit(s)
  <2>1. DOMAIN cuts = 1..m
        BY <1>10
  <2> QED BY <1>4, <2>1 DEF HardSplit, Spelled
<1> HIDE DEF cuts
<1>12. m \in Nat /\ DOMAIN cuts = 1..m
      BY <1>10
<1>13. ASSUME NEW k \in 1..m PROVE cuts[k] \in Token /\ Len(cuts[k]) \in 1..ChunkSize
  <2>1. cuts[k] \in Seq(Character) /\ Len(cuts[k]) \in 1..ChunkSize
        BY <1>10, <1>12
  <2>2. cuts[k] # <<>>
        BY <2>1
  <2> QED BY <2>1, <2>2 DEF Token
<1> HIDE DEF m
<1>14. \A k \in 1..m : split[k] \in Seq(Token) /\ Width(split[k]) \in 1..ChunkSize
  <2> SUFFICES ASSUME NEW k \in 1..m PROVE split[k] \in Seq(Token) /\ Width(split[k]) \in 1..ChunkSize
        OBVIOUS
  <2>1. split[k] = <<cuts[k]>> /\ cuts[k] \in Token /\ Len(cuts[k]) \in 1..ChunkSize
        BY <1>13
  <2>2. cuts[k] \in Seq(Character)
        BY <2>1 DEF Token
  <2>3. Width(<<cuts[k]>>) = Len(cuts[k])
        BY <2>2, WidthOfOne
  <2> QED BY <2>1, <2>3
<1>15. split = [k \in 1..m |-> split[k]]
      OBVIOUS
<1>16. \A k \in 1..m : split[k] = <<cuts[k]>>
      OBVIOUS
<1> HIDE DEF split
<1>17. split \in Seq(Seq(Token)) /\ DOMAIN split = 1..m
      BY <1>12, <1>14, <1>15, AFunctionIsASeq
<1>18. FlattenSeq(split) = cuts
  <2> DEFINE Made == Seq(Character)
             One == [w \in Seq(Character) |-> <<w>>]
  <2>1. One \in [Seq(Character) -> Seq(Made)] /\ \A w \in Seq(Character) : One[w] = <<w>>
        OBVIOUS
  <2>2. ASSUME NEW k \in 1..m PROVE One[cuts[k]] = split[k]
    <3>1. cuts[k] \in Seq(Character)
          BY <1>13 DEF Token
    <3> QED BY <1>16, <3>1
  <2>3. split = [k \in DOMAIN cuts |-> One[cuts[k]]]
        BY <1>12, <1>15, <2>2
  <2> HIDE DEF One, Made
  <2>4. FlattenSeq(split) = Each(One, cuts)
        BY <2>3 DEF Each
  <2>5. cuts \in Seq(Seq(Character))
        BY <1>10
  <2>6. \A t \in Seq(Seq(Character)) : Each(One, t) = t
        BY <2>1, EachIsSame
  <2> QED BY <2>4, <2>5, <2>6
<1>19. Unspaced(Ink(FlattenSeq(split))) = Ink(s)
      BY <1>9, <1>10, <1>18 DEF Ink
<1> QED BY <1>10, <1>11, <1>14, <1>17, <1>18, <1>19

\* What stands in a call without a cut.
Within(s, call) == \E p, q \in Seq(Token) : call = (p \o s) \o q

\* What holds of the calls after some sentences.
CallsOK(c, ss) ==
    /\ c = [out |-> c.out, cur |-> c.cur]
    /\ c.cur \in Seq(Word) /\ Width(c.cur) <= ChunkSize
    /\ c.out \in Seq(Seq(Token))
    /\ \A k \in DOMAIN Flushed(c) : Width(Flushed(c)[k]) \in 1..ChunkSize
    /\ FlattenSeq(Flushed(c)) \in Seq(Seq(Character))
    /\ Unspaced(Ink(FlattenSeq(Flushed(c)))) = Ink(FlattenSeq(ss))
    /\ \A i \in DOMAIN ss : Width(ss[i]) <= ChunkSize =>
        \E k \in DOMAIN Flushed(c) : Within(ss[i], Flushed(c)[k])

\* Closing the call in hand loses none of its words.
LEMMA FlushedType ==
    ASSUME NEW c, c.cur \in Seq(Word), c.out \in Seq(Seq(Token))
    PROVE  Flushed(c) \in Seq(Seq(Token)) /\ FlattenSeq(Flushed(c)) = FlattenSeq(c.out) \o c.cur
<1>1. c.cur \in Seq(Token)
      BY WordsAreTokens, SeqMonotonic
<1>2. FlattenSeq(c.out) \in Seq(Token)
      BY FlattenType
<1>3. CASE c.cur = <<>>
      BY <1>2, <1>3, ConcatEmptySeq DEF Flushed
<1>4. CASE c.cur # <<>>
  <2>1. Append(c.out, c.cur) \in Seq(Seq(Token))
        BY <1>1, AppendProperties
  <2>2. FlattenSeq(Append(c.out, c.cur)) = FlattenSeq(c.out) \o c.cur
        BY <1>1, FlattenAppend
  <2> QED BY <1>4, <2>1, <2>2 DEF Flushed
<1> QED BY <1>3, <1>4

\* The calls say one sentence more.
LEMMA SaysMore ==
    ASSUME NEW said \in Seq(Seq(Character)), NEW more \in Seq(Seq(Character)),
           NEW ss \in Seq(Seq(Word)), NEW s \in Seq(Word),
           Unspaced(Ink(said)) = Ink(FlattenSeq(ss)), Unspaced(Ink(more)) = Ink(s)
    PROVE  Unspaced(Ink(said \o more)) = Ink(FlattenSeq(Append(ss, s)))
<1>1. Ink(said) \in Seq(Character) /\ Ink(more) \in Seq(Character) /\ Ink(said \o more) = Ink(said) \o Ink(more)
      BY FlattenType, FlattenConcat DEF Ink
<1>2. Unspaced(Ink(said \o more)) = Unspaced(Ink(said)) \o Unspaced(Ink(more))
      BY <1>1, UnspacedOfBoth
<1>3. FlattenSeq(Append(ss, s)) = FlattenSeq(ss) \o s /\ FlattenSeq(ss) \in Seq(Word)
      BY FlattenAppend, FlattenType
<1>4. Ink(FlattenSeq(ss) \o s) = Ink(FlattenSeq(ss)) \o Ink(s)
  <2>1. FlattenSeq(ss) \in Seq(Seq(Letter)) /\ s \in Seq(Seq(Letter))
        BY <1>3, SeqMonotonic DEF Word
  <2> QED BY <2>1, FlattenConcat DEF Ink
<1> QED BY <1>2, <1>3, <1>4

\* A sentence within a call is within a longer one.
LEMMA WithinMore ==
    ASSUME NEW s \in Seq(Token), NEW call \in Seq(Token), NEW more \in Seq(Token)
    PROVE  /\ Within(s, call) => Within(s, call \o more)
           /\ Within(more, call \o more)
<1>1. ASSUME Within(s, call) PROVE Within(s, call \o more)
  <2>1. PICK p \in Seq(Token), q \in Seq(Token) : call = (p \o s) \o q
        BY <1>1 DEF Within
  <2>2. p \o s \in Seq(Token) /\ q \o more \in Seq(Token)
        BY ConcatProperties
  <2>3. \A ps \in Seq(Token) : (ps \o q) \o more = ps \o (q \o more)
        BY ConcatAssociative
  <2> QED BY <2>1, <2>2, <2>3 DEF Within
<1>2. Within(more, call \o more)
  <2>1. (call \o more) \o <<>> = call \o more /\ <<>> \in Seq(Token)
        BY EmptySeq, ConcatProperties, ConcatEmptySeq
  <2> QED BY <2>1 DEF Within
<1> QED BY <1>1, <1>2

\* What the calls hold after one sentence more, given what they are then.
LEMMA CallsGrow ==
    ASSUME NEW ss \in Seq(Seq(Word)), NEW s \in Seq(Word) \ {<<>>}, NEW c, NEW d,
           CallsOK(c, ss), d = [out |-> d.out, cur |-> d.cur],
           d.cur \in Seq(Word), Width(d.cur) <= ChunkSize, d.out \in Seq(Seq(Token)),
           \A k \in DOMAIN Flushed(d) : Width(Flushed(d)[k]) \in 1..ChunkSize,
           NEW more \in Seq(Seq(Character)),
           FlattenSeq(Flushed(d)) = FlattenSeq(Flushed(c)) \o more, Unspaced(Ink(more)) = Ink(s),
           \A k \in DOMAIN Flushed(c) : /\ k \in DOMAIN Flushed(d)
                                        /\ \E t \in Seq(Token) : Flushed(d)[k] = Flushed(c)[k] \o t,
           Width(s) <= ChunkSize => \E k \in DOMAIN Flushed(d) : Within(s, Flushed(d)[k])
    PROVE  CallsOK(d, Append(ss, s))
<1>1. Flushed(c) \in Seq(Seq(Token))
      BY FlushedType DEF CallsOK
<1>2. FlattenSeq(Flushed(c)) \in Seq(Seq(Character))
      BY DEF CallsOK
<1>3. FlattenSeq(Flushed(d)) \in Seq(Seq(Character))
      BY <1>2, ConcatProperties
<1>4. Unspaced(Ink(FlattenSeq(Flushed(d)))) = Ink(FlattenSeq(Append(ss, s)))
  <2>1. Unspaced(Ink(FlattenSeq(Flushed(c)))) = Ink(FlattenSeq(ss))
        BY DEF CallsOK
  <2> QED BY <1>2, <2>1, SaysMore
<1>5. ASSUME NEW i \in DOMAIN Append(ss, s), Width(Append(ss, s)[i]) <= ChunkSize
      PROVE  \E k \in DOMAIN Flushed(d) : Within(Append(ss, s)[i], Flushed(d)[k])
  <2> DEFINE n == Len(ss)
             m == n + 1
  <2>1. /\ DOMAIN ss = 1..n /\ DOMAIN Append(ss, s) = 1..m /\ n \in Nat
        /\ Append(ss, s)[m] = s /\ \A j \in 1..n : Append(ss, s)[j] = ss[j]
        BY AppendProperties
  <2>2. i \in 1..n \/ i = m
        BY <2>1
  <2> HIDE DEF n, m
  <2>3. CASE i = m
        BY <1>5, <2>1, <2>3
  <2>4. CASE i \in 1..n
    <3>1. Append(ss, s)[i] = ss[i] /\ ss[i] \in Seq(Word) /\ i \in DOMAIN ss
          BY <2>1, <2>4
    <3>2. PICK k \in DOMAIN Flushed(c) : Within(ss[i], Flushed(c)[k])
          BY <1>5, <3>1 DEF CallsOK
    <3>3. PICK t \in Seq(Token) : Flushed(d)[k] = Flushed(c)[k] \o t
          OBVIOUS
    <3>4. Flushed(c)[k] \in Seq(Token)
          BY <1>1
    <3>5. ss[i] \in Seq(Token)
          BY <3>1, WordsAreTokens, SeqMonotonic
    <3>6. Within(ss[i], Flushed(d)[k])
          BY <3>2, <3>3, <3>4, <3>5, WithinMore
    <3> QED BY <3>1, <3>6
  <2> QED BY <2>2, <2>3, <2>4
<1> QED BY <1>3, <1>4, <1>5 DEF CallsOK

\* Taking a sentence keeps what CallsOK says, of one sentence more.
LEMMA TakeKeeps ==
    ASSUME NEW ss \in Seq(Seq(Word)), NEW s \in Seq(Word) \ {<<>>}, NEW c, CallsOK(c, ss)
    PROVE  CallsOK(Take(c, s), Append(ss, s))
<1> DEFINE d == Take(c, s)
<1>1. /\ c.cur \in Seq(Word) /\ c.out \in Seq(Seq(Token)) /\ Width(c.cur) <= ChunkSize
      /\ c = [out |-> c.out, cur |-> c.cur] /\ ChunkSize \in Nat \ {0}
      BY DocumentsAssumption DEF CallsOK
<1>2. Flushed(c) \in Seq(Seq(Token)) /\ FlattenSeq(Flushed(c)) = FlattenSeq(c.out) \o c.cur
      BY <1>1, FlushedType
<1>3. c.cur \in Seq(Token) /\ s \in Seq(Token)
      BY <1>1, WordsAreTokens, SeqMonotonic
<1>4. s \in Seq(Seq(Character)) /\ FlattenSeq(c.out) \in Seq(Token)
  <2>1. Token \subseteq Seq(Character)
        BY DEF Token
  <2> QED BY <1>1, <1>3, <2>1, SeqMonotonic, FlattenType
<1>5. Width(s) \in Nat /\ Width(s) >= 1 /\ Width(c.cur) \in Nat
      BY <1>1, WidthType DEF Word
<1>6. Unspaced(Ink(s)) = Ink(s)
  <2>1. s \in Seq(Seq(Letter))
        BY SeqMonotonic DEF Word
  <2> QED BY <2>1, FlattenType, UnspacedLetters DEF Ink
<1>7. \A k \in DOMAIN Flushed(c) : Width(Flushed(c)[k]) \in 1..ChunkSize
      BY DEF CallsOK
<1>8. \A k \in DOMAIN Flushed(c) : Flushed(c)[k] \in Seq(Token) /\ Flushed(c)[k] \o <<>> = Flushed(c)[k]
      BY <1>2, ConcatEmptySeq
<1>9. <<>> \in Seq(Token)
      BY EmptySeq
<1>10. CASE Width(c.cur) + Width(s) + 1 <= ChunkSize
  <2> DEFINE both == c.cur \o s
             n == Len(c.out)
             m == n + 1
  <2>1. d = [out |-> c.out, cur |-> both]
        BY <1>1, <1>10 DEF Take
  <2>2. both \in Seq(Word) /\ both \in Seq(Token) /\ both # <<>>
        BY <1>1, <1>3, ConcatProperties, ConcatEqualIffEmpty
  <2>3. Width(both) \in 1..ChunkSize
    <3>1. Width(both) = IF c.cur = <<>> THEN Width(s) ELSE Width(c.cur) + Width(s) + 1
      <4>1. c.cur \in Seq(Seq(Letter)) /\ s \in Seq(Seq(Letter))
            BY <1>1, SeqMonotonic DEF Word
      <4> QED BY <4>1, WidthOfBoth
    <3> HIDE DEF both
    <3> QED BY <1>1, <1>5, <1>10, <3>1
  <2>4. d.out = c.out /\ d.cur = both
        BY <2>1
  <2>5. Flushed(d) = Append(c.out, both)
        BY <2>2, <2>4 DEF Flushed
  <2>6. FlattenSeq(Flushed(d)) = FlattenSeq(Flushed(c)) \o s
    <3>1. FlattenSeq(Append(c.out, both)) = FlattenSeq(c.out) \o both
      <4> HIDE DEF both
      <4> QED BY <1>1, <2>2, FlattenAppend
    <3>2. (FlattenSeq(c.out) \o c.cur) \o s = FlattenSeq(c.out) \o (c.cur \o s)
      <4>1. \A f, g, h \in Seq(Token) : (f \o g) \o h = f \o (g \o h)
            BY Associative
      <4> QED BY <1>3, <1>4, <4>1, Zenon
    <3> QED BY <1>2, <1>3, <1>4, <2>5, <3>1, <3>2
  <2> HIDE DEF d, both
  <2>7. /\ DOMAIN c.out = 1..n /\ n \in Nat /\ DOMAIN Flushed(d) = 1..m /\ m \in 1..m
        /\ Flushed(d)[m] = both /\ \A k \in 1..n : k \in 1..m /\ Flushed(d)[k] = c.out[k]
        BY <1>1, <2>2, <2>5, AppendProperties
  <2>8. /\ DOMAIN Flushed(c) = IF c.cur = <<>> THEN 1..n ELSE 1..m
        /\ c.cur # <<>> => Flushed(c)[m] = c.cur
        /\ \A k \in 1..n : Flushed(c)[k] = c.out[k]
        BY <1>1, <1>3, <2>7, AppendProperties DEF Flushed
  <2>9. m = n + 1
        OBVIOUS
  <2> HIDE DEF n, m
  <2>10. \A k \in DOMAIN Flushed(c) : \/ k \in 1..n
                                      \/ k = m /\ c.cur # <<>>
        BY <2>7, <2>8, <2>9
  <2>11. \A k \in DOMAIN Flushed(c) : /\ k \in DOMAIN Flushed(d)
                                      /\ \E t \in Seq(Token) : Flushed(d)[k] = Flushed(c)[k] \o t
    <3> SUFFICES ASSUME NEW k \in DOMAIN Flushed(c)
                 PROVE  /\ k \in DOMAIN Flushed(d)
                        /\ \E t \in Seq(Token) : Flushed(d)[k] = Flushed(c)[k] \o t
          OBVIOUS
    <3>1. CASE k \in 1..n
      <4>1. Flushed(d)[k] = Flushed(c)[k] \o <<>> /\ k \in DOMAIN Flushed(d)
            BY <1>8, <2>7, <2>8, <3>1
      <4> QED BY <1>9, <4>1
    <3>2. CASE k = m /\ c.cur # <<>>
      <4>1. Flushed(d)[k] = Flushed(c)[k] \o s /\ k \in DOMAIN Flushed(d)
            BY <2>7, <2>8, <3>2 DEF both
      <4> QED BY <1>3, <4>1
    <3> QED BY <2>10, <3>1, <3>2
  <2>12. Within(s, both)
        BY <1>3, WithinMore DEF both
  <2>13. \A k \in DOMAIN Flushed(d) : Width(Flushed(d)[k]) \in 1..ChunkSize
    <3> SUFFICES ASSUME NEW k \in 1..m PROVE Width(Flushed(d)[k]) \in 1..ChunkSize
          BY <2>7
    <3>1. CASE k \in 1..n
      <4>1. k \in DOMAIN Flushed(c) /\ Flushed(d)[k] = Flushed(c)[k]
            BY <2>7, <2>8, <3>1
      <4> QED BY <1>7, <4>1
    <3>2. CASE k = m
          BY <2>3, <2>7, <3>2
    <3> QED BY <2>7, <2>9, <3>1, <3>2
  <2>14. Width(both) <= ChunkSize
        BY <2>3
  <2>15. \E k \in DOMAIN Flushed(d) : Within(s, Flushed(d)[k])
        BY <2>7, <2>12
  <2>16. CallsOK(d, Append(ss, s))
        BY <1>1, <1>4, <1>6, <2>1, <2>2, <2>4, <2>6, <2>11, <2>13, <2>14, <2>15, CallsGrow
  <2> QED BY <2>16 DEF d
<1>11. CASE ~(Width(c.cur) + Width(s) + 1 <= ChunkSize) /\ Width(s) <= ChunkSize
  <2> DEFINE n == Len(Flushed(c))
             m == n + 1
  <2>1. d = [out |-> Flushed(c), cur |-> s]
        BY <1>11 DEF Take
  <2>2. d.out = Flushed(c) /\ d.cur = s
        BY <2>1
  <2>3. Flushed(d) = Append(Flushed(c), s)
        BY <2>2 DEF Flushed
  <2> HIDE DEF d
  <2>4. FlattenSeq(Flushed(d)) = FlattenSeq(Flushed(c)) \o s
        BY <1>2, <1>3, <2>3, FlattenAppend
  <2>5. /\ DOMAIN Flushed(c) = 1..n /\ n \in Nat /\ DOMAIN Flushed(d) = 1..m /\ m \in 1..m
        /\ Flushed(d)[m] = s /\ \A k \in 1..n : k \in 1..m /\ Flushed(d)[k] = Flushed(c)[k]
        BY <1>2, <1>3, <2>3, AppendProperties
  <2>6. m = n + 1
        OBVIOUS
  <2> HIDE DEF n, m
  <2>7. \A k \in DOMAIN Flushed(c) : /\ k \in DOMAIN Flushed(d)
                                     /\ \E t \in Seq(Token) : Flushed(d)[k] = Flushed(c)[k] \o t
        BY <1>8, <1>9, <2>5
  <2>8. \A k \in DOMAIN Flushed(d) : Width(Flushed(d)[k]) \in 1..ChunkSize
    <3> SUFFICES ASSUME NEW k \in 1..m PROVE Width(Flushed(d)[k]) \in 1..ChunkSize
          BY <2>5
    <3>1. CASE k \in 1..n
          BY <1>7, <2>5, <3>1
    <3>2. CASE k = m
          BY <1>1, <1>5, <1>11, <2>5, <3>2
    <3> QED BY <2>5, <2>6, <3>1, <3>2
  <2>9. Within(s, s)
    <3>1. <<>> \o s = s
          BY <1>3, ConcatEmptySeq
    <3>2. Within(s, <<>> \o s)
          BY <1>3, <1>9, WithinMore
    <3> QED BY <3>1, <3>2
  <2>10. \E k \in DOMAIN Flushed(d) : Within(s, Flushed(d)[k])
        BY <2>5, <2>9
  <2>11. CallsOK(d, Append(ss, s))
        BY <1>2, <1>4, <1>6, <1>11, <2>1, <2>2, <2>4, <2>7, <2>8, <2>10, CallsGrow
  <2> QED BY <2>11 DEF d
<1>12. CASE ~(Width(c.cur) + Width(s) + 1 <= ChunkSize) /\ ~(Width(s) <= ChunkSize)
  <2> DEFINE split == HardSplit(s)
             n == Len(Flushed(c))
             m == Len(split)
             L == n + m
  <2>1. d = [out |-> Flushed(c) \o split, cur |-> <<>>]
        BY <1>12 DEF Take
  <2>2. d.out = Flushed(c) \o split /\ d.cur = <<>>
        BY <2>1
  <2>3. Flushed(d) = Flushed(c) \o split
        BY <2>2 DEF Flushed
  <2> HIDE DEF d
  <2>4. /\ split \in Seq(Seq(Token))
        /\ \A k \in DOMAIN split : Width(split[k]) \in 1..ChunkSize
        /\ FlattenSeq(split) \in Seq(Seq(Character)) /\ Unspaced(Ink(FlattenSeq(split))) = Ink(s)
        BY HardSplitSays
  <2> HIDE DEF split
  <2>5. FlattenSeq(Flushed(d)) = FlattenSeq(Flushed(c)) \o FlattenSeq(split)
        BY <1>2, <2>3, <2>4, FlattenConcat
  <2>6. /\ DOMAIN Flushed(c) = 1..n /\ n \in Nat /\ DOMAIN split = 1..m /\ m \in Nat
        /\ Flushed(d) \in Seq(Seq(Token)) /\ DOMAIN Flushed(d) = 1..L
        /\ \A k \in 1..L : Flushed(d)[k] = IF k <= n THEN Flushed(c)[k] ELSE split[k - n]
        BY <1>2, <2>3, <2>4, ConcatProperties
  <2>7. L = n + m
        OBVIOUS
  <2> HIDE DEF n, m, L
  <2>8. \A k \in 1..n : k \in 1..L /\ Flushed(d)[k] = Flushed(c)[k]
        BY <2>6, <2>7
  <2>9. \A k \in DOMAIN Flushed(c) : /\ k \in DOMAIN Flushed(d)
                                     /\ \E t \in Seq(Token) : Flushed(d)[k] = Flushed(c)[k] \o t
        BY <1>8, <1>9, <2>6, <2>8
  <2>10. \A k \in DOMAIN Flushed(d) : Width(Flushed(d)[k]) \in 1..ChunkSize
    <3> SUFFICES ASSUME NEW k \in 1..L PROVE Width(Flushed(d)[k]) \in 1..ChunkSize
          BY <2>6
    <3>1. CASE k <= n
      <4>1. k \in 1..n
            BY <2>6, <2>7, <3>1
      <4> QED BY <1>7, <2>6, <2>8, <4>1
    <3>2. CASE ~(k <= n)
      <4>1. k - n \in 1..m
            BY <2>6, <2>7, <3>2
      <4> QED BY <2>4, <2>6, <3>2, <4>1
    <3> QED BY <3>1, <3>2
  <2>11. <<>> \in Seq(Word) /\ Width(<<>>) <= ChunkSize
        BY <1>1, EmptySeq DEF Width
  <2>12. CallsOK(d, Append(ss, s))
        BY <1>12, <2>1, <2>2, <2>3, <2>4, <2>5, <2>6, <2>9, <2>10, <2>11, CallsGrow
  <2> QED BY <2>12 DEF d
<1> QED BY <1>10, <1>11, <1>12

\* So the fold over all the sentences establishes it.
LEMMA CallsAreOK == \A ss \in Seq(Seq(Word) \ {<<>>}) : CallsOK(CallFold!Fold(NoCalls, ss), ss)
<1> DEFINE T == {ss \in Seq(Seq(Word) \ {<<>>}) : CallsOK(CallFold!Fold(NoCalls, ss), ss)}
           S == Seq(Word) \ {<<>>}
<1>1. <<>> \in T
  <2>1. CallFold!Fold(NoCalls, <<>>) = NoCalls
        BY CallFold!FoldEmpty
  <2>2. <<>> \in Seq(S) /\ <<>> \in Seq(Word) /\ <<>> \in Seq(Seq(Token)) /\ <<>> \in Seq(Seq(Character))
        BY EmptySeq
  <2>3. NoCalls.out = <<>> /\ NoCalls.cur = <<>> /\ Flushed(NoCalls) = <<>> /\ NoCalls = [out |-> <<>>, cur |-> <<>>]
        BY DEF NoCalls, Flushed
  <2>4. Width(<<>>) <= ChunkSize
        BY DocumentsAssumption DEF Width
  <2>5. Unspaced(Ink(FlattenSeq(<<>>))) = Ink(FlattenSeq(<<>>))
        BY FlattenEmpty, UnspacedBlank DEF Ink
  <2>6. DOMAIN <<>> = {}
        OBVIOUS
  <2>7. CallsOK(NoCalls, <<>>)
        BY <2>2, <2>3, <2>4, <2>5, <2>6, FlattenEmpty DEF CallsOK
  <2> QED BY <2>1, <2>2, <2>7
<1>2. ASSUME NEW ss \in Seq(S), NEW s \in S, ss \in T PROVE Append(ss, s) \in T
  <2>1. CallFold!Fold(NoCalls, Append(ss, s)) = Take(CallFold!Fold(NoCalls, ss), s)
        BY CallFold!FoldAppend
  <2>2. ss \in Seq(Seq(Word)) /\ CallsOK(CallFold!Fold(NoCalls, ss), ss)
        BY <1>2, SeqMonotonic
  <2>3. CallsOK(Take(CallFold!Fold(NoCalls, ss), s), Append(ss, s))
        BY <2>2, TakeKeeps
  <2>4. Append(ss, s) \in Seq(S)
        BY AppendProperties
  <2> QED BY <2>1, <2>3, <2>4
<1>3. \A ss \in Seq(S) : ss \in T
  <2> HIDE DEF T, S
  <2> QED BY <1>1, <1>2, CallFold!SeqInduction
<1> QED BY <1>3

\* What is sent to be spoken is the text, in calls that are not too long; only
\* sentences too long for any call are cut (alt_formats.py:210-233, 263-289).
THEOREM NarrationSaysAll == Spec => []NarrationIsWhole
<1>1. TypeOK => NarrationIsWhole
  <2> SUFFICES ASSUME TypeOK PROVE NarrationIsWhole
        OBVIOUS
  <2> DEFINE text == PlainText(Page)
             ss == Sentences(text)
             c == CallFold!Fold(NoCalls, ss)
             calls == Narration(Page)
  <2>1. text \in Seq(Word)
        BY PageType, PlainTextType
  <2>2. calls = Flushed(c)
        BY Zenon DEF Narration, Chunks, FoldLeft, MapThenFoldSet, CallFold!Fold, Max
  <2> HIDE DEF text, calls
  <2>3. ss \in Seq(Seq(Word) \ {<<>>}) /\ FlattenSeq(ss) = text
        BY <2>1, SentencesJoin
  <2> HIDE DEF ss
  <2>4. CallsOK(c, ss)
        BY <2>3, CallsAreOK
  <2> HIDE DEF c
  <2>5. calls \in Seq(Seq(Token))
        BY <2>2, <2>4, FlushedType DEF CallsOK
  <2>6. \A k \in DOMAIN calls : Width(calls[k]) \in 1..ChunkSize
        BY <2>2, <2>4 DEF CallsOK
  <2>7. Unspaced(Ink(FlattenSeq(calls))) = Ink(text)
        BY <2>2, <2>3, <2>4 DEF CallsOK
  <2>8. ASSUME NEW s \in ToSet(ss), Width(s) <= ChunkSize
        PROVE  \E k \in DOMAIN calls : \E i \in 1..(Len(calls[k]) - Len(s) + 1) :
                    SubSeq(calls[k], i, i + Len(s) - 1) = s
    <3>1. PICK j \in DOMAIN ss : s = ss[j]
          BY DEF ToSet
    <3>2. s \in Seq(Token) /\ s # <<>>
      <4>1. s \in Seq(Word) \ {<<>>}
            BY <2>3, <3>1
      <4> QED BY <4>1, WordsAreTokens, SeqMonotonic
    <3>3. PICK k \in DOMAIN calls : Within(s, calls[k])
          BY <2>2, <2>4, <2>8, <3>1 DEF CallsOK
    <3>4. PICK p \in Seq(Token), q \in Seq(Token) : calls[k] = (p \o s) \o q
          BY <3>3 DEF Within
    <3> DEFINE ps == p \o s
               n == Len(p)
               m == Len(s)
    <3>5. /\ n \in Nat /\ m \in Nat \ {0} /\ Len(ps) = n + m /\ ps \in Seq(Token)
          /\ Len(q) \in Nat /\ Len(ps \o q) = (n + m) + Len(q)
          BY <3>2, ConcatProperties
    <3>6. /\ n + 1 \in 1..(Len(calls[k]) - m + 1) /\ n + m \in 1..(n + m) /\ n + 1 \in 1..(n + m)
          /\ (n + 1) + m - 1 = n + m /\ n + 1 \in (n + 1)..(n + m) /\ n + m \in (n + 1)..(n + m)
          /\ (n + 1) - n = 1 /\ (n + m) - n = m
          BY <3>4, <3>5
    <3>7. SubSeq(ps \o q, n + 1, n + m) = SubSeq(ps, n + 1, n + m)
          BY <3>5, <3>6, SubSeqOfConcat1
    <3>8. SubSeq(ps, n + 1, n + m) = SubSeq(s, 1, m)
          BY <3>2, <3>5, <3>6, SubSeqOfConcat2
    <3>9. SubSeq(calls[k], n + 1, (n + 1) + m - 1) = s
          BY <3>2, <3>4, <3>6, <3>7, <3>8, SubSeqFull
    <3> QED BY <3>6, <3>9
  <2>9. /\ ss = Sentences(PlainText(Page)) /\ calls = Narration(Page) /\ text = PlainText(Page)
        BY DEF ss, calls, text
  <2> QED BY <2>6, <2>7, <2>8, <2>9, Zenon DEF NarrationIsWhole
<1> QED BY <1>1, TypeCorrect, PTL

(***************************************************************************)
(* What the braille says                                                   *)
(***************************************************************************)
Kinds == {"none", "heading", "paragraph", "list_item", "table_row", "figure", "page_number"}
\* A narration's blocks, and what a builder holds of them.
Block == [kind : Kinds, runs : Seq(Texts)]
OpenKinds == Kinds \ {"figure"}
Builder == [blocks : Seq(Block), skip : Nat, current : [kind : OpenKinds, runs : Seq(Texts)], alts : Seq(Alts)]

\* What the blocks of some kinds say, and what a builder holds of it.
Runs(K) == [block \in Block |-> IF block.kind \in K THEN block.runs ELSE <<>>]
\* What a builder says to a listener for the blocks of kinds K.
Told(K, b) == Each(Runs(K), b.blocks) \o Runs(K)[b.current]

\* Blocks are only ever added.
Grows(b, c) == \E more \in Seq(Block) : c.blocks = b.blocks \o more

\* The runs of a block, if its kind is looked at.
LEMMA RunsType ==
    ASSUME NEW K
    PROVE  /\ Runs(K) \in [Block -> Seq(Texts)]
           /\ \A block \in Block : Runs(K)[block] = IF block.kind \in K THEN block.runs ELSE <<>>
<1>1. <<>> \in Seq(Texts)
      BY EmptySeq
<1>2. \A block \in Block : block.runs \in Seq(Texts)
      BY DEF Block
<1> QED BY <1>1, <1>2 DEF Runs

\* The runs of blocks, added to and put together.
LEMMA RunsOf ==
    ASSUME NEW K
    PROVE  /\ \A s \in Seq(Block) : Each(Runs(K), s) \in Seq(Texts)
           /\ \A s \in Seq(Block), block \in Block :
                Each(Runs(K), Append(s, block)) = Each(Runs(K), s) \o Runs(K)[block]
           /\ \A s, t \in Seq(Block) : Each(Runs(K), s \o t) = Each(Runs(K), s) \o Each(Runs(K), t)
<1> DEFINE f == Runs(K)
<1>1. f \in [Block -> Seq(Texts)]
      BY RunsType
<1> HIDE DEF f
<1>2. \A s \in Seq(Block) : Each(f, s) \in Seq(Texts)
      BY <1>1, EachType
<1>3. ASSUME NEW s \in Seq(Block), NEW block \in Block
      PROVE  Each(f, Append(s, block)) = Each(f, s) \o f[block]
      BY <1>1, EachOfMore
<1>4. ASSUME NEW s \in Seq(Block), NEW t \in Seq(Block)
      PROVE  Each(f, s \o t) = Each(f, s) \o Each(f, t)
      BY <1>1, EachOfBoth
<1> QED BY <1>2, <1>3, <1>4 DEF f

\* The fields of a builder.
LEMMA BuilderType ==
    ASSUME NEW b \in Builder
    PROVE  /\ b.blocks \in Seq(Block) /\ b.skip \in Nat /\ b.alts \in Seq(Alts)
           /\ b.current \in Block /\ b.current.kind \in OpenKinds /\ b.current.runs \in Seq(Texts)
           /\ b = [blocks |-> b.blocks, skip |-> b.skip, current |-> b.current, alts |-> b.alts]
      BY DEF Builder, Block, OpenKinds

\* A builder from its fields.
LEMMA BuilderMade ==
    ASSUME NEW blocks \in Seq(Block), NEW skip \in Nat, NEW kind \in OpenKinds, NEW runs \in Seq(Texts),
           NEW alts \in Seq(Alts), NEW current, current = [kind |-> kind, runs |-> runs]
    PROVE  [blocks |-> blocks, skip |-> skip, current |-> current, alts |-> alts] \in Builder
      BY DEF Builder

\* A builder of which only the blocks are replaced.
LEMMA BlocksChanged ==
    ASSUME NEW b \in Builder, NEW blocks
    PROVE  [b EXCEPT !.blocks = blocks] = [blocks |-> blocks, skip |-> b.skip, current |-> b.current, alts |-> b.alts]
      BY DEF Builder

\* No block in hand is a block without runs.
LEMMA NoBlockType == NoBlock = [kind |-> "none", runs |-> <<>>] /\ NoBlock \in Block /\ NoBlock.runs = <<>> /\ "none" \in OpenKinds
<1>1. <<>> \in Seq(Texts)
      BY EmptySeq
<1> QED BY <1>1 DEF NoBlock, Block, OpenKinds, Kinds

\* A builder grows into itself, and growing is transitive.
LEMMA GrowsType ==
    /\ \A b \in Builder : Grows(b, b)
    /\ \A b, c, d : b.blocks \in Seq(Block) /\ Grows(b, c) /\ Grows(c, d) => Grows(b, d)
<1>1. ASSUME NEW b \in Builder PROVE Grows(b, b)
  <2>1. b.blocks \in Seq(Block) /\ <<>> \in Seq(Block)
        BY BuilderType, EmptySeq
  <2>2. b.blocks \o <<>> = b.blocks
        BY <2>1, ConcatEmptySeq
  <2> QED BY <2>1, <2>2, Zenon DEF Grows
<1>2. ASSUME NEW b, NEW c, NEW d, b.blocks \in Seq(Block), Grows(b, c), Grows(c, d) PROVE Grows(b, d)
  <2>1. PICK s \in Seq(Block) : c.blocks = b.blocks \o s
        BY <1>2 DEF Grows
  <2>2. PICK t \in Seq(Block) : d.blocks = c.blocks \o t
        BY <1>2 DEF Grows
  <2>3. \A r \in Seq(Block) : (r \o s) \o t = r \o (s \o t)
        BY Associative
  <2>4. s \o t \in Seq(Block)
        BY ConcatProperties
  <2>5. d.blocks = b.blocks \o (s \o t)
        BY <1>2, <2>1, <2>2, <2>3
  <2> QED BY <2>4, <2>5 DEF Grows
<1> QED BY <1>1, <1>2, Zenon

\* _close loses nothing that was put into the block.
LEMMA CloseKeeps ==
    ASSUME NEW b \in Builder, NEW K
    PROVE  /\ CloseBlock(b) \in Builder /\ CloseBlock(b).current = NoBlock
           /\ CloseBlock(b).skip = b.skip /\ CloseBlock(b).alts = b.alts
           /\ Told(K, CloseBlock(b)) = Told(K, b) /\ Grows(b, CloseBlock(b))
<1> DEFINE c == CloseBlock(b)
           blocks == IF b.current.runs = <<>> THEN b.blocks ELSE Append(b.blocks, b.current)
           f == Runs(K)
<1>1. c = [blocks |-> blocks, skip |-> b.skip, current |-> NoBlock, alts |-> b.alts]
  <2>1. c = [b EXCEPT !.blocks = blocks, !.current = NoBlock]
        BY DEF CloseBlock
  <2> HIDE DEF c, blocks
  <2> QED BY <2>1 DEF Builder
<1>2. c.blocks = blocks /\ c.skip = b.skip /\ c.current = NoBlock /\ c.alts = b.alts
      BY <1>1
<1>3. /\ b.blocks \in Seq(Block) /\ b.current \in Block /\ b.skip \in Nat /\ b.alts \in Seq(Alts)
      /\ NoBlock \in Block /\ NoBlock.runs = <<>>
      BY BuilderType, NoBlockType
<1>4. blocks \in Seq(Block)
      BY <1>3, AppendProperties
<1>5. c \in Builder
  <2>1. <<>> \in Seq(Texts)
        BY EmptySeq
  <2> HIDE DEF blocks, c
  <2> QED BY <1>1, <1>3, <1>4, <2>1, NoBlockType, BuilderMade
<1>6. f \in [Block -> Seq(Texts)]
      BY RunsType
<1>7. f[NoBlock] = <<>> /\ (b.current.runs = <<>> => f[b.current] = <<>>)
      BY <1>3, RunsType
<1> HIDE DEF c, f
<1>8. Each(f, b.blocks) \in Seq(Texts) /\ f[b.current] \in Seq(Texts)
      BY <1>3, <1>6, EachType
<1>9. CASE b.current.runs = <<>>
  <2>1. c.blocks = b.blocks
        BY <1>2, <1>9
  <2>2. Told(K, c) = Told(K, b)
        BY <1>2, <1>7, <1>9, <2>1 DEF Told, f
  <2>3. Grows(b, c)
        BY <2>1, GrowsType DEF Grows
  <2> QED BY <1>2, <1>5, <2>2, <2>3 DEF c
<1>10. CASE b.current.runs # <<>>
  <2>1. c.blocks = Append(b.blocks, b.current)
        BY <1>2, <1>10
  <2>2. Each(f, Append(b.blocks, b.current)) = Each(f, b.blocks) \o f[b.current]
        BY <1>3, RunsOf DEF f
  <2>3. (Each(f, b.blocks) \o f[b.current]) \o <<>> = Each(f, b.blocks) \o f[b.current]
    <3>1. Each(f, b.blocks) \o f[b.current] \in Seq(Texts)
          BY <1>8, ConcatProperties
    <3> QED BY <3>1, ConcatEmptySeq
  <2>4. Told(K, c) = Told(K, b)
        BY <1>2, <1>7, <2>1, <2>2, <2>3 DEF Told, f
  <2>5. Grows(b, c)
    <3>1. Append(b.blocks, b.current) = b.blocks \o <<b.current>> /\ <<b.current>> \in Seq(Block)
          BY <1>3, AppendIsConcat
    <3> QED BY <2>1, <3>1 DEF Grows
  <2> QED BY <1>2, <1>5, <2>4, <2>5 DEF c
<1> QED BY <1>9, <1>10

\* Opening a block says nothing and loses nothing.
LEMMA OpenKeeps ==
    ASSUME NEW b \in Builder, NEW kind \in OpenKinds, NEW K
    PROVE  /\ OpenBlock(b, kind) \in Builder
           /\ OpenBlock(b, kind).skip = b.skip /\ OpenBlock(b, kind).alts = b.alts
           /\ Told(K, OpenBlock(b, kind)) = Told(K, b) /\ Grows(b, OpenBlock(b, kind))
<1> DEFINE c == CloseBlock(b)
           d == OpenBlock(b, kind)
           new == [kind |-> kind, runs |-> <<>>]
<1>1. /\ c \in Builder /\ c.current = NoBlock /\ c.skip = b.skip /\ c.alts = b.alts
      /\ Told(K, c) = Told(K, b) /\ Grows(b, c)
      BY CloseKeeps
<1>2. d = [c EXCEPT !.current = new]
      BY DEF OpenBlock
<1> HIDE DEF c, d
<1>3. d = [blocks |-> c.blocks, skip |-> c.skip, current |-> new, alts |-> c.alts]
      BY <1>1, <1>2 DEF Builder
<1>4. <<>> \in Seq(Texts) /\ new \in Block /\ new.runs = <<>>
  <2>1. <<>> \in Seq(Texts)
        BY EmptySeq
  <2> QED BY <2>1 DEF Block, OpenKinds
<1>5. d \in Builder
      BY <1>1, <1>3, <1>4, BuilderType, BuilderMade
<1>6. Runs(K)[new] = <<>> /\ Runs(K)[NoBlock] = <<>>
  <2> HIDE DEF new
  <2> QED BY <1>4, NoBlockType, RunsType
<1>7. d.blocks = c.blocks /\ d.current = new /\ d.skip = b.skip /\ d.alts = b.alts
      BY <1>1, <1>3
<1>8. Told(K, d) = Told(K, c)
      BY <1>1, <1>6, <1>7 DEF Told
<1>9. Grows(b, d)
      BY <1>1, <1>7 DEF Grows
<1> QED BY <1>1, <1>5, <1>7, <1>8, <1>9 DEF d

\* What is put into paragraphs and the like is said by the kinds of K, or not.
Uniform(K) == \A kind \in OpenKinds : kind \in K <=> "paragraph" \in K
\* What a listener for the kinds K hears of text: all of it or none (Uniform).
Mine(K, said) == IF "paragraph" \in K THEN said ELSE <<>>
Piece == [text : Texts, page : BOOLEAN]

\* A piece put into a block is said after all that was said before.
LEMMA PutKeeps ==
    ASSUME NEW b \in Builder, NEW piece \in Piece, NEW K, Uniform(K)
    PROVE  /\ Put(b, piece) \in Builder
           /\ Put(b, piece).skip = b.skip /\ Put(b, piece).alts = b.alts
           /\ Told(K, Put(b, piece)) = Told(K, b) \o Mine(K, <<piece.text>>) /\ Grows(b, Put(b, piece))
<1> DEFINE t == piece.text
           f == Runs(K)
           mine == Mine(K, <<t>>)
<1>1. t \in Texts /\ <<t>> \in Seq(Texts) /\ <<>> \in Seq(Texts)
      BY EmptySeq DEF Piece
<1>2. mine \in Seq(Texts)
      BY <1>1 DEF Mine
<1>3. /\ b.blocks \in Seq(Block) /\ b.current \in Block /\ b.skip \in Nat /\ b.alts \in Seq(Alts)
      /\ b.current.kind \in OpenKinds /\ b.current.runs \in Seq(Texts)
      BY BuilderType
<1>4. Each(f, b.blocks) \in Seq(Texts) /\ f[b.current] \in Seq(Texts)
      BY <1>3, RunsOf, RunsType
<1>5. CASE ~piece.page
  <2> DEFINE c == Put(b, piece)
             runs == Append(b.current.runs, t)
             new == [kind |-> b.current.kind, runs |-> runs]
  <2>1. c = [b EXCEPT !.current.runs = runs]
        BY <1>5 DEF Put
  <2>2. runs \in Seq(Texts) /\ runs = b.current.runs \o <<t>>
        BY <1>1, <1>3, AppendProperties, AppendIsConcat
  <2>3. new \in Block
        BY <1>3, <2>2 DEF Block, OpenKinds
  <2> HIDE DEF c, runs, t
  <2>4. c = [blocks |-> b.blocks, skip |-> b.skip, current |-> new, alts |-> b.alts]
        BY <2>1 DEF Builder
  <2>5. c \in Builder
        BY <1>3, <2>2, <2>4, BuilderMade
  <2>6. new.kind = b.current.kind /\ new.runs = runs
        OBVIOUS
  <2>7. c.blocks = b.blocks /\ c.current = new /\ c.skip = b.skip /\ c.alts = b.alts
        BY <2>4
  <2> HIDE DEF new
  <2>8. f[new] = f[b.current] \o mine
    <3>1. CASE b.current.kind \in K
      <4>1. f[new] = runs /\ f[b.current] = b.current.runs
            BY <1>3, <2>3, <2>6, <3>1, RunsType
      <4>2. mine = <<t>>
            BY <1>3, <3>1 DEF Mine, Uniform
      <4> QED BY <2>2, <4>1, <4>2
    <3>2. CASE b.current.kind \notin K
      <4>1. f[new] = <<>> /\ f[b.current] = <<>>
            BY <1>3, <2>3, <2>6, <3>2, RunsType
      <4>2. mine = <<>>
            BY <1>3, <3>2 DEF Mine, Uniform
      <4> QED BY <4>1, <4>2
    <3> QED BY <3>1, <3>2
  <2> HIDE DEF f, mine
  <2>9. Told(K, c) = Told(K, b) \o mine
    <3>1. \A s, u, v \in Seq(Texts) : (s \o u) \o v = s \o (u \o v)
          BY Associative
    <3>2. (Each(f, b.blocks) \o f[b.current]) \o mine = Each(f, b.blocks) \o (f[b.current] \o mine)
          BY <1>2, <1>4, <3>1, Zenon
    <3> QED BY <2>7, <2>8, <3>2 DEF Told, f
  <2>10. Grows(b, c)
        BY <2>7, GrowsType DEF Grows
  <2> QED BY <2>5, <2>7, <2>9, <2>10 DEF c, mine, t
<1>6. CASE piece.page
  <2> DEFINE c == CloseBlock(b)
             mark == [kind |-> "page_number", runs |-> <<t>>]
             blocks == Append(c.blocks, mark)
             d == [c EXCEPT !.blocks = blocks]
             e == Put(b, piece)
  <2>1. e = OpenBlock(d, "paragraph")
        BY <1>6 DEF Put
  <2>2. /\ c \in Builder /\ c.current = NoBlock /\ c.skip = b.skip /\ c.alts = b.alts
        /\ Told(K, c) = Told(K, b) /\ Grows(b, c)
        BY CloseKeeps
  <2>3. mark \in Block /\ mark.kind = "page_number" /\ mark.runs = <<t>>
        BY <1>1 DEF Block, Kinds
  <2> HIDE DEF c, e, mark, t
  <2>4. c.blocks \in Seq(Block) /\ c.skip \in Nat /\ c.alts \in Seq(Alts) /\ NoBlock \in Block
        BY <2>2, BuilderType, NoBlockType
  <2>5. blocks \in Seq(Block) /\ blocks = c.blocks \o <<mark>> /\ <<mark>> \in Seq(Block)
        BY <2>3, <2>4, AppendProperties, AppendIsConcat
  <2>6. Each(f, blocks) = Each(f, c.blocks) \o f[mark]
        BY <2>3, <2>4, RunsOf
  <2> HIDE DEF blocks
  <2>7. d = [blocks |-> blocks, skip |-> c.skip, current |-> NoBlock, alts |-> c.alts]
    <3>1. d = [blocks |-> blocks, skip |-> c.skip, current |-> c.current, alts |-> c.alts]
          BY <2>2, BlocksChanged
    <3> QED BY <2>2, <3>1
  <2>8. d.blocks = blocks /\ d.skip = c.skip /\ d.current = NoBlock /\ d.alts = c.alts
        BY <2>7
  <2> HIDE DEF d
  <2>9. d \in Builder
        BY <1>1, <2>4, <2>5, <2>7, NoBlockType, BuilderMade
  <2>10. f[mark] = mine
    <3>1. "page_number" \in K <=> "paragraph" \in K
          BY DEF Uniform, OpenKinds, Kinds
    <3> QED BY <2>3, <3>1, RunsType DEF Mine
  <2>11. f[NoBlock] = <<>>
        BY RunsType, NoBlockType
  <2> HIDE DEF f, mine
  <2>12. Each(f, c.blocks) \in Seq(Texts) /\ Each(f, c.blocks) \o mine \in Seq(Texts)
    <3>1. Each(f, c.blocks) \in Seq(Texts)
          BY <2>4, RunsOf DEF f
    <3> QED BY <1>2, <3>1, ConcatProperties
  <2>13. Told(K, d) = Each(f, c.blocks) \o mine
    <3>1. Told(K, d) = (Each(f, c.blocks) \o mine) \o <<>>
          BY <2>6, <2>8, <2>10, <2>11 DEF Told, f
    <3> QED BY <2>12, <3>1, ConcatEmptySeq
  <2>14. Told(K, b) = Each(f, c.blocks)
    <3>1. Told(K, c) = Each(f, c.blocks) \o <<>>
          BY <2>2, <2>11 DEF Told, f
    <3> QED BY <2>2, <2>12, <3>1, ConcatEmptySeq
  <2>15. "paragraph" \in OpenKinds
        BY DEF OpenKinds, Kinds
  <2>16. e \in Builder /\ e.skip = d.skip /\ e.alts = d.alts /\ Told(K, e) = Told(K, d) /\ Grows(d, e)
        BY <2>1, <2>9, <2>15, OpenKeeps
  <2>17. Grows(b, e)
    <3>1. Grows(c, d)
          BY <2>5, <2>8 DEF Grows
    <3>2. Grows(b, d)
          BY <1>3, <2>2, <3>1, GrowsType
    <3> QED BY <1>3, <2>16, <3>2, GrowsType
  <2> QED BY <2>2, <2>8, <2>13, <2>14, <2>16, <2>17 DEF e, mine, t
<1> QED BY <1>5, <1>6 DEF Piece

\* If no member contributes, nothing comes of the sequence.
LEMMA EachIsNothing ==
    ASSUME NEW D, NEW E, NEW none \in [D -> Seq(E)], \A d \in D : none[d] = <<>>
    PROVE  \A s \in Seq(D) : Each(none, s) = <<>>
<1> DEFINE T == {s \in Seq(D) : Each(none, s) = <<>>}
<1> HIDE DEF T
<1>1. <<>> \in T
      BY EachOfNone, EmptySeq DEF T
<1>2. ASSUME NEW s \in Seq(D), NEW d \in D, s \in T PROVE Append(s, d) \in T
  <2>1. Each(none, Append(s, d)) = Each(none, s) \o none[d]
        BY EachOfMore
  <2>2. Append(s, d) \in Seq(D) /\ <<>> \o <<>> = <<>>
        BY AppendProperties
  <2> QED BY <1>2, <2>1, <2>2 DEF T
<1>3. \A s \in Seq(D) : s \in T
      BY <1>1, <1>2, JoinFold!SeqInduction
<1> QED BY <1>3 DEF T

\* The notes of the images that are held.
Notes(alts) == [i \in DOMAIN alts |-> Note(alts[i])]
\* The blocks made of the images in hand.
Figures(alts) == [i \in DOMAIN alts |-> [kind |-> "figure", runs |-> <<Note(alts[i])>>]]

\* The notes on images, one for each.
LEMMA NotesType ==
    /\ \A alt \in Alts : Note(alt) \in Texts
    /\ \A alts \in Seq(Alts) : Notes(alts) \in Seq(Texts) /\ Len(Notes(alts)) = Len(alts)
    /\ \A alts \in Seq(Alts), alt \in Alts : Notes(Append(alts, alt)) = Notes(alts) \o <<Note(alt)>>
    /\ Notes(<<>>) = <<>>
<1>1. ASSUME NEW alt \in Alts PROVE Note(alt) \in Texts
      BY NotesAssumption DEF Note, Alts
<1>2. ASSUME NEW alts \in Seq(Alts) PROVE Notes(alts) \in Seq(Texts) /\ Len(Notes(alts)) = Len(alts)
  <2> DEFINE n == Len(alts)
             notes == Notes(alts)
  <2>1. n \in Nat /\ DOMAIN alts = 1..n /\ \A i \in 1..n : alts[i] \in Alts
        BY LenProperties, ElementOfSeq
  <2>2. notes = [i \in 1..n |-> Note(alts[i])]
        BY <2>1 DEF Notes
  <2> HIDE DEF n, notes
  <2>3. \A i \in 1..n : notes[i] \in Texts
        BY <1>1, <2>1, <2>2
  <2>4. notes = [i \in 1..n |-> notes[i]]
        BY <2>2
  <2>5. notes \in Seq(Texts) /\ Len(notes) = n
        BY <2>1, <2>3, <2>4, AFunctionIsASeq
  <2> QED BY <2>5 DEF n, notes
<1>3. ASSUME NEW alts \in Seq(Alts), NEW alt \in Alts PROVE Notes(Append(alts, alt)) = Notes(alts) \o <<Note(alt)>>
  <2> DEFINE n == Len(alts)
             m == n + 1
             more == Append(alts, alt)
  <2>1. more \in Seq(Alts) /\ Len(more) = m /\ n \in Nat /\ Note(alt) \in Texts
        BY <1>1, AppendProperties
  <2>2. /\ Notes(alts) \in Seq(Texts) /\ Len(Notes(alts)) = n
        /\ Notes(more) \in Seq(Texts) /\ Len(Notes(more)) = m
        BY <1>2, <2>1
  <2>3. /\ Append(Notes(alts), Note(alt)) \in Seq(Texts) /\ Len(Append(Notes(alts), Note(alt))) = m
        /\ Append(Notes(alts), Note(alt)) = Notes(alts) \o <<Note(alt)>>
        BY <2>1, <2>2, AppendProperties, AppendIsConcat
  <2>4. ASSUME NEW i \in 1..m PROVE Notes(more)[i] = Append(Notes(alts), Note(alt))[i]
    <3>1. DOMAIN more = 1..m /\ DOMAIN alts = 1..n
          BY <2>1
    <3>2. CASE i \in 1..n
      <4>1. more[i] = alts[i]
            BY <3>2, AppendProperties
      <4>2. Append(Notes(alts), Note(alt))[i] = Notes(alts)[i]
            BY <2>1, <2>2, <3>2, AppendProperties
      <4> QED BY <3>1, <3>2, <4>1, <4>2 DEF Notes
    <3>3. CASE i = m
      <4>1. more[i] = alt
            BY <3>3, AppendProperties
      <4>2. Append(Notes(alts), Note(alt))[i] = Note(alt)
            BY <2>1, <2>2, <3>3, AppendProperties
      <4> QED BY <3>1, <4>1, <4>2 DEF Notes
    <3>4. i \in 1..n \/ i = m
          BY <2>1
    <3> QED BY <3>2, <3>3, <3>4
  <2>5. Notes(more) = Append(Notes(alts), Note(alt))
    <3> HIDE DEF m, more
    <3> QED BY <2>2, <2>3, <2>4, SeqEqual
  <2> QED BY <2>3, <2>5
<1>4. Notes(<<>>) = <<>>
      BY DEF Notes
<1> QED BY <1>1, <1>2, <1>3, <1>4

\* The blocks made of images say the notes on them.
LEMMA FiguresSay ==
    ASSUME NEW alts \in Seq(Alts), NEW K
    PROVE  /\ Figures(alts) \in Seq(Block)
           /\ Each(Runs(K), Figures(alts)) = IF "figure" \in K THEN Notes(alts) ELSE <<>>
<1> DEFINE n == Len(alts)
           figures == Figures(alts)
           notes == Notes(alts)
           f == Runs(K)
<1>1. n \in Nat /\ DOMAIN alts = 1..n /\ \A i \in 1..n : alts[i] \in Alts
      BY LenProperties, ElementOfSeq
<1>2. notes \in Seq(Texts) /\ DOMAIN notes = 1..n /\ \A i \in 1..n : notes[i] = Note(alts[i]) /\ notes[i] \in Texts
      BY <1>1, NotesType DEF Notes
<1>3. figures = [i \in 1..n |-> [kind |-> "figure", runs |-> <<notes[i]>>]]
      BY <1>1, <1>2 DEF Figures
<1> HIDE DEF n, figures, notes
<1>4. \A i \in 1..n : /\ figures[i] \in Block /\ figures[i].kind = "figure"
                      /\ figures[i].runs = <<notes[i]>>
  <2>1. \A t \in Texts : [kind |-> "figure", runs |-> <<t>>] \in Block
        BY DEF Block, Kinds
  <2> QED BY <1>2, <1>3, <2>1
<1>5. figures = [i \in 1..n |-> figures[i]]
      BY <1>3
<1>6. figures \in Seq(Block) /\ DOMAIN figures = 1..n
      BY <1>1, <1>4, <1>5, AFunctionIsASeq
<1>7. CASE "figure" \in K
  <2> DEFINE one == [t \in Texts |-> <<t>>]
  <2>1. one \in [Texts -> Seq(Texts)] /\ \A t \in Texts : one[t] = <<t>>
        OBVIOUS
  <2> HIDE DEF one
  <2>2. ASSUME NEW i \in 1..n PROVE f[figures[i]] = one[notes[i]]
    <3>1. f[figures[i]] = figures[i].runs
          BY <1>4, <1>7, RunsType
    <3>2. one[notes[i]] = <<notes[i]>>
          BY <1>2, <2>1
    <3> QED BY <1>4, <3>1, <3>2
  <2>3. [i \in DOMAIN figures |-> f[figures[i]]] = [i \in DOMAIN notes |-> one[notes[i]]]
        BY <1>2, <1>6, <2>2
  <2>4. Each(f, figures) = Each(one, notes)
        BY <2>3 DEF Each
  <2>5. \A s \in Seq(Texts) : Each(one, s) = s
        BY <2>1, EachIsSame
  <2> QED BY <1>2, <1>6, <1>7, <2>4, <2>5 DEF figures, notes
<1>8. CASE "figure" \notin K
  <2> DEFINE none == [t \in Texts |-> <<>>]
  <2>1. none \in [Texts -> Seq(Texts)] /\ \A t \in Texts : none[t] = <<>>
    <3>1. <<>> \in Seq(Texts)
          BY EmptySeq
    <3> QED BY <3>1
  <2> HIDE DEF none
  <2>2. \A i \in 1..n : f[figures[i]] = none[notes[i]]
        BY <1>2, <1>4, <1>8, <2>1, RunsType
  <2>3. [i \in DOMAIN figures |-> f[figures[i]]] = [i \in DOMAIN notes |-> none[notes[i]]]
        BY <1>2, <1>6, <2>2
  <2>4. Each(f, figures) = Each(none, notes)
        BY <2>3 DEF Each
  <2>5. \A s \in Seq(Texts) : Each(none, s) = <<>>
        BY <2>1, EachIsNothing
  <2> QED BY <1>2, <1>6, <1>8, <2>4, <2>5 DEF figures, notes
<1> QED BY <1>7, <1>8

\* The images in hand are said when they are flushed.
LEMMA FlushKeeps ==
    ASSUME NEW b \in Builder, b.current = NoBlock, NEW K
    PROVE  /\ FlushFigure(b) \in Builder
           /\ FlushFigure(b).skip = b.skip /\ FlushFigure(b).alts = <<>> /\ FlushFigure(b).current = NoBlock
           /\ FlushFigure(b).blocks = b.blocks \o Figures(b.alts)
           /\ Told(K, FlushFigure(b)) = Told(K, b) \o (IF "figure" \in K THEN Notes(b.alts) ELSE <<>>)
           /\ Grows(b, FlushFigure(b))
<1> DEFINE c == FlushFigure(b)
           figures == Figures(b.alts)
           blocks == b.blocks \o figures
           notes == IF "figure" \in K THEN Notes(b.alts) ELSE <<>>
           f == Runs(K)
<1>1. c = [b EXCEPT !.blocks = blocks, !.alts = <<>>]
      BY DEF FlushFigure, Figures
<1> HIDE DEF c
<1>2. b.blocks \in Seq(Block) /\ b.alts \in Seq(Alts) /\ b.skip \in Nat
      BY BuilderType
<1>3. figures \in Seq(Block) /\ Each(f, figures) = notes
      BY <1>2, FiguresSay
<1>4. notes \in Seq(Texts)
      BY <1>2, NotesType, EmptySeq
<1> HIDE DEF figures, notes
<1>5. blocks \in Seq(Block) /\ Each(f, blocks) = Each(f, b.blocks) \o notes /\ Each(f, b.blocks) \in Seq(Texts)
      BY <1>2, <1>3, ConcatProperties, RunsOf
<1>6. c = [blocks |-> blocks, skip |-> b.skip, current |-> NoBlock, alts |-> <<>>]
  <2> HIDE DEF blocks
  <2> QED BY <1>1 DEF Builder
<1>7. c.blocks = blocks /\ c.skip = b.skip /\ c.current = NoBlock /\ c.alts = <<>>
      BY <1>6
<1>8. c \in Builder
  <2>1. <<>> \in Seq(Texts) /\ <<>> \in Seq(Alts)
        BY EmptySeq
  <2> HIDE DEF blocks
  <2> QED BY <1>2, <1>5, <1>6, <2>1, NoBlockType, BuilderMade
<1>9. f[NoBlock] = <<>>
      BY NoBlockType, RunsType
<1>10. Told(K, c) = Told(K, b) \o notes
  <2>1. Told(K, c) = (Each(f, b.blocks) \o notes) \o <<>>
        BY <1>5, <1>7, <1>9 DEF Told
  <2>2. Told(K, b) = Each(f, b.blocks) \o <<>>
        BY <1>9 DEF Told
  <2> HIDE DEF f
  <2>3. Each(f, b.blocks) \o notes \in Seq(Texts)
        BY <1>4, <1>5, ConcatProperties
  <2> QED BY <1>5, <2>1, <2>2, <2>3, ConcatEmptySeq
<1>11. Grows(b, c)
      BY <1>3, <1>7 DEF Grows
<1> QED BY <1>7, <1>8, <1>10, <1>11 DEF c, notes, figures

\* Pieces of a run put into a block, folded.
PutFold == INSTANCE Folding WITH Op <- Put

\* What a builder says is a sequence of texts.
LEMMA ToldType ==
    ASSUME NEW b \in Builder, NEW K
    PROVE  Told(K, b) \in Seq(Texts)
<1>1. b.blocks \in Seq(Block) /\ b.current \in Block
      BY BuilderType
<1>2. Each(Runs(K), b.blocks) \in Seq(Texts)
      BY <1>1, RunsOf
<1>3. Runs(K)[b.current] \in Seq(Texts)
      BY <1>1, RunsType
<1> QED BY <1>2, <1>3, ConcatProperties DEF Told

\* The texts of the pieces of a run, one for each.
LEMMA TextsInType ==
    /\ \A ps \in Seq(Piece) : TextsIn(ps) \in Seq(Texts) /\ Len(TextsIn(ps)) = Len(ps)
    /\ \A ps \in Seq(Piece), p \in Piece : TextsIn(Append(ps, p)) = TextsIn(ps) \o <<p.text>>
    /\ TextsIn(<<>>) = <<>>
<1>1. \A p \in Piece : p.text \in Texts
      BY DEF Piece
<1>2. ASSUME NEW ps \in Seq(Piece) PROVE TextsIn(ps) \in Seq(Texts) /\ Len(TextsIn(ps)) = Len(ps)
  <2> DEFINE n == Len(ps)
             texts == TextsIn(ps)
  <2>1. n \in Nat /\ DOMAIN ps = 1..n /\ \A i \in 1..n : ps[i] \in Piece
        BY LenProperties, ElementOfSeq
  <2>2. texts = [i \in 1..n |-> ps[i].text]
        BY <2>1 DEF TextsIn
  <2> HIDE DEF n, texts
  <2>3. \A i \in 1..n : texts[i] \in Texts
        BY <1>1, <2>1, <2>2
  <2>4. texts = [i \in 1..n |-> texts[i]]
        BY <2>2
  <2>5. texts \in Seq(Texts) /\ Len(texts) = n
        BY <2>1, <2>3, <2>4, AFunctionIsASeq
  <2> QED BY <2>5 DEF n, texts
<1>3. ASSUME NEW ps \in Seq(Piece), NEW p \in Piece PROVE TextsIn(Append(ps, p)) = TextsIn(ps) \o <<p.text>>
  <2> DEFINE n == Len(ps)
             m == n + 1
             more == Append(ps, p)
  <2>1. more \in Seq(Piece) /\ Len(more) = m /\ n \in Nat /\ p.text \in Texts
        BY <1>1, AppendProperties
  <2>2. /\ TextsIn(ps) \in Seq(Texts) /\ Len(TextsIn(ps)) = n
        /\ TextsIn(more) \in Seq(Texts) /\ Len(TextsIn(more)) = m
        BY <1>2, <2>1
  <2>3. /\ Append(TextsIn(ps), p.text) \in Seq(Texts) /\ Len(Append(TextsIn(ps), p.text)) = m
        /\ Append(TextsIn(ps), p.text) = TextsIn(ps) \o <<p.text>>
        BY <2>1, <2>2, AppendProperties, AppendIsConcat
  <2>4. ASSUME NEW i \in 1..m PROVE TextsIn(more)[i] = Append(TextsIn(ps), p.text)[i]
    <3>1. DOMAIN more = 1..m /\ DOMAIN ps = 1..n
          BY <2>1
    <3>2. CASE i \in 1..n
      <4>1. more[i] = ps[i]
            BY <3>2, AppendProperties
      <4>2. Append(TextsIn(ps), p.text)[i] = TextsIn(ps)[i]
            BY <2>1, <2>2, <3>2, AppendProperties
      <4> QED BY <3>1, <3>2, <4>1, <4>2 DEF TextsIn
    <3>3. CASE i = m
      <4>1. more[i] = p
            BY <3>3, AppendProperties
      <4>2. Append(TextsIn(ps), p.text)[i] = p.text
            BY <2>1, <2>2, <3>3, AppendProperties
      <4> QED BY <3>1, <4>1, <4>2 DEF TextsIn
    <3>4. i \in 1..n \/ i = m
          BY <2>1
    <3> QED BY <3>2, <3>3, <3>4
  <2>5. TextsIn(more) = Append(TextsIn(ps), p.text)
    <3> HIDE DEF m, more
    <3> QED BY <2>2, <2>3, <2>4, SeqEqual
  <2> QED BY <2>3, <2>5
<1>4. TextsIn(<<>>) = <<>>
      BY DEF TextsIn
<1> QED BY <1>2, <1>3, <1>4

\* How one builder comes of another that says so much more.
Hears(K, b, said, c) ==
    /\ c \in Builder /\ c.skip = b.skip /\ c.alts = b.alts
    /\ Told(K, c) = Told(K, b) \o said
    /\ Grows(b, c)

\* What is heard adds up.
LEMMA HearsMore ==
    ASSUME NEW K, NEW b \in Builder, NEW s \in Seq(Texts), NEW c, NEW t \in Seq(Texts), NEW d,
           Hears(K, b, s, c), Hears(K, c, t, d)
    PROVE  Hears(K, b, s \o t, d)
<1>1. Told(K, d) = (Told(K, b) \o s) \o t /\ Told(K, b) \in Seq(Texts)
      BY ToldType DEF Hears
<1>2. \A r, u, v \in Seq(Texts) : (r \o u) \o v = r \o (u \o v)
      BY Associative
<1>3. Told(K, d) = Told(K, b) \o (s \o t)
      BY <1>1, <1>2, Zenon
<1>4. Grows(b, d)
      BY BuilderType, GrowsType DEF Hears
<1> QED BY <1>3, <1>4 DEF Hears

\* Nothing heard, a builder is as it was.
LEMMA HearsNothing ==
    ASSUME NEW K, NEW b \in Builder
    PROVE  /\ Hears(K, b, <<>>, b)
           /\ \A c : c \in Builder /\ c.skip = b.skip /\ c.alts = b.alts /\ Told(K, c) = Told(K, b) /\ Grows(b, c)
                => Hears(K, b, <<>>, c)
<1>1. Told(K, b) \in Seq(Texts)
      BY ToldType
<1>2. Told(K, b) \o <<>> = Told(K, b)
      BY <1>1, ConcatEmptySeq
<1> QED BY <1>2, GrowsType DEF Hears

\* What is said to listeners of the kinds in K.
LEMMA MineType ==
    ASSUME NEW K
    PROVE  /\ \A s \in Seq(Texts) : Mine(K, s) \in Seq(Texts)
           /\ \A s, t \in Seq(Texts) : Mine(K, s \o t) = Mine(K, s) \o Mine(K, t)
           /\ Mine(K, <<>>) = <<>>
<1>1. <<>> \in Seq(Texts) /\ <<>> \o <<>> = <<>>
      BY EmptySeq
<1> QED BY <1>1 DEF Mine

\* All pieces of a run are heard, in order.
LEMMA PutAll ==
    ASSUME NEW b \in Builder, NEW K, Uniform(K)
    PROVE  \A ps \in Seq(Piece) : Hears(K, b, Mine(K, TextsIn(ps)), PutFold!Fold(b, ps))
<1> DEFINE T == {ps \in Seq(Piece) : Hears(K, b, Mine(K, TextsIn(ps)), PutFold!Fold(b, ps))}
<1> HIDE DEF T
<1>1. <<>> \in T
  <2>1. PutFold!Fold(b, <<>>) = b
        BY PutFold!FoldEmpty
  <2>2. Mine(K, TextsIn(<<>>)) = <<>>
        BY TextsInType, MineType
  <2> QED BY <2>1, <2>2, HearsNothing, EmptySeq DEF T
<1>2. ASSUME NEW ps \in Seq(Piece), NEW p \in Piece, ps \in T PROVE Append(ps, p) \in T
  <2> DEFINE c == PutFold!Fold(b, ps)
             d == PutFold!Fold(b, Append(ps, p))
             s == Mine(K, TextsIn(ps))
             t == Mine(K, <<p.text>>)
  <2>1. d = Put(c, p)
        BY PutFold!FoldAppend
  <2>2. Hears(K, b, s, c)
        BY <1>2 DEF T
  <2> HIDE DEF c, d
  <2>3. Hears(K, c, t, d)
    <3>1. c \in Builder
          BY <2>2 DEF Hears
    <3> QED BY <2>1, <3>1, PutKeeps DEF Hears
  <2>4. TextsIn(ps) \in Seq(Texts) /\ <<p.text>> \in Seq(Texts) /\ TextsIn(Append(ps, p)) = TextsIn(ps) \o <<p.text>>
    <3>1. p.text \in Texts
          BY DEF Piece
    <3> QED BY <3>1, TextsInType
  <2>5. s \in Seq(Texts) /\ t \in Seq(Texts) /\ Mine(K, TextsIn(Append(ps, p))) = s \o t
        BY <2>4, MineType
  <2> HIDE DEF s, t
  <2>6. Hears(K, b, s \o t, d)
        BY <2>2, <2>3, <2>5, HearsMore
  <2>7. Append(ps, p) \in Seq(Piece)
        BY AppendProperties
  <2> QED BY <2>5, <2>6, <2>7 DEF T, d
<1>3. \A ps \in Seq(Piece) : ps \in T
      BY <1>1, <1>2, PutFold!SeqInduction
<1> QED BY <1>3 DEF T

\* handle_data says every piece, unless it is told to be silent.
LEMMA DataHeard ==
    ASSUME NEW b \in Builder, NEW ps \in Seq(Piece), NEW K, Uniform(K)
    PROVE  /\ b.skip > 0 => HandleData(b, ps) = b
           /\ ~(b.skip > 0) => Hears(K, b, Mine(K, TextsIn(ps)), HandleData(b, ps))
<1>1. CASE b.skip > 0
      BY <1>1 DEF HandleData
<1>2. CASE ~(b.skip > 0)
  <2> DEFINE c == IF b.current = NoBlock THEN OpenBlock(b, "paragraph") ELSE b
             d == HandleData(b, ps)
             s == Mine(K, TextsIn(ps))
  <2>1. d = PutFold!Fold(c, ps)
        BY <1>2, Zenon DEF HandleData, FoldLeft, MapThenFoldSet, PutFold!Fold, Max
  <2>2. Hears(K, b, <<>>, c)
    <3>1. "paragraph" \in OpenKinds
          BY DEF OpenKinds, Kinds
    <3>2. Hears(K, b, <<>>, OpenBlock(b, "paragraph"))
          BY <3>1, OpenKeeps, HearsNothing
    <3> QED BY <3>2, HearsNothing
  <2> HIDE DEF c, d
  <2>3. c \in Builder
        BY <2>2 DEF Hears
  <2>4. Hears(K, c, s, d)
        BY <2>1, <2>3, PutAll
  <2>5. s \in Seq(Texts) /\ <<>> \in Seq(Texts) /\ <<>> \o s = s
    <3>1. s \in Seq(Texts)
          BY TextsInType, MineType
    <3> HIDE DEF s
    <3> QED BY <3>1, EmptySeq, ConcatEmptySeq
  <2> HIDE DEF s
  <2>6. Hears(K, b, <<>> \o s, d)
        BY <2>2, <2>4, <2>5, HearsMore
  <2> QED BY <1>2, <2>5, <2>6 DEF d, s
<1> QED BY <1>1, <1>2

\* How many more scripts and styles a stretch of a page opens than it closes.
Openers(page, j, i) == {k \in j..(i - 1) : page[k].event = "open" /\ page[k].tag \in Unspoken}
\* The unspoken elements closed in a stretch, and by how many fewer they are than the opened ones.
Closers(page, j, i) == {k \in j..(i - 1) : page[k].event = "close" /\ page[k].tag \in Unspoken}
Excess(page, j, i) == Cardinality(Openers(page, j, i)) - Cardinality(Closers(page, j, i))
Change(e) ==
    IF e.event = "open" /\ e.tag \in Unspoken THEN 1
    ELSE IF e.event = "close" /\ e.tag \in Unspoken THEN -1 ELSE 0

\* The unspoken elements opened and closed in a stretch can be counted.
LEMMA StretchType ==
    ASSUME NEW page, NEW n \in Nat, NEW j \in 1..(n + 1)
    PROVE  /\ IsFiniteSet(Openers(page, j, n + 1)) /\ Cardinality(Openers(page, j, n + 1)) \in Nat
           /\ IsFiniteSet(Closers(page, j, n + 1)) /\ Cardinality(Closers(page, j, n + 1)) \in Nat
           /\ Excess(page, j, n + 1) \in Int
<1>1. IsFiniteSet(j..n)
      BY FS_Interval
<1>2. Openers(page, j, n + 1) \subseteq j..n /\ Closers(page, j, n + 1) \subseteq j..n
      BY DEF Openers, Closers
<1>3. IsFiniteSet(Openers(page, j, n + 1)) /\ IsFiniteSet(Closers(page, j, n + 1))
      BY <1>1, <1>2, FS_Subset
<1>4. Cardinality(Openers(page, j, n + 1)) \in Nat /\ Cardinality(Closers(page, j, n + 1)) \in Nat
      BY <1>3, FS_CardinalityType
<1> QED BY <1>3, <1>4 DEF Excess

\* One event more changes the excess by what it opens or closes.
LEMMA ExcessMore ==
    ASSUME NEW page \in Seq(Events), NEW e \in Events, NEW n \in Nat, n = Len(page), NEW j \in 1..(n + 1)
    PROVE  Excess(Append(page, e), j, n + 2) = Excess(page, j, n + 1) + Change(e)
<1> DEFINE more == Append(page, e)
           m == n + 1
           A == Openers(page, j, m)
           B == Closers(page, j, m)
           C == Openers(more, j, n + 2)
           D == Closers(more, j, n + 2)
<1>1. /\ IsFiniteSet(A) /\ Cardinality(A) \in Nat /\ IsFiniteSet(B) /\ Cardinality(B) \in Nat
      BY StretchType
<1>2. \A k \in 1..n : more[k] = page[k]
      BY AppendProperties
<1>3. more[m] = e
      BY AppendProperties
<1>4. m \notin A /\ m \notin B
      BY DEF Openers, Closers
<1>5. j..(n + 2 - 1) = (j..(m - 1)) \union {m} /\ j..(m - 1) \subseteq 1..n
      OBVIOUS
<1> HIDE DEF more, m
<1>6. C = IF e.event = "open" /\ e.tag \in Unspoken THEN A \union {m} ELSE A
      BY <1>2, <1>3, <1>5 DEF Openers
<1>7. D = IF e.event = "close" /\ e.tag \in Unspoken THEN B \union {m} ELSE B
      BY <1>2, <1>3, <1>5 DEF Closers
<1> HIDE DEF A, B, C, D
<1>8. Cardinality(C) = IF e.event = "open" /\ e.tag \in Unspoken THEN Cardinality(A) + 1 ELSE Cardinality(A)
      BY <1>1, <1>4, <1>6, FS_AddElement
<1>9. Cardinality(D) = IF e.event = "close" /\ e.tag \in Unspoken THEN Cardinality(B) + 1 ELSE Cardinality(B)
      BY <1>1, <1>4, <1>7, FS_AddElement
<1>10. Cardinality(C) - Cardinality(D) = (Cardinality(A) - Cardinality(B)) + Change(e)
      BY <1>1, <1>8, <1>9 DEF Change
<1> QED BY <1>10 DEF Excess, A, B, C, D, m, more

\* Whether an event is hushed depends on nothing after it.
LEMMA HushedMore ==
    ASSUME NEW page \in Seq(Events), NEW e \in Events, NEW n \in Nat, n = Len(page)
    PROVE  \A i \in 1..(n + 1) : Hushed(Append(page, e), i) <=> Hushed(page, i)
<1> SUFFICES ASSUME NEW i \in 1..(n + 1)
             PROVE  Hushed(Append(page, e), i) <=> Hushed(page, i)
      OBVIOUS
<1> DEFINE more == Append(page, e)
<1>1. \A k \in 1..n : more[k] = page[k]
      BY AppendProperties
<1> HIDE DEF more
<1>2. ASSUME NEW j \in 1..(i - 1)
      PROVE  /\ Openers(more, j, i) = Openers(page, j, i)
             /\ Closers(more, j, i) = Closers(page, j, i)
  <2>1. j..(i - 1) \subseteq 1..n
        OBVIOUS
  <2> QED BY <1>1, <2>1 DEF Openers, Closers
<1>3. Hushed(more, i) <=> Hushed(page, i)
  <2>1. \A p : Hushed(p, i) <=> \E j \in 1..(i - 1) : Cardinality(Openers(p, j, i)) > Cardinality(Closers(p, j, i))
        BY DEF Hushed, Openers, Closers
  <2> QED BY <1>2, <2>1
<1> QED BY <1>3 DEF more

\* The depth a builder counts is that of the deepest stretch before it.
Deep(page, skip) ==
    /\ skip \in Nat
    /\ \A j \in 1..Len(page) : Excess(page, j, Len(page) + 1) <= skip
    /\ skip = 0 \/ \E j \in 1..Len(page) : Excess(page, j, Len(page) + 1) = skip

\* The counter is positive exactly where a stretch is left open.
LEMMA DeepIsHushed ==
    ASSUME NEW page \in Seq(Events), NEW skip, Deep(page, skip)
    PROVE  Hushed(page, Len(page) + 1) <=> skip > 0
<1> DEFINE n == Len(page)
           A(j) == Cardinality(Openers(page, j, n + 1))
           B(j) == Cardinality(Closers(page, j, n + 1))
<1>1. n \in Nat /\ (n + 1) - 1 = n
      OBVIOUS
<1>2. Hushed(page, n + 1) <=> \E j \in 1..n : A(j) > B(j)
      BY <1>1 DEF Hushed, Openers, Closers
<1> HIDE DEF n
<1>3. \A j \in 1..n : A(j) \in Nat /\ B(j) \in Nat
      BY <1>1, StretchType
<1>4. \A j \in 1..n : Excess(page, j, n + 1) = A(j) - B(j)
      BY DEF Excess
<1> HIDE DEF A, B
<1>5. /\ skip \in Nat
      /\ \A j \in 1..n : A(j) - B(j) <= skip
      /\ skip = 0 \/ \E j \in 1..n : A(j) - B(j) = skip
      BY <1>4 DEF Deep, n
<1>6. Hushed(page, n + 1) <=> skip > 0
      BY <1>2, <1>3, <1>5
<1> QED BY <1>6 DEF n

\* One event more, the counter still counts the deepest open stretch.
LEMMA DeepMore ==
    ASSUME NEW page \in Seq(Events), NEW e \in Events, NEW skip, Deep(page, skip)
    PROVE  Deep(Append(page, e),
                IF Change(e) = 1 THEN skip + 1
                ELSE IF Change(e) = -1 THEN (IF skip = 0 THEN 0 ELSE skip - 1) ELSE skip)
<1> DEFINE n == Len(page)
           m == n + 1
           more == Append(page, e)
           now(j) == Excess(page, j, m)
           next(j) == Excess(more, j, n + 2)
           c == Change(e)
           to == IF c = 1 THEN skip + 1 ELSE IF c = -1 THEN (IF skip = 0 THEN 0 ELSE skip - 1) ELSE skip
<1>1. n \in Nat /\ Len(more) = m /\ m + 1 = n + 2
      BY AppendProperties
<1>2. \A j \in 1..m : next(j) = now(j) + c /\ now(j) \in Int
      BY <1>1, ExcessMore, StretchType
<1>3. now(m) = 0
  <2>1. Openers(page, m, m) = {} /\ Closers(page, m, m) = {}
        BY DEF Openers, Closers
  <2>2. Cardinality({}) = 0
        BY FS_EmptySet
  <2>3. Excess(page, m, m) = Cardinality({}) - Cardinality({})
    <3> HIDE DEF m
    <3> QED BY <2>1 DEF Excess
  <2> HIDE DEF m
  <2> QED BY <2>2, <2>3
<1>4. c \in {1, 0, -1}
      BY DEF Change
<1>5. /\ skip \in Nat /\ \A j \in 1..n : now(j) <= skip
      /\ skip = 0 \/ \E j \in 1..n : now(j) = skip
      BY DEF Deep
<1> HIDE DEF n, more, now, next, c
<1>6. m = n + 1 /\ m \in 1..m /\ \A j \in 1..m : j \in 1..n \/ j = m
      BY <1>1
<1>7. \A j \in 1..n : j \in 1..m
      BY <1>1
<1> HIDE DEF m
<1>8. to \in Nat
      BY <1>5
<1>9. \A j \in 1..m : next(j) <= to
      BY <1>2, <1>3, <1>4, <1>5, <1>6
<1>10. to = 0 \/ \E j \in 1..m : next(j) = to
  <2>1. CASE skip = 0 /\ c = 1
        BY <1>2, <1>3, <1>6, <2>1
  <2>2. CASE skip # 0
    <3>1. PICK j \in 1..n : now(j) = skip
          BY <1>5, <2>2
    <3>2. next(j) = to /\ j \in 1..m
          BY <1>2, <1>4, <1>5, <1>7, <2>2, <3>1
    <3> QED BY <3>2
  <2>3. CASE skip = 0 /\ c # 1
        BY <2>3
  <2> QED BY <2>1, <2>2, <2>3
<1> HIDE DEF to
<1>11. Deep(more, to)
      BY <1>1, <1>8, <1>9, <1>10 DEF Deep, next
<1> QED BY <1>11 DEF more, to, c

(***************************************************************************)
(* The builders, event by event                                            *)
(***************************************************************************)
HandleFold == INSTANCE Folding WITH Op <- Handle
\* Events handled by the braille XML, folded.
XmlFold == INSTANCE Folding WITH Op <- XmlHandle

\* The kind of block a tag opens.
LEMMA KindOfType == \A tag : KindOf(tag) \in OpenKinds
      BY DEF KindOf, OpenKinds, Kinds

\* What a parser reports is one of three things.
LEMMA EventCases ==
    ASSUME NEW e \in Events
    PROVE  \/ /\ e.event = "open" /\ e.tag \in Tags /\ (e.tag = "img" => e.attr \in Alts)
           \/ /\ e.event = "close" /\ e.tag \in Tags /\ e = [event |-> "close", tag |-> e.tag]
           \/ /\ e.event = "data" /\ e.pieces \in Seq(Piece)
      BY DEF Events, Tags, Piece

\* What the reader is told at one place of a page.
SpokenAt(page, i) == IF IsData(page[i]) /\ ~Hushed(page, i) THEN TextsIn(page[i].pieces) ELSE <<>>
\* What each event says.
SpokenBy(page) == [i \in DOMAIN page |-> SpokenAt(page, i)]

\* What a page says is put together from what its events say.
LEMMA SpokenType ==
    ASSUME NEW page \in Seq(Events)
    PROVE  /\ SpokenBy(page) \in Seq(Seq(Texts)) /\ Len(SpokenBy(page)) = Len(page)
           /\ DOMAIN page = 1..Len(page) /\ Spoken(page) = FlattenSeq(SpokenBy(page)) /\ Spoken(page) \in Seq(Texts)
<1> DEFINE n == Len(page)
           S == Seq(Texts)
           told == SpokenBy(page)
<1>1. n \in Nat /\ DOMAIN page = 1..n /\ \A i \in 1..n : page[i] \in Events
      BY LenProperties, ElementOfSeq
<1>2. told = [i \in 1..n |-> SpokenAt(page, i)]
      BY <1>1 DEF SpokenBy
<1> HIDE DEF n, told
<1>3. ASSUME NEW i \in 1..n PROVE told[i] \in S
  <2>1. <<>> \in S
        BY EmptySeq
  <2>2. IsData(page[i]) => page[i].pieces \in Seq(Piece)
    <3>1. page[i] \in Events
          BY <1>1
    <3> QED BY <3>1, EventCases DEF IsData
  <2>3. IsData(page[i]) => TextsIn(page[i].pieces) \in S
        BY <2>2, TextsInType
  <2> HIDE DEF S
  <2> QED BY <1>2, <2>1, <2>3 DEF SpokenAt
<1>4. told = [i \in 1..n |-> told[i]]
      BY <1>2
<1> HIDE DEF S
<1>5. told \in Seq(S) /\ Len(told) = n
      BY <1>1, <1>3, <1>4, AFunctionIsASeq
<1>6. Spoken(page) = FlattenSeq(told)
      BY DEF Spoken, told, SpokenBy, SpokenAt
<1>7. FlattenSeq(told) \in Seq(Texts)
      BY <1>5, FlattenType DEF S
<1> QED BY <1>1, <1>5, <1>6, <1>7 DEF n, told, S

\* What a page with one event more says.
LEMMA SpokenMore ==
    ASSUME NEW page \in Seq(Events), NEW e \in Events
    PROVE  Spoken(Append(page, e)) =
             Spoken(page) \o (IF IsData(e) /\ ~Hushed(page, Len(page) + 1) THEN TextsIn(e.pieces) ELSE <<>>)
<1> DEFINE n == Len(page)
           m == n + 1
           more == Append(page, e)
           new == IF IsData(e) /\ ~Hushed(page, m) THEN TextsIn(e.pieces) ELSE <<>>
<1>1. n \in Nat /\ more \in Seq(Events) /\ Len(more) = m /\ more[m] = e /\ \A i \in 1..n : more[i] = page[i]
      BY AppendProperties
<1>2. \A i \in 1..m : Hushed(more, i) <=> Hushed(page, i)
      BY <1>1, HushedMore
<1>3. m = n + 1 /\ m \in 1..m /\ \A i \in 1..n : i \in 1..m
      BY <1>1
<1> HIDE DEF more, m
<1>4. /\ SpokenBy(page) \in Seq(Seq(Texts)) /\ Len(SpokenBy(page)) = n /\ DOMAIN page = 1..n
      /\ Spoken(page) = FlattenSeq(SpokenBy(page))
      BY SpokenType
<1>5. /\ SpokenBy(more) \in Seq(Seq(Texts)) /\ Len(SpokenBy(more)) = m /\ DOMAIN more = 1..m
      /\ Spoken(more) = FlattenSeq(SpokenBy(more))
      BY <1>1, SpokenType
<1>6. \A i \in 1..n : SpokenBy(more)[i] = SpokenBy(page)[i]
  <2> SUFFICES ASSUME NEW i \in 1..n PROVE SpokenBy(more)[i] = SpokenBy(page)[i]
        OBVIOUS
  <2>1. SpokenBy(more)[i] = SpokenAt(more, i) /\ SpokenBy(page)[i] = SpokenAt(page, i)
        BY <1>3, <1>4, <1>5 DEF SpokenBy
  <2>2. more[i] = page[i] /\ (Hushed(more, i) <=> Hushed(page, i))
        BY <1>1, <1>2, <1>3
  <2> QED BY <2>1, <2>2 DEF SpokenAt
<1>7. SpokenBy(more)[m] = new
  <2>1. SpokenBy(more)[m] = SpokenAt(more, m)
        BY <1>3, <1>5 DEF SpokenBy
  <2>2. Hushed(more, m) <=> Hushed(page, m)
        BY <1>2, <1>3
  <2> QED BY <1>1, <2>1, <2>2 DEF SpokenAt
<1> HIDE DEF n
<1>8. FlattenSeq(SpokenBy(more)) = FlattenSeq(SpokenBy(page)) \o SpokenBy(more)[n + 1]
      BY <1>1, <1>3, <1>4, <1>5, <1>6, FlattenMore
<1> QED BY <1>3, <1>4, <1>5, <1>7, <1>8 DEF more, m, n

\* The notes of a page.
NoteOf == [e \in Events |-> IF Opens(e, "img") THEN <<Note(e.attr)>> ELSE <<>>]

\* The notes of a page with one event more.
LEMMA NotesOfMore ==
    /\ \A page \in Seq(Events) : NotesOf(page) \in Seq(Texts)
    /\ \A page \in Seq(Events), e \in Events :
         NotesOf(Append(page, e)) = NotesOf(page) \o (IF Opens(e, "img") THEN <<Note(e.attr)>> ELSE <<>>)
    /\ NotesOf(<<>>) = <<>>
<1>1. ASSUME NEW e \in Events PROVE NoteOf[e] \in Seq(Texts)
  <2>1. <<>> \in Seq(Texts)
        BY EmptySeq
  <2>2. Opens(e, "img") => e.attr \in Alts
        BY EventCases DEF Opens
  <2>3. Opens(e, "img") => <<Note(e.attr)>> \in Seq(Texts)
    <3>1. Opens(e, "img") => Note(e.attr) \in Texts
          BY <2>2, NotesType
    <3> QED BY <3>1
  <2> QED BY <2>1, <2>3 DEF NoteOf
<1>2. NoteOf \in [Events -> Seq(Texts)]
      BY <1>1 DEF NoteOf
<1>3. ASSUME NEW page \in Seq(Events) PROVE NotesOf(page) = Each(NoteOf, page)
  <2>1. \A i \in DOMAIN page : page[i] \in Events
        BY LenProperties, ElementOfSeq
  <2>2. \A i \in DOMAIN page : NoteOf[page[i]] = IF Opens(page[i], "img") THEN <<Note(page[i].attr)>> ELSE <<>>
        BY <2>1 DEF NoteOf
  <2> QED BY <2>2 DEF NotesOf, Each
<1>4. ASSUME NEW page \in Seq(Events) PROVE NotesOf(page) \in Seq(Texts)
      BY <1>2, <1>3, EachType
<1>5. ASSUME NEW page \in Seq(Events), NEW e \in Events
      PROVE  NotesOf(Append(page, e)) = NotesOf(page) \o (IF Opens(e, "img") THEN <<Note(e.attr)>> ELSE <<>>)
  <2>1. Append(page, e) \in Seq(Events)
        BY AppendProperties
  <2>2. Each(NoteOf, Append(page, e)) = Each(NoteOf, page) \o NoteOf[e]
        BY <1>2, EachOfMore
  <2>3. NoteOf[e] = IF Opens(e, "img") THEN <<Note(e.attr)>> ELSE <<>>
        BY DEF NoteOf
  <2> QED BY <1>3, <2>1, <2>2, <2>3
<1>6. NotesOf(<<>>) = <<>>
  <2>1. <<>> \in Seq(Events)
        BY EmptySeq
  <2> QED BY <1>3, <2>1, EachOfNone
<1> QED BY <1>4, <1>5, <1>6

\* What one event makes of the depth, of the images held, and of what is said.
Deeper(skip, e) ==
    IF Change(e) = 1 THEN skip + 1
    ELSE IF Change(e) = -1 THEN (IF skip = 0 THEN 0 ELSE skip - 1) ELSE skip
\* The images in hand after an event, and what is said of it.
Held(alts, e) == IF Opens(e, "img") THEN Append(alts, e.attr) ELSE IF e = Close("figure") THEN <<>> ELSE alts
Said(K, b, e) ==
    IF IsData(e) /\ ~(b.skip > 0) THEN Mine(K, TextsIn(e.pieces))
    ELSE IF e = Close("figure") /\ "figure" \in K THEN Notes(b.alts) ELSE <<>>

\* The counter goes down to zero and no further.
LEMMA DeeperType ==
    ASSUME NEW skip \in Nat
    PROVE  Max({0, skip - 1}) = IF skip = 0 THEN 0 ELSE skip - 1
<1>1. 0 \in Int /\ skip - 1 \in Int
      OBVIOUS
<1>2. Max({0, skip - 1}) = IF 0 <= skip - 1 THEN skip - 1 ELSE 0
      BY <1>1, TheGreater
<1> QED BY <1>2

\* Another count of unspoken elements says nothing.
LEMMA SkipChanged ==
    ASSUME NEW b \in Builder, NEW skip \in Nat, NEW K
    PROVE  /\ [b EXCEPT !.skip = skip] \in Builder /\ [b EXCEPT !.skip = skip].skip = skip
           /\ [b EXCEPT !.skip = skip].alts = b.alts /\ Told(K, [b EXCEPT !.skip = skip]) = Told(K, b) \o <<>>
           /\ Grows(b, [b EXCEPT !.skip = skip])
<1> DEFINE c == [b EXCEPT !.skip = skip]
<1>1. c \in Builder /\ c.skip = skip /\ c.alts = b.alts /\ c.blocks = b.blocks /\ c.current = b.current
      BY DEF Builder
<1> HIDE DEF c
<1>2. Told(K, c) = Told(K, b)
      BY <1>1 DEF Told
<1>3. Told(K, b) \o <<>> = Told(K, b)
      BY ToldType, ConcatEmptySeq
<1>4. Grows(b, c)
      BY <1>1, GrowsType DEF Grows
<1> QED BY <1>1, <1>2, <1>3, <1>4 DEF c

\* Other images in hand say nothing.
LEMMA AltsChanged ==
    ASSUME NEW b \in Builder, NEW alts \in Seq(Alts), NEW K
    PROVE  /\ [b EXCEPT !.alts = alts] \in Builder /\ [b EXCEPT !.alts = alts].skip = b.skip
           /\ [b EXCEPT !.alts = alts].alts = alts /\ Told(K, [b EXCEPT !.alts = alts]) = Told(K, b) \o <<>>
           /\ Grows(b, [b EXCEPT !.alts = alts])
<1> DEFINE c == [b EXCEPT !.alts = alts]
<1>1. c \in Builder /\ c.skip = b.skip /\ c.alts = alts /\ c.blocks = b.blocks /\ c.current = b.current
      BY DEF Builder
<1> HIDE DEF c
<1>2. Told(K, c) = Told(K, b)
      BY <1>1 DEF Told
<1>3. Told(K, b) \o <<>> = Told(K, b)
      BY ToldType, ConcatEmptySeq
<1>4. Grows(b, c)
      BY <1>1, GrowsType DEF Grows
<1> QED BY <1>1, <1>2, <1>3, <1>4 DEF c

\* What the block builder makes of an event.
Handles(K, b, e, c) ==
    /\ c \in Builder /\ c.skip = Deeper(b.skip, e) /\ c.alts = Held(b.alts, e)
    /\ Told(K, c) = Told(K, b) \o Said(K, b, e)
    /\ Grows(b, c)

\* What the builder says of one event.
LEMMA HandleSays ==
    ASSUME NEW b \in Builder, NEW e \in Events, NEW K, Uniform(K)
    PROVE  Handles(K, b, e, Handle(b, e))
<1> DEFINE c == Handle(b, e)
<1>1. b.skip \in Nat /\ b.alts \in Seq(Alts)
      BY BuilderType
<1>2. Hears(K, b, <<>>, b)
      BY HearsNothing
<1>3. e = Close("figure") <=> e.event = "close" /\ e.tag = "figure"
  <2>1. e.event = "close" => e = [event |-> "close", tag |-> e.tag]
        BY EventCases
  <2>2. Close("figure").event = "close" /\ Close("figure").tag = "figure"
        BY DEF Close
  <2> QED BY <2>1, <2>2 DEF Close
<1>4. CASE e.event = "open"
  <2>1. c = HandleStart(b, e.tag, e.attr)
        BY <1>4 DEF Handle
  <2> HIDE DEF c
  <2>2. Said(K, b, e) = <<>>
        BY <1>3, <1>4 DEF Said, IsData
  <2>3. CASE e.tag \in Unspoken
    <3>1. c = [b EXCEPT !.skip = b.skip + 1]
          BY <2>1, <2>3 DEF HandleStart, Unspoken
    <3>2. Change(e) = 1 /\ ~Opens(e, "img") /\ e # Close("figure")
          BY <1>3, <1>4, <2>3 DEF Change, Opens, Unspoken
    <3>3. Deeper(b.skip, e) = b.skip + 1 /\ Held(b.alts, e) = b.alts /\ b.skip + 1 \in Nat
          BY <1>1, <3>2 DEF Deeper, Held
    <3>4. c \in Builder /\ c.skip = b.skip + 1 /\ c.alts = b.alts /\ Told(K, c) = Told(K, b) \o <<>> /\ Grows(b, c)
          BY <3>1, <3>3, SkipChanged
    <3> QED BY <2>2, <3>3, <3>4 DEF Handles, c
  <2>4. CASE e.tag = "img"
    <3>1. c = [b EXCEPT !.alts = Append(b.alts, e.attr)]
          BY <2>1, <2>4 DEF HandleStart, Unspoken
    <3>2. Change(e) = 0 /\ Opens(e, "img")
          BY <1>4, <2>4 DEF Change, Opens, Unspoken
    <3>3. Deeper(b.skip, e) = b.skip /\ Held(b.alts, e) = Append(b.alts, e.attr) /\ Append(b.alts, e.attr) \in Seq(Alts)
      <4>1. e.attr \in Alts
            BY <1>4, <2>4, EventCases
      <4> QED BY <1>1, <3>2, <4>1, AppendProperties DEF Deeper, Held
    <3>4. /\ c \in Builder /\ c.skip = b.skip /\ c.alts = Append(b.alts, e.attr)
          /\ Told(K, c) = Told(K, b) \o <<>> /\ Grows(b, c)
          BY <3>1, <3>3, AltsChanged
    <3> QED BY <2>2, <3>3, <3>4 DEF Handles, c
  <2>5. CASE e.tag \notin Unspoken /\ e.tag # "img"
    <3>1. c = IF KindOf(e.tag) = "none" THEN b ELSE OpenBlock(b, KindOf(e.tag))
          BY <2>1, <2>5 DEF HandleStart
    <3>2. Change(e) = 0 /\ ~Opens(e, "img") /\ e # Close("figure")
          BY <1>3, <1>4, <2>5 DEF Change, Opens
    <3>3. Deeper(b.skip, e) = b.skip /\ Held(b.alts, e) = b.alts
          BY <1>1, <3>2 DEF Deeper, Held
    <3>4. Hears(K, b, <<>>, OpenBlock(b, KindOf(e.tag)))
          BY KindOfType, OpenKeeps, HearsNothing
    <3>5. Hears(K, b, <<>>, c)
          BY <1>2, <3>1, <3>4
    <3> QED BY <2>2, <3>3, <3>5 DEF Handles, Hears, c
  <2> QED BY <2>3, <2>4, <2>5
<1>5. CASE e.event = "close"
  <2>1. c = HandleEnd(b, e.tag)
        BY <1>5 DEF Handle
  <2> HIDE DEF c
  <2>2. ~Opens(e, "img") /\ ~IsData(e)
        BY <1>5 DEF Opens, IsData
  <2>3. CASE e.tag \in Unspoken
    <3> DEFINE skip == IF b.skip = 0 THEN 0 ELSE b.skip - 1
    <3>1. c = [b EXCEPT !.skip = skip]
      <4>1. c = [b EXCEPT !.skip = Max({0, b.skip - 1})]
            BY <2>1, <2>3 DEF HandleEnd, Unspoken
      <4>2. Max({0, b.skip - 1}) = skip
            BY <1>1, DeeperType
      <4> QED BY <4>1, <4>2
    <3>2. Change(e) = -1 /\ e # Close("figure")
          BY <1>3, <1>5, <2>3 DEF Change, Unspoken
    <3>3. Deeper(b.skip, e) = skip /\ Held(b.alts, e) = b.alts /\ skip \in Nat /\ Said(K, b, e) = <<>>
          BY <1>1, <2>2, <3>2 DEF Deeper, Held, Said
    <3> HIDE DEF skip
    <3>4. c \in Builder /\ c.skip = skip /\ c.alts = b.alts /\ Told(K, c) = Told(K, b) \o <<>> /\ Grows(b, c)
          BY <3>1, <3>3, SkipChanged
    <3> QED BY <3>3, <3>4 DEF Handles, c
  <2>4. CASE e.tag = "figure"
    <3> DEFINE d == CloseBlock(b)
    <3>1. c = FlushFigure(d)
          BY <2>1, <2>4 DEF HandleEnd, Unspoken
    <3>2. /\ d \in Builder /\ d.current = NoBlock /\ d.skip = b.skip /\ d.alts = b.alts
          /\ Told(K, d) = Told(K, b) /\ Grows(b, d)
          BY CloseKeeps
    <3> HIDE DEF d
    <3>3. /\ c \in Builder /\ c.skip = d.skip /\ c.alts = <<>> /\ Grows(d, c)
          /\ Told(K, c) = Told(K, d) \o (IF "figure" \in K THEN Notes(d.alts) ELSE <<>>)
          BY <3>1, <3>2, FlushKeeps
    <3>4. Change(e) = 0 /\ e = Close("figure")
          BY <1>3, <1>5, <2>4 DEF Change, Unspoken
    <3>5. /\ Deeper(b.skip, e) = b.skip /\ Held(b.alts, e) = <<>>
          /\ Said(K, b, e) = IF "figure" \in K THEN Notes(b.alts) ELSE <<>>
          BY <1>1, <2>2, <3>4 DEF Deeper, Held, Said
    <3>6. Grows(b, c)
          BY <3>2, <3>3, BuilderType, GrowsType
    <3> QED BY <3>2, <3>3, <3>5, <3>6 DEF Handles, c
  <2>5. CASE e.tag \notin Unspoken /\ e.tag # "figure"
    <3>1. c = IF KindOf(e.tag) = "none" THEN b ELSE CloseBlock(b)
          BY <2>1, <2>5 DEF HandleEnd
    <3>2. Change(e) = 0 /\ e # Close("figure")
          BY <1>3, <1>5, <2>5 DEF Change
    <3>3. Deeper(b.skip, e) = b.skip /\ Held(b.alts, e) = b.alts /\ Said(K, b, e) = <<>>
          BY <1>1, <2>2, <3>2 DEF Deeper, Held, Said
    <3>4. Hears(K, b, <<>>, CloseBlock(b))
          BY CloseKeeps, HearsNothing
    <3>5. Hears(K, b, <<>>, c)
          BY <1>2, <3>1, <3>4
    <3> QED BY <3>3, <3>5 DEF Handles, Hears, c
  <2> QED BY <2>3, <2>4, <2>5
<1>6. CASE e.event = "data" /\ e.pieces \in Seq(Piece)
  <2>1. c = HandleData(b, e.pieces)
        BY <1>6 DEF Handle
  <2> HIDE DEF c
  <2>2. Change(e) = 0 /\ ~Opens(e, "img") /\ e # Close("figure") /\ IsData(e)
        BY <1>3, <1>6 DEF Change, Opens, IsData
  <2>3. Deeper(b.skip, e) = b.skip /\ Held(b.alts, e) = b.alts
        BY <1>1, <2>2 DEF Deeper, Held
  <2>4. CASE b.skip > 0
    <3>1. c = b
          BY <1>6, <2>1, <2>4, DataHeard
    <3>2. Said(K, b, e) = <<>>
          BY <2>2, <2>4 DEF Said
    <3> QED BY <1>2, <2>3, <3>1, <3>2 DEF Handles, Hears, c
  <2>5. CASE ~(b.skip > 0)
    <3>1. Hears(K, b, Mine(K, TextsIn(e.pieces)), c)
          BY <1>6, <2>1, <2>5, DataHeard
    <3>2. Said(K, b, e) = Mine(K, TextsIn(e.pieces))
          BY <2>2, <2>5 DEF Said
    <3> QED BY <2>3, <3>1, <3>2 DEF Handles, Hears, c
  <2> QED BY <2>4, <2>5
<1> QED BY <1>4, <1>5, <1>6, EventCases

\* What the XML builder makes of an event.
XmlState == [said : Seq(Texts), skip : Nat, alts : Seq(Alts)]
\* What the braille XML says of an event.
SaidXml(x, e) ==
    IF IsData(e) /\ ~(x.skip > 0) THEN TextsIn(e.pieces)
    ELSE IF e = Close("figure") THEN Notes(x.alts) ELSE <<>>

\* What the XML says of one event.
LEMMA XmlSays ==
    ASSUME NEW x \in XmlState, NEW e \in Events
    PROVE  /\ XmlHandle(x, e) \in XmlState
           /\ XmlHandle(x, e).skip = Deeper(x.skip, e) /\ XmlHandle(x, e).alts = Held(x.alts, e)
           /\ XmlHandle(x, e).said = x.said \o SaidXml(x, e)
<1> DEFINE y == XmlHandle(x, e)
           to == [said |-> x.said \o SaidXml(x, e), skip |-> Deeper(x.skip, e), alts |-> Held(x.alts, e)]
<1>1. /\ x.said \in Seq(Texts) /\ x.skip \in Nat /\ x.alts \in Seq(Alts)
      /\ x = [said |-> x.said, skip |-> x.skip, alts |-> x.alts]
      BY DEF XmlState
<1>2. e = Close("figure") <=> e.event = "close" /\ e.tag = "figure"
  <2>1. e.event = "close" => e = [event |-> "close", tag |-> e.tag]
        BY EventCases
  <2>2. Close("figure").event = "close" /\ Close("figure").tag = "figure"
        BY DEF Close
  <2> QED BY <2>1, <2>2 DEF Close
<1>3. \A said, skip, alts : /\ [x EXCEPT !.said = said] = [said |-> said, skip |-> x.skip, alts |-> x.alts]
                            /\ [x EXCEPT !.skip = skip] = [said |-> x.said, skip |-> skip, alts |-> x.alts]
                            /\ [x EXCEPT !.alts = alts] = [said |-> x.said, skip |-> x.skip, alts |-> alts]
                            /\ [x EXCEPT !.said = said, !.alts = alts] = [said |-> said, skip |-> x.skip, alts |-> alts]
  <2> TAKE said, skip, alts
  <2> HIDE DEF y, to
  <2>1. [x EXCEPT !.said = said] = [said |-> said, skip |-> x.skip, alts |-> x.alts]
        BY DEF XmlState
  <2>2. [x EXCEPT !.skip = skip] = [said |-> x.said, skip |-> skip, alts |-> x.alts]
        BY DEF XmlState
  <2>3. [x EXCEPT !.alts = alts] = [said |-> x.said, skip |-> x.skip, alts |-> alts]
        BY DEF XmlState
  <2>4. [x EXCEPT !.said = said, !.alts = alts] = [[x EXCEPT !.said = said] EXCEPT !.alts = alts]
        OBVIOUS
  <2>5. [[said |-> said, skip |-> x.skip, alts |-> x.alts] EXCEPT !.alts = alts]
            = [said |-> said, skip |-> x.skip, alts |-> alts]
        OBVIOUS
  <2>6. [x EXCEPT !.said = said, !.alts = alts] = [said |-> said, skip |-> x.skip, alts |-> alts]
        BY <2>1, <2>4, <2>5
  <2> QED BY ONLY <2>1, <2>2, <2>3, <2>6
<1>4. x.said \o <<>> = x.said /\ \A s \in Seq(Texts) : x.said \o s \in Seq(Texts)
      BY <1>1, ConcatEmptySeq, ConcatProperties
<1>5. /\ Notes(x.alts) \in Seq(Texts) /\ <<>> \in Seq(Texts) /\ <<>> \in Seq(Alts)
      /\ (IsData(e) => TextsIn(e.pieces) \in Seq(Texts))
  <2>1. IsData(e) => e.pieces \in Seq(Piece)
        BY EventCases DEF IsData
  <2> QED BY <1>1, <2>1, NotesType, TextsInType, EmptySeq
<1>6. SaidXml(x, e) \in Seq(Texts)
      BY <1>5 DEF SaidXml
<1>7. Held(x.alts, e) \in Seq(Alts)
  <2>1. Opens(e, "img") => e.attr \in Alts
        BY EventCases DEF Opens
  <2>2. Opens(e, "img") => Append(x.alts, e.attr) \in Seq(Alts)
        BY <1>1, <2>1, AppendProperties
  <2> QED BY <1>1, <1>5, <2>2 DEF Held
<1>8. Deeper(x.skip, e) \in Nat
      BY <1>1 DEF Deeper
<1>9. y = to
  <2>1. CASE e.event = "data" /\ x.skip > 0
    <3>1. y = x
          BY <1>2, <2>1 DEF XmlHandle, Opens, Unspoken
    <3>2. /\ Change(e) = 0 /\ ~Opens(e, "img") /\ e # Close("figure") /\ IsData(e)
          BY <1>2, <2>1 DEF Change, Opens, IsData
    <3>3. to = [said |-> x.said, skip |-> x.skip, alts |-> x.alts]
      <4>1. SaidXml(x, e) = <<>>
            BY <2>1, <3>2 DEF SaidXml
      <4>2. Deeper(x.skip, e) = x.skip /\ Held(x.alts, e) = x.alts
            BY <3>2 DEF Deeper, Held
      <4> QED BY <1>4, <4>1, <4>2
    <3> HIDE DEF y, to
    <3> QED BY <1>1, <3>1, <3>3
  <2>2. CASE e.event = "data" /\ ~(x.skip > 0)
    <3>1. y = [x EXCEPT !.said = x.said \o TextsIn(e.pieces)]
          BY <1>2, <2>2 DEF XmlHandle, Opens, Unspoken
    <3>2. /\ Change(e) = 0 /\ ~Opens(e, "img") /\ e # Close("figure") /\ IsData(e)
          BY <1>2, <2>2 DEF Change, Opens, IsData
    <3>3. to = [said |-> x.said \o TextsIn(e.pieces), skip |-> x.skip, alts |-> x.alts]
      <4>1. SaidXml(x, e) = TextsIn(e.pieces)
            BY <2>2, <3>2 DEF SaidXml
      <4>2. Deeper(x.skip, e) = x.skip /\ Held(x.alts, e) = x.alts
            BY <3>2 DEF Deeper, Held
      <4> QED BY <4>1, <4>2
    <3> HIDE DEF y, to
    <3> QED BY <1>3, <3>1, <3>3
  <2>3. CASE e.event = "open" /\ e.tag \in Unspoken
    <3>1. y = [x EXCEPT !.skip = x.skip + 1]
          BY <2>3 DEF XmlHandle, Opens, Unspoken, Close
    <3>2. /\ Change(e) = 1 /\ ~Opens(e, "img") /\ e # Close("figure") /\ ~IsData(e)
          BY <1>2, <2>3 DEF Change, Opens, IsData, Unspoken
    <3>3. to = [said |-> x.said, skip |-> x.skip + 1, alts |-> x.alts]
          BY <1>4, <3>2 DEF SaidXml, Deeper, Held
    <3> HIDE DEF y, to
    <3> QED BY <1>3, <3>1, <3>3
  <2>4. CASE e.event = "close" /\ e.tag \in Unspoken
    <3> DEFINE skip == IF x.skip = 0 THEN 0 ELSE x.skip - 1
    <3>0. Max({0, x.skip - 1}) = skip
          BY <1>1, DeeperType
    <3>1. y = [x EXCEPT !.skip = skip]
      <4>1. y = [x EXCEPT !.skip = Max({0, x.skip - 1})]
            BY <1>2, <2>4 DEF XmlHandle, Opens, Unspoken
      <4> QED BY <3>0, <4>1
    <3>2. /\ Change(e) = -1 /\ ~Opens(e, "img") /\ e # Close("figure") /\ ~IsData(e)
          BY <1>2, <2>4 DEF Change, Opens, IsData, Unspoken
    <3>3. to = [said |-> x.said, skip |-> skip, alts |-> x.alts]
          BY <1>4, <3>2 DEF SaidXml, Deeper, Held
    <3> HIDE DEF y, to, skip
    <3> QED BY <1>3, <3>1, <3>3
  <2>5. CASE Opens(e, "img")
    <3>1. y = [x EXCEPT !.alts = Append(x.alts, e.attr)]
          BY <1>2, <2>5 DEF XmlHandle, Opens, Unspoken
    <3>2. /\ Change(e) = 0 /\ e # Close("figure") /\ ~IsData(e)
          BY <1>2, <2>5 DEF Change, Opens, IsData, Unspoken
    <3>3. to = [said |-> x.said, skip |-> x.skip, alts |-> Append(x.alts, e.attr)]
          BY <1>4, <2>5, <3>2 DEF SaidXml, Deeper, Held
    <3> HIDE DEF y, to
    <3> QED BY <1>3, <3>1, <3>3
  <2>6. CASE e = Close("figure")
    <3>1. y = [x EXCEPT !.said = x.said \o Notes(x.alts), !.alts = <<>>]
          BY <1>2, <2>6 DEF XmlHandle, Opens, Unspoken, Notes
    <3>2. /\ Change(e) = 0 /\ ~Opens(e, "img") /\ ~IsData(e)
          BY <1>2, <2>6 DEF Change, Opens, IsData, Unspoken
    <3>3. to = [said |-> x.said \o Notes(x.alts), skip |-> x.skip, alts |-> <<>>]
      <4>1. SaidXml(x, e) = Notes(x.alts)
            BY <2>6, <3>2 DEF SaidXml
      <4>2. Deeper(x.skip, e) = x.skip /\ Held(x.alts, e) = <<>>
            BY <2>6, <3>2 DEF Deeper, Held
      <4> QED BY <4>1, <4>2
    <3> HIDE DEF y, to
    <3> QED BY <1>3, <3>1, <3>3
  <2>7. CASE e.event # "data" /\ e.tag \notin Unspoken /\ ~Opens(e, "img") /\ e # Close("figure")
    <3>1. y = x
          BY <2>7 DEF XmlHandle
    <3>2. /\ Change(e) = 0 /\ ~IsData(e)
          BY <2>7 DEF Change, IsData
    <3>3. to = [said |-> x.said, skip |-> x.skip, alts |-> x.alts]
          BY <1>4, <2>7, <3>2 DEF SaidXml, Deeper, Held
    <3> HIDE DEF y, to
    <3> QED BY <1>1, <3>1, <3>3
  <2>8. e.event \in {"open", "close", "data"}
        BY EventCases
  <2> QED BY <2>1, <2>2, <2>3, <2>4, <2>5, <2>6, <2>7, <2>8
<1>10. to \in XmlState
      BY <1>4, <1>6, <1>7, <1>8 DEF XmlState
<1> HIDE DEF y
<1>11. y.skip = Deeper(x.skip, e) /\ y.alts = Held(x.alts, e) /\ y.said = x.said \o SaidXml(x, e)
      BY <1>9
<1> QED BY <1>9, <1>10, <1>11 DEF y

\* What the two builders have made of the page so far.
BothOK(page, b, x) ==
    /\ b \in Builder /\ x \in XmlState /\ x.skip = b.skip /\ x.alts = b.alts
    /\ Deep(page, b.skip)
    /\ Told(OpenKinds, b) = Spoken(page)
    /\ Told(Kinds, b) = x.said
    /\ Told({"figure"}, b) \o Notes(b.alts) = NotesOf(page)

\* The three kinds of listener the builder is compared for.
LEMMA UniformKinds ==
    /\ Uniform(OpenKinds) /\ Uniform(Kinds) /\ Uniform({"figure"})
    /\ \A s : Mine(OpenKinds, s) = s /\ Mine(Kinds, s) = s /\ Mine({"figure"}, s) = <<>>
    /\ "figure" \notin OpenKinds /\ "figure" \in Kinds
      BY DEF Uniform, Mine, OpenKinds, Kinds

\* What either says of an event, counter and images being the same.
LEMMA SaidByBoth ==
    ASSUME NEW b, NEW x, x.skip = b.skip, x.alts = b.alts, NEW e
    PROVE  /\ Said(OpenKinds, b, e) = IF IsData(e) /\ ~(b.skip > 0) THEN TextsIn(e.pieces) ELSE <<>>
           /\ Said(Kinds, b, e) = SaidXml(x, e)
           /\ Said({"figure"}, b, e) = IF ~IsData(e) /\ e = Close("figure") THEN Notes(b.alts) ELSE <<>>
<1>1. Said(OpenKinds, b, e) = IF IsData(e) /\ ~(b.skip > 0) THEN TextsIn(e.pieces) ELSE <<>>
      BY UniformKinds, Zenon DEF Said
<1>2. Said(Kinds, b, e) = SaidXml(x, e)
      BY UniformKinds, Zenon DEF Said, SaidXml
<1>3. ~IsData(e) \/ e # Close("figure")
      BY DEF IsData, Close
<1>4. Said({"figure"}, b, e) = IF ~IsData(e) /\ e = Close("figure") THEN Notes(b.alts) ELSE <<>>
  <2>1. "figure" \in {"figure"}
        OBVIOUS
  <2> QED BY <1>3, <2>1, UniformKinds, Zenon DEF Said
<1> QED BY <1>1, <1>2, <1>4, Zenon

\* The images in hand and those said are all the images there were.
LEMMA NotesHeld ==
    ASSUME NEW alts \in Seq(Alts), NEW e \in Events, NEW t \in Seq(Texts)
    PROVE  (t \o (IF ~IsData(e) /\ e = Close("figure") THEN Notes(alts) ELSE <<>>)) \o Notes(Held(alts, e))
             = (t \o Notes(alts)) \o (IF Opens(e, "img") THEN <<Note(e.attr)>> ELSE <<>>)
<1>1. Notes(alts) \in Seq(Texts) /\ Notes(<<>>) = <<>>
      BY NotesType
<1>2. t \o <<>> = t /\ (t \o Notes(alts)) \o <<>> = t \o Notes(alts)
  <2>1. t \o Notes(alts) \in Seq(Texts)
        BY <1>1, ConcatProperties
  <2> QED BY <2>1, ConcatEmptySeq
<1>3. CASE Opens(e, "img")
  <2>1. e # Close("figure")
        BY <1>3 DEF Opens, Close
  <2>2. e.attr \in Alts
        BY <1>3, EventCases DEF Opens
  <2>3. Held(alts, e) = Append(alts, e.attr)
        BY <1>3 DEF Held
  <2>4. Notes(Held(alts, e)) = Notes(alts) \o <<Note(e.attr)>> /\ Note(e.attr) \in Texts
        BY <2>2, <2>3, NotesType
  <2>5. <<Note(e.attr)>> \in Seq(Texts)
        BY <2>4
  <2>6. (t \o Notes(alts)) \o <<Note(e.attr)>> = t \o (Notes(alts) \o <<Note(e.attr)>>)
        BY <1>1, <2>5, Associative
  <2> QED BY <1>2, <1>3, <2>1, <2>4, <2>6, Zenon
<1>4. CASE e = Close("figure")
  <2>1. ~Opens(e, "img") /\ ~IsData(e)
        BY <1>4 DEF Opens, Close, IsData
  <2>2. Held(alts, e) = <<>>
        BY <1>4, <2>1, Zenon DEF Held
  <2> QED BY <1>1, <1>2, <1>4, <2>1, <2>2, Zenon
<1>5. CASE ~Opens(e, "img") /\ e # Close("figure")
  <2>1. Held(alts, e) = alts
        BY <1>5, Zenon DEF Held
  <2> QED BY <1>2, <1>5, <2>1, Zenon
<1> QED BY <1>3, <1>4, <1>5

\* One event more keeps the two builders in step.
LEMMA BothMore ==
    ASSUME NEW page \in Seq(Events), NEW e \in Events, NEW b, NEW x, BothOK(page, b, x)
    PROVE  BothOK(Append(page, e), Handle(b, e), XmlHandle(x, e))
<1> DEFINE c == Handle(b, e)
           y == XmlHandle(x, e)
           more == Append(page, e)
<1>1. b \in Builder /\ x \in XmlState /\ x.skip = b.skip /\ x.alts = b.alts /\ Deep(page, b.skip)
      BY DEF BothOK
<1>2. /\ Handles(OpenKinds, b, e, c) /\ Handles(Kinds, b, e, c) /\ Handles({"figure"}, b, e, c)
      BY <1>1, HandleSays, UniformKinds
<1>3. /\ y \in XmlState /\ y.skip = Deeper(x.skip, e) /\ y.alts = Held(x.alts, e)
      /\ y.said = x.said \o SaidXml(x, e)
      BY <1>1, XmlSays
<1> HIDE DEF c, y
<1>4. c \in Builder /\ c.skip = Deeper(b.skip, e) /\ c.alts = Held(b.alts, e)
      BY <1>2 DEF Handles
<1>5. Deep(more, c.skip)
      BY <1>1, <1>4, DeepMore DEF Deeper
<1>6. Told(OpenKinds, c) = Spoken(more)
  <2>1. Told(OpenKinds, c) = Told(OpenKinds, b) \o Said(OpenKinds, b, e)
        BY <1>2 DEF Handles
  <2>2. Told(OpenKinds, b) = Spoken(page)
        BY DEF BothOK
  <2>3. Hushed(page, Len(page) + 1) <=> b.skip > 0
        BY <1>1, DeepIsHushed
  <2>4. Said(OpenKinds, b, e) = IF IsData(e) /\ ~Hushed(page, Len(page) + 1) THEN TextsIn(e.pieces) ELSE <<>>
        BY <1>1, <2>3, SaidByBoth, Zenon
  <2> QED BY <2>1, <2>2, <2>4, SpokenMore, Zenon
<1>7. Told(Kinds, c) = y.said
  <2>1. Told(Kinds, c) = Told(Kinds, b) \o Said(Kinds, b, e)
        BY <1>2 DEF Handles
  <2>2. Told(Kinds, b) = x.said
        BY DEF BothOK
  <2> QED BY <1>1, <1>3, <2>1, <2>2, SaidByBoth, Zenon
<1>8. Told({"figure"}, c) \o Notes(c.alts) = NotesOf(more)
  <2> DEFINE t == Told({"figure"}, b)
  <2>1. Told({"figure"}, c) = t \o Said({"figure"}, b, e)
        BY <1>2 DEF Handles
  <2>2. t \o Notes(b.alts) = NotesOf(page)
        BY DEF BothOK
  <2>3. t \in Seq(Texts) /\ b.alts \in Seq(Alts)
        BY <1>1, ToldType, BuilderType
  <2>4. NotesOf(more) = NotesOf(page) \o (IF Opens(e, "img") THEN <<Note(e.attr)>> ELSE <<>>)
        BY NotesOfMore
  <2>5. Said({"figure"}, b, e) = IF ~IsData(e) /\ e = Close("figure") THEN Notes(b.alts) ELSE <<>>
        BY <1>1, SaidByBoth
  <2> HIDE DEF t
  <2> QED BY <1>4, <2>1, <2>2, <2>3, <2>4, <2>5, NotesHeld, Zenon
<1> QED BY <1>1, <1>3, <1>4, <1>5, <1>6, <1>7, <1>8 DEF BothOK, c, y

\* The braille XML before the first event.
XmlBegin == [said |-> <<>>, skip |-> 0, alts |-> <<>>]

\* Both begin having said nothing.
LEMMA BothBegin == BothOK(<<>>, Empty, XmlBegin)
<1>1. NoBlock = [kind |-> "none", runs |-> <<>>] /\ "none" \in OpenKinds /\ NoBlock \in Block /\ NoBlock.runs = <<>>
      BY NoBlockType
<1>2. <<>> \in Seq(Block) /\ <<>> \in Seq(Texts) /\ <<>> \in Seq(Alts) /\ <<>> \in Seq(Events)
      BY EmptySeq
<1>3. Empty \in Builder /\ Empty.skip = 0 /\ Empty.alts = <<>> /\ Empty.blocks = <<>> /\ Empty.current = NoBlock
      BY <1>1, <1>2, BuilderMade DEF Empty
<1>4. XmlBegin \in XmlState /\ XmlBegin.skip = 0 /\ XmlBegin.alts = <<>> /\ XmlBegin.said = <<>>
      BY <1>2 DEF XmlBegin, XmlState
<1>5. ASSUME NEW K PROVE Told(K, Empty) = <<>>
  <2>1. Each(Runs(K), <<>>) = <<>>
        BY EachOfNone
  <2>2. Runs(K)[NoBlock] = <<>>
        BY <1>1, RunsType
  <2> QED BY <1>2, <1>3, <2>1, <2>2, ConcatEmptySeq DEF Told
<1>6. Spoken(<<>>) = <<>>
  <2>1. Spoken(<<>>) = FlattenSeq(SpokenBy(<<>>)) /\ SpokenBy(<<>>) \in Seq(Seq(Texts)) /\ Len(SpokenBy(<<>>)) = 0
        BY <1>2, SpokenType
  <2>2. SpokenBy(<<>>) = <<>>
        BY <2>1, EmptySeq
  <2> QED BY <2>1, <2>2, EachOfNone DEF FlattenSeq
<1>7. NotesOf(<<>>) = <<>> /\ Notes(<<>>) = <<>> /\ <<>> \o <<>> = <<>>
      BY <1>2, NotesOfMore, NotesType, ConcatEmptySeq
<1>8. Deep(<<>>, 0)
      BY DEF Deep
<1> QED BY <1>3, <1>4, <1>5, <1>6, <1>7, <1>8 DEF BothOK

\* So they are in step on every page.
LEMMA BothAreOK ==
    \A page \in Seq(Events) : BothOK(page, HandleFold!Fold(Empty, page), XmlFold!Fold(XmlBegin, page))
<1> DEFINE T == {page \in Seq(Events) : BothOK(page, HandleFold!Fold(Empty, page), XmlFold!Fold(XmlBegin, page))}
<1> HIDE DEF T
<1>1. <<>> \in T
  <2>1. HandleFold!Fold(Empty, <<>>) = Empty /\ XmlFold!Fold(XmlBegin, <<>>) = XmlBegin
        BY HandleFold!FoldEmpty, XmlFold!FoldEmpty
  <2> QED BY <2>1, BothBegin, EmptySeq DEF T
<1>2. ASSUME NEW page \in Seq(Events), NEW e \in Events, page \in T PROVE Append(page, e) \in T
  <2> DEFINE b == HandleFold!Fold(Empty, page)
             x == XmlFold!Fold(XmlBegin, page)
             c == HandleFold!Fold(Empty, Append(page, e))
             y == XmlFold!Fold(XmlBegin, Append(page, e))
  <2>1. c = Handle(b, e)
        BY HandleFold!FoldAppend
  <2>2. y = XmlHandle(x, e)
        BY XmlFold!FoldAppend
  <2>3. BothOK(page, b, x)
        BY <1>2 DEF T
  <2>4. Append(page, e) \in Seq(Events)
        BY AppendProperties
  <2> HIDE DEF b, x, c, y
  <2>5. BothOK(Append(page, e), c, y)
        BY <2>1, <2>2, <2>3, BothMore
  <2> QED BY <2>4, <2>5 DEF T, c, y
<1>3. \A page \in Seq(Events) : page \in T
      BY <1>1, <1>2, HandleFold!SeqInduction
<1> QED BY <1>3 DEF T

\* What is left of the page once it ends.
LEMMA BodyBlocksAre ==
    ASSUME NEW page \in Seq(Events), NEW b, NEW x, b = HandleFold!Fold(Empty, page),
           x = XmlFold!Fold(XmlBegin, page)
    PROVE  /\ BodyBlocks(page) \in Seq(Block) /\ BothOK(page, b, x)
           /\ BodyBlocks(page) = CloseBlock(b).blocks \o Figures(b.alts)
           /\ \A K : Each(Runs(K), BodyBlocks(page)) = Told(K, b) \o (IF "figure" \in K THEN Notes(b.alts) ELSE <<>>)
           /\ BrailleXml(page) = x.said \o Notes(x.alts)
<1> DEFINE closed == CloseBlock(b)
           end == FlushFigure(closed)
<1>1. BothOK(page, b, x) /\ b \in Builder
      BY BothAreOK DEF BothOK
<1>2. BodyBlocks(page) = end.blocks
  <2>1. FoldLeft(Handle, Empty, page) = HandleFold!Fold(Empty, page)
        BY Zenon DEF FoldLeft, MapThenFoldSet, HandleFold!Fold, Max
  <2> QED BY <2>1 DEF BodyBlocks
<1>3. BrailleXml(page) = x.said \o Notes(x.alts)
  <2>1. FoldLeft(XmlHandle, XmlBegin, page) = XmlFold!Fold(XmlBegin, page)
        BY Zenon DEF FoldLeft, MapThenFoldSet, XmlFold!Fold, Max
  <2> QED BY <2>1 DEF BrailleXml, XmlBegin, Notes
<1>4. closed \in Builder /\ closed.current = NoBlock /\ closed.alts = b.alts
      BY <1>1, CloseKeeps
<1> HIDE DEF closed
<1>5. end \in Builder /\ end.current = NoBlock /\ end.blocks = closed.blocks \o Figures(closed.alts)
      BY <1>4, FlushKeeps
<1>6. ASSUME NEW K
      PROVE  Each(Runs(K), end.blocks) = Told(K, b) \o (IF "figure" \in K THEN Notes(b.alts) ELSE <<>>)
  <2>1. Told(K, closed) = Told(K, b)
        BY <1>1, CloseKeeps DEF closed
  <2>2. Told(K, end) = Told(K, closed) \o (IF "figure" \in K THEN Notes(closed.alts) ELSE <<>>)
        BY <1>4, FlushKeeps
  <2> HIDE DEF end
  <2>3. Runs(K)[end.current] = <<>>
        BY <1>5, NoBlockType, RunsType
  <2>4. Each(Runs(K), end.blocks) \in Seq(Texts)
        BY <1>5, BuilderType, RunsOf
  <2>5. Told(K, end) = Each(Runs(K), end.blocks)
        BY <2>3, <2>4, ConcatEmptySeq DEF Told
  <2> QED BY <1>4, <2>1, <2>2, <2>5
<1>7. BodyBlocks(page) \in Seq(Block)
      BY <1>2, <1>5, BuilderType
<1> HIDE DEF end
<1> QED BY <1>1, <1>2, <1>3, <1>4, <1>5, <1>6, <1>7 DEF closed

\* The texts of some blocks, as runs of the kinds that count.
LEMMA TextsAreRuns ==
    ASSUME NEW blocks \in Seq(Block)
    PROVE  /\ TextsOf(blocks) = Each(Runs(Kinds), blocks)
           /\ OtherTexts(blocks) = Each(Runs(OpenKinds), blocks)
           /\ FigureTexts(blocks) = Each(Runs({"figure"}), blocks)
<1>1. ASSUME NEW i \in DOMAIN blocks PROVE blocks[i] \in Block /\ blocks[i].kind \in Kinds
  <2>1. blocks[i] \in Block
        OBVIOUS
  <2> QED BY <2>1 DEF Block
<1>2. \A i \in DOMAIN blocks : Runs(Kinds)[blocks[i]] = blocks[i].runs
      BY <1>1, RunsType
<1>3. \A i \in DOMAIN blocks :
        Runs(OpenKinds)[blocks[i]] = IF blocks[i].kind = "figure" THEN <<>> ELSE blocks[i].runs
  <2>1. \A kind \in Kinds : kind \in OpenKinds <=> kind # "figure"
        BY DEF OpenKinds
  <2> QED BY <1>1, <2>1, RunsType
<1>4. \A i \in DOMAIN blocks :
        Runs({"figure"})[blocks[i]] = IF blocks[i].kind = "figure" THEN blocks[i].runs ELSE <<>>
      BY <1>1, RunsType
<1>5. [i \in DOMAIN blocks |-> blocks[i].runs] = [i \in DOMAIN blocks |-> Runs(Kinds)[blocks[i]]]
      BY <1>2
<1>6. [i \in DOMAIN blocks |-> IF blocks[i].kind = "figure" THEN <<>> ELSE blocks[i].runs]
        = [i \in DOMAIN blocks |-> Runs(OpenKinds)[blocks[i]]]
      BY <1>3
<1>7. [i \in DOMAIN blocks |-> IF blocks[i].kind = "figure" THEN blocks[i].runs ELSE <<>>]
        = [i \in DOMAIN blocks |-> Runs({"figure"})[blocks[i]]]
      BY <1>4
<1> QED BY <1>5, <1>6, <1>7, Zenon DEF TextsOf, OtherTexts, FigureTexts, Each

\* The braille and its XML tell a reader the words of any page, in its order,
\* however its tags, page marks and figures cut it into blocks.
THEOREM BrailleSaysAll == Spec => []ReadsInOrder
<1>1. TypeOK => ReadsInOrder
  <2> SUFFICES ASSUME TypeOK PROVE ReadsInOrder
        OBVIOUS
  <2> DEFINE b == HandleFold!Fold(Empty, Page)
             x == XmlFold!Fold(XmlBegin, Page)
             blocks == BodyBlocks(Page)
  <2>1. Page \in Seq(Events)
        BY PageType
  <2> HIDE DEF b, x
  <2>2. /\ blocks \in Seq(Block) /\ BothOK(Page, b, x)
        /\ \A K : Each(Runs(K), blocks) = Told(K, b) \o (IF "figure" \in K THEN Notes(b.alts) ELSE <<>>)
        /\ BrailleXml(Page) = x.said \o Notes(x.alts)
    <3>1. b = HandleFold!Fold(Empty, Page) /\ x = XmlFold!Fold(XmlBegin, Page)
          BY DEF b, x
    <3> QED BY <2>1, <3>1, BodyBlocksAre
  <2> HIDE DEF blocks
  <2>3. OtherTexts(blocks) = Spoken(Page)
    <3>1. Told(OpenKinds, b) = Spoken(Page) /\ b \in Builder
          BY <2>2 DEF BothOK
    <3>2. Each(Runs(OpenKinds), blocks) = Told(OpenKinds, b) \o <<>>
          BY <2>2, UniformKinds
    <3>3. Told(OpenKinds, b) \o <<>> = Told(OpenKinds, b)
          BY <3>1, ToldType, ConcatEmptySeq
    <3> QED BY <2>2, <3>1, <3>2, <3>3, TextsAreRuns
  <2>4. TextsOf(blocks) = BrailleXml(Page)
    <3>1. Told(Kinds, b) = x.said /\ x.alts = b.alts
          BY <2>2 DEF BothOK
    <3>2. Each(Runs(Kinds), blocks) = Told(Kinds, b) \o Notes(b.alts)
          BY <2>2, UniformKinds
    <3> QED BY <2>2, <3>1, <3>2, TextsAreRuns
  <2> QED BY <2>3, <2>4 DEF ReadsInOrder, blocks
<1> QED BY <1>1, TypeCorrect, PTL

\* From any place of a page on, blocks are only added.
LEMMA BlocksGrow ==
    ASSUME NEW page \in Seq(Events)
    PROVE  \A rest \in Seq(Events) :
             Grows(HandleFold!Fold(Empty, page), HandleFold!Fold(Empty, page \o rest))
<1> DEFINE b == HandleFold!Fold(Empty, page)
           T == {rest \in Seq(Events) : Grows(b, HandleFold!Fold(Empty, page \o rest))}
<1>1. b \in Builder /\ b.blocks \in Seq(Block)
      BY BothAreOK, BuilderType DEF BothOK
<1> HIDE DEF b, T
<1>2. <<>> \in T
  <2>1. page \o <<>> = page
        BY ConcatEmptySeq
  <2>2. Grows(b, HandleFold!Fold(Empty, page \o <<>>))
        BY <1>1, <2>1, GrowsType DEF b
  <2> QED BY <2>2, EmptySeq DEF T
<1>3. ASSUME NEW rest \in Seq(Events), NEW e \in Events, rest \in T PROVE Append(rest, e) \in T
  <2> DEFINE p == page \o rest
             c == HandleFold!Fold(Empty, p)
             d == HandleFold!Fold(Empty, Append(p, e))
  <2>1. p \in Seq(Events) /\ Append(rest, e) \in Seq(Events)
        BY ConcatProperties, AppendProperties
  <2>2. page \o Append(rest, e) = Append(p, e)
        BY AppendIsConcat, Associative
  <2> HIDE DEF p
  <2>3. c \in Builder /\ d = Handle(c, e)
        BY <2>1, BothAreOK, HandleFold!FoldAppend DEF BothOK
  <2>4. Grows(b, c)
        BY <1>3 DEF T, p
  <2> HIDE DEF c, d
  <2>5. Grows(c, d)
        BY <2>3, HandleSays, UniformKinds DEF Handles
  <2>6. Grows(b, d)
        BY <1>1, <2>4, <2>5, GrowsType
  <2> QED BY <2>1, <2>2, <2>6 DEF T, d
<1>4. \A rest \in Seq(Events) : rest \in T
      BY <1>2, <1>3, HandleFold!SeqInduction
<1> QED BY <1>4 DEF T, b

\* What comes first of two sequences, taken off again.
LEMMA FirstOfConcat ==
    ASSUME NEW E, NEW s \in Seq(E), NEW t \in Seq(E)
    PROVE  SubSeq(s \o t, 1, Len(s)) = s
<1>1. CASE s = <<>>
      BY <1>1, EmptySeq, SubSeqEmpty
<1>2. CASE s # <<>>
  <2>1. Len(s) \in 1..Len(s) /\ 1 \in 1..Len(s)
        BY <1>2, EmptySeq, LenProperties
  <2>2. SubSeq(s \o t, 1, Len(s)) = SubSeq(s, 1, Len(s))
        BY <2>1, SubSeqOfConcat1
  <2> QED BY <2>2, SubSeqFull
<1> QED BY <1>1, <1>2

\* A figure that ends leaves nothing open and nothing held.
LEMMA FigureEnds ==
    ASSUME NEW page \in Seq(Events), NEW b, b = HandleFold!Fold(Empty, Append(page, Close("figure")))
    PROVE  b \in Builder /\ b.current = NoBlock /\ b.alts = <<>> /\ BodyBlocks(Append(page, Close("figure"))) = b.blocks
<1> DEFINE a == HandleFold!Fold(Empty, page)
           e == Close("figure")
           more == Append(page, e)
<1>1. e \in Events /\ e.event = "close" /\ e.tag = "figure"
      BY TagsAreEvents DEF Close
<1>2. a \in Builder /\ more \in Seq(Events)
      BY <1>1, BothAreOK, AppendProperties DEF BothOK
<1>3. b = Handle(a, e)
      BY <1>1, HandleFold!FoldAppend
<1> HIDE DEF a
<1>4. b = FlushFigure(CloseBlock(a))
      BY <1>1, <1>3 DEF Handle, HandleEnd, Unspoken
<1>5. CloseBlock(a) \in Builder /\ CloseBlock(a).current = NoBlock
      BY <1>2, CloseKeeps
<1>6. b \in Builder /\ b.current = NoBlock /\ b.alts = <<>>
      BY <1>4, <1>5, FlushKeeps
<1>7. BodyBlocks(more) = CloseBlock(b).blocks \o Figures(b.alts)
  <2> HIDE DEF more
  <2>1. b = HandleFold!Fold(Empty, more)
        BY DEF more
  <2> QED BY <1>2, <2>1, BodyBlocksAre
<1>8. Figures(b.alts) = <<>>
      BY <1>6 DEF Figures
<1>9. CloseBlock(b).blocks = b.blocks
  <2>1. b.current.runs = <<>>
        BY <1>6, NoBlockType
  <2> QED BY <1>6, <2>1 DEF CloseBlock, Builder
<1>10. b.blocks \o <<>> = b.blocks
      BY <1>6, BuilderType, ConcatEmptySeq
<1> QED BY <1>6, <1>7, <1>8, <1>9, <1>10

\* Every image of a page is announced once, and a figure's before what follows it.
THEOREM ImagesAreAnnounced == Spec => []ImagesAnnounced
<1>1. TypeOK => ImagesAnnounced
  <2> SUFFICES ASSUME TypeOK PROVE ImagesAnnounced
        OBVIOUS
  <2> DEFINE whole == BodyBlocks(Page)
  <2>1. Page \in Seq(Events) /\ body \in Seq(Seq(Events)) /\ \A n \in DOMAIN body : body[n] # <<>>
    <3>1. Page \in Seq(Events)
          BY PageType
    <3>2. body \in Seq(Seq(Events) \ {<<>>})
          BY DEF TypeOK
    <3>3. \A n \in DOMAIN body : body[n] \in Seq(Events) \ {<<>>}
          BY <3>2
    <3>4. body \in Seq(Seq(Events))
          BY <3>2
    <3> QED BY <3>1, <3>3, <3>4
  <2>2. PICK c, x : c = HandleFold!Fold(Empty, Page) /\ x = XmlFold!Fold(XmlBegin, Page)
        OBVIOUS
  <2>3. /\ whole \in Seq(Block) /\ BothOK(Page, c, x)
        /\ whole = CloseBlock(c).blocks \o Figures(c.alts)
        /\ \A K : Each(Runs(K), whole) = Told(K, c) \o (IF "figure" \in K THEN Notes(c.alts) ELSE <<>>)
        BY <2>1, <2>2, BodyBlocksAre
  <2>4. c \in Builder /\ c.alts \in Seq(Alts) /\ Told({"figure"}, c) \o Notes(c.alts) = NotesOf(Page)
        BY <2>3, BuilderType DEF BothOK
  <2> HIDE DEF whole
  <2>5. FigureTexts(whole) = NotesOf(Page)
    <3>1. Each(Runs({"figure"}), whole) = Told({"figure"}, c) \o Notes(c.alts)
          BY <2>3
    <3> QED BY <2>3, <2>4, <3>1, TextsAreRuns
  <2>6. ASSUME NEW n \in DOMAIN body, Last(body[n]) = Close("figure"),
               NEW sofar, sofar = BodyBlocks(FlattenSeq(SubSeq(body, 1, n)))
        PROVE  sofar = SubSeq(whole, 1, Len(sofar))
    <3> DEFINE start == SubSeq(body, 1, n - 1)
               upto == SubSeq(body, 1, n)
               after == SubSeq(body, n + 1, Len(body))
               p == FlattenSeq(upto)
               rest == FlattenSeq(after)
               q == FlattenSeq(start) \o Front(body[n])
    <3>1. n \in 1..Len(body) /\ n - 1 \in 0..(Len(body) - 1) /\ (n - 1) + 1 = n
          BY <2>1
    <3>2. after \in Seq(Seq(Events)) /\ upto \in Seq(Seq(Events)) /\ body = upto \o after
      <4>1. \A i \in 1..Len(body) : body[i] \in Seq(Events)
            BY <2>1
      <4>2. after \in Seq(Seq(Events)) /\ upto \in Seq(Seq(Events))
            BY <3>1, <4>1, SubSeqProperties
      <4>3. 1 \in 1..(Len(body) + 1) /\ n \in (1 - 1)..Len(body) /\ Len(body) \in n..Len(body)
            BY <3>1
      <4>4. SubSeq(body, 1, n) \o SubSeq(body, n + 1, Len(body)) = SubSeq(body, 1, Len(body))
            BY <2>1, <4>3, ConcatAdjacentSubSeq
      <4> QED BY <2>1, <4>2, <4>4, SubSeqFull
    <3>3. /\ FlattenSeq(start) \in Seq(Events) /\ body[n] \in Seq(Events)
          /\ p = FlattenSeq(start) \o body[n]
          BY <2>1, <3>1, FlattenFirst
    <3>4. /\ Front(body[n]) \in Seq(Events) /\ body[n] = Append(Front(body[n]), Close("figure"))
          BY <2>1, <2>6, <3>3, FrontLast
    <3>5. Page = p \o rest
          BY <3>2, FlattenConcat DEF Page
    <3>6. rest \in Seq(Events)
          BY <3>2, FlattenConcat, FlattenType
    <3> HIDE DEF start, upto, after, rest
    <3>7. q \in Seq(Events) /\ p = Append(q, Close("figure"))
      <4>1. <<Close("figure")>> \in Seq(Events)
            BY TagsAreEvents
      <4>2. q \in Seq(Events)
            BY <3>3, <3>4, ConcatProperties
      <4>3. body[n] = Front(body[n]) \o <<Close("figure")>>
            BY <3>4, TagsAreEvents, AppendIsConcat
      <4>4. p = q \o <<Close("figure")>>
        <5> DEFINE s == FlattenSeq(start)
                   f == Front(body[n])
                   g == <<Close("figure")>>
        <5>1. s \in Seq(Events) /\ f \in Seq(Events) /\ g \in Seq(Events)
              BY <3>3, <3>4, <4>1
        <5>2. p = s \o (f \o g) /\ q = s \o f
              BY <3>3, <4>3
        <5> HIDE DEF s, f, g, p, q
        <5>3. (s \o f) \o g = s \o (f \o g)
              BY <5>1, Associative
        <5> QED BY <5>2, <5>3 DEF g
      <4> HIDE DEF q
      <4> QED BY <4>2, <4>4, TagsAreEvents, AppendIsConcat
    <3> HIDE DEF p, q
    <3> DEFINE b == HandleFold!Fold(Empty, p)
    <3>8. b \in Builder /\ sofar = b.blocks /\ p \in Seq(Events)
      <4>1. sofar = BodyBlocks(p)
            BY <2>6 DEF p, upto
      <4> QED BY <3>7, <4>1, TagsAreEvents, AppendProperties, FigureEnds
    <3>9. Grows(b, c)
          BY <2>2, <3>5, <3>6, <3>8, BlocksGrow
    <3> HIDE DEF b
    <3>10. Grows(c, CloseBlock(c)) /\ sofar \in Seq(Block)
          BY <2>4, <3>8, CloseKeeps, BuilderType
    <3>11. Grows(b, CloseBlock(c))
          BY <3>8, <3>9, <3>10, GrowsType
    <3>12. PICK more \in Seq(Block) : CloseBlock(c).blocks = sofar \o more
          BY <3>8, <3>11 DEF Grows
    <3>13. Figures(c.alts) \in Seq(Block)
          BY <2>4, FiguresSay
    <3>14. whole = sofar \o (more \o Figures(c.alts))
          BY <2>3, <3>10, <3>12, <3>13, Associative
    <3>15. more \o Figures(c.alts) \in Seq(Block)
          BY <3>13, ConcatProperties
    <3> QED BY <3>10, <3>14, <3>15, FirstOfConcat
  <2> QED BY <2>5, <2>6 DEF ImagesAnnounced, whole
<1> QED BY <1>1, TypeCorrect, PTL

(***************************************************************************)
(* Braille on lines: no cell is lost                                       *)
(***************************************************************************)
\* The cells, and the blank within a label that is cut off.
Cell == STRING \union {" "}
CellWord == Seq(Cell)

\* Where a token is cut lies within it, at most one cell beyond the width, and
\* then after a break mark.
LEMMA CutType ==
    ASSUME NEW rest \in CellWord, NEW width \in Nat \ {0}, Len(rest) > width
    PROVE  /\ Cut(rest, width) \in 1..Len(rest)
           /\ \/ Cut(rest, width) <= width
              \/ Cut(rest, width) = width + 1 /\ rest[Cut(rest, width)] \in BreakAfter
<1> DEFINE marks == {i \in 2..Len(rest) : i <= width + 1 /\ rest[i] \in BreakAfter}
<1>1. Len(rest) \in Nat
      BY DEF CellWord
<1>2. CASE marks = {}
  <2>1. Cut(rest, width) = width
        BY <1>2 DEF Cut
  <2> QED BY <1>1, <2>1
<1>3. CASE marks # {}
  <2>1. Cut(rest, width) = Max(marks)
        BY <1>3 DEF Cut
  <2>2. marks \in SUBSET (1..Len(rest))
        BY <1>1
  <2>3. CallFold!Greatest(marks) \in marks
    <3> HIDE DEF marks
    <3> QED BY <1>1, <1>3, <2>2, CallFold!GreatestExists
  <2>4. Max(marks) = CallFold!Greatest(marks)
        BY DEF Max, CallFold!Greatest
  <2>5. Cut(rest, width) \in marks
        BY <2>1, <2>3, <2>4
  <2> QED BY <1>1, <2>5
<1> QED BY <1>2, <1>3

\* What BreakLongToken makes of a token from its i-th cell on.
PiecesFrom(token, width, f, i) ==
    LET rest == SubSeq(token, i, Len(token))
        cut == Cut(rest, width)
    IN  IF Len(rest) <= width THEN <<rest>>
        ELSE <<SubSeq(rest, 1, cut)>> \o (IF cut = Len(rest) THEN <<>> ELSE f[i + cut])
\* A token's divisions into pieces, from each of its letters on.
Divides(token, width, f) == f = [i \in 1..Len(token) |-> PiecesFrom(token, width, f, i)]

\* The function BreakLongToken chooses is one that divides the token.
LEMMA BreakIsDivision ==
    ASSUME NEW token \in CellWord, NEW width \in Nat \ {0}, Len(token) > width
    PROVE  BreakLongToken(token, width) = (CHOOSE f : Divides(token, width, f))[1]
<1>1. ~(width < 1 \/ Len(token) <= width)
      BY DEF CellWord
<1> QED BY <1>1 DEF BreakLongToken, Divides, PiecesFrom

\* The pieces from a cell on hang only on those from later cells on.
LEMMA PiecesFromAgree ==
    ASSUME NEW token \in CellWord, NEW width \in Nat \ {0}, NEW i \in 1..Len(token), NEW f, NEW g,
           \A j \in (i + 1)..Len(token) : f[j] = g[j]
    PROVE  PiecesFrom(token, width, f, i) = PiecesFrom(token, width, g, i)
<1> DEFINE n == Len(token)
           rest == SubSeq(token, i, n)
           cut == Cut(rest, width)
<1>1. n \in Nat /\ rest \in CellWord /\ Len(rest) = n - i + 1
      BY SubSeqProperties DEF CellWord
<1> HIDE DEF n, rest
<1>2. CASE Len(rest) <= width
      BY <1>2 DEF PiecesFrom, rest, n
<1>3. CASE ~(Len(rest) <= width)
  <2>1. Len(rest) > width
        BY <1>1, <1>3
  <2>2. cut \in 1..Len(rest)
        BY <1>1, <2>1, CutType
  <2> HIDE DEF cut
  <2>3. cut # Len(rest) => f[i + cut] = g[i + cut]
    <3>1. cut # Len(rest) => i + cut \in (i + 1)..n
          BY <1>1, <2>2
    <3> QED BY <3>1 DEF n
  <2>4. \A h : PiecesFrom(token, width, h, i)
                 = <<SubSeq(rest, 1, cut)>> \o (IF cut = Len(rest) THEN <<>> ELSE h[i + cut])
        BY <1>3, Zenon DEF PiecesFrom, rest, n, cut
  <2> QED BY <2>3, <2>4, Zenon
<1> QED BY <1>2, <1>3

\* There is such a function: every tail of the token is longer than the next.
LEMMA DivisionExists ==
    ASSUME NEW token \in CellWord, NEW width \in Nat \ {0}
    PROVE  \E f : Divides(token, width, f)
<1> DEFINE n == Len(token)
           Body(f, i) == PiecesFrom(token, width, f, i)
           From(k) == (n - k + 1)..n
           T == {k \in 0..n : \E f : f = [i \in From(k) |-> Body(f, i)]}
<1>1. n \in Nat
      BY DEF CellWord
<1>2. ASSUME NEW i \in 1..n, NEW f, NEW g, \A j \in (i + 1)..n : f[j] = g[j] PROVE Body(f, i) = Body(g, i)
      BY <1>2, PiecesFromAgree
<1> HIDE DEF n, Body
<1>3. 0 \in T
  <2>1. From(0) = {}
        BY <1>1
  <2>2. <<>> = [i \in From(0) |-> Body(<<>>, i)]
        BY <2>1
  <2> HIDE DEF From
  <2>3. \E f : f = [i \in From(0) |-> Body(f, i)]
        BY <2>2
  <2>4. 0 \in 0..n
        BY <1>1
  <2> QED BY <2>3, <2>4
<1>4. ASSUME NEW k \in 0..(n - 1), k \in T PROVE k + 1 \in T
  <2>1. PICK f : f = [i \in From(k) |-> Body(f, i)]
        BY <1>4
  <2> DEFINE m == n - k
             g == [i \in From(k + 1) |-> IF i = m THEN Body(f, m) ELSE f[i]]
  <2>2. m \in 1..n /\ From(k) = (m + 1)..n /\ From(k + 1) = m..n /\ k + 1 \in 0..n
        BY <1>1
  <2> HIDE DEF m, From
  <2>3. \A j \in (m + 1)..n : g[j] = f[j]
        BY <1>1, <2>2
  <2>4. g[m] = Body(f, m)
        BY <1>1, <2>2
  <2>5. \A i \in m..n : g[i] = Body(g, i)
    <3> SUFFICES ASSUME NEW i \in m..n PROVE g[i] = Body(g, i)
          OBVIOUS
    <3>1. i \in 1..n /\ \A j \in (i + 1)..n : f[j] = g[j]
          BY <1>1, <2>2, <2>3
    <3>2. Body(f, i) = Body(g, i)
          BY <1>2, <3>1
    <3> HIDE DEF g
    <3>3. CASE i = m
          BY <2>4, <3>2, <3>3
    <3>4. CASE i # m
      <4>1. i \in (m + 1)..n
            BY <1>1, <2>2, <3>4
      <4>2. f[i] = Body(f, i)
            BY <2>1, <2>2, <4>1
      <4> QED BY <2>3, <3>2, <4>1, <4>2
    <3> QED BY <3>3, <3>4
  <2>6. g = [i \in From(k + 1) |-> g[i]]
        OBVIOUS
  <2> HIDE DEF g
  <2>7. g = [i \in From(k + 1) |-> Body(g, i)]
        BY <2>2, <2>5, <2>6
  <2> QED BY <2>2, <2>7
<1> HIDE DEF T
<1>5. n \in T
  <2>1. \A k \in 0..n : k \in T
        BY <1>1, <1>3, <1>4, JoinFold!BoundedInduction
  <2> QED BY <1>1, <2>1
<1>6. From(n) = 1..n
      BY <1>1
<1> QED BY <1>5, <1>6 DEF T, Divides, n, Body

\* A piece of a token: it fits, or it ends in a break point one cell further.
PieceOK(piece, width) ==
    Len(piece) <= width \/ (Len(piece) = width + 1 /\ Last(piece) \in BreakAfter)

\* It loses no cell of the token, and every piece fits or ends in a mark.
LEMMA DivisionLosesNothing ==
    ASSUME NEW token \in CellWord, NEW width \in Nat \ {0}, NEW f, Divides(token, width, f), Len(token) > 0
    PROVE  /\ f[1] \in Seq(CellWord) /\ FlattenSeq(f[1]) = token
           /\ \A k \in DOMAIN f[1] : PieceOK(f[1][k], width)
<1> DEFINE n == Len(token)
           Good(i) == /\ f[i] \in Seq({piece \in CellWord : PieceOK(piece, width)})
                      /\ FlattenSeq(f[i]) = SubSeq(token, i, n)
           T == {k \in 0..n : \A i \in (n - k + 1)..n : Good(i)}
<1>1. n \in Nat /\ n # 0
      BY DEF CellWord
<1>2. 0 \in T
      BY <1>1
<1> DEFINE Piece0 == {piece \in CellWord : PieceOK(piece, width)}
<1>3. ASSUME NEW i \in 1..n, \A j \in (i + 1)..n : Good(j) PROVE Good(i)
  <2> DEFINE rest == SubSeq(token, i, n)
             cut == Cut(rest, width)
  <2>1. rest \in CellWord /\ Len(rest) = n - i + 1
        BY <1>1, SubSeqProperties DEF CellWord
  <2>2. f[i] = PiecesFrom(token, width, f, i)
        BY DEF Divides
  <2> HIDE DEF Good, Piece0
  <2>3. CASE Len(rest) <= width
    <3>1. f[i] = <<rest>>
          BY <2>2, <2>3, Zenon DEF PiecesFrom
    <3> HIDE DEF rest
    <3>2. rest \in Piece0
      <4>1. PieceOK(rest, width)
            BY <2>3 DEF PieceOK
      <4> QED BY <2>1, <4>1 DEF Piece0
    <3>3. <<rest>> \in Seq(Piece0) /\ FlattenSeq(<<rest>>) = rest
          BY <2>1, <3>2, FlattenOne DEF CellWord
    <3> QED BY <3>1, <3>3 DEF Good, rest, Piece0
  <2>4. CASE ~(Len(rest) <= width)
    <3> DEFINE head == SubSeq(rest, 1, cut)
               tail == IF cut = Len(rest) THEN <<>> ELSE f[i + cut]
    <3>1. f[i] = <<head>> \o tail
          BY <2>2, <2>4, Zenon DEF PiecesFrom
    <3>2. /\ cut \in 1..Len(rest)
          /\ cut <= width \/ (cut = width + 1 /\ rest[cut] \in BreakAfter)
      <4>1. Len(rest) > width
            BY <2>1, <2>4
      <4> HIDE DEF rest
      <4> QED BY <2>1, <4>1, CutType
    <3>3. head = SubSeq(token, i, i + cut - 1) /\ head \in CellWord /\ Len(head) = cut /\ Last(head) = rest[cut]
      <4> HIDE DEF cut
      <4>1. 1 \in 1..(n - i + 1) /\ cut \in 1..(n - i + 1)
            BY <1>1, <2>1, <3>2
      <4>2. SubSeq(SubSeq(token, i, n), 1, cut) = SubSeq(token, i + 1 - 1, i + cut - 1)
            BY <1>1, <4>1, SubSeqOfSubSeq DEF CellWord
      <4> HIDE DEF rest
      <4>3. head \in CellWord /\ Len(head) = cut /\ head[cut] = rest[cut]
            BY <2>1, <3>2, SubSeqProperties DEF CellWord
      <4>4. head = SubSeq(token, i, i + cut - 1)
        <5>1. i + 1 - 1 = i /\ i \in Int
              BY <1>1
        <5> QED BY <4>2, <5>1, Zenon DEF rest
      <4> QED BY <4>3, <4>4 DEF Last
    <3>4. head \in Piece0
          BY <3>2, <3>3 DEF Piece0, PieceOK
    <3>5. tail \in Seq(Piece0) /\ FlattenSeq(tail) = SubSeq(token, i + cut, n)
      <4> HIDE DEF rest, cut, head
      <4>1. CASE cut = Len(rest)
        <5>1. i + cut = n + 1 /\ n \in Int /\ n + 1 \in Int /\ n < n + 1
              BY <1>1, <2>1, <4>1
        <5>2. SubSeq(token, i + cut, n) = <<>>
              BY <5>1, SubSeqEmpty
        <5> QED BY <4>1, <5>2, FlattenEmpty, EmptySeq
      <4>2. CASE cut # Len(rest)
        <5>1. i + cut \in (i + 1)..n
              BY <1>1, <2>1, <3>2, <4>2
        <5>2. Good(i + cut)
              BY <1>3, <5>1
        <5> QED BY <4>2, <5>2 DEF Good, Piece0
      <4> QED BY <4>1, <4>2
    <3>6. <<head>> \in Seq(Piece0) /\ <<head>> \in Seq(CellWord) /\ tail \in Seq(CellWord)
      <4>1. \A s \in Seq(Piece0) : s \in Seq(CellWord)
            BY DEF Piece0
      <4> HIDE DEF head, tail, Piece0
      <4>2. <<head>> \in Seq(Piece0) /\ tail \in Seq(Piece0)
            BY <3>4, <3>5
      <4> QED BY <4>1, <4>2
    <3>7. FlattenSeq(<<head>> \o tail) = head \o FlattenSeq(tail)
      <4> HIDE DEF head, tail
      <4>1. FlattenSeq(<<head>>) = head
            BY <3>3, FlattenOne DEF CellWord
      <4> QED BY <3>6, <4>1, FlattenConcat DEF CellWord
    <3>8. SubSeq(token, i, i + cut - 1) \o SubSeq(token, i + cut, n) = rest
      <4> HIDE DEF cut
      <4> DEFINE k == i + cut - 1
      <4>1. i \in 1..(Len(token) + 1) /\ k \in (i - 1)..Len(token) /\ n \in k..Len(token) /\ k + 1 = i + cut
            BY <1>1, <2>1, <3>2
      <4> HIDE DEF k
      <4>2. SubSeq(token, i, k) \o SubSeq(token, k + 1, n) = SubSeq(token, i, n)
            BY <4>1, ConcatAdjacentSubSeq DEF CellWord
      <4> QED BY <4>1, <4>2 DEF k
    <3>9. <<head>> \o tail \in Seq(Piece0)
      <4> HIDE DEF head, tail
      <4> QED BY <3>5, <3>6, ConcatProperties
    <3> HIDE DEF tail
    <3>10. FlattenSeq(f[i]) = rest
          BY <3>1, <3>3, <3>5, <3>7, <3>8
    <3> QED BY <3>1, <3>9, <3>10 DEF Good, Piece0
  <2> QED BY <2>3, <2>4
<1> HIDE DEF Good
<1>4. ASSUME NEW k \in 0..(n - 1), k \in T PROVE k + 1 \in T
  <2>1. n - k \in 1..n /\ k + 1 \in 0..n /\ (n - k) + 1 = n - k + 1
        BY <1>1
  <2>2. \A j \in ((n - k) + 1)..n : Good(j)
        BY <1>4, <2>1
  <2>3. Good(n - k)
        BY <1>3, <2>1, <2>2
  <2>4. \A i \in (n - (k + 1) + 1)..n : i = n - k \/ i \in ((n - k) + 1)..n
        BY <1>1
  <2> QED BY <2>1, <2>2, <2>3, <2>4
<1> HIDE DEF T
<1>5. n \in T
  <2> HIDE DEF n
  <2>1. \A k \in 0..n : k \in T
        BY <1>1, <1>2, <1>4, JoinFold!BoundedInduction
  <2> QED BY <1>1, <2>1
<1>6. Good(1)
      BY <1>1, <1>5 DEF T
<1>7. SubSeq(token, 1, n) = token
      BY SubSeqFull DEF CellWord
<1> QED BY <1>6, <1>7 DEF Good

\* A token is divided into pieces that fit, and every cell of it is kept.
LEMMA BreakKeeps ==
    ASSUME NEW token \in CellWord, NEW width \in Int
    PROVE  /\ BreakLongToken(token, width) \in Seq(CellWord)
           /\ FlattenSeq(BreakLongToken(token, width)) = token
           /\ width >= 1 => \A k \in DOMAIN BreakLongToken(token, width) :
                                PieceOK(BreakLongToken(token, width)[k], width)
<1>1. Len(token) \in Nat
      BY DEF CellWord
<1>2. CASE width < 1 \/ Len(token) <= width
  <2>1. BreakLongToken(token, width) = <<token>>
        BY <1>2 DEF BreakLongToken
  <2>2. <<token>> \in Seq(CellWord) /\ FlattenSeq(<<token>>) = token
        BY FlattenOne DEF CellWord
  <2>3. width >= 1 => PieceOK(token, width)
        BY <1>1, <1>2 DEF PieceOK
  <2> QED BY <2>1, <2>2, <2>3
<1>3. CASE ~(width < 1 \/ Len(token) <= width)
  <2> DEFINE f == CHOOSE f : Divides(token, width, f)
  <2>1. width \in Nat \ {0} /\ Len(token) > width /\ Len(token) > 0
        BY <1>1, <1>3
  <2>2. Divides(token, width, f)
        BY <2>1, DivisionExists
  <2>3. BreakLongToken(token, width) = f[1]
        BY <2>1, BreakIsDivision
  <2> HIDE DEF f
  <2> QED BY <2>1, <2>2, <2>3, DivisionLosesNothing
<1> QED BY <1>2, <1>3

\* What some things say in braille, each of them the words f has for it.
Inked(f, s) == Ink(Each(f, s))

\* The ink of what a function makes of each member of a sequence.
LEMMA InkedOf ==
    ASSUME NEW D, NEW f \in [D -> Seq(CellWord)]
    PROVE  /\ \A s \in Seq(D) : Each(f, s) \in Seq(CellWord) /\ Inked(f, s) \in CellWord
           /\ \A s, t \in Seq(D) : Inked(f, s \o t) = Inked(f, s) \o Inked(f, t)
           /\ \A s \in Seq(D), d \in D : Inked(f, Append(s, d)) = Inked(f, s) \o Ink(f[d])
           /\ Inked(f, <<>>) = <<>>
<1>1. \A s \in Seq(D) : Each(f, s) \in Seq(CellWord)
      BY EachType
<1>2. \A s \in Seq(D) : Inked(f, s) \in CellWord
      BY <1>1, FlattenType DEF Inked, Ink, CellWord
<1>3. ASSUME NEW s \in Seq(D), NEW t \in Seq(D) PROVE Inked(f, s \o t) = Inked(f, s) \o Inked(f, t)
  <2>1. Each(f, s \o t) = Each(f, s) \o Each(f, t)
        BY EachOfBoth
  <2>2. Each(f, s) \in Seq(CellWord) /\ Each(f, t) \in Seq(CellWord)
        BY <1>1
  <2> QED BY <2>1, <2>2, FlattenConcat DEF Inked, Ink, CellWord
<1>4. ASSUME NEW s \in Seq(D), NEW d \in D PROVE Inked(f, Append(s, d)) = Inked(f, s) \o Ink(f[d])
  <2>1. Each(f, Append(s, d)) = Each(f, s) \o f[d]
        BY EachOfMore
  <2>2. Each(f, s) \in Seq(CellWord) /\ f[d] \in Seq(CellWord)
        BY <1>1
  <2> QED BY <2>1, <2>2, FlattenConcat DEF Inked, Ink, CellWord
<1>5. Inked(f, <<>>) = <<>>
      BY EachOfNone, FlattenEmpty DEF Inked, Ink
<1> QED BY <1>1, <1>2, <1>3, <1>4, <1>5

\* The words of a block as pieces for its lines.
LEMMA PiecesKeep ==
    ASSUME NEW words \in Seq(CellWord), NEW first \in Int, NEW runover \in Int
    PROVE  /\ Pieces(words, first, runover) \in Seq(CellWord)
           /\ Ink(Pieces(words, first, runover)) = Ink(words)
<1> DEFINE u == CellsPerLine - Max({first, runover})
           brk == [w \in CellWord |-> BreakLongToken(w, u)]
           T == {s \in Seq(CellWord) : Inked(brk, s) = Ink(s)}
<1>1. u \in Int
  <2>1. Max({first, runover}) \in Int
        BY TheGreater
  <2> QED BY <2>1, PageAssumption
<1> HIDE DEF u
<1>2. brk \in [CellWord -> Seq(CellWord)] /\ \A w \in CellWord : Ink(brk[w]) = w
      BY <1>1, BreakKeeps DEF Ink
<1>3. Pieces(words, first, runover) = Each(brk, words)
  <2>1. \A i \in DOMAIN words : words[i] \in CellWord
        OBVIOUS
  <2>2. [i \in DOMAIN words |-> brk[words[i]]] = [i \in DOMAIN words |-> BreakLongToken(words[i], u)]
        BY <2>1
  <2> QED BY <2>2, Zenon DEF Pieces, Each, u
<1> HIDE DEF brk
<1>4. /\ \A s \in Seq(CellWord) : Each(brk, s) \in Seq(CellWord)
      /\ \A s \in Seq(CellWord), w \in CellWord : Inked(brk, Append(s, w)) = Inked(brk, s) \o Ink(brk[w])
      /\ Inked(brk, <<>>) = <<>>
  <2> DEFINE D == CellWord
  <2>1. brk \in [D -> Seq(CellWord)]
        BY <1>2
  <2> HIDE DEF D
  <2>2. /\ \A s \in Seq(D) : Each(brk, s) \in Seq(CellWord)
        /\ \A s \in Seq(D), w \in D : Inked(brk, Append(s, w)) = Inked(brk, s) \o Ink(brk[w])
        /\ Inked(brk, <<>>) = <<>>
        BY <2>1, InkedOf
  <2> QED BY <2>2 DEF D
<1>5. <<>> \in T
      BY <1>4, FlattenEmpty, EmptySeq DEF Ink
<1>6. ASSUME NEW s \in Seq(CellWord), NEW w \in CellWord, s \in T PROVE Append(s, w) \in T
  <2>1. Inked(brk, Append(s, w)) = Ink(s) \o w
        BY <1>2, <1>4, <1>6
  <2>2. Ink(Append(s, w)) = Ink(s) \o w
        BY FlattenAppend DEF Ink, CellWord
  <2> QED BY <2>1, <2>2, AppendProperties
<1> HIDE DEF T
<1>7. \A s \in Seq(CellWord) : s \in T
      BY <1>5, <1>6, JoinFold!SeqInduction
<1>8. Inked(brk, words) = Ink(words)
      BY <1>7 DEF T
<1> QED BY <1>3, <1>4, <1>8 DEF Inked

\* The lines of braille, and the text they are wrapped into.
Line == [indent : Int, words : Seq(CellWord)]
WordsOf == [line \in Line |-> line.words]
Text == [done : Seq(Line), line : Line, runover : Int]
WrapFold == INSTANCE Folding WITH Op <- AddWord

\* The dots of lines put one after the other.
LEMMA DotsOf ==
    /\ \A s \in Seq(Line) : Inked(WordsOf, s) \in CellWord
    /\ \A s, t \in Seq(Line) : Inked(WordsOf, s \o t) = Inked(WordsOf, s) \o Inked(WordsOf, t)
    /\ \A s \in Seq(Line), line \in Line : Inked(WordsOf, Append(s, line)) = Inked(WordsOf, s) \o Ink(line.words)
    /\ Inked(WordsOf, <<>>) = <<>>
<1> DEFINE f == WordsOf
<1>1. f \in [Line -> Seq(CellWord)] /\ \A line \in Line : f[line] = line.words
      BY DEF WordsOf, Line
<1> HIDE DEF f
<1>2. /\ \A s \in Seq(Line) : Inked(f, s) \in CellWord
      /\ \A s, t \in Seq(Line) : Inked(f, s \o t) = Inked(f, s) \o Inked(f, t)
      /\ \A s \in Seq(Line), d \in Line : Inked(f, Append(s, d)) = Inked(f, s) \o Ink(f[d])
      /\ Inked(f, <<>>) = <<>>
      BY <1>1, InkedOf
<1> QED BY <1>1, <1>2 DEF f

\* A word goes on the line that is being filled, or on a new one.
LEMMA AddWordCases ==
    ASSUME NEW text \in Text, NEW w \in CellWord, NEW longer,
           longer = [indent |-> text.line.indent, words |-> Append(text.line.words, w)]
    PROVE  /\ longer \in Line
           /\ \/ /\ text.line.words = <<>> \/ Width(longer.words) + longer.indent <= CellsPerLine
                 /\ AddWord(text, w) = [done |-> text.done, line |-> longer, runover |-> text.runover]
              \/ /\ text.line.words # <<>> /\ ~(Width(longer.words) + longer.indent <= CellsPerLine)
                 /\ AddWord(text, w) = [done |-> Append(text.done, text.line), runover |-> text.runover,
                                        line |-> [indent |-> text.runover, words |-> <<w>>]]
<1>1. text.line \in Line /\ text.line.words \in Seq(CellWord) /\ text.line.indent \in Int
      BY DEF Text, Line
<1>2. Append(text.line.words, w) \in Seq(CellWord)
      BY <1>1, AppendProperties
<1>3. longer \in Line
      BY <1>1, <1>2 DEF Line
<1>4. [text.line EXCEPT !.words = Append(text.line.words, w)] = longer
  <2>1. ASSUME NEW line \in Line, NEW words
        PROVE  [line EXCEPT !.words = words] = [indent |-> line.indent, words |-> words]
        BY DEF Line
  <2> DEFINE line == text.line
             words == Append(text.line.words, w)
  <2>2. line \in Line /\ longer = [indent |-> line.indent, words |-> words]
        BY <1>1
  <2> HIDE DEF line, words
  <2>3. [line EXCEPT !.words = words] = [indent |-> line.indent, words |-> words]
        BY <2>1, <2>2
  <2> QED BY <2>2, <2>3 DEF line, words
<1> DEFINE fits == text.line.words = <<>> \/ Width(longer.words) + longer.indent <= CellsPerLine
<1>5. AddWord(text, w) = IF fits THEN [text EXCEPT !.line = longer]
                         ELSE [text EXCEPT !.done = Append(text.done, text.line),
                                           !.line = [indent |-> text.runover, words |-> <<w>>]]
      BY <1>4, Zenon DEF AddWord, LineOf
<1>6. [text EXCEPT !.line = longer] = [done |-> text.done, line |-> longer, runover |-> text.runover]
  <2>1. \A line : [text EXCEPT !.line = line] = [done |-> text.done, line |-> line, runover |-> text.runover]
        BY ONLY text \in Text DEF Text
  <2> QED BY <2>1
<1>7. ASSUME NEW done, NEW line
      PROVE  [text EXCEPT !.done = done, !.line = line] = [done |-> done, line |-> line, runover |-> text.runover]
  <2>1. [text EXCEPT !.done = done, !.line = line] = [[text EXCEPT !.done = done] EXCEPT !.line = line]
        OBVIOUS
  <2>2. [text EXCEPT !.done = done] = [done |-> done, line |-> text.line, runover |-> text.runover]
        BY DEF Text
  <2>3. [[done |-> done, line |-> text.line, runover |-> text.runover] EXCEPT !.line = line]
            = [done |-> done, line |-> line, runover |-> text.runover]
        OBVIOUS
  <2> QED BY <2>1, <2>2, <2>3
<1>8. [text EXCEPT !.done = Append(text.done, text.line), !.line = [indent |-> text.runover, words |-> <<w>>]]
        = [done |-> Append(text.done, text.line), line |-> [indent |-> text.runover, words |-> <<w>>],
           runover |-> text.runover]
      BY <1>7
<1>9. CASE fits
  <2>1. AddWord(text, w) = [done |-> text.done, line |-> longer, runover |-> text.runover]
        BY <1>5, <1>6, <1>9, Zenon
  <2> QED BY <1>3, <1>9, <2>1
<1>10. CASE ~fits
  <2>1. AddWord(text, w) = [done |-> Append(text.done, text.line), line |-> [indent |-> text.runover, words |-> <<w>>],
                            runover |-> text.runover]
        BY <1>5, <1>8, <1>10, Zenon
  <2> QED BY <1>3, <1>10, <2>1
<1> QED BY <1>9, <1>10

\* What a text that is being set says so far.
Dots(text) == Inked(WordsOf, text.done) \o Ink(text.line.words)

\* Adding a word adds its cells, after those of the text.
LEMMA AddWordSays ==
    ASSUME NEW text \in Text, NEW w \in CellWord
    PROVE  AddWord(text, w) \in Text /\ Dots(AddWord(text, w)) = Dots(text) \o w
<1> DEFINE longer == [indent |-> text.line.indent, words |-> Append(text.line.words, w)]
           more == AddWord(text, w)
           D == Inked(WordsOf, text.done)
           L == Ink(text.line.words)
<1>1. text.line \in Line /\ text.line.words \in Seq(CellWord) /\ text.done \in Seq(Line) /\ text.runover \in Int
      BY DEF Text, Line
<1>2. D \in CellWord /\ L \in CellWord
      BY <1>1, DotsOf, FlattenType DEF Ink, CellWord
<1>3. longer \in Line /\ \/ more = [done |-> text.done, line |-> longer, runover |-> text.runover]
                         \/ more = [done |-> Append(text.done, text.line), runover |-> text.runover,
                                    line |-> [indent |-> text.runover, words |-> <<w>>]]
      BY AddWordCases
<1>4. longer.words = Append(text.line.words, w) /\ Dots(text) = D \o L
      BY DEF Dots
<1> HIDE DEF longer, more, D, L
<1>5. CASE more = [done |-> text.done, line |-> longer, runover |-> text.runover]
  <2>1. more \in Text
        BY <1>1, <1>3, <1>5 DEF Text
  <2>2. Ink(longer.words) = L \o w
        BY <1>1, <1>4, FlattenAppend DEF Ink, CellWord, L
  <2>3. Dots(more) = D \o (L \o w)
        BY <1>5, <2>2 DEF Dots, D
  <2>4. (D \o L) \o w = D \o (L \o w)
        BY <1>2, Associative DEF CellWord
  <2> QED BY <1>4, <2>1, <2>3, <2>4 DEF more
<1>6. CASE more = [done |-> Append(text.done, text.line), runover |-> text.runover,
                   line |-> [indent |-> text.runover, words |-> <<w>>]]
  <2>1. Append(text.done, text.line) \in Seq(Line) /\ <<w>> \in Seq(CellWord)
        BY <1>1, AppendProperties
  <2>2. [indent |-> text.runover, words |-> <<w>>] \in Line
        BY <1>1, <2>1 DEF Line
  <2>3. more \in Text
        BY <1>1, <1>6, <2>1, <2>2 DEF Text
  <2>4. Inked(WordsOf, Append(text.done, text.line)) = D \o L
        BY <1>1, DotsOf DEF D, L
  <2>5. Ink(<<w>>) = w
        BY FlattenOne DEF Ink, CellWord
  <2>6. Dots(more) = (D \o L) \o w
        BY <1>6, <2>4, <2>5 DEF Dots
  <2> QED BY <1>4, <2>3, <2>6 DEF more
<1> QED BY <1>3, <1>5, <1>6

\* Adding words adds their cells, in order.
LEMMA AddWordsSay ==
    ASSUME NEW text \in Text, Dots(text) = <<>>
    PROVE  \A s \in Seq(CellWord) : WrapFold!Fold(text, s) \in Text /\ Dots(WrapFold!Fold(text, s)) = Ink(s)
<1> DEFINE T == {s \in Seq(CellWord) : WrapFold!Fold(text, s) \in Text /\ Dots(WrapFold!Fold(text, s)) = Ink(s)}
<1>1. <<>> \in T
      BY WrapFold!FoldEmpty, FlattenEmpty, EmptySeq DEF Ink
<1>2. ASSUME NEW s \in Seq(CellWord), NEW w \in CellWord, s \in T PROVE Append(s, w) \in T
  <2> DEFINE a == WrapFold!Fold(text, s)
             b == WrapFold!Fold(text, Append(s, w))
  <2>1. a \in Text /\ Dots(a) = Ink(s)
        BY <1>2
  <2>2. b = AddWord(a, w)
        BY WrapFold!FoldAppend
  <2> HIDE DEF a, b
  <2>3. b \in Text /\ Dots(b) = Ink(s) \o w
        BY <2>1, <2>2, AddWordSays
  <2>4. Ink(Append(s, w)) = Ink(s) \o w
        BY FlattenAppend DEF Ink, CellWord
  <2>5. Append(s, w) \in Seq(CellWord)
        BY AppendProperties
  <2> QED BY <2>3, <2>4, <2>5 DEF b
<1> HIDE DEF T
<1>3. \A s \in Seq(CellWord) : s \in T
      BY <1>1, <1>2, WrapFold!SeqInduction
<1> QED BY <1>3 DEF T

\* A text as it is begun.
Begun(first, runover) == [done |-> <<>>, line |-> LineOf(first, <<>>), runover |-> runover]

\* A text that is begun holds no cell.
LEMMA BegunType ==
    ASSUME NEW first \in Int, NEW runover \in Int
    PROVE  Begun(first, runover) \in Text /\ Dots(Begun(first, runover)) = <<>>
<1>1. <<>> \in Seq(Line) /\ <<>> \in Seq(CellWord) /\ <<>> \o <<>> = <<>>
      BY EmptySeq, ConcatEmptySeq
<1>2. Begun(first, runover) \in Text
      BY <1>1 DEF Begun, Text, Line, LineOf
<1>3. Dots(Begun(first, runover)) = <<>>
      BY <1>1, DotsOf, FlattenEmpty DEF Dots, Begun, LineOf, Ink
<1> QED BY <1>2, <1>3

\* Wrap adds the pieces one by one.
LEMMA WrapIsFold ==
    ASSUME NEW words, NEW first, NEW runover, NEW pieces, pieces = Pieces(words, first, runover),
           NEW text, text = WrapFold!Fold(Begun(first, runover), pieces)
    PROVE  Wrap(words, first, runover) = IF pieces = <<>> THEN <<>> ELSE Append(text.done, text.line)
<1>1. FoldLeft(AddWord, Begun(first, runover), pieces) = WrapFold!Fold(Begun(first, runover), pieces)
      BY Zenon DEF FoldLeft, MapThenFoldSet, WrapFold!Fold, Max
<1> QED BY <1>1, Zenon DEF Wrap, Begun

\* A wrapped block says its words.
LEMMA WrapSays ==
    ASSUME NEW words \in Seq(CellWord), NEW first \in Int, NEW runover \in Int
    PROVE  Wrap(words, first, runover) \in Seq(Line) /\ Inked(WordsOf, Wrap(words, first, runover)) = Ink(words)
<1> DEFINE pieces == Pieces(words, first, runover)
           text == WrapFold!Fold(Begun(first, runover), pieces)
           lines == Wrap(words, first, runover)
<1>1. lines = IF pieces = <<>> THEN <<>> ELSE Append(text.done, text.line)
      BY WrapIsFold
<1>2. pieces \in Seq(CellWord) /\ Ink(pieces) = Ink(words)
      BY PiecesKeep
<1> HIDE DEF pieces, lines
<1>3. text \in Text /\ Dots(text) = Ink(words)
      BY <1>2, BegunType, AddWordsSay
<1> HIDE DEF text
<1>4. CASE pieces = <<>>
  <2>1. Ink(words) = <<>>
        BY <1>2, <1>4, FlattenEmpty DEF Ink
  <2> QED BY <1>1, <1>4, <2>1, DotsOf, EmptySeq DEF lines
<1>5. CASE pieces # <<>>
  <2>1. text.done \in Seq(Line) /\ text.line \in Line
        BY <1>3 DEF Text
  <2>2. lines = Append(text.done, text.line) /\ lines \in Seq(Line)
        BY <1>1, <1>5, <2>1, AppendProperties
  <2>3. Inked(WordsOf, lines) = Dots(text)
        BY <2>1, <2>2, DotsOf DEF Dots
  <2> QED BY <1>3, <2>2, <2>3 DEF lines
<1> QED BY <1>4, <1>5

\* A width is a number.
LEMMA WidthIsNatural ==
    ASSUME NEW E, NEW words \in Seq(Seq(E))
    PROVE  Width(words) \in Nat
<1>1. Ink(words) \in Seq(E)
      BY FlattenType DEF Ink
<1>2. Len(Ink(words)) \in Nat /\ Len(words) \in Nat /\ (words # <<>> => Len(words) >= 1)
      BY <1>1, LenProperties, EmptySeq
<1> QED BY <1>2 DEF Width

\* A blank line holds no cell.
LEMMA BlankType == Blank \in Line /\ Ink(Blank.words) = <<>>
<1>1. <<>> \in Seq(CellWord)
      BY EmptySeq
<1> QED BY <1>1, FlattenEmpty DEF Blank, LineOf, Line, Ink

\* A heading says its words.
LEMMA CentreSays ==
    ASSUME NEW words \in Seq(CellWord)
    PROVE  Centre(words) \in Seq(Line) /\ Inked(WordsOf, Centre(words)) = Ink(words)
<1>1. CASE Width(words) >= CellsPerLine
      BY <1>1, WrapSays DEF Centre
<1>2. CASE ~(Width(words) >= CellsPerLine)
  <2> DEFINE line == LineOf((CellsPerLine - Width(words)) \div 2, words)
  <2>1. Centre(words) = <<line>>
        BY <1>2 DEF Centre
  <2>2. line \in Line /\ line.words = words
    <3>1. Width(words) \in Nat
          BY WidthIsNatural DEF CellWord
    <3>2. (CellsPerLine - Width(words)) \div 2 \in Int
          BY <3>1, PageAssumption
    <3> QED BY <3>2 DEF LineOf, Line
  <2> HIDE DEF line
  <2>3. <<line>> = Append(<<>>, line) /\ <<>> \in Seq(Line)
        BY EmptySeq
  <2>4. Inked(WordsOf, <<line>>) = <<>> \o Ink(words)
        BY <2>2, <2>3, DotsOf
  <2>5. Ink(words) \in Seq(Cell)
        BY FlattenType DEF Ink, CellWord
  <2> QED BY <2>1, <2>2, <2>3, <2>4, <2>5, AppendProperties, ConcatEmptySeq
<1> QED BY <1>1, <1>2

\* The blocks that are set, and the words they hold.
BrailleBlock == [kind : Kinds, words : Seq(CellWord)]
WordsIn == [block \in BrailleBlock |-> Kept(block)]
SetFold == INSTANCE Folding WITH Op <- SetBlock

\* Words spelled are cells.
LEMMA SpelledType ==
    ASSUME NEW words \in Seq(CellWord)
    PROVE  Spelled(words) \in Seq(Cell)
<1> DEFINE n == Len(words)
           C == CellWord
           spell(i) == IF i = Len(words) THEN words[i] ELSE Append(words[i], " ")
           spells == [i \in DOMAIN words |-> spell(i)]
<1>1. n \in Nat /\ DOMAIN words = 1..n /\ \A i \in 1..n : words[i] \in C
      BY LenProperties, ElementOfSeq
<1>2. ASSUME NEW i \in 1..n PROVE spell(i) \in C
  <2> DEFINE word == words[i]
  <2>1. word \in C
        BY <1>1
  <2> HIDE DEF word
  <2>2. word \in Seq(Cell)
        BY <2>1 DEF CellWord
  <2>3. " " \in Cell
        BY DEF Cell
  <2>4. Append(word, " ") \in Seq(Cell)
        BY <2>2, <2>3, AppendProperties
  <2> QED BY <2>2, <2>4 DEF word, CellWord
<1>3. spells = [i \in 1..n |-> spells[i]] /\ \A i \in 1..n : spells[i] = spell(i)
      BY <1>1
<1>4. Spelled(words) = FlattenSeq(spells)
      BY Zenon DEF Spelled
<1> HIDE DEF spell, spells, C
<1>5. spells \in Seq(C)
      BY <1>1, <1>2, <1>3, AFunctionIsASeq
<1> QED BY <1>4, <1>5, FlattenType DEF C, CellWord

\* What a line can hold of a label are cells.
LEMMA KeptType ==
    ASSUME NEW block \in BrailleBlock
    PROVE  Kept(block) \in Seq(CellWord)
<1> DEFINE label == Spelled(block.words)
           cut == SubSeq(label, 1, CellsPerLine)
<1>1. block.words \in Seq(CellWord)
      BY DEF BrailleBlock
<1>2. label \in Seq(Cell)
      BY <1>1, SpelledType
<1> HIDE DEF label
<1>3. ASSUME Len(label) > CellsPerLine PROVE <<cut>> \in Seq(CellWord)
  <2>1. \A i \in 1..CellsPerLine : label[i] \in Cell
        BY <1>2, <1>3, PageAssumption
  <2>2. cut \in CellWord
        BY <2>1, SubSeqProperties, PageAssumption DEF CellWord
  <2> HIDE DEF cut
  <2> QED BY <2>2
<1> QED BY <1>1, <1>3 DEF Kept, label

\* A page number is a line that holds its cells, as many as fit.
LEMMA RightAlignedType ==
    ASSUME NEW block \in BrailleBlock, block.kind = "page_number"
    PROVE  RightAligned(block.words) \in Line /\ RightAligned(block.words).words = Kept(block)
<1> DEFINE label == Spelled(block.words)
           kept == Kept(block)
<1>1. kept \in Seq(CellWord) /\ label \in Seq(Cell)
      BY KeptType, SpelledType DEF BrailleBlock
<1>2. CellsPerLine - Len(label) \in Int /\ Len(label) \in Nat /\ CellsPerLine \in Nat
      BY <1>1, LenProperties, PageAssumption
<1>3. RightAligned(block.words) = LineOf(IF Len(label) <= CellsPerLine THEN CellsPerLine - Len(label) ELSE 0, kept)
  <2>1. Len(label) > CellsPerLine <=> ~(Len(label) <= CellsPerLine)
        BY <1>2
  <2> HIDE DEF label
  <2>2. kept = IF ~(Len(label) <= CellsPerLine) THEN <<SubSeq(label, 1, CellsPerLine)>> ELSE block.words
        BY <2>1, Zenon DEF Kept, label
  <2>3. RightAligned(block.words) = IF Len(label) <= CellsPerLine THEN LineOf(CellsPerLine - Len(label), block.words)
                                    ELSE LineOf(0, <<SubSeq(label, 1, CellsPerLine)>>)
        BY Zenon DEF RightAligned, label
  <2> HIDE DEF kept
  <2> QED BY <2>2, <2>3
<1> HIDE DEF label, kept
<1> QED BY <1>1, <1>2, <1>3 DEF LineOf, Line, kept

\* Setting a block adds its cells, after those of the lines set before it.
LEMMA SetBlockSays ==
    ASSUME NEW lines \in Seq(Line), NEW block \in BrailleBlock
    PROVE  /\ SetBlock(lines, block) \in Seq(Line)
           /\ Inked(WordsOf, SetBlock(lines, block)) = Inked(WordsOf, lines) \o Ink(Kept(block))
<1> DEFINE words == block.words
           apart == IF lines # <<>> /\ Last(lines) # Blank THEN Append(lines, Blank) ELSE lines
           wrapped == Wrap(words, FirstIndent(block.kind), Runover(block.kind))
           D == Inked(WordsOf, lines)
           set == SetBlock(lines, block)
<1>1. words \in Seq(CellWord) /\ D \in Seq(Cell) /\ Ink(words) \in Seq(Cell) /\ D \o <<>> = D
      /\ \A s \in Seq(Cell) : s \o <<>> = s
  <2>1. words \in Seq(CellWord)
        BY DEF BrailleBlock
  <2>2. D \in Seq(Cell)
        BY DotsOf DEF CellWord
  <2> HIDE DEF words, D
  <2> QED BY <2>1, <2>2, FlattenType, ConcatEmptySeq DEF Ink, CellWord
<1>2. set = IF block.kind = "page_number" THEN Append(lines, RightAligned(words))
            ELSE IF words = <<>> THEN lines
            ELSE IF block.kind = "heading" THEN (apart \o Centre(words)) \o <<Blank>>
            ELSE lines \o wrapped
      BY Zenon DEF SetBlock
<1>3. FirstIndent(block.kind) \in Int /\ Runover(block.kind) \in Int
      BY DEF FirstIndent, Runover
<1>whole. block.kind # "page_number" => Kept(block) = words
      BY DEF Kept
<1> HIDE DEF words, D, set, apart, wrapped
<1>4. CASE block.kind = "page_number"
  <2>1. RightAligned(words) \in Line /\ RightAligned(words).words = Kept(block)
        BY <1>4, RightAlignedType DEF words
  <2>2. set = Append(lines, RightAligned(words))
        BY <1>2, <1>4
  <2>3. set \in Seq(Line) /\ Inked(WordsOf, set) = D \o Ink(Kept(block))
        BY <2>1, <2>2, AppendProperties, DotsOf DEF D
  <2> QED BY <2>3 DEF set, D
<1>5. CASE block.kind # "page_number" /\ words = <<>>
  <2>1. set = lines /\ Ink(words) = <<>>
        BY <1>2, <1>5, FlattenEmpty DEF Ink
  <2> QED BY <1>1, <1>5, <1>whole, <2>1 DEF set, D
<1>6. CASE block.kind = "heading" /\ words # <<>>
  <2>1. apart \in Seq(Line) /\ Inked(WordsOf, apart) = D
    <3>1. Append(lines, Blank) \in Seq(Line) /\ Inked(WordsOf, Append(lines, Blank)) = D \o <<>>
          BY BlankType, AppendProperties, DotsOf DEF D
    <3> QED BY <1>1, <3>1 DEF apart, D
  <2>2. Centre(words) \in Seq(Line) /\ Inked(WordsOf, Centre(words)) = Ink(words)
        BY <1>1, CentreSays
  <2> DEFINE most == apart \o Centre(words)
  <2>3. most \in Seq(Line) /\ Inked(WordsOf, most) = D \o Ink(words)
        BY <2>1, <2>2, ConcatProperties, DotsOf
  <2>4. set = most \o <<Blank>>
        BY <1>2, <1>6
  <2> HIDE DEF most
  <2>5. set = Append(most, Blank)
        BY <2>3, <2>4, BlankType, AppendIsConcat
  <2>6. set \in Seq(Line) /\ Inked(WordsOf, set) = (D \o Ink(words)) \o <<>>
        BY <2>3, <2>5, BlankType, AppendProperties, DotsOf
  <2>7. D \o Ink(words) \in Seq(Cell)
        BY <1>1, ConcatProperties
  <2> QED BY <1>1, <1>6, <1>whole, <2>6, <2>7 DEF set, D
<1>7. CASE block.kind # "page_number" /\ block.kind # "heading" /\ words # <<>>
  <2>1. wrapped \in Seq(Line) /\ Inked(WordsOf, wrapped) = Ink(words)
        BY <1>1, <1>3, WrapSays DEF wrapped
  <2>2. set = lines \o wrapped
        BY <1>2, <1>7
  <2>3. set \in Seq(Line) /\ Inked(WordsOf, set) = D \o Ink(words)
        BY <2>1, <2>2, ConcatProperties, DotsOf DEF D
  <2> QED BY <1>7, <1>whole, <2>3 DEF set, D
<1> QED BY <1>4, <1>5, <1>6, <1>7

\* The words of the blocks, set one after the other.
LEMMA WordsInOf ==
    /\ \A s \in Seq(BrailleBlock) : Inked(WordsIn, s) \in Seq(Cell)
    /\ \A s \in Seq(BrailleBlock), block \in BrailleBlock :
         Inked(WordsIn, Append(s, block)) = Inked(WordsIn, s) \o Ink(Kept(block))
    /\ Inked(WordsIn, <<>>) = <<>>
<1> DEFINE f == WordsIn
           D == BrailleBlock
<1>1. f \in [D -> Seq(CellWord)] /\ \A block \in D : f[block] = Kept(block)
      BY KeptType DEF WordsIn
<1> HIDE DEF f, D
<1>2. /\ \A s \in Seq(D) : Inked(f, s) \in CellWord
      /\ \A s \in Seq(D), d \in D : Inked(f, Append(s, d)) = Inked(f, s) \o Ink(f[d])
      /\ Inked(f, <<>>) = <<>>
      BY <1>1, InkedOf
<1> QED BY <1>1, <1>2 DEF f, D, CellWord

\* The lines of the blocks say their words, in order.
LEMMA BlocksAreSet ==
    \A s \in Seq(BrailleBlock) : /\ SetFold!Fold(<<>>, s) \in Seq(Line)
                                 /\ Inked(WordsOf, SetFold!Fold(<<>>, s)) = Inked(WordsIn, s)
<1> DEFINE T == {s \in Seq(BrailleBlock) : /\ SetFold!Fold(<<>>, s) \in Seq(Line)
                                           /\ Inked(WordsOf, SetFold!Fold(<<>>, s)) = Inked(WordsIn, s)}
<1>1. <<>> \in T
      BY SetFold!FoldEmpty, WordsInOf, DotsOf, EmptySeq
<1>2. ASSUME NEW s \in Seq(BrailleBlock), NEW block \in BrailleBlock, s \in T PROVE Append(s, block) \in T
  <2> DEFINE a == SetFold!Fold(<<>>, s)
             b == SetFold!Fold(<<>>, Append(s, block))
  <2>1. a \in Seq(Line) /\ Inked(WordsOf, a) = Inked(WordsIn, s)
        BY <1>2
  <2>2. b = SetBlock(a, block)
        BY SetFold!FoldAppend
  <2> HIDE DEF a, b
  <2>3. b \in Seq(Line) /\ Inked(WordsOf, b) = Inked(WordsIn, s) \o Ink(Kept(block))
        BY <2>1, <2>2, SetBlockSays
  <2>4. Inked(WordsIn, Append(s, block)) = Inked(WordsIn, s) \o Ink(Kept(block))
        BY WordsInOf
  <2>5. Append(s, block) \in Seq(BrailleBlock)
        BY AppendProperties
  <2> QED BY <2>3, <2>4, <2>5 DEF b
<1> HIDE DEF T
<1>3. \A s \in Seq(BrailleBlock) : s \in T
      BY <1>1, <1>2, SetFold!SeqInduction
<1> QED BY <1>3 DEF T

\* Trimming the last blank line loses no cell.
LEMMA LinesSay ==
    ASSUME NEW blocks \in Seq(BrailleBlock)
    PROVE  Lines(blocks) \in Seq(Line) /\ Inked(WordsOf, Lines(blocks)) = Inked(WordsIn, blocks)
<1> DEFINE lines == SetFold!Fold(<<>>, blocks)
<1>1. FoldLeft(SetBlock, <<>>, blocks) = SetFold!Fold(<<>>, blocks)
      BY Zenon DEF FoldLeft, MapThenFoldSet, SetFold!Fold, Max
<1>2. Lines(blocks) = IF lines # <<>> /\ Last(lines) = Blank THEN Front(lines) ELSE lines
      BY <1>1, Zenon DEF Lines
<1>3. lines \in Seq(Line) /\ Inked(WordsOf, lines) = Inked(WordsIn, blocks)
      BY BlocksAreSet
<1> HIDE DEF lines
<1>4. CASE lines # <<>> /\ Last(lines) = Blank
  <2>1. Front(lines) \in Seq(Line) /\ lines = Append(Front(lines), Blank)
        BY <1>3, <1>4, FrontLast
  <2> DEFINE front == Front(lines)
  <2>2. front \in Seq(Line) /\ lines = Append(front, Blank) /\ Lines(blocks) = front
        BY <1>2, <1>4, <2>1
  <2> HIDE DEF front
  <2>3. Inked(WordsOf, lines) = Inked(WordsOf, front) \o <<>>
        BY <2>2, BlankType, DotsOf
  <2>4. Inked(WordsOf, front) \in Seq(Cell)
        BY <2>2, DotsOf DEF CellWord
  <2> QED BY <1>3, <2>2, <2>3, <2>4, ConcatEmptySeq
<1>5. CASE ~(lines # <<>> /\ Last(lines) = Blank)
      BY <1>2, <1>3, <1>5
<1> QED BY <1>4, <1>5

\* Lines put together otherwise, part by part saying the same, say the same.
LEMMA SameInk ==
    ASSUME NEW s \in Seq(Seq(Line)), NEW t \in Seq(Seq(Line)), NEW n \in Nat,
           n = Len(s), n = Len(t), \A i \in 1..n : Inked(WordsOf, t[i]) = Inked(WordsOf, s[i])
    PROVE  Inked(WordsOf, FlattenSeq(t)) = Inked(WordsOf, FlattenSeq(s))
<1> DEFINE Said1(k) == Inked(WordsOf, FlattenSeq(SubSeq(s, 1, k)))
           Said2(k) == Inked(WordsOf, FlattenSeq(SubSeq(t, 1, k)))
           T == {k \in 0..n : Said2(k) = Said1(k)}
<1>1. 0 \in T
  <2>1. SubSeq(t, 1, 0) = <<>> /\ SubSeq(s, 1, 0) = <<>>
        BY SubSeqEmpty
  <2>2. 0 \in 0..n
        OBVIOUS
  <2> QED BY <2>1, <2>2
<1>2. ASSUME NEW k \in 0..(n - 1), k \in T PROVE k + 1 \in T
  <2>1. k + 1 \in 1..n /\ k + 1 \in 0..n
        OBVIOUS
  <2>2. /\ FlattenSeq(SubSeq(t, 1, k)) \in Seq(Line) /\ t[k + 1] \in Seq(Line)
        /\ FlattenSeq(SubSeq(t, 1, k + 1)) = FlattenSeq(SubSeq(t, 1, k)) \o t[k + 1]
        BY FlattenFirst
  <2>3. /\ FlattenSeq(SubSeq(s, 1, k)) \in Seq(Line) /\ s[k + 1] \in Seq(Line)
        /\ FlattenSeq(SubSeq(s, 1, k + 1)) = FlattenSeq(SubSeq(s, 1, k)) \o s[k + 1]
        BY FlattenFirst
  <2>4. Said2(k + 1) = Said2(k) \o Inked(WordsOf, t[k + 1])
        BY <2>2, DotsOf
  <2>5. Said1(k + 1) = Said1(k) \o Inked(WordsOf, s[k + 1])
        BY <2>3, DotsOf
  <2>6. Inked(WordsOf, t[k + 1]) = Inked(WordsOf, s[k + 1]) /\ Said2(k) = Said1(k)
        BY <1>2, <2>1
  <2> HIDE DEF Said1, Said2
  <2> QED BY <2>1, <2>4, <2>5, <2>6
<1>3. n \in T
  <2> HIDE DEF T
  <2>1. \A k \in 0..n : k \in T
        BY <1>1, <1>2, SetFold!BoundedInduction
  <2> QED BY <2>1
<1>4. SubSeq(t, 1, n) = t /\ SubSeq(s, 1, n) = s
      BY SubSeqFull
<1> QED BY <1>3, <1>4

\* The blank lines that fill a page up say nothing.
LEMMA BlanksSay ==
    \A n \in Nat : /\ [k \in 1..n |-> Blank] \in Seq(Line)
                   /\ Inked(WordsOf, [k \in 1..n |-> Blank]) = <<>>
<1> DEFINE s(n) == [k \in 1..n |-> Blank]
           D == {l \in Line : Ink(l.words) = <<>>}
           T == {t \in Seq(D) : t \in Seq(Line) /\ Inked(WordsOf, t) = <<>>}
<1>1. <<>> \in T
      BY DotsOf, EmptySeq
<1>2. ASSUME NEW t \in Seq(D), NEW l \in D, t \in T PROVE Append(t, l) \in T
  <2>1. l \in Line /\ Ink(l.words) = <<>> /\ t \in Seq(Line) /\ Inked(WordsOf, t) = <<>>
        BY <1>2
  <2> HIDE DEF D
  <2>2. Inked(WordsOf, Append(t, l)) = <<>> \o <<>>
        BY <2>1, DotsOf
  <2>3. Append(t, l) \in Seq(Line) /\ Append(t, l) \in Seq(D)
        BY <2>1, AppendProperties
  <2>4. <<>> \o <<>> = <<>>
        BY ConcatEmptySeq, EmptySeq
  <2> QED BY <2>2, <2>3, <2>4
<1>3. Blank \in D
      BY BlankType
<1> HIDE DEF T, D
<1>4. \A t \in Seq(D) : t \in T
      BY <1>1, <1>2, SetFold!SeqInduction
<1>5. \A n \in Nat : s(n) \in Seq(D)
  <2> SUFFICES ASSUME NEW n \in Nat PROVE s(n) \in Seq(D)
        OBVIOUS
  <2> QED BY <1>3, AFunctionIsASeq
<1> QED BY <1>4, <1>5 DEF T

\* A page without its number.
LEMMA FrontOfPage ==
    ASSUME NEW E, NEW s \in Seq(E), NEW x
    PROVE  Front(s \o <<x>>) = s
<1> DEFINE A == E \union {x}
           t == s \o <<x>>
<1>1. s \in Seq(A) /\ <<x>> \in Seq(A)
      OBVIOUS
<1>2. Len(t) = Len(s) + 1 /\ Len(s) \in Nat
      BY <1>1, ConcatProperties, LenProperties
<1>3. Front(t) = SubSeq(t, 1, Len(s))
  <2>1. Len(t) - 1 = Len(s)
        BY <1>2
  <2> HIDE DEF t
  <2> QED BY <2>1, Zenon DEF Front
<1> HIDE DEF A
<1>4. SubSeq(s \o <<x>>, 1, Len(s)) = s
      BY <1>1, FirstOfConcat
<1> QED BY <1>3, <1>4

\* The pages but for their numbers say what the lines do.
LEMMA PagesSay ==
    ASSUME NEW lines \in Seq(Line), NEW pages, pages = Paginate(lines)
    PROVE  /\ FlattenSeq([n \in DOMAIN pages |-> Front(pages[n])]) \in Seq(Line)
           /\ Inked(WordsOf, FlattenSeq([n \in DOMAIN pages |-> Front(pages[n])])) = Inked(WordsOf, lines)
<1> DEFINE usable == Max({1, LinesPerPage - 1})
           cuts == Cuts(lines, usable)
           N == Len(cuts)
           blanks(n) == [k \in 1..(usable - Len(cuts[n])) |-> Blank]
           number(n) == RightAligned(Numeral(n))
           fronts == [n \in DOMAIN pages |-> Front(pages[n])]
<1>1. usable \in Nat \ {0}
  <2>1. 1 \in Int /\ LinesPerPage - 1 \in Int
        BY PageAssumption
  <2>2. Max({1, LinesPerPage - 1}) = IF 1 <= LinesPerPage - 1 THEN LinesPerPage - 1 ELSE 1
        BY <2>1, TheGreater
  <2> QED BY <2>1, <2>2
<1>2. pages = [n \in DOMAIN cuts |-> (cuts[n] \o blanks(n)) \o <<number(n)>>]
      BY Zenon DEF Paginate, Pages
<1> HIDE DEF usable
<1>3. /\ cuts \in Seq(Seq(Line)) /\ FlattenSeq(cuts) = lines
      /\ \A k \in DOMAIN cuts : Len(cuts[k]) \in 1..usable
      BY <1>1, CutsJoin
<1> HIDE DEF cuts
<1>4. DOMAIN cuts = 1..N /\ N \in Nat
      BY <1>3, LenProperties
<1>5. \A n \in 1..N : cuts[n] \in Seq(Line) /\ usable - Len(cuts[n]) \in Nat
  <2> SUFFICES ASSUME NEW n \in 1..N PROVE cuts[n] \in Seq(Line) /\ usable - Len(cuts[n]) \in Nat
        OBVIOUS
  <2>1. cuts[n] \in Seq(Line)
        BY <1>3, <1>4, ElementOfSeq
  <2>2. Len(cuts[n]) \in 1..usable
        BY <1>3, <1>4
  <2> QED BY <1>1, <2>1, <2>2
<1>6. ASSUME NEW n \in 1..N
      PROVE  /\ blanks(n) \in Seq(Line) /\ cuts[n] \o blanks(n) \in Seq(Line)
             /\ Inked(WordsOf, cuts[n] \o blanks(n)) = Inked(WordsOf, cuts[n])
  <2>1. cuts[n] \in Seq(Line)
        BY <1>5
  <2>2. blanks(n) \in Seq(Line) /\ Inked(WordsOf, blanks(n)) = <<>>
        BY <1>5, BlanksSay
  <2> HIDE DEF blanks
  <2>3. cuts[n] \o blanks(n) \in Seq(Line) /\ Inked(WordsOf, cuts[n] \o blanks(n)) = Inked(WordsOf, cuts[n]) \o <<>>
        BY <2>1, <2>2, ConcatProperties, DotsOf
  <2>4. Inked(WordsOf, cuts[n]) \in Seq(Cell)
        BY <2>1, DotsOf DEF CellWord
  <2> QED BY <2>2, <2>3, <2>4, ConcatEmptySeq
<1> HIDE DEF blanks, number
<1>7. fronts = [n \in 1..N |-> cuts[n] \o blanks(n)]
  <2>1. DOMAIN pages = 1..N /\ \A n \in 1..N : pages[n] = (cuts[n] \o blanks(n)) \o <<number(n)>>
        BY <1>2, <1>4
  <2>2. \A n \in 1..N : Front(pages[n]) = cuts[n] \o blanks(n)
        BY <1>6, <2>1, FrontOfPage
  <2> QED BY <2>1, <2>2
<1> HIDE DEF fronts
<1>8. \A n \in 1..N : fronts[n] = cuts[n] \o blanks(n)
      BY <1>7
<1>9. fronts \in Seq(Seq(Line)) /\ Len(fronts) = N
  <2> DEFINE S == Seq(Line)
  <2>1. fronts = [n \in 1..N |-> fronts[n]] /\ \A n \in 1..N : fronts[n] \in S
        BY <1>6, <1>7
  <2> HIDE DEF S
  <2>2. fronts \in Seq(S) /\ Len(fronts) = N
        BY <1>4, <2>1, AFunctionIsASeq
  <2> QED BY <2>2 DEF S
<1>10. \A n \in 1..N : Inked(WordsOf, fronts[n]) = Inked(WordsOf, cuts[n])
      BY <1>6, <1>8
<1>11. Inked(WordsOf, FlattenSeq(fronts)) = Inked(WordsOf, FlattenSeq(cuts))
      BY <1>3, <1>4, <1>9, <1>10, SameInk
<1>12. FlattenSeq(fronts) \in Seq(Line)
      BY <1>9, FlattenType
<1> QED BY <1>3, <1>11, <1>12 DEF fronts

\* What is translated.
LEMMA TranslatedType ==
    ASSUME NEW blocks \in Seq(Block)
    PROVE  Translated(blocks) \in Seq(BrailleBlock)
<1> DEFINE n == Len(blocks)
           said == Translated(blocks)
<1>1. DOMAIN blocks = 1..n /\ n \in Nat
      BY LenProperties
<1>2. ASSUME NEW i \in 1..n
      PROVE  blocks[i].kind \in Kinds /\ FlattenSeq([k \in DOMAIN blocks[i].runs |-> Cells[blocks[i].runs[k]]]) \in Seq(CellWord)
  <2>1. blocks[i] \in Block
        BY <1>1
  <2>2. blocks[i].kind \in Kinds /\ blocks[i].runs \in Seq(Texts)
        BY <2>1 DEF Block
  <2> DEFINE runs == blocks[i].runs
  <2> HIDE DEF runs
  <2>3. Cells \in [Texts -> Seq(CellWord)]
    <3>1. CellWord = Seq(STRING \union {" "}) /\ Seq(STRING) \subseteq Seq(STRING \union {" "})
          BY SeqMonotonic DEF CellWord, Cell
    <3>2. Seq(Seq(STRING)) \subseteq Seq(CellWord)
          BY <3>1, SeqMonotonic
    <3>3. Cells \in [Texts -> Seq(Seq(STRING))]
          BY NotesAssumption
    <3> QED BY <3>2, <3>3
  <2>4. Each(Cells, runs) \in Seq(CellWord)
        BY <2>2, <2>3, EachType DEF runs
  <2> QED BY <2>2, <2>4 DEF Each, runs
<1>3. said = [i \in 1..n |-> [kind |-> blocks[i].kind,
                             words |-> FlattenSeq([k \in DOMAIN blocks[i].runs |-> Cells[blocks[i].runs[k]]])]]
      BY <1>1, Zenon DEF Translated
<1>4. ASSUME NEW i \in 1..n
      PROVE  said[i] \in BrailleBlock
  <2> DEFINE kind == blocks[i].kind
             words == FlattenSeq([k \in DOMAIN blocks[i].runs |-> Cells[blocks[i].runs[k]]])
  <2>1. kind \in Kinds /\ words \in Seq(CellWord)
        BY <1>2
  <2>2. said[i] = [kind |-> kind, words |-> words]
        BY <1>3, Zenon
  <2> HIDE DEF kind, words, said
  <2>3. [kind |-> kind, words |-> words] \in BrailleBlock
        BY <2>1, Zenon DEF BrailleBlock
  <2> QED BY <2>2, <2>3, Zenon
<1>5. said = [i \in 1..n |-> said[i]]
      BY <1>3
<1> HIDE DEF said
<1>6. said \in Seq(BrailleBlock)
      BY <1>1, <1>4, <1>5, AFunctionIsASeq
<1> QED BY <1>6 DEF said

\* What is translated is a sequence of blocks.
LEMMA BuildType ==
    ASSUME TypeOK
    PROVE  BuildBlocks(title, Page) \in Seq(Block)
<1>1. title \in Texts \union {NoText} /\ Page \in Seq(Events)
      BY PageType, DocumentsAssumption DEF TypeOK
<1>2. BodyBlocks(Page) \in Seq(Block)
      BY <1>1, BodyBlocksAre
<1>3. TitleBlock(title) \in Seq(Block)
  <2>1. title # NoText => [kind |-> "heading", runs |-> <<title>>] \in Block
        BY <1>1 DEF Block, Kinds
  <2> DEFINE block == [kind |-> "heading", runs |-> <<title>>]
  <2> HIDE DEF block
  <2>2. TitleBlock(title) = IF title = NoText THEN <<>> ELSE <<block>>
        BY DEF TitleBlock, block
  <2> QED BY <2>1, <2>2, EmptySeq DEF block
<1> QED BY <1>2, <1>3, ConcatProperties DEF BuildBlocks

\* Whatever is to be set, every cell of it is on the pages, in order.
THEOREM NoCellIsLost == Spec => []NoCellLost
<1>1. TypeOK => NoCellLost
  <2> SUFFICES ASSUME TypeOK PROVE NoCellLost
        OBVIOUS
  <2> DEFINE said == Translated(BuildBlocks(title, Page))
             pages == RenderBrf(title, Page)
             lines == FlattenSeq([n \in DOMAIN pages |-> Front(pages[n])])
  <2>1. said \in Seq(BrailleBlock)
        BY BuildType, TranslatedType
  <2>2. pages = Paginate(Lines(said))
        BY Zenon DEF RenderBrf, LayoutBlocks
  <2> HIDE DEF said, pages
  <2>3. Lines(said) \in Seq(Line) /\ Inked(WordsOf, Lines(said)) = Inked(WordsIn, said)
        BY <2>1, LinesSay
  <2>4. lines \in Seq(Line) /\ Inked(WordsOf, lines) = Inked(WordsIn, said)
        BY <2>2, <2>3, PagesSay
  <2> HIDE DEF lines
  <2>5. Inked(WordsOf, lines) = Ink(FlattenSeq([i \in DOMAIN lines |-> lines[i].words]))
    <3>1. [i \in DOMAIN lines |-> WordsOf[lines[i]]] = [i \in DOMAIN lines |-> lines[i].words]
          BY <2>4 DEF WordsOf
    <3> QED BY <3>1, Zenon DEF Inked, Each
  <2>6. Inked(WordsIn, said) = Ink(FlattenSeq([i \in DOMAIN said |-> Kept(said[i])]))
    <3>1. [i \in DOMAIN said |-> WordsIn[said[i]]] = [i \in DOMAIN said |-> Kept(said[i])]
          BY <2>1 DEF WordsIn
    <3> QED BY <3>1, Zenon DEF Inked, Each
  <2> QED BY <2>4, <2>5, <2>6 DEF NoCellLost, lines, said, pages
<1> QED BY <1>1, TypeCorrect, PTL

(***************************************************************************)
(* Braille on lines: no division of a block takes fewer lines              *)
(***************************************************************************)
\* A part of a line is no wider than the line.
LEMMA WidthOfMore ==
    ASSUME NEW s \in Seq(CellWord), NEW m \in 1..Len(s), NEW g \in m..Len(s)
    PROVE  /\ Width(SubSeq(s, m, Len(s))) \in Nat /\ Width(SubSeq(s, m, g)) \in Nat
           /\ Width(SubSeq(s, g, Len(s))) <= Width(SubSeq(s, m, Len(s)))
           /\ Width(SubSeq(s, m, g)) <= Width(SubSeq(s, m, Len(s)))
<1> DEFINE n == Len(s)
           part(i, j) == SubSeq(s, i, j)
<1>1. n \in Nat /\ m \in 1..n /\ g \in m..n
      OBVIOUS
<1>2. ASSUME NEW i \in 1..n, NEW j \in 0..n
      PROVE  part(i, j) \in Seq(CellWord) /\ (i <= j => part(i, j) # <<>>) /\ (i > j => part(i, j) = <<>>)
  <2>1. \A k \in i..j : s[k] \in CellWord
        BY <1>1
  <2>2. part(i, j) \in Seq(CellWord) /\ Len(part(i, j)) = IF i <= j THEN j - i + 1 ELSE 0
        BY <1>1, <2>1, SubSeqProperties
  <2> HIDE DEF part
  <2> QED BY <1>1, <2>2, EmptySeq
<1>3. ASSUME NEW i \in 1..n, NEW k \in (i - 1)..(n - 1)
      PROVE  part(i, k) \o part(k + 1, n) = part(i, n)
  <2>1. i \in 1..(Len(s) + 1) /\ k \in (i - 1)..Len(s) /\ n \in k..Len(s)
        BY <1>1
  <2> HIDE DEF n
  <2> QED BY <2>1, ConcatAdjacentSubSeq
<1> HIDE DEF part
<1>4. \A words \in Seq(CellWord) : Width(words) \in Nat
      BY WidthIsNatural DEF CellWord
<1>5. \A a, b \in Seq(CellWord) : b # <<>> => Width(a \o b) = IF a = <<>> THEN Width(b) ELSE Width(a) + Width(b) + 1
      BY WidthOfBoth DEF CellWord
<1>6. part(m, n) \in Seq(CellWord) /\ part(m, g) \in Seq(CellWord) /\ part(g, n) \in Seq(CellWord)
      BY <1>1, <1>2
<1>7. Width(part(g, n)) <= Width(part(m, n))
  <2> DEFINE k == g - 1
  <2>1. k \in (m - 1)..(n - 1) /\ k + 1 = g /\ k \in 0..n
        BY <1>1
  <2> HIDE DEF k
  <2>2. part(m, k) \o part(g, n) = part(m, n)
        BY <1>3, <2>1
  <2>3. part(m, k) \in Seq(CellWord) /\ part(g, n) # <<>>
        BY <1>1, <1>2, <2>1
  <2>4. Width(part(m, n)) = IF part(m, k) = <<>> THEN Width(part(g, n)) ELSE Width(part(m, k)) + Width(part(g, n)) + 1
        BY <1>5, <1>6, <2>2, <2>3
  <2>5. Width(part(m, k)) \in Nat /\ Width(part(g, n)) \in Nat
        BY <1>4, <1>6, <2>3
  <2> QED BY <2>4, <2>5
<1>8. Width(part(m, g)) <= Width(part(m, n))
  <2>1. CASE g = n
        BY <1>4, <1>6, <2>1
  <2>2. CASE g # n
    <3>1. g \in (m - 1)..(n - 1) /\ g + 1 \in 1..n
          BY <1>1, <2>2
    <3>2. part(m, g) \o part(g + 1, n) = part(m, n)
          BY <1>3, <3>1
    <3>3. part(g + 1, n) \in Seq(CellWord) /\ part(g + 1, n) # <<>> /\ part(m, g) # <<>>
      <4>1. n \in 0..n /\ g \in 0..n /\ g + 1 <= n /\ m <= g
            BY <1>1, <3>1
      <4>2. part(m, g) # <<>>
            BY <1>1, <1>2, <4>1
      <4>3. part(g + 1, n) \in Seq(CellWord) /\ part(g + 1, n) # <<>>
            BY <1>2, <3>1, <4>1
      <4> QED BY <4>2, <4>3
    <3>4. Width(part(m, n)) = Width(part(m, g)) + Width(part(g + 1, n)) + 1
          BY <1>5, <1>6, <3>2, <3>3
    <3>5. Width(part(m, g)) \in Nat /\ Width(part(g + 1, n)) \in Nat
          BY <1>4, <1>6, <3>3
    <3> QED BY <3>4, <3>5
  <2> QED BY <2>1, <2>2
<1> QED BY <1>4, <1>6, <1>7, <1>8 DEF part

\* Where the line ends that starts with the i-th of n pieces.
EndOf(n, i, starts) == Min({j \in starts : j > i} \union {n + 1}) - 1
\* The line that starts with piece i ends with piece e, before the next start.
IsEnd(n, i, starts, e) ==
    /\ e \in i..n /\ (e = n \/ e + 1 \in starts)
    /\ \A j \in starts : j > i => j > e

\* A line ends before the next one starts.
LEMMA EndIs ==
    ASSUME NEW n \in Nat, NEW i \in 1..n, NEW starts \in SUBSET (2..n)
    PROVE  /\ IsEnd(n, i, starts, EndOf(n, i, starts))
           /\ \A e : IsEnd(n, i, starts, e) => e = EndOf(n, i, starts)
<1> DEFINE S == {j \in starts : j > i} \union {n + 1}
<1>1. S \in SUBSET Nat /\ S # {}
  <2>1. starts \in SUBSET Nat /\ n + 1 \in Nat
        OBVIOUS
  <2> QED BY <2>1
<1>2. PICK x \in S : \A y \in S : x <= y
  <2> HIDE DEF S
  <2> QED BY <1>1, SetFold!LeastNat
<1>3. Min(S) = x
  <2>1. \A y \in S : (\A z \in S : y <= z) => y = x
    <3> SUFFICES ASSUME NEW y \in S, \A z \in S : y <= z PROVE y = x
          OBVIOUS
    <3>1. y <= x /\ x <= y /\ x \in Nat /\ y \in Nat
          BY <1>1, <1>2
    <3> QED BY <3>1
  <2> HIDE DEF S
  <2> QED BY <1>2, <2>1 DEF Min
<1>4. EndOf(n, i, starts) = x - 1
      BY <1>3 DEF EndOf
<1>5. x \in Nat /\ x > i /\ x <= n + 1
      BY <1>1, <1>2
<1>6. IsEnd(n, i, starts, x - 1)
  <2>1. x - 1 \in i..n /\ (x - 1 = n \/ (x - 1) + 1 \in starts)
        BY <1>2, <1>5
  <2>2. \A j \in starts : j > i => j > x - 1
    <3> SUFFICES ASSUME NEW j \in starts, j > i PROVE j > x - 1
          OBVIOUS
    <3>1. j \in S /\ j \in Nat
          OBVIOUS
    <3>2. x <= j
          BY <1>2, <3>1
    <3> QED BY <1>5, <3>1, <3>2
  <2> QED BY <2>1, <2>2 DEF IsEnd
<1>7. ASSUME NEW e, IsEnd(n, i, starts, e) PROVE e = x - 1
  <2>1. e \in i..n /\ (e = n \/ e + 1 \in starts) /\ (\A j \in starts : j > i => j > e)
        BY <1>7 DEF IsEnd
  <2>2. x - 1 \in i..n /\ (x - 1 = n \/ x \in starts) /\ (\A j \in starts : j > i => j > x - 1)
        BY <1>5, <1>6 DEF IsEnd
  <2>3. ~(e < x - 1)
    <3>1. e < x - 1 => e + 1 \in starts /\ e + 1 > i /\ ~(e + 1 > x - 1)
          BY <1>5, <2>1
    <3> QED BY <2>2, <3>1
  <2>4. ~(x - 1 < e)
    <3>1. x - 1 < e => x \in starts /\ x > i /\ ~(x > e)
          BY <1>5, <2>1, <2>2
    <3> QED BY <2>1, <3>1
  <2> QED BY <1>5, <2>1, <2>3, <2>4
<1> QED BY <1>4, <1>6, <1>7

\* Lines that start with some of the pieces s of a block, all of which fit.
FitsOn(s, first, runover, i, j) ==
    i = j \/ Width(SubSeq(s, i, j)) + (IF i = 1 THEN first ELSE runover) <= CellsPerLine
\* A division of the words whose lines all fit.
Feasible(s, first, runover, starts) ==
    \A i \in starts \union {1} : FitsOn(s, first, runover, i, EndOf(Len(s), i, starts))

\* One piece less, and the others still fit.
LEMMA FeasibleBefore ==
    ASSUME NEW s \in Seq(CellWord), s # <<>>, NEW w \in CellWord, NEW first \in Int, NEW runover \in Int,
           NEW starts \in SUBSET (2..(Len(s) + 1)), Feasible(Append(s, w), first, runover, starts)
    PROVE  Feasible(s, first, runover, starts \ {Len(s) + 1})
<1> DEFINE n == Len(s)
           more == Append(s, w)
           fewer == starts \ {n + 1}
<1>1. n \in Nat /\ n >= 1 /\ fewer \in SUBSET (2..n) /\ 1 \in 1..n
  <2>1. n \in Nat /\ n # 0
        BY LenProperties, EmptySeq
  <2>2. \A j \in starts : j \in 2..(n + 1)
        OBVIOUS
  <2> HIDE DEF n
  <2>3. \A j \in fewer : j \in 2..n
        BY <2>1, <2>2
  <2> QED BY <2>1, <2>3
<1>2. more \in Seq(CellWord) /\ Len(more) = n + 1 /\ n + 1 \in Nat
      BY <1>1, AppendProperties
<1>3. \A i \in 1..n, j \in 0..n : SubSeq(more, i, j) = SubSeq(s, i, j)
  <2> SUFFICES ASSUME NEW i \in 1..n, NEW j \in 0..n PROVE SubSeq(more, i, j) = SubSeq(s, i, j)
        OBVIOUS
  <2>1. CASE j = 0
        BY <1>1, <2>1, SubSeqEmpty
  <2>2. CASE j # 0
    <3>1. more = s \o <<w>> /\ <<w>> \in Seq(CellWord)
          BY AppendIsConcat
    <3>2. j \in 1..Len(s) /\ i \in 1..Len(s)
          BY <2>2
    <3> HIDE DEF more
    <3>3. SubSeq(s \o <<w>>, i, j) = SubSeq(s, i, j)
          BY <3>1, <3>2, SubSeqOfConcat1
    <3> QED BY <3>1, <3>3
  <2> QED BY <2>1, <2>2
<1> SUFFICES ASSUME NEW i \in fewer \union {1}
             PROVE  FitsOn(s, first, runover, i, EndOf(n, i, fewer))
      BY Zenon DEF Feasible
<1>4. i \in 1..n /\ i \in starts \union {1} /\ i \in 1..(n + 1)
      BY <1>1
<1> DEFINE e == EndOf(n + 1, i, starts)
           last == IF e <= n THEN e ELSE n
<1>5. IsEnd(n + 1, i, starts, e)
      BY <1>2, <1>4, EndIs
<1>6. FitsOn(more, first, runover, i, e)
      BY <1>2, <1>4, Zenon DEF Feasible
<1> HIDE DEF e
<1>7. IsEnd(n, i, fewer, last)
  <2>1. e \in i..(n + 1) /\ (e = n + 1 \/ e + 1 \in starts) /\ (\A j \in starts : j > i => j > e)
        BY <1>5 DEF IsEnd
  <2>2. last \in i..n /\ (last = n \/ last + 1 \in fewer)
        BY <1>1, <1>4, <2>1
  <2>3. \A j \in fewer : j > i => j > last
        BY <1>1, <2>1
  <2> QED BY <2>2, <2>3 DEF IsEnd
<1>8. last = EndOf(n, i, fewer)
      BY <1>1, <1>4, <1>7, EndIs
<1>9. e \in i..(n + 1) /\ last \in i..n
      BY <1>1, <1>5, <1>7 DEF IsEnd
<1>10. CASE e <= n
  <2>1. last = e /\ SubSeq(more, i, e) = SubSeq(s, i, e)
        BY <1>1, <1>3, <1>4, <1>9, <1>10
  <2> HIDE DEF last, n, fewer, more
  <2> QED BY <1>6, <1>8, <2>1 DEF FitsOn
<1>11. CASE ~(e <= n)
  <2>1. e = n + 1 /\ last = n /\ i # e
        BY <1>1, <1>4, <1>9, <1>11
  <2>2. Width(SubSeq(more, i, n + 1)) + (IF i = 1 THEN first ELSE runover) <= CellsPerLine
        BY <1>6, <2>1 DEF FitsOn
  <2>3. i \in 1..Len(more) /\ n \in i..Len(more)
        BY <1>1, <1>2, <1>4
  <2>4. SubSeq(more, i, n) = SubSeq(s, i, n)
        BY <1>1, <1>3, <1>4
  <2>5. /\ Width(SubSeq(s, i, n)) <= Width(SubSeq(more, i, n + 1))
        /\ Width(SubSeq(s, i, n)) \in Nat /\ Width(SubSeq(more, i, n + 1)) \in Nat
    <3> HIDE DEF more, n
    <3> QED BY <1>2, <2>3, <2>4, WidthOfMore
  <2> DEFINE a == Width(SubSeq(s, i, n))
             b == Width(SubSeq(more, i, n + 1))
             c == IF i = 1 THEN first ELSE runover
  <2>6. a \in Nat /\ b \in Nat /\ a <= b /\ c \in Int /\ b + c <= CellsPerLine
        BY <2>2, <2>5
  <2> HIDE DEF a, b, c
  <2>7. a + c <= CellsPerLine
        BY <2>6, PageAssumption
  <2> HIDE DEF last, n, fewer, more
  <2> QED BY <1>8, <2>1, <2>7 DEF FitsOn, a, c
<1> QED BY <1>10, <1>11

\* A line fits the page, or ends with one break mark beyond it.
LineOK(line) ==
    \/ Length(line) <= CellsPerLine
    \/ Length(line) = CellsPerLine + 1 /\ Last(Last(line.words)) \in BreakAfter

\* What a text is once the pieces s are put on lines: the last line starts with
\* the g-th, and lines that all fit are more or start no later.
Ahead(first, runover, s, done, g) ==
    \A starts \in SUBSET (2..Len(s)) :
        Feasible(s, first, runover, starts) =>
            \/ Len(done) < Cardinality(starts)
            \/ Len(done) = Cardinality(starts) /\ \A m \in starts : m <= g
\* The line in hand holds the pieces from the g-th on, at its indent.
LineFrom(first, runover, s, text, g) ==
    /\ g \in 1..(Len(s) + 1) /\ (text.done = <<>> => g = 1) /\ (s # <<>> => g <= Len(s))
    /\ (s = <<>> => text.done = <<>>)
    /\ text.line.words = SubSeq(s, g, Len(s))
    /\ text.line.indent = IF g = 1 THEN first ELSE runover

\* What holds after each piece: the line in hand and those closed before it.
Filled(first, runover, s, text) ==
    /\ text \in Text /\ text.runover = runover
    /\ \E g : LineFrom(first, runover, s, text, g) /\ Ahead(first, runover, s, text.done, g)
    /\ LineOK(text.line) /\ \A k \in DOMAIN text.done : LineOK(text.done[k])

\* The indents of a line of braille.
Indents == {0, 2}

\* The line that is being filled is empty only before the first piece.
LEMMA LineFromType ==
    ASSUME NEW first, NEW runover, NEW s \in Seq(CellWord), NEW text, NEW g, LineFrom(first, runover, s, text, g)
    PROVE  /\ text.line.words \in Seq(CellWord)
           /\ text.line.words = <<>> <=> s = <<>>
<1> DEFINE n == Len(s)
<1>1. n \in Nat /\ g \in 1..(n + 1) /\ text.line.words = SubSeq(s, g, n) /\ (s # <<>> => g <= n)
      BY LenProperties DEF LineFrom
<1>2. \A i \in g..n : s[i] \in CellWord
      BY <1>1
<1>3. SubSeq(s, g, n) \in Seq(CellWord) /\ Len(SubSeq(s, g, n)) = IF g <= n THEN n - g + 1 ELSE 0
      BY <1>1, <1>2, SubSeqProperties
<1>4. s = <<>> <=> n = 0
      BY EmptySeq
<1>5. text.line.words = <<>> <=> Len(SubSeq(s, g, n)) = 0
      BY <1>1, <1>3, EmptySeq
<1>6. Len(SubSeq(s, g, n)) = 0 <=> n = 0
      BY <1>1, <1>3, <1>4
<1> HIDE DEF n
<1>7. text.line.words = <<>> <=> s = <<>>
      BY <1>4, <1>5, <1>6
<1> QED BY <1>1, <1>3, <1>7

\* A line that is done starts a line no later than any other way to divide the
\* pieces.
LEMMA AheadMore ==
    ASSUME NEW s \in Seq(CellWord), NEW w \in CellWord, NEW first \in Indents, NEW runover \in Indents,
           NEW text \in Text, NEW g, LineFrom(first, runover, s, text, g), Ahead(first, runover, s, text.done, g),
           NEW fits, fits <=> (text.line.words = <<>>
                               \/ Width(Append(text.line.words, w)) + text.line.indent <= CellsPerLine),
           NEW done \in Seq(Line), fits => done = text.done, ~fits => done = Append(text.done, text.line)
    PROVE  Ahead(first, runover, Append(s, w), done, IF fits THEN g ELSE Len(s) + 1)
<1> DEFINE n == Len(s)
           more == Append(s, w)
           D == Len(text.done)
<1>1. n \in Nat /\ more \in Seq(CellWord) /\ Len(more) = n + 1
      BY AppendProperties, LenProperties
<1>2. /\ g \in 1..(n + 1) /\ (text.done = <<>> => g = 1) /\ (s # <<>> => g <= n)
      /\ (s = <<>> => text.done = <<>>) /\ text.line.words = SubSeq(s, g, n)
      /\ text.line.indent = IF g = 1 THEN first ELSE runover
      BY DEF LineFrom
<1>3. D \in Nat /\ (text.done = <<>> <=> D = 0) /\ Len(done) = IF fits THEN D ELSE D + 1
  <2>1. text.done \in Seq(Line) /\ text.line \in Line
        BY DEF Text
  <2>2. Len(Append(text.done, text.line)) = D + 1
        BY <2>1, AppendProperties
  <2> QED BY <2>1, <2>2, EmptySeq, LenProperties
<1>4. (n = 0 <=> s = <<>>) /\ (text.line.words = <<>> <=> s = <<>>)
      BY LineFromType, EmptySeq
<1> SUFFICES ASSUME NEW starts \in SUBSET (2..(n + 1)), Feasible(more, first, runover, starts)
             PROVE  \/ Len(done) < Cardinality(starts)
                    \/ Len(done) = Cardinality(starts) /\ \A m \in starts : m <= IF fits THEN g ELSE n + 1
      BY <1>1 DEF Ahead
<1> DEFINE fewer == starts \ {n + 1}
<1>5. IsFiniteSet(starts) /\ Cardinality(starts) \in Nat /\ IsFiniteSet(fewer) /\ Cardinality(fewer) \in Nat
      /\ (n + 1 \in starts => Cardinality(starts) = Cardinality(fewer) + 1)
      /\ (n + 1 \notin starts => fewer = starts)
  <2>1. IsFiniteSet(2..(n + 1))
    <3> DEFINE end == n + 1
    <3>1. 2 \in Int /\ end \in Int
          BY <1>1
    <3> HIDE DEF end
    <3>2. IsFiniteSet(2..end)
          BY <3>1, FS_Interval, Zenon
    <3> QED BY <3>2 DEF end
  <2>2. IsFiniteSet(starts)
        BY <2>1, FS_Subset
  <2>3. IsFiniteSet(fewer) /\ Cardinality(fewer) = IF n + 1 \in starts THEN Cardinality(starts) - 1 ELSE Cardinality(starts)
    <3> DEFINE x == n + 1
    <3> HIDE DEF x
    <3>1. IsFiniteSet(starts \ {x}) /\ Cardinality(starts \ {x}) = IF x \in starts THEN Cardinality(starts) - 1 ELSE Cardinality(starts)
          BY <2>2, FS_RemoveElement
    <3> QED BY <3>1 DEF x
  <2>4. Cardinality(starts) \in Nat /\ Cardinality(fewer) \in Nat
        BY <2>2, <2>3, FS_CardinalityType
  <2> HIDE DEF fewer
  <2>5. n + 1 \notin starts => fewer = starts
        BY DEF fewer
  <2> QED BY <2>2, <2>3, <2>4, <2>5
<1>6. CASE n = 0
  <2>1. starts = {} /\ fits
        BY <1>4, <1>6
  <2>2. Len(done) = 0 /\ Cardinality(starts) = 0
        BY <1>2, <1>3, <1>4, <1>6, <2>1, FS_EmptySet
  <2> QED BY <2>1, <2>2
<1>7. CASE n # 0
  <2>1. s # <<>> /\ n >= 1 /\ fewer \in SUBSET (2..n)
    <3>1. \A j \in fewer : j \in 2..n
          BY <1>1
    <3> HIDE DEF fewer
    <3> QED BY <1>1, <1>4, <1>7, <3>1
  <2>2. first \in Int /\ runover \in Int
        BY DEF Indents
  <2>3. Feasible(s, first, runover, fewer)
        BY <2>1, <2>2, FeasibleBefore
  <2>4. \/ D < Cardinality(fewer)
        \/ D = Cardinality(fewer) /\ \A m \in fewer : m <= g
        BY <2>1, <2>3 DEF Ahead
  <2>5. CASE n + 1 \in starts
    <3>1. Cardinality(starts) = Cardinality(fewer) + 1
          BY <1>5, <2>5
    <3>2. CASE fits
          BY <1>3, <1>5, <2>4, <3>1, <3>2
    <3>3. CASE ~fits
      <4>1. \A m \in starts : m <= n + 1
            BY <1>1
      <4>2. Len(done) = D + 1
            BY <1>3, <3>3
      <4> HIDE DEF n, fewer, D
      <4> QED BY <1>3, <1>5, <2>4, <3>1, <3>3, <4>1, <4>2
    <3> QED BY <3>2, <3>3
  <2>6. CASE n + 1 \notin starts
    <3>1. fewer = starts
          BY <1>5, <2>6
    <3>2. CASE D < Cardinality(starts)
      <4>1. \A m \in starts : m <= n + 1
            BY <1>1
      <4>2. CASE fits
            BY <1>3, <3>2, <4>2
      <4>3. CASE ~fits
        <5>1. Len(done) = D + 1
              BY <1>3, <4>3
        <5> HIDE DEF n, fewer, D
        <5> QED BY <1>3, <1>5, <3>2, <4>1, <4>3, <5>1
      <4> QED BY <4>2, <4>3
    <3>3. CASE D = Cardinality(starts) /\ \A m \in starts : m <= g
      <4>1. PICK m \in starts \union {1} : \A j \in starts \union {1} : j <= m
        <5> DEFINE S == starts \union {1}
        <5>1. S \in SUBSET (1..(n + 1)) /\ S # {} /\ n + 1 \in Nat
              BY <1>1
        <5> HIDE DEF S, n
        <5>2. \E x \in S : \A y \in S : y <= x
          <6> DEFINE N == n + 1
                     back == {N - x : x \in S}
          <6>1. \A x \in S : x \in Nat /\ N - x \in Nat
                BY <5>1
          <6>2. back \in SUBSET Nat /\ back # {}
                BY <5>1, <6>1
          <6> HIDE DEF back
          <6>3. PICK b \in back : \A c \in back : b <= c
                BY <6>2, SetFold!LeastNat
          <6>4. PICK x \in S : b = N - x
                BY DEF back
          <6>5. \A y \in S : b <= N - y
                BY <6>3 DEF back
          <6>6. \A y \in S : y <= x
                BY <5>1, <6>1, <6>4, <6>5
          <6> QED BY <6>6
        <5> QED BY <5>2 DEF S
      <4>2. m \in 1..n /\ m \in 1..(n + 1) /\ n + 1 \in Nat
            BY <1>1, <2>1, <3>1
      <4>3. IsEnd(n + 1, m, starts, EndOf(n + 1, m, starts))
            BY <4>2, EndIs
      <4>4. EndOf(n + 1, m, starts) = n + 1
        <5> DEFINE e == EndOf(n + 1, m, starts)
        <5>1. e \in m..(n + 1) /\ (e = n + 1 \/ e + 1 \in starts)
              BY <4>3 DEF IsEnd
        <5> HIDE DEF e
        <5>2. \A j \in starts : j <= m
              BY <4>1
        <5>3. e + 1 \notin starts
              BY <4>2, <5>1, <5>2
        <5> QED BY <5>1, <5>3 DEF e
      <4>5. Width(SubSeq(more, m, n + 1)) + (IF m = 1 THEN first ELSE runover) <= CellsPerLine
        <5>1. FitsOn(more, first, runover, m, n + 1)
              BY <1>1, <4>4 DEF Feasible
        <5>2. m # n + 1
              BY <1>1, <4>2
        <5> QED BY <5>1, <5>2 DEF FitsOn
      <4>6. m <= g /\ g \in 1..n
        <5>1. m \in starts => m <= g
              BY <3>3
        <5> QED BY <1>1, <1>2, <2>1, <4>2, <5>1
      <4>7. text.line.indent = IF m = 1 THEN first ELSE runover
        <5>1. CASE m = 1
          <6>1. starts = {}
            <7>1. \A j \in starts : j <= 1 /\ j \in 2..(n + 1)
                  BY <4>1, <5>1
            <7> QED BY <1>1, <7>1
          <6>2. D = 0
                BY <3>3, <6>1, FS_EmptySet
          <6> QED BY <1>2, <1>3, <5>1, <6>2
        <5>2. CASE m # 1
          <6>1. g # 1
                BY <4>2, <4>6, <5>2
          <6> QED BY <1>2, <5>2, <6>1
        <5> QED BY <5>1, <5>2
      <4>8. Append(text.line.words, w) = SubSeq(more, g, n + 1)
        <5>1. g \in 1..n /\ n \in g..n /\ n \in 1..n
              BY <1>1, <4>6
        <5>2. SubSeq(more, g, n + 1) = SubSeq(more, g, n) \o <<more[n + 1]>>
          <6>1. g \in 1..Len(more) /\ n + 1 \in g..Len(more) /\ (n + 1) - 1 = n
                BY <1>1, <5>1
          <6> HIDE DEF more, n
          <6> QED BY <1>1, <6>1, SubSeqRecursiveSecond
        <5>3. SubSeq(more, g, n) = SubSeq(s, g, n)
          <6>1. more = s \o <<w>> /\ <<w>> \in Seq(CellWord)
                BY AppendIsConcat
          <6> HIDE DEF more
          <6> QED BY <5>1, <6>1, SubSeqOfConcat1
        <5>4. more[n + 1] = w
              BY <1>1, AppendProperties
        <5>5. text.line.words \in Seq(CellWord)
              BY LineFromType
        <5> QED BY <1>2, <5>2, <5>3, <5>4, <5>5, AppendIsConcat
      <4>9. Width(SubSeq(more, g, n + 1)) <= Width(SubSeq(more, m, n + 1))
            /\ Width(SubSeq(more, g, n + 1)) \in Nat /\ Width(SubSeq(more, m, n + 1)) \in Nat
        <5>1. m \in 1..Len(more) /\ g \in m..Len(more) /\ g \in 1..Len(more)
              BY <1>1, <4>2, <4>6
        <5>2. Len(more) = n + 1
              BY <1>1
        <5> HIDE DEF more
        <5>3. /\ Width(SubSeq(more, m, Len(more))) \in Nat
              /\ Width(SubSeq(more, g, Len(more))) <= Width(SubSeq(more, m, Len(more)))
              BY <1>1, <5>1, WidthOfMore
        <5>4. g \in g..Len(more)
              BY <1>1, <5>1
        <5>5. Width(SubSeq(more, g, Len(more))) \in Nat
              BY <1>1, <5>1, <5>4, WidthOfMore
        <5> QED BY <5>2, <5>3, <5>5
      <4>10. fits
        <5> DEFINE a == Width(SubSeq(more, g, n + 1))
                   b == Width(SubSeq(more, m, n + 1))
                   c == IF m = 1 THEN first ELSE runover
        <5>1. a \in Nat /\ b \in Nat /\ a <= b /\ c \in Int /\ b + c <= CellsPerLine
              BY <2>2, <4>5, <4>9
        <5> HIDE DEF a, b, c
        <5>2. a + c <= CellsPerLine
              BY <5>1, PageAssumption
        <5> QED BY <4>7, <4>8, <5>2 DEF a, c
      <4> QED BY <1>3, <3>3, <4>10
    <3> QED BY <2>4, <3>1, <3>2, <3>3
  <2> QED BY <2>5, <2>6
<1> QED BY <1>6, <1>7

\* The cells a piece of a block may take, and the pieces that take no more.
Room(first, runover) == CellsPerLine - Max({first, runover})
\* The pieces that fit the room of a line.
Fitting(first, runover) == {piece \in CellWord : PieceOK(piece, Room(first, runover))}

\* There is room for a cell beside either indent.
LEMMA RoomType ==
    ASSUME NEW first \in Indents, NEW runover \in Indents
    PROVE  /\ Room(first, runover) \in Nat \ {0}
           /\ first + Room(first, runover) <= CellsPerLine /\ runover + Room(first, runover) <= CellsPerLine
           /\ first \in Nat /\ runover \in Nat /\ first <= CellsPerLine
<1>1. first \in Int /\ runover \in Int
      BY DEF Indents
<1>2. Max({first, runover}) = IF first <= runover THEN runover ELSE first
      BY <1>1, TheGreater
<1> QED BY <1>2, PageAssumption DEF Room, Indents

\* The pieces of a block fit on a line, or stand out by a break mark.
LEMMA PiecesFit ==
    ASSUME NEW words \in Seq(CellWord), NEW first \in Indents, NEW runover \in Indents
    PROVE  Pieces(words, first, runover) \in Seq(Fitting(first, runover))
<1> DEFINE u == Room(first, runover)
           Good == Fitting(first, runover)
           brk == [w \in CellWord |-> BreakLongToken(w, u)]
<1>1. u \in Int /\ u >= 1
      BY RoomType
<1>2. ASSUME NEW w \in CellWord PROVE BreakLongToken(w, u) \in Seq(Good)
  <2> DEFINE broken == BreakLongToken(w, u)
  <2>1. broken \in Seq(CellWord) /\ \A k \in DOMAIN broken : PieceOK(broken[k], u)
        BY <1>1, BreakKeeps
  <2> HIDE DEF broken
  <2>2. broken = [k \in 1..Len(broken) |-> broken[k]] /\ Len(broken) \in Nat /\ DOMAIN broken = 1..Len(broken)
        BY <2>1
  <2>3. \A k \in 1..Len(broken) : broken[k] \in Good
        BY <2>1, <2>2 DEF Fitting
  <2> HIDE DEF Good
  <2>4. broken \in Seq(Good)
        BY <2>2, <2>3, AFunctionIsASeq
  <2> QED BY <2>4 DEF broken
<1>3. brk \in [CellWord -> Seq(Good)]
      BY <1>2
<1>4. Pieces(words, first, runover) = Each(brk, words)
  <2>1. \A i \in DOMAIN words : words[i] \in CellWord
        OBVIOUS
  <2>2. [i \in DOMAIN words |-> brk[words[i]]] = [i \in DOMAIN words |-> BreakLongToken(words[i], u)]
        BY <2>1
  <2> QED BY <2>2, Zenon DEF Pieces, Each, Room
<1> HIDE DEF brk, Good
<1>5. Each(brk, words) \in Seq(Good)
      BY <1>3, EachType
<1> QED BY <1>4, <1>5 DEF Good

\* A line of one piece.
LEMMA AloneOK ==
    ASSUME NEW first \in Indents, NEW runover \in Indents, NEW w \in Fitting(first, runover),
           NEW indent \in {first, runover}, NEW line, line = [indent |-> indent, words |-> <<w>>]
    PROVE  LineOK(line)
<1> DEFINE u == Room(first, runover)
<1>1. w \in CellWord /\ PieceOK(w, u)
      BY DEF Fitting
<1>2. Width(<<w>>) = Len(w) /\ Len(w) \in Nat
      BY <1>1, WidthOfOne, LenProperties DEF CellWord
<1>3. Length(line) = indent + Len(w) /\ Last(Last(line.words)) = Last(w)
      BY <1>2 DEF Length, Last
<1>4. u \in Nat /\ indent \in Nat /\ indent + u <= CellsPerLine /\ CellsPerLine \in Nat
      BY RoomType, PageAssumption
<1> HIDE DEF u
<1>5. Len(w) <= u \/ (Len(w) = u + 1 /\ Last(w) \in BreakAfter)
      BY <1>1 DEF PieceOK
<1>6. CASE Len(w) <= u
      BY <1>2, <1>3, <1>4, <1>6 DEF LineOK
<1>7. CASE Len(w) = u + 1 /\ Last(w) \in BreakAfter
  <2>1. Length(line) <= CellsPerLine \/ Length(line) = CellsPerLine + 1
        BY <1>2, <1>3, <1>4, <1>7
  <2> QED BY <1>3, <1>7, <2>1 DEF LineOK
<1> QED BY <1>5, <1>6, <1>7

\* Before the first piece.
LEMMA FilledBegin ==
    ASSUME NEW first \in Indents, NEW runover \in Indents
    PROVE  Filled(first, runover, <<>>, Begun(first, runover))
<1> DEFINE text == Begun(first, runover)
<1>1. text.done = <<>> /\ text.line.words = <<>> /\ text.line.indent = first /\ text.runover = runover
      BY DEF Begun, LineOf
<1>2. text \in Text
      BY BegunType, RoomType
<1> HIDE DEF text
<1>3. LineFrom(first, runover, <<>>, text, 1)
  <2>1. SubSeq(<<>>, 1, Len(<<>>)) = <<>>
        BY SubSeqEmpty
  <2> QED BY <1>1, <2>1 DEF LineFrom
<1>4. Ahead(first, runover, <<>>, text.done, 1)
  <2>1. \A starts \in SUBSET (2..Len(<<>>)) : starts = {}
        OBVIOUS
  <2>2. Len(text.done) = 0
        BY <1>1
  <2> QED BY <2>1, <2>2, FS_EmptySet DEF Ahead
<1>5. LineOK(text.line)
  <2>1. Width(<<>>) = 0
        BY DEF Width
  <2> QED BY <1>1, <2>1, RoomType DEF LineOK, Length
<1> QED BY <1>1, <1>2, <1>3, <1>4, <1>5 DEF Filled, text

\* One piece more: the line before stays ahead of every other division.
LEMMA FilledMore ==
    ASSUME NEW first \in Indents, NEW runover \in Indents, NEW s \in Seq(CellWord),
           NEW w \in Fitting(first, runover), NEW text, Filled(first, runover, s, text)
    PROVE  Filled(first, runover, Append(s, w), AddWord(text, w))
<1> DEFINE longer == [indent |-> text.line.indent, words |-> Append(text.line.words, w)]
           new == [indent |-> text.runover, words |-> <<w>>]
           fits == text.line.words = <<>> \/ Width(longer.words) + longer.indent <= CellsPerLine
           after == AddWord(text, w)
           more == Append(s, w)
           n == Len(s)
<1>1. /\ text \in Text /\ text.runover = runover /\ w \in CellWord
      /\ LineOK(text.line) /\ \A k \in DOMAIN text.done : LineOK(text.done[k])
      BY DEF Filled, Fitting
<1>2. PICK g : LineFrom(first, runover, s, text, g) /\ Ahead(first, runover, s, text.done, g)
      BY DEF Filled
<1>3. /\ longer \in Line /\ text.line \in Line /\ text.done \in Seq(Line) /\ text.line.words \in Seq(CellWord)
      /\ \/ fits /\ after = [done |-> text.done, line |-> longer, runover |-> text.runover]
         \/ ~fits /\ after = [done |-> Append(text.done, text.line), line |-> new, runover |-> text.runover]
  <2>1. text.line \in Line /\ text.done \in Seq(Line) /\ text.line.words \in Seq(CellWord)
        BY <1>1 DEF Text, Line
  <2> DEFINE one == [done |-> text.done, line |-> longer, runover |-> text.runover]
             two == [done |-> Append(text.done, text.line), line |-> new, runover |-> text.runover]
  <2>2. two = [done |-> Append(text.done, text.line), runover |-> text.runover, line |-> new]
        OBVIOUS
  <2>3. longer \in Line /\ \/ fits /\ after = one
                           \/ ~fits /\ after = [done |-> Append(text.done, text.line), runover |-> text.runover, line |-> new]
        BY <1>1, AddWordCases
  <2> QED BY <2>1, <2>2, <2>3, Zenon
<1>4. after \in Text
      BY <1>1, AddWordSays
<1>5. longer.words = Append(text.line.words, w) /\ longer.indent = text.line.indent
      /\ new.words = <<w>> /\ new.indent = runover
      BY <1>1
<1>6. /\ n \in Nat /\ more \in Seq(CellWord) /\ Len(more) = n + 1 /\ more # <<>>
  <2>1. n \in Nat /\ more \in Seq(CellWord) /\ Len(more) = n + 1
        BY <1>1, AppendProperties, LenProperties
  <2> QED BY <2>1, EmptySeq
<1>7. /\ g \in 1..(n + 1) /\ (text.done = <<>> => g = 1) /\ (s # <<>> => g <= n)
      /\ (s = <<>> => text.done = <<>>) /\ text.line.words = SubSeq(s, g, n)
      /\ text.line.indent = IF g = 1 THEN first ELSE runover
      BY <1>2 DEF LineFrom
<1>8. (text.line.words = <<>> <=> s = <<>>) /\ (s = <<>> <=> n = 0)
      BY <1>2, LineFromType, EmptySeq
<1> DEFINE suffix(i) == SubSeq(more, i, n + 1)
<1>9. /\ suffix(n + 1) = <<w>>
      /\ g <= n => suffix(g) = Append(SubSeq(s, g, n), w)
      /\ n = 0 => suffix(g) = <<w>>
  <2>1. more[n + 1] = w
        BY <1>1, <1>6, AppendProperties
  <2>2. ASSUME NEW i \in 1..(n + 1)
        PROVE  SubSeq(more, i, n + 1) = SubSeq(more, i, n) \o <<w>>
    <3>1. i \in 1..Len(more) /\ n + 1 \in i..Len(more) /\ (n + 1) - 1 = n
          BY <1>6
    <3> HIDE DEF more, n
    <3> QED BY <1>6, <2>1, <3>1, SubSeqRecursiveSecond
  <2>3. suffix(n + 1) = <<w>>
    <3>1. SubSeq(more, n + 1, n) = <<>>
          BY <1>6, SubSeqEmpty
    <3>2. n + 1 \in 1..(n + 1) /\ <<>> \o <<w>> = <<w>>
          BY <1>6, ConcatEmptySeq
    <3> QED BY <2>2, <3>1, <3>2
  <2>4. ASSUME g <= n PROVE suffix(g) = Append(SubSeq(s, g, n), w)
    <3>1. g \in 1..(n + 1) /\ g \in 1..n /\ n \in 1..n
          BY <1>6, <1>7, <2>4
    <3>2. more = s \o <<w>> /\ <<w>> \in Seq(CellWord)
          BY <1>1, AppendIsConcat
    <3> HIDE DEF more
    <3>3. SubSeq(more, g, n) = SubSeq(s, g, n)
          BY <3>1, <3>2, SubSeqOfConcat1
    <3>4. SubSeq(s, g, n) \in Seq(CellWord)
          BY <1>3, <1>7
    <3> QED BY <1>1, <2>2, <3>1, <3>3, <3>4, AppendIsConcat
  <2>5. n = 0 => g = n + 1
        BY <1>7
  <2> QED BY <2>3, <2>4, <2>5
<1>10. text.line.indent \in {first, runover}
      BY <1>7
<1> HIDE DEF longer, new, after, more, n, suffix, fits
<1>11. CASE fits
  <2>1. after.done = text.done /\ after.line = longer /\ after.runover = runover
        BY <1>1, <1>3, <1>11
  <2>2. g \in 1..(n + 1) /\ g \in 1..((n + 1) + 1) /\ g <= n + 1
        BY <1>6, <1>7
  <2>3. longer.words = suffix(g)
    <3>1. CASE s = <<>>
          BY <1>1, <1>5, <1>8, <1>9, <3>1
    <3>2. CASE s # <<>>
          BY <1>5, <1>7, <1>9, <3>2
    <3> QED BY <3>1, <3>2
  <2>4. LineFrom(first, runover, more, after, g)
        BY <1>5, <1>6, <1>7, <2>1, <2>2, <2>3 DEF LineFrom, suffix
  <2>5. Ahead(first, runover, more, after.done, g)
    <3> DEFINE done == text.done
    <3>1. done \in Seq(Line) /\ (fits => done = text.done) /\ (~fits => done = Append(text.done, text.line))
          BY <1>3, <1>11
    <3>2. fits <=> (text.line.words = <<>>
                    \/ Width(Append(text.line.words, w)) + text.line.indent <= CellsPerLine)
          BY <1>5 DEF fits
    <3> HIDE DEF done
    <3>3. Ahead(first, runover, Append(s, w), done, IF fits THEN g ELSE Len(s) + 1)
          BY <1>1, <1>2, <3>1, <3>2, AheadMore
    <3> QED BY <1>11, <2>1, <3>3 DEF done, more
  <2>6. LineOK(longer)
    <3>1. CASE text.line.words = <<>>
      <4>1. longer = [indent |-> text.line.indent, words |-> <<w>>]
            BY <1>1, <3>1 DEF longer
      <4> QED BY <1>10, <4>1, AloneOK
    <3>2. CASE text.line.words # <<>>
      <4>1. Width(longer.words) + longer.indent <= CellsPerLine
            BY <1>11, <3>2 DEF fits
      <4>2. longer.indent \in Int /\ Width(longer.words) \in Nat
        <5>1. longer.words \in Seq(CellWord) /\ longer.indent \in Int
              BY <1>3 DEF Line
        <5> QED BY <5>1, WidthIsNatural DEF CellWord
      <4> QED BY <4>1, <4>2 DEF LineOK, Length
    <3> QED BY <3>1, <3>2
  <2> QED BY <1>1, <1>4, <2>1, <2>4, <2>5, <2>6 DEF Filled, after, more
<1>12. CASE ~fits
  <2>1. after.done = Append(text.done, text.line) /\ after.line = new /\ after.runover = runover
        BY <1>1, <1>3, <1>12
  <2>2. s # <<>> /\ n # 0
        BY <1>8, <1>12 DEF fits
  <2>3. n + 1 \in 1..(n + 1) /\ n + 1 \in 1..((n + 1) + 1) /\ n + 1 <= n + 1 /\ n + 1 # 1
        BY <1>6, <2>2
  <2>4. Append(text.done, text.line) # <<>> /\ Append(text.done, text.line) \in Seq(Line)
        BY <1>3, AppendProperties, EmptySeq
  <2>5. LineFrom(first, runover, more, after, n + 1)
        BY <1>5, <1>6, <1>9, <2>1, <2>3, <2>4 DEF LineFrom, suffix
  <2>6. Ahead(first, runover, more, after.done, n + 1)
    <3> DEFINE done == Append(text.done, text.line)
    <3>1. done \in Seq(Line) /\ (fits => done = text.done) /\ (~fits => done = Append(text.done, text.line))
          BY <2>4, <1>12
    <3>2. fits <=> (text.line.words = <<>>
                    \/ Width(Append(text.line.words, w)) + text.line.indent <= CellsPerLine)
          BY <1>5 DEF fits
    <3> HIDE DEF done
    <3>3. Ahead(first, runover, Append(s, w), done, IF fits THEN g ELSE Len(s) + 1)
          BY <1>1, <1>2, <3>1, <3>2, AheadMore
    <3> QED BY <1>12, <2>1, <3>3 DEF done, more, n
  <2>7. LineOK(new)
    <3>1. new = [indent |-> runover, words |-> <<w>>]
          BY <1>1 DEF new
    <3> QED BY <3>1, AloneOK
  <2>8. \A k \in DOMAIN after.done : LineOK(after.done[k])
    <3> SUFFICES ASSUME NEW k \in DOMAIN after.done PROVE LineOK(after.done[k])
          OBVIOUS
    <3> DEFINE d == Len(text.done)
    <3>1. /\ k \in 1..(d + 1) /\ d \in Nat /\ (k \in 1..d => after.done[k] = text.done[k])
          /\ (k = d + 1 => after.done[k] = text.line) /\ DOMAIN text.done = 1..d
          BY <1>3, <2>1, AppendProperties, LenProperties
    <3> HIDE DEF d
    <3>2. k \in 1..d \/ k = d + 1
          BY <3>1
    <3> QED BY <1>1, <3>1, <3>2
  <2> QED BY <1>4, <2>1, <2>5, <2>6, <2>7, <2>8 DEF Filled, after, more
<1> QED BY <1>11, <1>12

\* The pieces of a block, put on lines one by one.
LEMMA FilledAll ==
    ASSUME NEW first \in Indents, NEW runover \in Indents
    PROVE  \A s \in Seq(Fitting(first, runover)) :
               s \in Seq(CellWord) /\ Filled(first, runover, s, WrapFold!Fold(Begun(first, runover), s))
<1> DEFINE begun == Begun(first, runover)
           Good == Fitting(first, runover)
           T == {s \in Seq(Good) : s \in Seq(CellWord) /\ Filled(first, runover, s, WrapFold!Fold(begun, s))}
<1>1. <<>> \in T
  <2>1. Filled(first, runover, <<>>, begun) /\ WrapFold!Fold(begun, <<>>) = begun
        BY FilledBegin, WrapFold!FoldEmpty
  <2> HIDE DEF begun, Good
  <2> QED BY <2>1, EmptySeq
<1>2. ASSUME NEW s \in Seq(Good), NEW w \in Good, s \in T PROVE Append(s, w) \in T
  <2> DEFINE a == WrapFold!Fold(begun, s)
             b == WrapFold!Fold(begun, Append(s, w))
  <2>1. s \in Seq(CellWord) /\ w \in CellWord /\ Filled(first, runover, s, a)
        BY <1>2 DEF Fitting
  <2>2. b = AddWord(a, w)
    <3> HIDE DEF begun, Good
    <3> QED BY WrapFold!FoldAppend
  <2> HIDE DEF a, b, begun
  <2>3. Filled(first, runover, Append(s, w), b)
        BY <2>1, <2>2, FilledMore
  <2> HIDE DEF Good
  <2>4. Append(s, w) \in Seq(CellWord) /\ Append(s, w) \in Seq(Good)
        BY <2>1, AppendProperties
  <2> QED BY <2>3, <2>4 DEF b
<1> HIDE DEF T, Good
<1>3. \A s \in Seq(Good) : s \in T
      BY <1>1, <1>2, WrapFold!SeqInduction
<1> QED BY <1>3 DEF T, Good, begun

\* The code's indents are of no or of two cells.
LEMMA IndentsOf == \A kind : FirstIndent(kind) \in Indents /\ Runover(kind) \in Indents
      BY DEF FirstIndent, Runover, Indents

\* No other way to divide a block into lines takes fewer of them, and a line
\* is no longer than the page is wide, but for a break mark at its end.
LEMMA WrapIsBest ==
    ASSUME NEW words \in Seq(CellWord), NEW first \in Indents, NEW runover \in Indents,
           NEW pieces, pieces = Pieces(words, first, runover),
           NEW lines, lines = Wrap(words, first, runover)
    PROVE  /\ \A starts \in SUBSET (2..Len(pieces)) :
                  Feasible(pieces, first, runover, starts) => Len(lines) <= Cardinality(starts) + 1
           /\ \A line \in ToSet(lines) : LineOK(line)
<1> DEFINE text == WrapFold!Fold(Begun(first, runover), pieces)
<1>1. lines = IF pieces = <<>> THEN <<>> ELSE Append(text.done, text.line)
      BY WrapIsFold
<1>2. pieces \in Seq(CellWord) /\ Filled(first, runover, pieces, text)
      BY PiecesFit, FilledAll
<1> HIDE DEF text
<1>3. Len(pieces) \in Nat
      BY <1>2, LenProperties
<1>4. text.done \in Seq(Line) /\ text.line \in Line
      BY <1>2 DEF Filled, Text
<1>5. PICK g : Ahead(first, runover, pieces, text.done, g)
      BY <1>2 DEF Filled
<1>6. ASSUME NEW starts \in SUBSET (2..Len(pieces)) PROVE Cardinality(starts) \in Nat
  <2>1. IsFiniteSet(2..Len(pieces)) /\ starts \subseteq 2..Len(pieces)
        BY <1>3, FS_Interval
  <2> QED BY <2>1, FS_Subset, FS_CardinalityType
<1>7. CASE pieces = <<>>
  <2>1. lines = <<>> /\ Len(lines) = 0 /\ ToSet(lines) = {}
        BY <1>1, <1>7 DEF ToSet
  <2> QED BY <1>6, <2>1
<1>8. CASE pieces # <<>>
  <2>1. lines = Append(text.done, text.line)
        BY <1>1, <1>8
  <2>2. Len(lines) = Len(text.done) + 1 /\ Len(text.done) \in Nat
        BY <1>4, <2>1, AppendProperties, LenProperties
  <2>3. ASSUME NEW starts \in SUBSET (2..Len(pieces)), Feasible(pieces, first, runover, starts)
        PROVE  Len(lines) <= Cardinality(starts) + 1
    <3>1. Len(text.done) < Cardinality(starts) \/ Len(text.done) = Cardinality(starts)
          BY <1>5, <2>3 DEF Ahead
    <3> QED BY <1>6, <2>2, <3>1
  <2>4. ASSUME NEW line \in ToSet(lines) PROVE LineOK(line)
    <3>1. PICK k \in 1..(Len(text.done) + 1) : line = lines[k]
          BY <1>4, <2>1, <2>2 DEF ToSet
    <3>2. CASE k = Len(text.done) + 1
          BY <1>2, <1>4, <2>1, <3>1, <3>2, AppendProperties DEF Filled
    <3>3. CASE k # Len(text.done) + 1
      <4>1. k \in 1..Len(text.done) /\ DOMAIN text.done = 1..Len(text.done)
            BY <1>4, <2>2, <3>3, LenProperties
      <4>2. line = text.done[k]
            BY <1>4, <2>1, <3>1, <4>1, AppendProperties
      <4> QED BY <1>2, <4>1, <4>2 DEF Filled
    <3> QED BY <3>2, <3>3
  <2> QED BY <2>3, <2>4
<1> QED BY <1>7, <1>8

\* A block is set on as few lines as any division of its pieces into lines
\* that fit, and no line is longer than the page but for a break mark.
THEOREM WrappingIsShortest == Spec => []WrapIsShortest
<1>1. TypeOK => WrapIsShortest
  <2> SUFFICES ASSUME TypeOK PROVE WrapIsShortest
        OBVIOUS
  <2> DEFINE said == Translated(BuildBlocks(title, Page))
  <2>1. said \in Seq(BrailleBlock)
        BY BuildType, TranslatedType
  <2>2. ASSUME NEW block \in ToSet(said),
               NEW first, first = FirstIndent(block.kind), NEW runover, runover = Runover(block.kind),
               NEW pieces, pieces = Pieces(block.words, first, runover),
               NEW lines, lines = Wrap(block.words, first, runover)
        PROVE  /\ \A starts \in SUBSET (2..Len(pieces)) :
                      Feasible(pieces, first, runover, starts) => Len(lines) <= Cardinality(starts) + 1
               /\ \A line \in ToSet(lines) : LineOK(line)
    <3> HIDE DEF said
    <3>1. block \in BrailleBlock
          BY <2>1, <2>2, LenProperties DEF ToSet
    <3>2. block.words \in Seq(CellWord) /\ first \in Indents /\ runover \in Indents
          BY <2>2, <3>1, IndentsOf DEF BrailleBlock
    <3> QED BY <2>2, <3>2, WrapIsBest
  <2> HIDE DEF said
  <2> QED BY <2>2, Zenon DEF WrapIsShortest, Feasible, FitsOn, EndOf, LineOK, said
<1> QED BY <1>1, TypeCorrect, PTL

(***************************************************************************)
(* The score and the edits                                                 *)
(***************************************************************************)
\* Two sequences of one length, their members paired.
Matched(M, s, t) == Len(s) = Len(t) /\ \A i \in 1..Len(s) : <<s[i], t[i]>> \in M

\* Induction on two sequences at once.
LEMMA PairsInduction ==
    ASSUME NEW D, NEW M, NEW T, << <<>>, <<>> >> \in T,
           \A s \in Seq(D), t \in Seq(D), d \in D, e \in D :
               (<<s, t>> \in T /\ <<d, e>> \in M) => <<Append(s, d), Append(t, e)>> \in T
    PROVE  \A s \in Seq(D), t \in Seq(D) : Matched(M, s, t) => <<s, t>> \in T
<1> SUFFICES ASSUME NEW s \in Seq(D), NEW t \in Seq(D), Matched(M, s, t) PROVE <<s, t>> \in T
      OBVIOUS
<1> DEFINE n == Len(s)
           K == {k \in 0..n : <<SubSeq(s, 1, k), SubSeq(t, 1, k)>> \in T}
<1>1. n \in Nat /\ Len(t) = n /\ \A i \in 1..n : s[i] \in D /\ t[i] \in D /\ <<s[i], t[i]>> \in M
      BY LenProperties, ElementOfSeq DEF Matched
<1>2. 0 \in K
  <2>1. SubSeq(s, 1, 0) = <<>> /\ SubSeq(t, 1, 0) = <<>> /\ 0 \in 0..n
        BY <1>1, SubSeqEmpty
  <2> QED BY <2>1
<1>3. ASSUME NEW k \in 0..(n - 1), k \in K PROVE k + 1 \in K
  <2> DEFINE a == SubSeq(s, 1, k)
             b == SubSeq(t, 1, k)
  <2>1. k \in 0..Len(s) /\ k \in 0..Len(t) /\ k + 1 \in 1..n /\ k + 1 \in 0..n
        /\ k + 1 \in 1..Len(s) /\ k + 1 \in 1..Len(t) /\ (k + 1) - 1 = k
        BY <1>1
  <2>2. a \in Seq(D) /\ b \in Seq(D)
        BY <2>1, FirstsAreASeq
  <2>3. SubSeq(s, 1, k + 1) = a \o <<s[k + 1]>> /\ SubSeq(t, 1, k + 1) = b \o <<t[k + 1]>>
    <3>1. 1 \in 1..Len(s) /\ 1 \in 1..Len(t) /\ k + 1 \in 1..Len(s) /\ k + 1 \in 1..Len(t)
          BY <2>1
    <3> QED BY <2>1, <3>1, SubSeqRecursiveSecond
  <2> HIDE DEF a, b
  <2>4. SubSeq(s, 1, k + 1) = Append(a, s[k + 1]) /\ SubSeq(t, 1, k + 1) = Append(b, t[k + 1])
    <3>1. s[k + 1] \in D /\ t[k + 1] \in D
          BY <1>1, <2>1
    <3> QED BY <2>2, <2>3, <3>1, AppendIsConcat
  <2>5. <<a, b>> \in T
        BY <1>3 DEF a, b
  <2>6. <<Append(a, s[k + 1]), Append(b, t[k + 1])>> \in T
        BY <1>1, <2>1, <2>2, <2>5
  <2> QED BY <2>1, <2>4, <2>6
<1> HIDE DEF K
<1>4. n \in K
  <2>1. \A k \in 0..n : k \in K
        BY <1>1, <1>2, <1>3, JoinFold!BoundedInduction
  <2> QED BY <1>1, <2>1
<1>5. SubSeq(s, 1, n) = s /\ SubSeq(t, 1, n) = t
      BY <1>1, SubSeqFull
<1> QED BY <1>4, <1>5 DEF K

\* What is counted of findings put one after the other.
LEMMA CountOfMore ==
    ASSUME NEW report \in Seq(Findings), NEW finding \in Findings, NEW severity
    PROVE  Count(Append(report, finding), severity)
               = Count(report, severity) + (IF finding.severity = severity THEN 1 ELSE 0)
<1> DEFINE n == Len(report)
           more == Append(report, finding)
           Those == {i \in DOMAIN report : report[i].severity = severity}
           These == {i \in DOMAIN more : more[i].severity = severity}
<1>1. /\ n \in Nat /\ DOMAIN report = 1..n /\ DOMAIN more = 1..(n + 1) /\ more[n + 1] = finding
      /\ \A i \in 1..n : more[i] = report[i]
      BY AppendProperties, LenProperties
<1>2. IsFiniteSet(Those)
  <2>1. IsFiniteSet(1..n)
        BY <1>1, FS_Interval
  <2> QED BY <1>1, <2>1, FS_Subset
<1>3. Cardinality(Those) \in Nat
      BY <1>2, FS_CardinalityType
<1>4. n + 1 \notin Those
      BY <1>1
<1> DEFINE c == Cardinality(Those)
<1>7. Count(report, severity) = c /\ Count(more, severity) = Cardinality(These) /\ c \in Nat
      BY <1>3 DEF Count
<1>5. CASE finding.severity = severity
  <2>1. These = Those \union {n + 1}
        BY <1>1, <1>5
  <2>2. Cardinality(These) = Cardinality(Those) + 1
    <3> HIDE DEF These, Those, n
    <3> QED BY <1>2, <1>4, <2>1, FS_AddElement
  <2> QED BY <1>5, <1>7, <2>2
<1>6. CASE finding.severity # severity
  <2>1. These = Those
        BY <1>1, <1>6
  <2>2. Cardinality(These) = c
        BY <2>1
  <2> HIDE DEF These, Those, c
  <2> QED BY <1>6, <1>7, <2>2
<1> QED BY <1>5, <1>6

\* What a report takes off the score.
Cost(report) == 12 * Count(report, "error") + 3 * Count(report, "warning")

\* An empty report takes nothing off.
LEMMA CostOfNone == Cost(<<>>) = 0
<1>1. \A severity : {i \in DOMAIN <<>> : <<>>[i].severity = severity} = {}
      OBVIOUS
<1>2. \A severity : Count(<<>>, severity) = 0
      BY <1>1, FS_EmptySet DEF Count
<1> QED BY <1>2 DEF Cost

\* A report never takes off less than nothing.
LEMMA CostType ==
    ASSUME NEW report \in Seq(Findings)
    PROVE  Cost(report) \in Nat
      BY CountIsNatural DEF Cost

\* One finding more takes off what its severity weighs.
LEMMA CostOfOne ==
    ASSUME NEW report \in Seq(Findings), NEW finding \in Findings
    PROVE  Cost(Append(report, finding)) = Cost(report) +
               (IF finding.severity = "error" THEN 12 ELSE IF finding.severity = "warning" THEN 3 ELSE 0)
<1>1. \A severity : Count(Append(report, finding), severity)
                        = Count(report, severity) + (IF finding.severity = severity THEN 1 ELSE 0)
      BY CountOfMore
<1>2. \A severity : Count(report, severity) \in Nat
      BY CountIsNatural
<1> QED BY <1>1, <1>2 DEF Cost

\* Two reports put together take off what both do.
LEMMA CostOfBoth ==
    ASSUME NEW r \in Seq(Findings)
    PROVE  \A s \in Seq(Findings) : Cost(r \o s) = Cost(r) + Cost(s)
<1> DEFINE T == {s \in Seq(Findings) : Cost(r \o s) = Cost(r) + Cost(s)}
<1>1. <<>> \in T
  <2>1. r \o <<>> = r /\ <<>> \in Seq(Findings)
        BY ConcatEmptySeq, EmptySeq
  <2> QED BY <2>1, CostOfNone, CostType
<1>2. ASSUME NEW s \in Seq(Findings), NEW f \in Findings, s \in T PROVE Append(s, f) \in T
  <2>1. r \o s \in Seq(Findings) /\ Append(s, f) \in Seq(Findings)
        BY ConcatProperties, AppendProperties
  <2>2. r \o Append(s, f) = Append(r \o s, f)
    <3>1. Append(s, f) = s \o <<f>> /\ Append(r \o s, f) = (r \o s) \o <<f>>
          BY <2>1, AppendIsConcat
    <3>2. <<f>> \in Seq(Findings)
          OBVIOUS
    <3> QED BY <3>1, <3>2, ConcatAssociative
  <2> DEFINE x == IF f.severity = "error" THEN 12 ELSE IF f.severity = "warning" THEN 3 ELSE 0
  <2>3. Cost(Append(r \o s, f)) = Cost(r \o s) + x /\ Cost(Append(s, f)) = Cost(s) + x
        BY <2>1, CostOfOne
  <2>4. Cost(r \o s) = Cost(r) + Cost(s) /\ Cost(r) \in Nat /\ Cost(s) \in Nat /\ x \in Nat
        BY <1>2, CostType
  <2> HIDE DEF x
  <2>5. Cost(r \o Append(s, f)) = Cost(r) + Cost(Append(s, f))
        BY <2>2, <2>3, <2>4
  <2> QED BY <2>1, <2>5
<1> HIDE DEF T
<1>3. \A s \in Seq(Findings) : s \in T
      BY <1>1, <1>2, JoinFold!SeqInduction
<1> QED BY <1>3 DEF T

\* The less a report takes off, the higher the score.
LEMMA ScoreFalls ==
    ASSUME NEW r \in Seq(Findings), NEW s \in Seq(Findings), Cost(r) <= Cost(s)
    PROVE  Score(r) >= Score(s)
<1>1. \A severity : Count(r, severity) \in Nat /\ Count(s, severity) \in Nat
      BY CountIsNatural
<1> QED BY <1>1 DEF Score, Cost

\* Findings that take no more off, put together, take no more off.
NoDearer == {p \in Seq(Findings) \X Seq(Findings) : Cost(p[2]) <= Cost(p[1])}

\* Reports that are no dearer one by one are no dearer together.
LEMMA FlattenCosts ==
    ASSUME NEW ss \in Seq(Seq(Findings)), NEW tt \in Seq(Seq(Findings)), Matched(NoDearer, ss, tt)
    PROVE  Cost(FlattenSeq(tt)) <= Cost(FlattenSeq(ss))
<1> DEFINE S == Seq(Findings)
           T == {p \in Seq(S) \X Seq(S) : Cost(FlattenSeq(p[2])) <= Cost(FlattenSeq(p[1]))}
<1>1. << <<>>, <<>> >> \in T
  <2>1. <<>> \in Seq(S)
        BY EmptySeq
  <2> DEFINE x == <<>>
  <2>2. x \in Seq(S) /\ Cost(FlattenSeq(x)) <= Cost(FlattenSeq(x))
        BY <2>1, FlattenEmpty, CostOfNone
  <2> HIDE DEF S, x
  <2>3. <<x, x>> \in T
        BY <2>2
  <2> QED BY <2>3 DEF x
<1>2. ASSUME NEW s \in Seq(S), NEW t \in Seq(S), NEW d \in S, NEW e \in S,
             <<s, t>> \in T, <<d, e>> \in NoDearer
      PROVE  <<Append(s, d), Append(t, e)>> \in T
  <2> DEFINE a == FlattenSeq(s)
             b == FlattenSeq(t)
  <2>1. FlattenSeq(Append(s, d)) = a \o d /\ FlattenSeq(Append(t, e)) = b \o e
        BY FlattenAppend
  <2>2. a \in S /\ b \in S /\ Append(s, d) \in Seq(S) /\ Append(t, e) \in Seq(S)
        BY FlattenType, AppendProperties
  <2>3. Cost(b) <= Cost(a) /\ Cost(e) <= Cost(d)
        BY <1>2 DEF NoDearer
  <2> HIDE DEF a, b
  <2>4. Cost(a \o d) = Cost(a) + Cost(d) /\ Cost(b \o e) = Cost(b) + Cost(e)
        BY <2>2, CostOfBoth
  <2>5. Cost(a) \in Nat /\ Cost(b) \in Nat /\ Cost(d) \in Nat /\ Cost(e) \in Nat
        BY <2>2, CostType
  <2>6. Cost(b \o e) <= Cost(a \o d)
        BY <2>3, <2>4, <2>5
  <2> QED BY <2>1, <2>2, <2>6
<1> HIDE DEF T, S
<1>3. \A s \in Seq(S), t \in Seq(S) : Matched(NoDearer, s, t) => <<s, t>> \in T
      BY <1>1, <1>2, PairsInduction
<1>4. <<ss, tt>> \in T
      BY <1>3 DEF S
<1> QED BY <1>4 DEF T

\* The same for what each of two matched sequences contributes.
LEMMA EachCosts ==
    ASSUME NEW D, NEW f \in [D -> Seq(Findings)], NEW M, \A d \in D, e \in D : <<d, e>> \in M => Cost(f[e]) <= Cost(f[d]),
           NEW s \in Seq(D), NEW t \in Seq(D), Matched(M, s, t)
    PROVE  Cost(Each(f, t)) <= Cost(Each(f, s))
<1> DEFINE ss == [i \in DOMAIN s |-> f[s[i]]]
           tt == [i \in DOMAIN t |-> f[t[i]]]
           n == Len(s)
<1>1. n \in Nat /\ DOMAIN s = 1..n /\ DOMAIN t = 1..n /\ Len(t) = n
      /\ \A i \in 1..n : s[i] \in D /\ t[i] \in D /\ <<s[i], t[i]>> \in M
      BY LenProperties, ElementOfSeq DEF Matched
<1>2. ss \in Seq(Seq(Findings)) /\ tt \in Seq(Seq(Findings))
      BY EachType
<1>3. Len(ss) = n /\ Len(tt) = n
      BY <1>1
<1>4. \A i \in 1..n : <<ss[i], tt[i]>> \in NoDearer
      BY <1>1 DEF NoDearer
<1> HIDE DEF ss, tt, n
<1>5. Matched(NoDearer, ss, tt)
      BY <1>3, <1>4 DEF Matched
<1>6. Cost(FlattenSeq(tt)) <= Cost(FlattenSeq(ss))
      BY <1>2, <1>5, FlattenCosts
<1> QED BY <1>6 DEF Each, ss, tt

\* What is found of more takes as much off, or more.
LEMMA EachCostsMore ==
    ASSUME NEW D, NEW f \in [D -> Seq(Findings)], NEW s \in Seq(D), NEW t \in Seq(D)
    PROVE  Cost(Each(f, s)) <= Cost(Each(f, s \o t))
<1>1. Each(f, s) \in Seq(Findings) /\ Each(f, t) \in Seq(Findings)
      BY EachType
<1>2. Cost(Each(f, s \o t)) = Cost(Each(f, s)) + Cost(Each(f, t))
  <2> DEFINE E == Findings
  <2>1. f \in [D -> Seq(E)]
        OBVIOUS
  <2> HIDE DEF E
  <2>2. Each(f, s \o t) = Each(f, s) \o Each(f, t)
        BY <2>1, EachOfBoth
  <2> QED BY <1>1, <2>2, CostOfBoth
<1> QED BY <1>1, <1>2, CostType

\* What a document is made of: what a parser reports, and the title that is
\* not given.
Reported == Events \union {Data(<<Say(NoText)>>)}
\* What comes before the page in the document that is scored.
Opening(name) ==
    <<OpenWith("html", "en"), OpenWith("title", name), Open("h1"), Data(<<Say(name)>>), Close("h1")>>

\* The document that is scored is its opening and the page.
LEMMA DocumentType ==
    ASSUME NEW name \in Texts \union {NoText}, NEW page \in Seq(Events)
    PROVE  /\ Opening(name) \in Seq(Reported) /\ page \in Seq(Reported)
           /\ FullDocument(name, page) = Opening(name) \o page
           /\ FullDocument(name, page) \in Seq(Reported)
<1>1. \A tag, attr : tag \in Tags \ {"img"} /\ attr \in Attrs => OpenWith(tag, attr) \in Reported
      BY DEF Reported, Events, OpenWith
<1>2. OpenWith("html", "en") \in Reported /\ OpenWith("title", name) \in Reported /\ Open("h1") \in Reported
  <2>1. "html" \in Tags \ {"img"} /\ "title" \in Tags \ {"img"} /\ "h1" \in Tags \ {"img"}
        BY DEF Tags
  <2>2. "en" \in Attrs /\ NoText \in Attrs /\ name \in Attrs
    <3>1. "en" \in {"en", "generic", "named", "none", "unscoped", "scoped"}
          OBVIOUS
    <3> DEFINE words == {"en", "generic", "named", "none", "unscoped", "scoped"}
    <3>2. Attrs = (Texts \union words) \union {NoText}
          BY DEF Attrs, Values
    <3> HIDE DEF words
    <3>3. name \in Attrs /\ NoText \in Attrs
          BY <3>2
    <3>4. "en" \in Attrs
          BY <3>1, <3>2 DEF words
    <3> QED BY <3>3, <3>4
  <2> QED BY <1>1, <2>1, <2>2 DEF Open
<1>3. Close("h1") \in Reported
      BY DEF Reported, Events, Close, Tags
<1>4. Data(<<Say(name)>>) \in Reported
  <2>1. CASE name = NoText
        BY <2>1 DEF Reported
  <2>2. CASE name \in Texts
    <3>1. Say(name) \in [text : Texts, page : BOOLEAN]
          BY <2>2 DEF Say
    <3> DEFINE P == [text : Texts, page : BOOLEAN]
               one == Say(name)
    <3> HIDE DEF P, one
    <3>2. <<one>> \in Seq(P)
          BY <3>1 DEF P, one
    <3>3. [event |-> "data", pieces |-> <<one>>] \in Events
          BY <3>2 DEF Events, P
    <3> QED BY <3>3 DEF Reported, Data, one
  <2> QED BY <2>1, <2>2
<1> DEFINE a == OpenWith("html", "en")
           b == OpenWith("title", name)
           c == Open("h1")
           d == Data(<<Say(name)>>)
           e == Close("h1")
<1> HIDE DEF a, b, c, d, e
<1>5. <<a, b, c, d, e>> \in Seq(Reported)
      BY <1>2, <1>3, <1>4 DEF a, b, c, d, e
<1>6. Opening(name) = <<a, b, c, d, e>>
      BY DEF Opening, a, b, c, d, e
<1>7. Opening(name) \in Seq(Reported)
      BY <1>5, <1>6
<1>8. page \in Seq(Reported)
      BY SeqMonotonic DEF Reported
<1>9. FullDocument(name, page) = Opening(name) \o page
      BY DEF FullDocument, Opening
<1> QED BY <1>7, <1>8, <1>9, ConcatProperties

\* What is found of one element, and the level of a heading.
Lacks(tag, e) ==
    IF Opens(e, tag)
    THEN CASE tag = "img" -> ImageFinding(e.attr)
           [] tag = "table" -> TableFinding(e.attr)
           [] tag = "a" -> LinkFinding(e.attr)
           [] tag = "button" -> ControlFinding(e.attr)
    ELSE <<>>
\* The elements that are checked one by one; the level of an element, if it is a heading.
Checked == {"img", "table", "a", "button"}
LevelIn(e) == IF e.event = "open" /\ Level(e.tag) > 0 THEN <<Level(e.tag)>> ELSE <<>>
Lacking(tag) == [e \in Reported |-> Lacks(tag, e)]
LevelOf == [e \in Reported |-> LevelIn(e)]

\* What is found of an element, and its level, as functions.
LEMMA LackingType ==
    /\ \A tag \in Checked : Lacking(tag) \in [Reported -> Seq(Findings)]
    /\ LevelOf \in [Reported -> Seq(1..6)]
<1>1. ASSUME NEW tag \in Checked, NEW e PROVE Lacks(tag, e) \in Seq(Findings)
  <2>1. <<>> \in Seq(Findings)
        BY EmptySeq
  <2> DEFINE attr == e.attr
  <2>2. /\ ImageFinding(attr) \in Seq(Findings) /\ TableFinding(attr) \in Seq(Findings)
        /\ LinkFinding(attr) \in Seq(Findings) /\ ControlFinding(attr) \in Seq(Findings)
        BY FindingsOfOne
  <2>3. tag = "img" \/ tag = "table" \/ tag = "a" \/ tag = "button"
        BY DEF Checked
  <2> QED BY <2>1, <2>2, <2>3 DEF Lacks
<1>2. ASSUME NEW e PROVE LevelIn(e) \in Seq(1..6)
  <2>1. Level(e.tag) \in 0..6
        BY DEF Level
  <2>2. <<>> \in Seq(1..6)
        BY EmptySeq
  <2>3. Level(e.tag) > 0 => <<Level(e.tag)>> \in Seq(1..6)
        BY <2>1
  <2> QED BY <2>2, <2>3 DEF LevelIn
<1> QED BY <1>1, <1>2 DEF Lacking, LevelOf

\* The findings on elements are put together from what each lacks.
LEMMA ElementsAre ==
    ASSUME NEW page \in Seq(Reported)
    PROVE  /\ OfEach(page, "img", ImageFinding) = Each(Lacking("img"), page)
           /\ OfEach(page, "table", TableFinding) = Each(Lacking("table"), page)
           /\ OfEach(page, "a", LinkFinding) = Each(Lacking("a"), page)
           /\ OfEach(page, "button", ControlFinding) = Each(Lacking("button"), page)
           /\ Levels(page) = Each(LevelOf, page)
<1>1. \A i \in DOMAIN page : page[i] \in Reported
      OBVIOUS
<1>2. /\ \A e : Lacks("img", e) = IF Opens(e, "img") THEN ImageFinding(e.attr) ELSE <<>>
      /\ \A e : Lacks("table", e) = IF Opens(e, "table") THEN TableFinding(e.attr) ELSE <<>>
      /\ \A e : Lacks("a", e) = IF Opens(e, "a") THEN LinkFinding(e.attr) ELSE <<>>
      /\ \A e : Lacks("button", e) = IF Opens(e, "button") THEN ControlFinding(e.attr) ELSE <<>>
      BY DEF Lacks
<1>3. OfEach(page, "img", ImageFinding) = Each(Lacking("img"), page)
  <2>1. [i \in DOMAIN page |-> Lacking("img")[page[i]]]
            = [i \in DOMAIN page |-> IF Opens(page[i], "img") THEN ImageFinding(page[i].attr) ELSE <<>>]
        BY <1>1, <1>2 DEF Lacking
  <2> QED BY <2>1, Zenon DEF OfEach, Each
<1>4. OfEach(page, "table", TableFinding) = Each(Lacking("table"), page)
  <2>1. [i \in DOMAIN page |-> Lacking("table")[page[i]]]
            = [i \in DOMAIN page |-> IF Opens(page[i], "table") THEN TableFinding(page[i].attr) ELSE <<>>]
        BY <1>1, <1>2 DEF Lacking
  <2> QED BY <2>1, Zenon DEF OfEach, Each
<1>5. OfEach(page, "a", LinkFinding) = Each(Lacking("a"), page)
  <2>1. [i \in DOMAIN page |-> Lacking("a")[page[i]]]
            = [i \in DOMAIN page |-> IF Opens(page[i], "a") THEN LinkFinding(page[i].attr) ELSE <<>>]
        BY <1>1, <1>2 DEF Lacking
  <2> QED BY <2>1, Zenon DEF OfEach, Each
<1>6. OfEach(page, "button", ControlFinding) = Each(Lacking("button"), page)
  <2>1. [i \in DOMAIN page |-> Lacking("button")[page[i]]]
            = [i \in DOMAIN page |-> IF Opens(page[i], "button") THEN ControlFinding(page[i].attr) ELSE <<>>]
        BY <1>1, <1>2 DEF Lacking
  <2> QED BY <2>1, Zenon DEF OfEach, Each
<1>7. Levels(page) = Each(LevelOf, page)
  <2>1. [i \in DOMAIN page |-> LevelOf[page[i]]]
            = [i \in DOMAIN page |-> IF page[i].event = "open" /\ Level(page[i].tag) > 0
                                     THEN <<Level(page[i].tag)>> ELSE <<>>]
        BY <1>1 DEF LevelOf, LevelIn
  <2> QED BY <2>1, Zenon DEF Levels, Each
<1> QED BY <1>3, <1>4, <1>5, <1>6, <1>7

\* What each finding takes off.
LEMMA FindingCosts ==
    ASSUME NEW rule \in Rules, NEW severity \in Severities
    PROVE  /\ <<Finding(rule, severity)>> \in Seq(Findings)
           /\ Cost(<<Finding(rule, severity)>>) = IF severity = "error" THEN 12 ELSE IF severity = "warning" THEN 3 ELSE 0
<1> DEFINE f == Finding(rule, severity)
<1>1. f \in Findings /\ f.severity = severity
      BY DEF Finding, Findings
<1> HIDE DEF f
<1>2. <<>> \in Seq(Findings) /\ Append(<<>>, f) = <<f>>
      BY <1>1, EmptySeq
<1>3. Cost(<<f>>) = 0 + (IF f.severity = "error" THEN 12 ELSE IF f.severity = "warning" THEN 3 ELSE 0)
      BY <1>1, <1>2, CostOfOne, CostOfNone
<1>4. Cost(<<f>>) = IF severity = "error" THEN 12 ELSE IF severity = "warning" THEN 3 ELSE 0
      BY <1>1, <1>3
<1> QED BY <1>1, <1>4 DEF f

\* What each of the checks of one element takes off.
LEMMA ElementCosts ==
    /\ \A alt : Cost(ImageFinding(alt)) =
           IF alt = Missing THEN 12
           ELSE IF alt # NoText /\ Width(Letters[alt]) < 3 THEN 3 ELSE 0
    /\ \A headers : Cost(TableFinding(headers)) =
           IF headers = "none" THEN 12 ELSE IF headers = "unscoped" THEN 3 ELSE 0
    /\ \A name : Cost(LinkFinding(name)) =
           IF name = NoText THEN 12 ELSE IF name = "generic" THEN 3 ELSE 0
    /\ \A name : Cost(ControlFinding(name)) = IF name = NoText THEN 12 ELSE 0
<1> DEFINE Found(rule, severity) == <<Finding(rule, severity)>>
<1>1. /\ Cost(Found("img-alt-missing", "error")) = 12
      /\ Cost(Found("img-decorative-needs-confirm", "info")) = 0
      /\ Cost(Found("img-alt-too-short", "warning")) = 3
      /\ Cost(Found("table-missing-th", "error")) = 12
      /\ Cost(Found("table-th-needs-scope", "warning")) = 3
      /\ Cost(Found("table-no-caption", "info")) = 0
      /\ Cost(Found("link-name-missing", "error")) = 12
      /\ Cost(Found("link-generic-text", "warning")) = 3
      /\ Cost(Found("control-name-missing", "error")) = 12
      /\ Found("table-missing-th", "error") \in Seq(Findings)
      /\ Found("table-th-needs-scope", "warning") \in Seq(Findings)
      /\ Found("table-no-caption", "info") \in Seq(Findings)
      BY FindingCosts DEF Rules, Severities
<1>2. Missing # NoText /\ NoText # "generic"
      BY NothingAssumption DEF Attrs, Values
<1>3. Cost(<<>>) = 0
      BY CostOfNone
<1>4. \A alt : Cost(ImageFinding(alt)) =
          IF alt = Missing THEN 12 ELSE IF alt # NoText /\ Width(Letters[alt]) < 3 THEN 3 ELSE 0
  <2> SUFFICES ASSUME NEW alt
               PROVE  Cost(ImageFinding(alt)) =
                   IF alt = Missing THEN 12 ELSE IF alt # NoText /\ Width(Letters[alt]) < 3 THEN 3 ELSE 0
        OBVIOUS
  <2>1. ImageFinding(alt) =
            IF alt = Missing THEN Found("img-alt-missing", "error")
            ELSE IF alt = NoText THEN Found("img-decorative-needs-confirm", "info")
            ELSE IF Width(Letters[alt]) < 3 THEN Found("img-alt-too-short", "warning") ELSE <<>>
        BY <1>2 DEF ImageFinding
  <2> HIDE DEF Found
  <2> QED BY <1>1, <1>2, <1>3, <2>1
<1>5. \A headers : Cost(TableFinding(headers)) =
          IF headers = "none" THEN 12 ELSE IF headers = "unscoped" THEN 3 ELSE 0
  <2> SUFFICES ASSUME NEW headers
               PROVE  Cost(TableFinding(headers)) =
                          IF headers = "none" THEN 12 ELSE IF headers = "unscoped" THEN 3 ELSE 0
        OBVIOUS
  <2> DEFINE first == IF headers = "none" THEN Found("table-missing-th", "error")
                      ELSE IF headers = "unscoped" THEN Found("table-th-needs-scope", "warning") ELSE <<>>
  <2>1. TableFinding(headers) = first \o Found("table-no-caption", "info")
        BY DEF TableFinding
  <2> HIDE DEF Found
  <2>2. first \in Seq(Findings) /\ Cost(first) = IF headers = "none" THEN 12 ELSE IF headers = "unscoped" THEN 3 ELSE 0
        BY <1>1, <1>3, EmptySeq
  <2> HIDE DEF first
  <2>3. Cost(TableFinding(headers)) = Cost(first) + 0
        BY <1>1, <2>1, <2>2, CostOfBoth
  <2> QED BY <2>2, <2>3
<1>6. \A name : Cost(LinkFinding(name)) = IF name = NoText THEN 12 ELSE IF name = "generic" THEN 3 ELSE 0
  <2> SUFFICES ASSUME NEW name
               PROVE  Cost(LinkFinding(name)) = IF name = NoText THEN 12 ELSE IF name = "generic" THEN 3 ELSE 0
        OBVIOUS
  <2>1. LinkFinding(name) =
            IF name = NoText THEN Found("link-name-missing", "error")
            ELSE IF name = "generic" THEN Found("link-generic-text", "warning") ELSE <<>>
        BY <1>2 DEF LinkFinding
  <2> HIDE DEF Found
  <2> QED BY <1>1, <1>3, <2>1
<1>7. \A name : Cost(ControlFinding(name)) = IF name = NoText THEN 12 ELSE 0
  <2> SUFFICES ASSUME NEW name
               PROVE  Cost(ControlFinding(name)) = IF name = NoText THEN 12 ELSE 0
        OBVIOUS
  <2>1. ControlFinding(name) = IF name = NoText THEN Found("control-name-missing", "error") ELSE <<>>
        BY DEF ControlFinding
  <2> HIDE DEF Found
  <2> QED BY <1>1, <1>3, <2>1
<1> QED BY <1>4, <1>5, <1>6, <1>7

\* An element that was mended takes no more off than before, and a heading goes
\* one level down at most.
Mends == {p \in Reported \X Reported : Mended(p[1], p[2])}
\* The levels that a repair may leave or change.
Alike == {p \in (1..6) \X (1..6) : p[1] = p[2] \/ (p[1] = 1 /\ p[2] = 2)}

\* A mended element takes off no more than it did.
LEMMA MendingCosts ==
    ASSUME NEW e, NEW f, Mended(e, f), NEW tag \in Checked
    PROVE  Cost(Lacks(tag, f)) <= Cost(Lacks(tag, e))
<1>1. Cost(Lacks(tag, e)) \in Nat /\ Cost(Lacks(tag, f)) \in Nat
  <2>1. \A d : Lacks(tag, d) \in Seq(Findings)
    <3> SUFFICES ASSUME NEW d PROVE Lacks(tag, d) \in Seq(Findings)
          OBVIOUS
    <3> DEFINE attr == d.attr
    <3>1. /\ ImageFinding(attr) \in Seq(Findings) /\ TableFinding(attr) \in Seq(Findings)
          /\ LinkFinding(attr) \in Seq(Findings) /\ ControlFinding(attr) \in Seq(Findings)
          BY FindingsOfOne
    <3>2. tag = "img" \/ tag = "table" \/ tag = "a" \/ tag = "button"
          BY DEF Checked
    <3>3. <<>> \in Seq(Findings)
          BY EmptySeq
    <3> QED BY <3>1, <3>2, <3>3 DEF Lacks
  <2> QED BY <2>1, CostType
<1>2. CASE f = e
      BY <1>1, <1>2
<1>3. CASE Opens(e, "h1") /\ Opens(f, "h2")
  <2>1. ~Opens(e, tag) /\ ~Opens(f, tag)
        BY <1>3 DEF Opens, Checked
  <2> QED BY <1>1, <2>1 DEF Lacks
<1>4. CASE e = Close("h1") /\ f = Close("h2")
  <2>1. ~Opens(e, tag) /\ ~Opens(f, tag)
        BY <1>4 DEF Opens, Close
  <2> QED BY <1>1, <2>1 DEF Lacks
<1>5. CASE e.event = "open" /\ f.event = "open" /\ e.tag = f.tag /\ Better(e.tag, e.attr, f.attr)
  <2>1. CASE e.tag # tag
    <3>1. ~Opens(e, tag) /\ ~Opens(f, tag)
          BY <1>5, <2>1 DEF Opens
    <3> QED BY <1>1, <3>1 DEF Lacks
  <2>2. CASE e.tag = tag
    <3>1. Opens(e, tag) /\ Opens(f, tag) /\ Better(tag, e.attr, f.attr)
          BY <1>5, <2>2 DEF Opens
    <3>2. CASE tag = "img"
      <4>1. Lacks(tag, e) = ImageFinding(e.attr) /\ Lacks(tag, f) = ImageFinding(f.attr)
            BY <3>1, <3>2 DEF Lacks
      <4>2. f.attr \in Texts /\ (e.attr = Missing \/ Width(Letters[f.attr]) >= 3)
            BY <3>1, <3>2 DEF Better
      <4>3. f.attr # Missing
            BY <4>2, NothingAssumption DEF Attrs, Values
      <4>4. Width(Letters[f.attr]) \in Nat
        <5>1. Letters[f.attr] \in Seq(Seq(STRING \ {" "}) \ {<<>>})
              BY <4>2, TextsAssumption
        <5> DEFINE letters == STRING \ {" "}
        <5> HIDE DEF letters
        <5>2. Seq(Seq(letters) \ {<<>>}) \subseteq Seq(Seq(letters))
              BY SeqMonotonic
        <5>3. Letters[f.attr] \in Seq(Seq(letters))
              BY <5>1, <5>2 DEF letters
        <5> QED BY <5>3, WidthIsNatural
      <4> DEFINE w == Width(Letters[f.attr])
      <4>5. /\ Cost(ImageFinding(f.attr)) = IF f.attr # NoText /\ w < 3 THEN 3 ELSE 0
            /\ e.attr = Missing => Cost(ImageFinding(e.attr)) = 12
            BY <4>3, ElementCosts
      <4> HIDE DEF w
      <4> QED BY <1>1, <4>1, <4>2, <4>4, <4>5 DEF w
    <3>3. CASE tag = "table"
      <4>1. Lacks(tag, e) = TableFinding(e.attr) /\ Lacks(tag, f) = TableFinding(f.attr)
            BY <3>1, <3>3 DEF Lacks
      <4>2. \/ e.attr = "none" /\ f.attr \in {"unscoped", "scoped"}
            \/ e.attr = "unscoped" /\ f.attr = "scoped"
            BY <3>1, <3>3 DEF Better
      <4> QED BY <4>1, <4>2, ElementCosts
    <3>4. CASE tag = "a"
      <4>1. Lacks(tag, e) = LinkFinding(e.attr) /\ Lacks(tag, f) = LinkFinding(f.attr)
            BY <3>1, <3>4 DEF Lacks
      <4>2. f.attr = "named" \/ (e.attr = NoText /\ f.attr = "generic")
            BY <3>1, <3>4 DEF Better
      <4>3. NoText # "named" /\ NoText # "generic"
            BY NothingAssumption DEF Attrs, Values
      <4>4. /\ f.attr = "named" => Cost(LinkFinding(f.attr)) = 0
            /\ f.attr = "generic" => Cost(LinkFinding(f.attr)) = 3
            /\ e.attr = NoText => Cost(LinkFinding(e.attr)) = 12
            BY <4>3, ElementCosts
      <4> QED BY <1>1, <4>1, <4>2, <4>4
    <3>5. CASE tag = "button"
      <4>1. Lacks(tag, f) = ControlFinding(f.attr) /\ f.attr = "named" /\ NoText # "named"
            BY <3>1, <3>5, NothingAssumption DEF Lacks, Better, Attrs, Values
      <4>2. Cost(Lacks(tag, f)) = 0
            BY <4>1, ElementCosts
      <4> QED BY <1>1, <4>2
    <3> QED BY <3>2, <3>3, <3>4, <3>5 DEF Checked
  <2> QED BY <2>1, <2>2
<1> QED BY <1>2, <1>3, <1>4, <1>5 DEF Mended

\* A mended heading is at its level, or went from the first to the second.
LEMMA MendingLevels ==
    ASSUME NEW e, NEW f, Mended(e, f)
    PROVE  \/ LevelIn(f) = LevelIn(e)
           \/ LevelIn(e) = <<1>> /\ LevelIn(f) = <<2>>
<1>1. CASE f = e
      BY <1>1
<1>2. CASE Opens(e, "h1") /\ Opens(f, "h2")
  <2>1. Level("h1") = 1 /\ Level("h2") = 2
        BY DEF Level
  <2> QED BY <1>2, <2>1 DEF Opens, LevelIn
<1>3. CASE e = Close("h1") /\ f = Close("h2")
      BY <1>3 DEF Close, LevelIn
<1>4. CASE e.event = "open" /\ f.event = "open" /\ e.tag = f.tag
      BY <1>4 DEF LevelIn
<1> QED BY <1>1, <1>2, <1>3, <1>4 DEF Mended

\* Two pairs of matched sequences, put together.
LEMMA MatchedBoth ==
    ASSUME NEW D, NEW M, NEW s \in Seq(D), NEW t \in Seq(D), NEW u \in Seq(D), NEW v \in Seq(D),
           Matched(M, s, t), Matched(M, u, v)
    PROVE  Matched(M, s \o u, t \o v)
<1> DEFINE n == Len(s)
           m == Len(u)
<1>1. n \in Nat /\ m \in Nat /\ Len(t) = n /\ Len(v) = m /\ Len(s \o u) = n + m /\ Len(t \o v) = n + m
  <2>1. n \in Nat /\ m \in Nat /\ Len(t) = n /\ Len(v) = m
        BY LenProperties DEF Matched
  <2>2. Len(s \o u) = n + m /\ Len(t \o v) = Len(t) + Len(v)
        BY ConcatProperties
  <2> QED BY <2>1, <2>2
<1>2. ASSUME NEW i \in 1..(n + m) PROVE <<(s \o u)[i], (t \o v)[i]>> \in M
  <2>1. /\ (s \o u)[i] = IF i <= n THEN s[i] ELSE u[i - n]
        /\ (t \o v)[i] = IF i <= n THEN t[i] ELSE v[i - n]
        BY <1>1, ConcatProperties
  <2>2. CASE i <= n
    <3>1. i \in 1..n
          BY <1>1, <2>2
    <3> QED BY <2>1, <2>2, <3>1 DEF Matched
  <2>3. CASE ~(i <= n)
    <3>1. i - n \in 1..m
          BY <1>1, <2>3
    <3> QED BY <2>1, <2>3, <3>1 DEF Matched
  <2> QED BY <2>2, <2>3
<1> QED BY <1>1, <1>2 DEF Matched

\* One pair that is matched.
LEMMA MatchedOne ==
    ASSUME NEW M, NEW d, NEW e, <<d, e>> \in M
    PROVE  Matched(M, <<d>>, <<e>>)
      BY DEF Matched

\* The levels of a document with one element more.
LEMMA LevelsOfMore ==
    \A s \in Seq(Reported), e \in Reported : Each(LevelOf, Append(s, e)) = Each(LevelOf, s) \o LevelOf[e]
<1> DEFINE N == 1..6
<1>1. LevelOf \in [Reported -> Seq(N)]
      BY LackingType
<1> HIDE DEF N
<1> SUFFICES ASSUME NEW s \in Seq(Reported), NEW e \in Reported
             PROVE  Each(LevelOf, Append(s, e)) = Each(LevelOf, s) \o LevelOf[e]
      OBVIOUS
<1> QED BY <1>1, EachOfMore

\* Mending leaves every level but a first, which may become a second.
LEMMA LevelsAlike ==
    ASSUME NEW ss \in Seq(Reported), NEW tt \in Seq(Reported), Matched(Mends, ss, tt)
    PROVE  Matched(Alike, Each(LevelOf, ss), Each(LevelOf, tt))
<1> DEFINE D == Reported
           N == 1..6
           f == LevelOf
           T == {p \in Seq(D) \X Seq(D) : Matched(Alike, Each(f, p[1]), Each(f, p[2]))}
<1>1. f \in [D -> Seq(N)] /\ \A d \in D : f[d] = LevelIn(d)
      BY LackingType DEF LevelOf
<1>2. << <<>>, <<>> >> \in T
  <2> DEFINE x == <<>>
  <2>1. x \in Seq(D) /\ Each(f, x) = <<>>
        BY EmptySeq, EachOfNone
  <2>2. Matched(Alike, Each(f, x), Each(f, x))
        BY <2>1 DEF Matched
  <2> HIDE DEF x, D, f
  <2>3. <<x, x>> \in T
        BY <2>1, <2>2
  <2> QED BY <2>3 DEF x
<1> HIDE DEF f
<1>3. ASSUME NEW s \in Seq(D), NEW t \in Seq(D), NEW d \in D, NEW e \in D,
             <<s, t>> \in T, <<d, e>> \in Mends
      PROVE  <<Append(s, d), Append(t, e)>> \in T
  <2>1. Mended(d, e)
        BY <1>3 DEF Mends
  <2> HIDE DEF D, N
  <2>2. Each(f, Append(s, d)) = Each(f, s) \o f[d] /\ Each(f, Append(t, e)) = Each(f, t) \o f[e]
    <3>1. D = Reported /\ f = LevelOf
          BY DEF D, f
    <3> QED BY <3>1, LevelsOfMore
  <2>3. Each(f, s) \in Seq(N) /\ Each(f, t) \in Seq(N) /\ f[d] \in Seq(N) /\ f[e] \in Seq(N)
        BY <1>1, EachType
  <2>4. Matched(Alike, f[d], f[e])
    <3>1. CASE f[e] = f[d]
      <4>1. Len(f[d]) \in Nat /\ \A i \in 1..Len(f[d]) : f[d][i] \in N
            BY <2>3, ElementOfSeq, LenProperties
      <4> QED BY <3>1, <4>1 DEF Matched, Alike, N
    <3>2. CASE f[d] = <<1>> /\ f[e] = <<2>>
      <4>1. <<1, 2>> \in Alike
            BY DEF Alike
      <4> QED BY <3>2, <4>1, MatchedOne
    <3> QED BY <1>1, <2>1, <3>1, <3>2, MendingLevels
  <2>5. Matched(Alike, Each(f, s), Each(f, t))
        BY <1>3
  <2>6. Matched(Alike, Each(f, s) \o f[d], Each(f, t) \o f[e])
        BY <2>3, <2>4, <2>5, MatchedBoth
  <2>7. Append(s, d) \in Seq(D) /\ Append(t, e) \in Seq(D)
        BY AppendProperties
  <2> QED BY <2>2, <2>6, <2>7
<1> HIDE DEF T, D
<1>4. \A s \in Seq(D), t \in Seq(D) : Matched(Mends, s, t) => <<s, t>> \in T
      BY <1>2, <1>3, PairsInduction
<1>5. <<ss, tt>> \in T
      BY <1>4 DEF D
<1> QED BY <1>5 DEF T, f

\* Where the levels of headings skip one, and what is said of headings in all.
SkipAt(levels, i) ==
    IF i > 1 /\ levels[i] > levels[i - 1] + 1 THEN <<Finding("heading-level-skip", "warning")>> ELSE <<>>
\* The findings on levels skipped, and the headings 1.
Skips(levels) == FlattenSeq([i \in DOMAIN levels |-> SkipAt(levels, i)])
FirstsIn(levels) == {i \in DOMAIN levels : levels[i] = 1}

\* What one heading that skips a level takes off.
LEMMA SkipAtType ==
    ASSUME NEW levels, NEW i
    PROVE  /\ SkipAt(levels, i) \in Seq(Findings)
           /\ Cost(SkipAt(levels, i)) = IF i > 1 /\ levels[i] > levels[i - 1] + 1 THEN 3 ELSE 0
<1> DEFINE found == <<Finding("heading-level-skip", "warning")>>
<1>1. found \in Seq(Findings) /\ Cost(found) = 3
      BY FindingCosts DEF Rules, Severities
<1> HIDE DEF found
<1>2. <<>> \in Seq(Findings) /\ Cost(<<>>) = 0
      BY EmptySeq, CostOfNone
<1>3. SkipAt(levels, i) = IF i > 1 /\ levels[i] > levels[i - 1] + 1 THEN found ELSE <<>>
      BY DEF SkipAt, found
<1> QED BY <1>1, <1>2, <1>3

\* The findings on levels skipped are findings.
LEMMA SkipsType ==
    ASSUME NEW levels \in Seq(1..6)
    PROVE  /\ [i \in DOMAIN levels |-> SkipAt(levels, i)] \in Seq(Seq(Findings))
           /\ Len([i \in DOMAIN levels |-> SkipAt(levels, i)]) = Len(levels)
           /\ Skips(levels) \in Seq(Findings)
<1> DEFINE n == Len(levels)
           S == Seq(Findings)
           skips == [i \in 1..n |-> SkipAt(levels, i)]
<1>1. n \in Nat /\ DOMAIN levels = 1..n
      BY LenProperties
<1>2. \A i \in 1..n : skips[i] \in S
      BY SkipAtType
<1>3. skips = [i \in 1..n |-> skips[i]]
      OBVIOUS
<1>4. skips = [i \in DOMAIN levels |-> SkipAt(levels, i)]
      BY <1>1
<1> HIDE DEF skips, n, S
<1>5. skips \in Seq(S) /\ Len(skips) = n
      BY <1>1, <1>2, <1>3, AFunctionIsASeq
<1>6. FlattenSeq(skips) \in S
      BY <1>5, FlattenType DEF S
<1> QED BY <1>4, <1>5, <1>6 DEF Skips, S, n

\* A heading that goes one level down skips no level, and what follows it skips
\* fewer; one more heading leaves the skips there are.
LEMMA SkipsFall ==
    ASSUME NEW a \in Seq(1..6), NEW b \in Seq(1..6), Matched(Alike, a, b)
    PROVE  Cost(Skips(b)) <= Cost(Skips(a))
<1> DEFINE n == Len(a)
           ss == [i \in DOMAIN a |-> SkipAt(a, i)]
           tt == [i \in DOMAIN b |-> SkipAt(b, i)]
<1>1. /\ n \in Nat /\ Len(b) = n /\ DOMAIN a = 1..n /\ DOMAIN b = 1..n
      /\ \A i \in 1..n : a[i] \in 1..6 /\ b[i] \in 1..6 /\ (a[i] = b[i] \/ (a[i] = 1 /\ b[i] = 2))
      BY LenProperties, ElementOfSeq DEF Matched, Alike
<1>2. /\ ss \in Seq(Seq(Findings)) /\ tt \in Seq(Seq(Findings)) /\ Len(ss) = n /\ Len(tt) = n
      BY <1>1, SkipsType
<1>3. ASSUME NEW i \in 1..n PROVE <<ss[i], tt[i]>> \in NoDearer
  <2>1. ss[i] = SkipAt(a, i) /\ tt[i] = SkipAt(b, i)
        BY <1>1
  <2>2. i > 1 /\ b[i] > b[i - 1] + 1 => a[i] > a[i - 1] + 1
    <3> SUFFICES ASSUME i > 1, b[i] > b[i - 1] + 1 PROVE a[i] > a[i - 1] + 1
          OBVIOUS
    <3>1. i - 1 \in 1..n
          BY <1>1
    <3> QED BY <1>1, <3>1
  <2>3. Cost(SkipAt(b, i)) <= Cost(SkipAt(a, i))
    <3>1. /\ Cost(SkipAt(b, i)) = IF i > 1 /\ b[i] > b[i - 1] + 1 THEN 3 ELSE 0
          /\ Cost(SkipAt(a, i)) = IF i > 1 /\ a[i] > a[i - 1] + 1 THEN 3 ELSE 0
          BY SkipAtType
    <3> QED BY <2>2, <3>1
  <2>4. SkipAt(a, i) \in Seq(Findings) /\ SkipAt(b, i) \in Seq(Findings)
        BY SkipAtType
  <2> QED BY <2>1, <2>3, <2>4 DEF NoDearer
<1> HIDE DEF ss, tt, n
<1>4. Matched(NoDearer, ss, tt)
      BY <1>2, <1>3 DEF Matched
<1>5. Cost(FlattenSeq(tt)) <= Cost(FlattenSeq(ss))
      BY <1>2, <1>4, FlattenCosts
<1> QED BY <1>5 DEF Skips, ss, tt

\* More headings take off as much for levels skipped, or more.
LEMMA SkipsGrow ==
    ASSUME NEW a \in Seq(1..6), NEW b \in Seq(1..6)
    PROVE  Cost(Skips(a)) <= Cost(Skips(a \o b))
<1> DEFINE n == Len(a)
           m == Len(b)
           both == a \o b
           S == Seq(Findings)
           ss == [i \in DOMAIN a |-> SkipAt(a, i)]
           tt == [i \in DOMAIN both |-> SkipAt(both, i)]
           more == [i \in 1..m |-> tt[n + i]]
<1>1. /\ n \in Nat /\ m \in Nat /\ DOMAIN a = 1..n /\ both \in Seq(1..6) /\ Len(both) = n + m
      /\ \A i \in 1..n : both[i] = a[i]
  <2>1. n \in Nat /\ m \in Nat /\ DOMAIN a = 1..n
        BY LenProperties
  <2>2. both \in Seq(1..6) /\ Len(both) = n + m /\ \A i \in 1..(n + m) : both[i] = IF i <= n THEN a[i] ELSE b[i - n]
        BY ConcatProperties
  <2>3. \A i \in 1..n : i \in 1..(n + m) /\ i <= n
        BY <2>1
  <2> QED BY <2>1, <2>2, <2>3
<1>2. DOMAIN both = 1..(n + m)
      BY <1>1, LenProperties
<1>3. ss \in Seq(S) /\ Len(ss) = n /\ tt \in Seq(S) /\ Len(tt) = n + m
      BY <1>1, SkipsType
<1>4. ASSUME NEW i \in 1..n PROVE tt[i] = ss[i]
  <2>1. i \in 1..(n + m) /\ (i > 1 => i - 1 \in 1..n)
        BY <1>1
  <2>2. tt[i] = SkipAt(both, i) /\ ss[i] = SkipAt(a, i)
        BY <1>1, <1>2, <2>1
  <2>3. both[i] = a[i] /\ (i > 1 => both[i - 1] = a[i - 1])
        BY <1>1, <2>1
  <2> HIDE DEF both
  <2> QED BY <2>2, <2>3 DEF SkipAt
<1>5. tt = [i \in 1..(n + m) |-> tt[i]]
      BY <1>2
<1> HIDE DEF ss, tt, S, n, m, both
<1>6. more \in Seq(S) /\ Len(more) = m
  <2>1. \A i \in 1..m : n + i \in 1..(n + m)
        BY <1>1
  <2>2. \A i \in 1..m : more[i] \in S
        BY <1>1, <1>3, <2>1, ElementOfSeq
  <2>3. more = [i \in 1..m |-> more[i]]
        OBVIOUS
  <2> HIDE DEF more
  <2> QED BY <1>1, <2>2, <2>3, AFunctionIsASeq
<1>7. \A i \in 1..m : tt[n + i] = more[i]
      OBVIOUS
<1> HIDE DEF more
<1>8. FlattenSeq(tt) = FlattenSeq(ss) \o FlattenSeq(more)
      BY <1>1, <1>3, <1>4, <1>5, <1>6, <1>7, FlattenBoth DEF S
<1>9. FlattenSeq(ss) \in S /\ FlattenSeq(more) \in S
      BY <1>3, <1>6, FlattenType DEF S
<1>10. Cost(FlattenSeq(tt)) = Cost(FlattenSeq(ss)) + Cost(FlattenSeq(more))
       BY <1>8, <1>9, CostOfBoth DEF S
<1>11. Cost(FlattenSeq(ss)) \in Nat /\ Cost(FlattenSeq(more)) \in Nat
       BY <1>9, CostType DEF S
<1> QED BY <1>10, <1>11 DEF Skips, ss, tt, both

\* Of a document with a heading 1 a second one takes something off.
LEMMA HeadingCosts ==
    ASSUME NEW page, Levels(page) \in Seq(1..6), FirstsIn(Levels(page)) # {}
    PROVE  /\ HeadingFindings(page) \in Seq(Findings)
           /\ Cost(HeadingFindings(page)) = IF Cardinality(FirstsIn(Levels(page))) > 1 THEN 3 ELSE 0
<1> DEFINE found == <<Finding("multiple-h1", "warning")>>
<1>1. found \in Seq(Findings) /\ Cost(found) = 3
      BY FindingCosts DEF Rules, Severities
<1>2. <<>> \in Seq(Findings) /\ Cost(<<>>) = 0
      BY EmptySeq, CostOfNone
<1>3. HeadingFindings(page) = IF Cardinality(FirstsIn(Levels(page))) > 1 THEN found ELSE <<>>
  <2> DEFINE levels == Levels(page)
  <2>1. levels # <<>>
    <3>1. FirstsIn(<<>>) = {}
          BY DEF FirstsIn
    <3> QED BY <3>1
  <2>2. {i \in DOMAIN levels : levels[i] = 1} = FirstsIn(levels)
        BY DEF FirstsIn
  <2> QED BY <2>1, <2>2, Zenon DEF HeadingFindings
<1> HIDE DEF found
<1> QED BY <1>1, <1>2, <1>3

\* The headings 1 can be counted.
LEMMA FirstsCount ==
    ASSUME NEW levels \in Seq(1..6)
    PROVE  IsFiniteSet(FirstsIn(levels)) /\ Cardinality(FirstsIn(levels)) \in Nat
<1>1. DOMAIN levels = 1..Len(levels) /\ Len(levels) \in Nat
      BY LenProperties
<1>2. IsFiniteSet(1..Len(levels))
      BY <1>1, FS_Interval
<1>3. IsFiniteSet(FirstsIn(levels))
      BY <1>1, <1>2, FS_Subset DEF FirstsIn
<1> QED BY <1>3, FS_CardinalityType

\* Levels alike hold no more headings 1.
LEMMA HeadingsFall ==
    ASSUME NEW a \in Seq(1..6), NEW b \in Seq(1..6), Matched(Alike, a, b)
    PROVE  Cardinality(FirstsIn(b)) <= Cardinality(FirstsIn(a))
<1>1. FirstsIn(b) \subseteq FirstsIn(a)
  <2>1. DOMAIN a = 1..Len(a) /\ DOMAIN b = 1..Len(a)
        BY LenProperties DEF Matched
  <2>2. \A i \in 1..Len(a) : b[i] = 1 => a[i] = 1
        BY DEF Matched, Alike
  <2> QED BY <2>1, <2>2 DEF FirstsIn
<1> QED BY <1>1, FirstsCount, FS_Subset

\* More headings hold no fewer headings 1.
LEMMA HeadingsGrow ==
    ASSUME NEW a \in Seq(1..6), NEW b \in Seq(1..6)
    PROVE  a \o b \in Seq(1..6) /\ Cardinality(FirstsIn(a)) <= Cardinality(FirstsIn(a \o b))
<1> DEFINE n == Len(a)
           m == Len(b)
           both == a \o b
<1>1. n \in Nat /\ m \in Nat /\ DOMAIN a = 1..n
      BY LenProperties
<1>2. both \in Seq(1..6) /\ Len(both) = n + m /\ \A i \in 1..(n + m) : both[i] = IF i <= n THEN a[i] ELSE b[i - n]
      BY ConcatProperties
<1>3. DOMAIN both = 1..(n + m)
      BY <1>2, LenProperties
<1>4. \A i \in 1..n : i \in 1..(n + m) /\ i <= n
      BY <1>1
<1> HIDE DEF both, n, m
<1>5. FirstsIn(a) \subseteq FirstsIn(both)
      BY <1>1, <1>2, <1>3, <1>4 DEF FirstsIn
<1>6. Cardinality(FirstsIn(a)) <= Cardinality(FirstsIn(both))
      BY <1>2, <1>5, FirstsCount, FS_Subset
<1> QED BY <1>2, <1>6 DEF both

\* A heading 1 on the page is one among its levels.
LEMMA FirstHeading ==
    \A s \in Seq(Reported) :
        (\E i \in DOMAIN s : LevelIn(s[i]) = <<1>>) => FirstsIn(Each(LevelOf, s)) # {}
<1> DEFINE D == Reported
           N == 1..6
           f == LevelOf
           Has(s) == \E i \in DOMAIN s : LevelIn(s[i]) = <<1>>
           T == {s \in Seq(D) : Has(s) => FirstsIn(Each(f, s)) # {}}
<1>1. <<>> \in T
  <2>1. ~Has(<<>>)
        OBVIOUS
  <2> HIDE DEF Has, D, f
  <2> QED BY <2>1, EmptySeq
<1>2. ASSUME NEW s \in Seq(D), NEW d \in D, s \in T PROVE Append(s, d) \in T
  <2> DEFINE a == Each(f, s)
             b == f[d]
  <2>1. a \in Seq(N) /\ b \in Seq(N) /\ b = LevelIn(d)
    <3>1. f \in [D -> Seq(N)] /\ f[d] = LevelIn(d)
          BY LackingType DEF LevelOf
    <3> HIDE DEF f, D, N
    <3> QED BY <3>1, EachType
  <2>2. Each(f, Append(s, d)) = a \o b
        BY LevelsOfMore
  <2>3. Append(s, d) \in Seq(D) /\ DOMAIN Append(s, d) = 1..(Len(s) + 1) /\ DOMAIN s = 1..Len(s) /\ Len(s) \in Nat
        /\ Append(s, d)[Len(s) + 1] = d /\ \A i \in 1..Len(s) : Append(s, d)[i] = s[i]
        BY AppendProperties, LenProperties
  <2> HIDE DEF a, b, f, D
  <2>4. CASE Has(s)
    <3>1. FirstsIn(a) # {}
          BY <1>2, <2>4 DEF a
    <3>2. FirstsIn(a \o b) # {}
      <4>1. PICK k \in DOMAIN a : a[k] = 1
            BY <3>1 DEF FirstsIn
      <4>2. /\ a \o b \in Seq(N) /\ Len(a \o b) = Len(a) + Len(b)
            /\ \A i \in 1..(Len(a) + Len(b)) : (a \o b)[i] = IF i <= Len(a) THEN a[i] ELSE b[i - Len(a)]
            BY <2>1, ConcatProperties
      <4>3. Len(a) \in Nat /\ Len(b) \in Nat /\ k \in 1..Len(a)
            BY <2>1, <4>1, LenProperties
      <4>4. k \in 1..(Len(a) + Len(b)) /\ k <= Len(a)
            BY <4>3
      <4>5. DOMAIN (a \o b) = 1..(Len(a) + Len(b))
            BY <4>2, LenProperties
      <4> QED BY <4>1, <4>2, <4>4, <4>5 DEF FirstsIn
    <3> HIDE DEF Has
    <3> QED BY <2>2, <2>3, <3>2
  <2>5. CASE LevelIn(d) = <<1>>
    <3>1. a \o b = Append(a, 1)
      <4>1. 1 \in N /\ b = <<1>>
            BY <2>1, <2>5
      <4> HIDE DEF N
      <4> QED BY <2>1, <4>1, AppendIsConcat
    <3>2. Len(a) + 1 \in DOMAIN Append(a, 1) /\ Append(a, 1)[Len(a) + 1] = 1
      <4>1. 1 \in N
            OBVIOUS
      <4> HIDE DEF N
      <4>2. Len(Append(a, 1)) = Len(a) + 1 /\ Append(a, 1)[Len(a) + 1] = 1 /\ Len(a) \in Nat /\ Append(a, 1) \in Seq(N)
            BY <2>1, <4>1, AppendProperties, LenProperties
      <4>3. DOMAIN Append(a, 1) = 1..(Len(a) + 1)
            BY <4>2, LenProperties
      <4> QED BY <4>2, <4>3
    <3>3. FirstsIn(a \o b) # {}
          BY <3>1, <3>2 DEF FirstsIn
    <3> HIDE DEF Has
    <3> QED BY <2>2, <2>3, <3>3
  <2>6. CASE ~Has(s) /\ LevelIn(d) # <<1>>
    <3>1. ~Has(Append(s, d))
      <4> SUFFICES ASSUME NEW i \in 1..(Len(s) + 1), LevelIn(Append(s, d)[i]) = << 1 >> PROVE FALSE
            BY <2>3
      <4>1. i = Len(s) + 1 \/ i \in 1..Len(s)
            BY <2>3
      <4> QED BY <2>3, <2>6, <4>1
    <3> HIDE DEF Has
    <3> QED BY <2>3, <3>1
  <2> QED BY <2>4, <2>5, <2>6
<1> HIDE DEF T, D
<1>3. \A s \in Seq(D) : s \in T
      BY <1>1, <1>2, JoinFold!SeqInduction
<1> QED BY <1>3 DEF T, D

\* What begins every document: its language, its title and a heading 1.
LEMMA DocumentBegins ==
    ASSUME NEW name \in Texts \union {NoText}, NEW page \in Seq(Events),
           NEW document, document = FullDocument(name, page)
    PROVE  /\ document \in Seq(Reported) /\ DOMAIN document = 1..Len(document) /\ Len(document) >= 5
           /\ document[1] = OpenWith("html", "en") /\ document[2] = OpenWith("title", name)
           /\ Levels(document) = Each(LevelOf, document)
           /\ Levels(document) \in Seq(1..6) /\ FirstsIn(Levels(document)) # {}
<1> DEFINE o == Opening(name)
           n == Len(page)
<1>1. /\ o \in Seq(Reported) /\ page \in Seq(Reported) /\ document = o \o page
      /\ document \in Seq(Reported)
      BY DocumentType
<1>2. o[1] = OpenWith("html", "en") /\ o[2] = OpenWith("title", name) /\ o[3] = Open("h1") /\ Len(o) = 5
      BY DEF Opening
<1> HIDE DEF o
<1>3. n \in Nat /\ Len(document) = 5 + n /\ DOMAIN document = 1..Len(document)
      /\ \A i \in 1..(5 + n) : document[i] = IF i <= 5 THEN o[i] ELSE page[i - 5]
  <2>1. n \in Nat
        BY LenProperties
  <2>2. /\ Len(o \o page) = Len(o) + n
        /\ \A i \in 1..(Len(o) + n) : (o \o page)[i] = IF i <= Len(o) THEN o[i] ELSE page[i - Len(o)]
        BY <1>1, ConcatProperties
  <2>3. DOMAIN document = 1..Len(document)
        BY <1>1, LenProperties
  <2> QED BY <1>1, <1>2, <2>1, <2>2, <2>3
<1>4. 1 \in 1..(5 + n) /\ 2 \in 1..(5 + n) /\ 3 \in 1..(5 + n)
      BY <1>3
<1> HIDE DEF n
<1>5. document[1] = OpenWith("html", "en") /\ document[2] = OpenWith("title", name) /\ document[3] = Open("h1")
      BY <1>2, <1>3, <1>4
<1>6. Levels(document) = Each(LevelOf, document)
      BY <1>1, ElementsAre
<1>7. Each(LevelOf, document) \in Seq(1..6)
  <2> DEFINE f == LevelOf
             N == 1..6
  <2>1. f \in [Reported -> Seq(N)]
        BY LackingType
  <2> HIDE DEF f, N
  <2>2. Each(f, document) \in Seq(N)
        BY <1>1, <2>1, EachType
  <2> QED BY <2>2 DEF f, N
<1>8. FirstsIn(Each(LevelOf, document)) # {}
  <2>1. LevelIn(Open("h1")) = <<1>>
        BY DEF LevelIn, Open, OpenWith, Level
  <2>2. 3 \in DOMAIN document /\ LevelIn(document[3]) = <<1>>
        BY <1>3, <1>4, <1>5, <2>1
  <2> QED BY <1>1, <2>2, FirstHeading
<1> QED BY <1>1, <1>3, <1>5, <1>6, <1>7, <1>8

\* The findings of language and title hang on what begins a document only.
LEMMA TitleFound ==
    ASSUME NEW name \in Texts \union {NoText}, NEW page \in Seq(Events),
           NEW document, document = FullDocument(name, page)
    PROVE  /\ LangFindings(document) = <<>>
           /\ TitleFindings(document) =
                  IF name = NoText THEN <<Finding("title-missing", "error")>>
                  ELSE IF Width(Letters[name]) < 3 THEN <<Finding("title-too-short", "warning")>> ELSE <<>>
<1>1. /\ DOMAIN document = 1..Len(document) /\ Len(document) >= 5 /\ document \in Seq(Reported)
      /\ document[1] = OpenWith("html", "en") /\ document[2] = OpenWith("title", name)
      BY DocumentBegins
<1>2. LangFindings(document) = <<>>
  <2>1. "en" # NoText
        BY NothingAssumption DEF Values
  <2>2. Opens(document[1], "html") /\ document[1].attr # NoText
        BY <1>1, <2>1 DEF Opens, OpenWith
  <2>3. document # <<>>
        BY <1>1
  <2> QED BY <2>2, <2>3, Zenon DEF LangFindings
<1>3. TitleFindings(document) =
          IF name = NoText THEN <<Finding("title-missing", "error")>>
          ELSE IF Width(Letters[name]) < 3 THEN <<Finding("title-too-short", "warning")>> ELSE <<>>
  <2> DEFINE titles == {i \in DOMAIN document : Opens(document[i], "title")}
  <2>0. Len(document) \in Nat
        BY <1>1, LenProperties
  <2>1. 2 \in titles /\ 1 \notin titles /\ titles \subseteq Nat \ {0}
        BY <1>1, <2>0 DEF Opens, OpenWith
  <2>2. Min(titles) = 2
    <3>1. \A i \in titles : 2 <= i
          BY <2>1
    <3> HIDE DEF titles
    <3>2. \E x \in titles : \A y \in titles : x <= y
          BY <2>1, <3>1
    <3>3. Min(titles) \in titles /\ \A y \in titles : Min(titles) <= y
          BY <3>2 DEF Min
    <3> DEFINE m == Min(titles)
    <3>4. m \in Nat /\ 2 <= m /\ m <= 2
          BY <2>1, <3>1, <3>3
    <3> HIDE DEF m
    <3>5. m = 2
          BY <3>4
    <3> QED BY <3>5 DEF m
  <2>3. document[Min(titles)].attr = name
        BY <1>1, <2>2 DEF OpenWith
  <2>4. titles # {}
        BY <2>1
  <2> DEFINE first == document[Min(titles)]
  <2>5. TitleFindings(document) =
            IF titles = {} \/ first.attr = NoText THEN <<Finding("title-missing", "error")>>
            ELSE IF Width(Letters[first.attr]) < 3 THEN <<Finding("title-too-short", "warning")>> ELSE <<>>
        BY Zenon DEF TitleFindings
  <2> HIDE DEF titles, first
  <2>6. first.attr = name
        BY <2>3 DEF first
  <2> QED BY <2>4, <2>5, <2>6
<1> QED BY <1>2, <1>3

\* What a document takes off is what each check finds of it.
Fonts(document) == IF \E i \in DOMAIN document : Opens(document[i], "font") THEN 3 ELSE 0
\* What more than one heading 1 takes off.
Firsts(document) == IF Cardinality(FirstsIn(Levels(document))) > 1 THEN 3 ELSE 0

\* What a report takes off, part by part.
LEMMA ReportCosts ==
    ASSUME NEW name \in Texts \union {NoText}, NEW page \in Seq(Events),
           NEW document, document = FullDocument(name, page)
    PROVE  /\ Report(name, page) \in Seq(Findings)
           /\ Cost(Report(name, page)) =
                  Cost(TitleFindings(document)) + Firsts(document) + Cost(Skips(Levels(document)))
                  + Cost(Each(Lacking("img"), document)) + Cost(Each(Lacking("table"), document))
                  + Cost(Each(Lacking("a"), document)) + Cost(Each(Lacking("button"), document))
                  + Fonts(document)
           /\ Cost(TitleFindings(document)) \in Nat /\ Cost(Skips(Levels(document))) \in Nat
           /\ \A tag \in Checked : Cost(Each(Lacking(tag), document)) \in Nat
<1> DEFINE S == Seq(Findings)
           t == TitleFindings(document)
           h == HeadingFindings(document)
           k == SkipFindings(document)
           f == FontFindings(document)
           i == Each(Lacking("img"), document)
           b == Each(Lacking("table"), document)
           a == Each(Lacking("a"), document)
           c == Each(Lacking("button"), document)
<1>1. /\ document \in Seq(Reported) /\ Levels(document) \in Seq(1..6) /\ FirstsIn(Levels(document)) # {}
      BY DocumentBegins
<1>2. LangFindings(document) = <<>> /\ t \in S
  <2> DEFINE missing == <<Finding("title-missing", "error")>>
             short == <<Finding("title-too-short", "warning")>>
  <2>1. missing \in S /\ short \in S /\ <<>> \in S
        BY FindingCosts, EmptySeq DEF Rules, Severities
  <2>2. LangFindings(document) = <<>>
        BY TitleFound
  <2>3. t = IF name = NoText THEN missing ELSE IF Width(Letters[name]) < 3 THEN short ELSE <<>>
        BY TitleFound
  <2> HIDE DEF missing, short, S, t
  <2> QED BY <2>1, <2>2, <2>3
<1>3. h \in S /\ Cost(h) = Firsts(document)
      BY <1>1, HeadingCosts DEF Firsts
<1>4. k \in S /\ k = Skips(Levels(document))
  <2>1. k = Skips(Levels(document))
        BY Zenon DEF SkipFindings, Skips, SkipAt
  <2> QED BY <1>1, <2>1, SkipsType
<1>5. f \in S /\ Cost(f) = Fonts(document)
  <2> DEFINE found == <<Finding("font-element-present", "warning")>>
  <2>1. found \in S /\ Cost(found) = 3 /\ <<>> \in S /\ Cost(<<>>) = 0
        BY FindingCosts, EmptySeq, CostOfNone DEF Rules, Severities
  <2>2. f = IF \E j \in DOMAIN document : Opens(document[j], "font") THEN found ELSE <<>>
        BY DEF FontFindings
  <2> HIDE DEF found, f, S
  <2> QED BY <2>1, <2>2 DEF Fonts
<1>6. \A tag \in Checked : Each(Lacking(tag), document) \in S
  <2> SUFFICES ASSUME NEW tag \in Checked PROVE Each(Lacking(tag), document) \in S
        OBVIOUS
  <2> DEFINE E == Findings
             g == Lacking(tag)
  <2>1. g \in [Reported -> Seq(E)]
        BY LackingType
  <2> HIDE DEF E, g
  <2>2. Each(g, document) \in Seq(E)
        BY <1>1, <2>1, EachType
  <2> QED BY <2>2 DEF E, g
<1>7. i \in S /\ b \in S /\ a \in S /\ c \in S
      BY <1>6 DEF Checked
<1>8. Report(name, page) = (((((((<<>> \o t) \o h) \o k) \o i) \o b) \o a) \o c) \o f
  <2>1. RunWcagChecks(document) = (((((((<<>> \o t) \o h) \o k) \o i) \o b) \o a) \o c) \o f
        BY <1>1, <1>2, ElementsAre DEF RunWcagChecks
  <2> QED BY <2>1 DEF Report
<1> HIDE DEF t, h, k, i, b, a, c, f, S
<1>9. <<>> \o t = t
      BY <1>2, ConcatEmptySeq DEF S
<1>10. \A r, s \in S : r \o s \in S /\ Cost(r \o s) = Cost(r) + Cost(s)
       BY ConcatProperties, CostOfBoth DEF S
<1> DEFINE r1 == t \o h
           r2 == r1 \o k
           r3 == r2 \o i
           r4 == r3 \o b
           r5 == r4 \o a
           r6 == r5 \o c
           r7 == r6 \o f
<1>11. r1 \in S /\ Cost(r1) = Cost(t) + Cost(h)
       BY <1>2, <1>3, <1>10
<1> HIDE DEF r1
<1>12. r2 \in S /\ Cost(r2) = Cost(r1) + Cost(k)
       BY <1>4, <1>10, <1>11
<1> HIDE DEF r2
<1>13. r3 \in S /\ Cost(r3) = Cost(r2) + Cost(i)
       BY <1>7, <1>10, <1>12
<1> HIDE DEF r3
<1>14. r4 \in S /\ Cost(r4) = Cost(r3) + Cost(b)
       BY <1>7, <1>10, <1>13
<1> HIDE DEF r4
<1>15. r5 \in S /\ Cost(r5) = Cost(r4) + Cost(a)
       BY <1>7, <1>10, <1>14
<1> HIDE DEF r5
<1>16. r6 \in S /\ Cost(r6) = Cost(r5) + Cost(c)
       BY <1>7, <1>10, <1>15
<1> HIDE DEF r6
<1>17. r7 \in S /\ Cost(r7) = Cost(r6) + Cost(f)
       BY <1>5, <1>10, <1>16
<1>18. Report(name, page) = r7
       BY <1>8, <1>9 DEF r1, r2, r3, r4, r5, r6
<1> HIDE DEF r7
<1>19. \A s \in S : Cost(s) \in Nat
       BY CostType DEF S
<1>20. /\ Cost(t) \in Nat /\ Cost(h) \in Nat /\ Cost(k) \in Nat /\ Cost(i) \in Nat /\ Cost(b) \in Nat
       /\ Cost(a) \in Nat /\ Cost(c) \in Nat /\ Cost(f) \in Nat
       BY <1>2, <1>3, <1>4, <1>5, <1>7, <1>19
<1>21. Cost(r7) = Cost(t) + Cost(h) + Cost(k) + Cost(i) + Cost(b) + Cost(a) + Cost(c) + Cost(f)
       BY <1>11, <1>12, <1>13, <1>14, <1>15, <1>16, <1>17, <1>20
<1>22. Report(name, page) \in Seq(Findings)
       BY <1>17, <1>18 DEF S
<1>23. \A tag \in Checked : Cost(Each(Lacking(tag), document)) \in Nat
       BY <1>6, <1>19
<1> QED BY <1>3, <1>4, <1>5, <1>18, <1>20, <1>21, <1>22, <1>23 DEF t, i, b, a, c

\* Sums of eight parts compare if the parts do.
LEMMA SumsCompared ==
    ASSUME NEW a \in Nat, NEW b \in Nat, NEW c \in Nat, NEW d \in Nat,
           NEW e \in Nat, NEW f \in Nat, NEW g \in Nat, NEW h \in Nat,
           NEW i \in Nat, NEW j \in Nat, NEW k \in Nat, NEW l \in Nat,
           NEW m \in Nat, NEW n \in Nat, NEW o \in Nat, NEW p \in Nat,
           a <= i, b <= j, c <= k, d <= l, e <= m, f <= n, g <= o, h <= p
    PROVE  a + b + c + d + e + f + g + h <= i + j + k + l + m + n + o + p
      OBVIOUS

\* A document of which every element is as it was, or mended, takes no more off.
LEMMA MendingLifts ==
    ASSUME NEW name \in Texts \union {NoText}, NEW p \in Seq(Events), NEW q \in Seq(Events),
           Matched(Mends, p, q)
    PROVE  Cost(Report(name, q)) <= Cost(Report(name, p))
<1> DEFINE d == FullDocument(name, p)
           e == FullDocument(name, q)
           cost(document, tag) == Cost(Each(Lacking(tag), document))
<1>1. d \in Seq(Reported) /\ e \in Seq(Reported) /\ Levels(d) \in Seq(1..6) /\ Levels(e) \in Seq(1..6)
      /\ Levels(d) = Each(LevelOf, d) /\ Levels(e) = Each(LevelOf, e)
      BY DocumentBegins
<1>2. Matched(Mends, d, e)
  <2> DEFINE o == Opening(name)
             D == Reported
  <2>1. o \in Seq(D) /\ p \in Seq(D) /\ q \in Seq(D) /\ d = o \o p /\ e = o \o q
        BY DocumentType
  <2>2. Matched(Mends, o, o)
    <3>1. \A x \in D : <<x, x>> \in Mends
          BY DEF Mends, Mended
    <3>2. \A i \in 1..Len(o) : o[i] \in D
          BY <2>1, ElementOfSeq
    <3> HIDE DEF o, D
    <3> QED BY <3>1, <3>2 DEF Matched
  <2> HIDE DEF o, D, d, e
  <2>3. Matched(Mends, o \o p, o \o q)
        BY <2>1, <2>2, MatchedBoth
  <2> QED BY <2>1, <2>3
<1> HIDE DEF d, e
<1>3. TitleFindings(e) = TitleFindings(d)
      BY TitleFound DEF d, e
<1>4. Matched(Alike, Levels(d), Levels(e))
      BY <1>1, <1>2, LevelsAlike
<1>5. Firsts(e) <= Firsts(d)
  <2>1. Cardinality(FirstsIn(Levels(e))) <= Cardinality(FirstsIn(Levels(d)))
        BY <1>1, <1>4, HeadingsFall
  <2>2. Cardinality(FirstsIn(Levels(e))) \in Nat /\ Cardinality(FirstsIn(Levels(d))) \in Nat
        BY <1>1, FirstsCount
  <2> QED BY <2>1, <2>2 DEF Firsts
<1>6. Cost(Skips(Levels(e))) <= Cost(Skips(Levels(d)))
      BY <1>1, <1>4, SkipsFall
<1>7. ASSUME NEW tag \in Checked PROVE cost(e, tag) <= cost(d, tag)
  <2> DEFINE f == Lacking(tag)
             E == Findings
             D == Reported
  <2>1. f \in [D -> Seq(E)]
        BY LackingType
  <2>2. \A x \in D, y \in D : <<x, y>> \in Mends => Cost(f[y]) <= Cost(f[x])
    <3> SUFFICES ASSUME NEW x \in D, NEW y \in D, <<x, y>> \in Mends PROVE Cost(f[y]) <= Cost(f[x])
          OBVIOUS
    <3>1. Mended(x, y)
          BY DEF Mends
    <3> QED BY <3>1, MendingCosts DEF Lacking
  <2>3. d \in Seq(D) /\ e \in Seq(D)
        BY <1>1
  <2> HIDE DEF f, D
  <2>4. Cost(Each(f, e)) <= Cost(Each(f, d))
        BY <1>2, <2>1, <2>2, <2>3, EachCosts
  <2> QED BY <2>4 DEF f
<1>8. Fonts(e) <= Fonts(d)
  <2>1. \A x, y : Mended(x, y) /\ Opens(y, "font") => Opens(x, "font")
        BY DEF Mended, Opens, Close
  <2>2. \A i \in DOMAIN e : i \in DOMAIN d /\ Mended(d[i], e[i])
    <3>1. DOMAIN e = 1..Len(d) /\ DOMAIN d = 1..Len(d)
          BY <1>1, <1>2, LenProperties DEF Matched
    <3> QED BY <1>2, <3>1 DEF Matched, Mends
  <2> QED BY <2>1, <2>2 DEF Fonts
<1>9. Firsts(d) \in Nat /\ Firsts(e) \in Nat /\ Fonts(d) \in Nat /\ Fonts(e) \in Nat
      BY DEF Firsts, Fonts
<1>10. /\ cost(e, "img") <= cost(d, "img") /\ cost(e, "table") <= cost(d, "table")
       /\ cost(e, "a") <= cost(d, "a") /\ cost(e, "button") <= cost(d, "button")
       BY <1>7 DEF Checked
<1> DEFINE Sum(x) == Cost(TitleFindings(x)) + Firsts(x) + Cost(Skips(Levels(x)))
                     + cost(x, "img") + cost(x, "table") + cost(x, "a") + cost(x, "button") + Fonts(x)
           Natural(x) == /\ Cost(TitleFindings(x)) \in Nat /\ Cost(Skips(Levels(x))) \in Nat
                         /\ cost(x, "img") \in Nat /\ cost(x, "table") \in Nat
                         /\ cost(x, "a") \in Nat /\ cost(x, "button") \in Nat
<1>11. Cost(Report(name, p)) = Sum(d) /\ Natural(d)
       BY ReportCosts DEF d, Checked
<1>12. Cost(Report(name, q)) = Sum(e) /\ Natural(e)
       BY ReportCosts DEF e, Checked
<1> HIDE DEF cost
<1>13. Cost(TitleFindings(e)) <= Cost(TitleFindings(d))
       BY <1>3, <1>11
<1>14. Sum(e) <= Sum(d)
  <2> DEFINE m1 == Cost(TitleFindings(e))
             m2 == Firsts(e)
             m3 == Cost(Skips(Levels(e)))
             m4 == cost(e, "img")
             m5 == cost(e, "table")
             m6 == cost(e, "a")
             m7 == cost(e, "button")
             m8 == Fonts(e)
             n1 == Cost(TitleFindings(d))
             n2 == Firsts(d)
             n3 == Cost(Skips(Levels(d)))
             n4 == cost(d, "img")
             n5 == cost(d, "table")
             n6 == cost(d, "a")
             n7 == cost(d, "button")
             n8 == Fonts(d)
  <2>1. /\ m1 \in Nat /\ m2 \in Nat /\ m3 \in Nat /\ m4 \in Nat /\ m5 \in Nat /\ m6 \in Nat /\ m7 \in Nat /\ m8 \in Nat
        /\ n1 \in Nat /\ n2 \in Nat /\ n3 \in Nat /\ n4 \in Nat /\ n5 \in Nat /\ n6 \in Nat /\ n7 \in Nat /\ n8 \in Nat
        BY <1>9, <1>11, <1>12
  <2>2. m1 <= n1 /\ m2 <= n2 /\ m3 <= n3 /\ m4 <= n4 /\ m5 <= n5 /\ m6 <= n6 /\ m7 <= n7 /\ m8 <= n8
        BY <1>5, <1>6, <1>8, <1>10, <1>13
  <2>3. Sum(e) = m1 + m2 + m3 + m4 + m5 + m6 + m7 + m8 /\ Sum(d) = n1 + n2 + n3 + n4 + n5 + n6 + n7 + n8
        OBVIOUS
  <2> HIDE DEF Sum, m1, m2, m3, m4, m5, m6, m7, m8, n1, n2, n3, n4, n5, n6, n7, n8
  <2> QED BY <2>1, <2>2, <2>3, SumsCompared
<1> HIDE DEF Sum
<1> QED BY <1>11, <1>12, <1>14

\* The heading levels of two documents put together.
LEMMA LevelsOfBoth ==
    ASSUME NEW d \in Seq(Reported), NEW q \in Seq(Reported)
    PROVE  Each(LevelOf, d \o q) = Each(LevelOf, d) \o Each(LevelOf, q) /\ Each(LevelOf, q) \in Seq(1..6)
<1> DEFINE f == LevelOf
           D == Reported
           N == 1..6
<1>1. f \in [D -> Seq(N)]
      BY LackingType
<1>2. d \in Seq(D) /\ q \in Seq(D)
      OBVIOUS
<1> HIDE DEF f, N, D
<1>3. Each(f, q) \in Seq(N)
      BY <1>1, <1>2, EachType
<1>4. Each(f, d \o q) = Each(f, d) \o Each(f, q)
      BY <1>1, <1>2, EachOfBoth
<1> QED BY <1>3, <1>4 DEF f, N

\* A document that got longer takes as much off, or more.
LEMMA MoreLowers ==
    ASSUME NEW name \in Texts \union {NoText}, NEW p \in Seq(Events), NEW q \in Seq(Events)
    PROVE  Cost(Report(name, p)) <= Cost(Report(name, p \o q))
<1> DEFINE d == FullDocument(name, p)
           e == FullDocument(name, p \o q)
           cost(document, tag) == Cost(Each(Lacking(tag), document))
<1>0. p \o q \in Seq(Events)
      BY ConcatProperties
<1>1. d \in Seq(Reported) /\ e \in Seq(Reported) /\ Levels(d) \in Seq(1..6) /\ Levels(e) \in Seq(1..6)
      /\ Levels(d) = Each(LevelOf, d) /\ Levels(e) = Each(LevelOf, e)
      BY <1>0, DocumentBegins
<1>2. e = d \o q /\ q \in Seq(Reported)
  <2> DEFINE o == Opening(name)
             D == Reported
  <2>1. o \in Seq(D) /\ p \in Seq(D) /\ q \in Seq(D) /\ d = o \o p /\ e = o \o (p \o q)
        BY <1>0, DocumentType
  <2> HIDE DEF o, D, d, e
  <2>2. o \o (p \o q) = (o \o p) \o q
        BY <2>1, ConcatAssociative
  <2>3. e = d \o q
        BY <2>1, <2>2
  <2> QED BY <2>1, <2>3 DEF D
<1>3. TitleFindings(e) = TitleFindings(d)
      BY <1>0, TitleFound
<1> HIDE DEF d, e
<1>4. Levels(e) = Levels(d) \o Each(LevelOf, q) /\ Each(LevelOf, q) \in Seq(1..6)
      BY <1>1, <1>2, LevelsOfBoth
<1> DEFINE more == Each(LevelOf, q)
           levels == Levels(d)
<1>5. Firsts(d) <= Firsts(e)
  <2> HIDE DEF more, levels
  <2>1. Cardinality(FirstsIn(levels)) <= Cardinality(FirstsIn(levels \o more))
        BY <1>1, <1>4, HeadingsGrow DEF more, levels
  <2>2. Cardinality(FirstsIn(Levels(e))) \in Nat /\ Cardinality(FirstsIn(Levels(d))) \in Nat
        BY <1>1, FirstsCount
  <2> QED BY <1>4, <2>1, <2>2 DEF Firsts, more, levels
<1>6. Cost(Skips(Levels(d))) <= Cost(Skips(Levels(e)))
  <2> HIDE DEF more, levels
  <2>1. Cost(Skips(levels)) <= Cost(Skips(levels \o more))
        BY <1>1, <1>4, SkipsGrow DEF more, levels
  <2> QED BY <1>4, <2>1 DEF more, levels
<1>7. ASSUME NEW tag \in Checked PROVE cost(d, tag) <= cost(e, tag)
  <2> DEFINE f == Lacking(tag)
  <2>1. f \in [Reported -> Seq(Findings)]
        BY LackingType
  <2> HIDE DEF f
  <2>2. Cost(Each(f, d)) <= Cost(Each(f, d \o q))
        BY <1>1, <1>2, <2>1, EachCostsMore
  <2> QED BY <1>2, <2>2 DEF f
<1>8. Fonts(d) <= Fonts(e)
  <2>1. /\ DOMAIN d = 1..Len(d) /\ DOMAIN e = 1..(Len(d) + Len(q)) /\ Len(d) \in Nat /\ Len(q) \in Nat
        /\ \A i \in 1..(Len(d) + Len(q)) : e[i] = IF i <= Len(d) THEN d[i] ELSE q[i - Len(d)]
    <3>1. /\ Len(d \o q) = Len(d) + Len(q)
          /\ \A i \in 1..(Len(d) + Len(q)) : (d \o q)[i] = IF i <= Len(d) THEN d[i] ELSE q[i - Len(d)]
          BY <1>1, <1>2, ConcatProperties
    <3>2. DOMAIN d = 1..Len(d) /\ DOMAIN e = 1..Len(e) /\ Len(d) \in Nat /\ Len(q) \in Nat
          BY <1>1, <1>2, LenProperties
    <3> QED BY <1>2, <3>1, <3>2
  <2>2. \A i \in DOMAIN d : i \in DOMAIN e /\ e[i] = d[i]
    <3> SUFFICES ASSUME NEW i \in 1..Len(d) PROVE i \in DOMAIN e /\ e[i] = d[i]
          BY <2>1
    <3>1. i \in 1..(Len(d) + Len(q)) /\ i <= Len(d)
          BY <2>1
    <3> QED BY <2>1, <3>1
  <2> QED BY <2>2 DEF Fonts
<1>9. Firsts(d) \in Nat /\ Firsts(e) \in Nat /\ Fonts(d) \in Nat /\ Fonts(e) \in Nat
      BY DEF Firsts, Fonts
<1>10. /\ cost(d, "img") <= cost(e, "img") /\ cost(d, "table") <= cost(e, "table")
       /\ cost(d, "a") <= cost(e, "a") /\ cost(d, "button") <= cost(e, "button")
       BY <1>7 DEF Checked
<1> DEFINE Sum(x) == Cost(TitleFindings(x)) + Firsts(x) + Cost(Skips(Levels(x)))
                     + cost(x, "img") + cost(x, "table") + cost(x, "a") + cost(x, "button") + Fonts(x)
           Natural(x) == /\ Cost(TitleFindings(x)) \in Nat /\ Cost(Skips(Levels(x))) \in Nat
                         /\ cost(x, "img") \in Nat /\ cost(x, "table") \in Nat
                         /\ cost(x, "a") \in Nat /\ cost(x, "button") \in Nat
<1>11. Cost(Report(name, p)) = Sum(d) /\ Natural(d)
       BY ReportCosts DEF d, Checked
<1>12. Cost(Report(name, p \o q)) = Sum(e) /\ Natural(e)
       BY <1>0, ReportCosts DEF e, Checked
<1> HIDE DEF cost
<1>13. Cost(TitleFindings(d)) <= Cost(TitleFindings(e))
       BY <1>3, <1>11
<1>14. Sum(d) <= Sum(e)
  <2> DEFINE m1 == Cost(TitleFindings(d))
             m2 == Firsts(d)
             m3 == Cost(Skips(Levels(d)))
             m4 == cost(d, "img")
             m5 == cost(d, "table")
             m6 == cost(d, "a")
             m7 == cost(d, "button")
             m8 == Fonts(d)
             n1 == Cost(TitleFindings(e))
             n2 == Firsts(e)
             n3 == Cost(Skips(Levels(e)))
             n4 == cost(e, "img")
             n5 == cost(e, "table")
             n6 == cost(e, "a")
             n7 == cost(e, "button")
             n8 == Fonts(e)
  <2>1. /\ m1 \in Nat /\ m2 \in Nat /\ m3 \in Nat /\ m4 \in Nat /\ m5 \in Nat /\ m6 \in Nat /\ m7 \in Nat /\ m8 \in Nat
        /\ n1 \in Nat /\ n2 \in Nat /\ n3 \in Nat /\ n4 \in Nat /\ n5 \in Nat /\ n6 \in Nat /\ n7 \in Nat /\ n8 \in Nat
        BY <1>9, <1>11, <1>12
  <2>2. m1 <= n1 /\ m2 <= n2 /\ m3 <= n3 /\ m4 <= n4 /\ m5 <= n5 /\ m6 <= n6 /\ m7 <= n7 /\ m8 <= n8
        BY <1>5, <1>6, <1>8, <1>10, <1>13
  <2>3. Sum(d) = m1 + m2 + m3 + m4 + m5 + m6 + m7 + m8 /\ Sum(e) = n1 + n2 + n3 + n4 + n5 + n6 + n7 + n8
        OBVIOUS
  <2> HIDE DEF Sum, m1, m2, m3, m4, m5, m6, m7, m8, n1, n2, n3, n4, n5, n6, n7, n8
  <2> QED BY <2>1, <2>2, <2>3, SumsCompared
<1> HIDE DEF Sum
<1> QED BY <1>11, <1>12, <1>14

\* Parts that match, element by element, make pages that do.
LEMMA PartsMatched ==
    ASSUME NEW ss \in Seq(Seq(Events)), NEW tt \in Seq(Seq(Events)), Len(ss) = Len(tt),
           \A i \in 1..Len(ss) : Matched(Mends, ss[i], tt[i])
    PROVE  Matched(Mends, FlattenSeq(ss), FlattenSeq(tt))
<1> DEFINE S == Seq(Events)
           M == {p \in S \X S : Matched(Mends, p[1], p[2])}
           T == {p \in Seq(S) \X Seq(S) : Matched(Mends, FlattenSeq(p[1]), FlattenSeq(p[2]))}
<1>1. << <<>>, <<>> >> \in T
  <2> DEFINE x == <<>>
  <2>1. x \in Seq(S) /\ Matched(Mends, FlattenSeq(x), FlattenSeq(x))
    <3>1. Matched(Mends, <<>>, <<>>)
          BY DEF Matched
    <3> QED BY <3>1, EmptySeq, FlattenEmpty
  <2> HIDE DEF S, x
  <2>2. <<x, x>> \in T
        BY <2>1
  <2> QED BY <2>2 DEF x
<1>2. ASSUME NEW s \in Seq(S), NEW t \in Seq(S), NEW d \in S, NEW e \in S,
             <<s, t>> \in T, <<d, e>> \in M
      PROVE  <<Append(s, d), Append(t, e)>> \in T
  <2> DEFINE a == FlattenSeq(s)
             b == FlattenSeq(t)
  <2>1. FlattenSeq(Append(s, d)) = a \o d /\ FlattenSeq(Append(t, e)) = b \o e
        BY FlattenAppend
  <2>2. a \in S /\ b \in S /\ Append(s, d) \in Seq(S) /\ Append(t, e) \in Seq(S)
        BY FlattenType, AppendProperties
  <2>3. Matched(Mends, a, b) /\ Matched(Mends, d, e)
        BY <1>2
  <2> HIDE DEF a, b
  <2>4. Matched(Mends, a \o d, b \o e)
        BY <2>2, <2>3, MatchedBoth
  <2> HIDE DEF S
  <2> QED BY <2>1, <2>2, <2>4
<1>3. Matched(M, ss, tt)
  <2>1. Len(ss) \in Nat /\ \A i \in 1..Len(ss) : ss[i] \in S /\ tt[i] \in S
        BY LenProperties, ElementOfSeq
  <2> QED BY <2>1 DEF Matched
<1> HIDE DEF T, S, M
<1>4. \A s \in Seq(S), t \in Seq(S) : Matched(M, s, t) => <<s, t>> \in T
      BY <1>1, <1>2, PairsInduction
<1>5. <<ss, tt>> \in T
      BY <1>3, <1>4 DEF S
<1> QED BY <1>5 DEF T

\* A repair of any page, whatever surrounds it, leaves the computed score or moves
\* it up; another part leaves it or moves it down; nothing else changes the page.
LEMMA EditMovesTheScore ==
    TypeOK /\ Next => IF Len(body') = Len(body) THEN ScoreOf(title', body') >= ScoreOf(title, body)
                      ELSE ScoreOf(title', body') <= ScoreOf(title, body)
<1> DEFINE Follows == IF Len(body') = Len(body) THEN ScoreOf(title', body') >= ScoreOf(title, body)
                      ELSE ScoreOf(title', body') <= ScoreOf(title, body)
<1>1. TypeOK /\ Next => Follows
  <2> SUFFICES ASSUME TypeOK, Next PROVE Follows
        OBVIOUS
  <2>1. title \in Texts \union {NoText} /\ body \in Seq(Seq(Events)) /\ Page \in Seq(Events)
        /\ body \in Seq(Seq(Events) \ {<<>>})
        BY PageType, SeqMonotonic, DocumentsAssumption DEF TypeOK
  <2>2. ASSUME NEW part \in Parts, Add(part) PROVE Follows
    <3>1. part \in Seq(Events) /\ body' = Append(body, part) /\ title' = title
          BY <2>2, DocumentsAssumption DEF Add
    <3>2. FlattenSeq(body') = Page \o part
          BY <2>1, <3>1, FlattenAppend DEF Page
    <3>3. Len(body') # Len(body)
          BY <2>1, <3>1, AppendProperties, LenProperties
    <3>4. Cost(Report(title, Page)) <= Cost(Report(title, Page \o part))
          BY <2>1, <3>1, MoreLowers
    <3>5. Page \o part \in Seq(Events)
          BY <2>1, <3>1, ConcatProperties
    <3>6. Score(Report(title, Page)) >= Score(Report(title, Page \o part))
          BY <2>1, <3>4, <3>5, ReportType, ScoreFalls
    <3>7. ScoreOf(title, body) = Score(Report(title, Page)) /\ ScoreOf(title', body') = Score(Report(title, Page \o part))
          BY <3>1, <3>2 DEF ScoreOf, Page
    <3>8. Score(Report(title, Page)) \in Int /\ Score(Report(title, Page \o part)) \in Int
      <4>1. Report(title, Page) \in Seq(Findings) /\ Report(title, Page \o part) \in Seq(Findings)
            BY <2>1, <3>5, ReportType
      <4>2. \A report \in Seq(Findings) : Score(report) \in Int
            BY ScoreType
      <4> QED BY <4>1, <4>2
    <3> QED BY <3>3, <3>6, <3>7, <3>8
  <2>3. ASSUME NEW i \in DOMAIN body, NEW repair \in Repairs, Repair(i, repair) PROVE Follows
    <3>1. body[i] = repair[1] /\ body' = [body EXCEPT ![i] = repair[2]] /\ title' = title
          BY <2>3 DEF Repair
    <3>2. repair[2] \in Seq(Events) /\ Len(repair[1]) = Len(repair[2])
          /\ \A j \in DOMAIN repair[2] : Mended(repair[1][j], repair[2][j])
          BY DocumentsAssumption
    <3>3. i \in 1..Len(body) /\ Len(body) \in Nat /\ DOMAIN body = 1..Len(body)
          BY <2>1, LenProperties
    <3>4. body' \in Seq(Seq(Events)) /\ Len(body') = Len(body)
      <4> DEFINE S == Seq(Events)
      <4>1. body \in Seq(S) /\ repair[2] \in S
            BY <2>1, <3>2
      <4> HIDE DEF S
      <4>2. [body EXCEPT ![i] = repair[2]] \in Seq(S) /\ Len([body EXCEPT ![i] = repair[2]]) = Len(body)
            BY <3>3, <4>1, ExceptSeq
      <4> QED BY <3>1, <4>2 DEF S
    <3>5. \A j \in 1..Len(body) : Matched(Mends, body[j], body'[j])
      <4> SUFFICES ASSUME NEW j \in 1..Len(body) PROVE Matched(Mends, body[j], body'[j])
            OBVIOUS
      <4>1. body[j] \in Seq(Events) /\ Len(body[j]) \in Nat /\ \A k \in 1..Len(body[j]) : body[j][k] \in Events
        <5>1. body[j] \in Seq(Events)
              BY <2>1
        <5> QED BY <5>1, LenProperties, ElementOfSeq
      <4>2. Events \subseteq Reported
            BY DEF Reported
      <4>3. CASE j = i
        <5>1. body'[j] = repair[2] /\ body[j] = repair[1]
              BY <3>1, <3>3, <4>3
        <5>2. DOMAIN repair[2] = 1..Len(body[j]) /\ \A k \in 1..Len(body[j]) : repair[2][k] \in Events
              BY <3>2, <5>1, LenProperties, ElementOfSeq
        <5>3. \A k \in 1..Len(body[j]) : <<repair[1][k], repair[2][k]>> \in Mends
              BY <3>2, <4>1, <4>2, <5>1, <5>2 DEF Mends
        <5> QED BY <3>2, <5>1, <5>3 DEF Matched
      <4>4. CASE j # i
        <5>1. body'[j] = body[j]
              BY <3>1, <3>3, <4>4
        <5>2. \A k \in 1..Len(body[j]) : <<body[j][k], body[j][k]>> \in Mends
              BY <4>1, <4>2 DEF Mends, Mended
        <5> QED BY <5>1, <5>2 DEF Matched
      <4> QED BY <4>3, <4>4
    <3> DEFINE before == FlattenSeq(body)
               after == FlattenSeq(body')
    <3>6. before \in Seq(Events) /\ after \in Seq(Events)
          BY <2>1, <3>4, FlattenType
    <3>7. Matched(Mends, before, after)
          BY <2>1, <3>4, <3>5, PartsMatched
    <3> HIDE DEF before, after
    <3>8. Cost(Report(title, after)) <= Cost(Report(title, before))
          BY <2>1, <3>6, <3>7, MendingLifts
    <3>9. Score(Report(title, after)) >= Score(Report(title, before))
          BY <3>6, <3>8, ReportType, ScoreFalls
    <3>10. ScoreOf(title, body) = Score(Report(title, before)) /\ ScoreOf(title', body') = Score(Report(title, after))
           BY <3>1 DEF ScoreOf, before, after
    <3> QED BY <3>4, <3>9, <3>10
  <2>4. CASE ComputeScore \/ CacheScore \/ DropScore
    <3>1. title' = title /\ body' = body
          BY <2>4 DEF ComputeScore, CacheScore, DropScore
    <3>3. ScoreOf(title, body) \in Nat
          BY <2>1, ScoreIsNumber
    <3>4. ScoreOf(title', body') = ScoreOf(title, body)
          BY <3>1
    <3> QED BY <3>1, <3>3, <3>4
  <2> QED BY <2>2, <2>3, <2>4 DEF Next
<1> QED BY <1>1

\* On any page and under any title, a repair leaves the computed score or moves it
\* up and an addition leaves it or moves it down (canvas_panorama.py:866-873).
THEOREM EditsMoveTheScore == Spec => ScoreFollowsEdits
<1> DEFINE Follows == IF Len(body') = Len(body) THEN ScoreOf(title', body') >= ScoreOf(title, body)
                      ELSE ScoreOf(title', body') <= ScoreOf(title, body)
<1>1. TypeOK /\ [Next]_vars => [Follows]_vars
      BY EditMovesTheScore
<1>2. ScoreFollowsEdits <=> [][Follows]_vars
      BY DEF ScoreFollowsEdits
<1> QED BY <1>1, <1>2, TypeCorrect, PTL DEF Spec

\* A score on its way to the dial, or on it, is no better than the page's own as
\* long as no part was added to the page.
DialInv ==
    dial.at # "none" =>
        /\ dial.parts <= Len(body)
        /\ dial.parts = Len(body) => dial.score <= ScoreOf(title, body)

LEMMA DialIsModest == Spec => [](TypeOK /\ DialInv)
<1>1. Init => DialInv
      BY DEF Init, DialInv, NoDial
<1>2. TypeOK /\ DialInv /\ [Next]_vars => DialInv'
  <2> SUFFICES ASSUME TypeOK, DialInv, [Next]_vars PROVE DialInv'
        OBVIOUS
  <2>1. /\ Len(body) \in Nat /\ dial.parts \in Nat /\ dial.score \in Nat
        /\ ScoreOf(title, body) \in Nat
    BY ScoreIsNumber, DocumentsAssumption DEF TypeOK
  <2>2. ASSUME NEW part \in Parts, Add(part) PROVE DialInv'
    <3>1. Len(body') = Len(body) + 1
          BY <2>2, DocumentsAssumption, AppendProperties DEF Add, TypeOK
    <3> QED BY <2>1, <2>2, <3>1 DEF Add, DialInv
  <2>3. ASSUME NEW i \in DOMAIN body, NEW repair \in Repairs, Repair(i, repair) PROVE DialInv'
    <3>1. Next
          BY <2>3 DEF Next
    <3>2. Len(body') = Len(body)
      <4>1. repair[2] \in Seq(Events) \ {<<>>} /\ i \in 1..Len(body)
            BY DocumentsAssumption DEF TypeOK
      <4>2. body \in Seq(Seq(Events) \ {<<>>})
            BY DEF TypeOK
      <4> DEFINE S == Seq(Events) \ {<<>>}
      <4> HIDE DEF S
      <4>3. Len([body EXCEPT ![i] = repair[2]]) = Len(body)
            BY <4>1, <4>2, ExceptSeq DEF S
      <4> QED BY <2>3, <4>3 DEF Repair
    <3>3. ScoreOf(title', body') >= ScoreOf(title, body)
          BY <3>1, <3>2, EditMovesTheScore
    <3>4. dial' = dial /\ title' = title
          BY <2>3 DEF Repair
    <3>5. ScoreOf(title', body') \in Nat
      <4>1. title' \in Titles /\ body' \in Seq(Seq(Events) \ {<<>>})
            BY <3>1, TypeStep DEF TypeOK
      <4> QED BY <4>1, ScoreIsNumber, DocumentsAssumption
    <3> QED BY <2>1, <3>2, <3>3, <3>4, <3>5 DEF DialInv
  <2>4. CASE ComputeScore
    <3>1. dial'.parts = Len(body) /\ dial'.score = ScoreOf(title, body) /\ body' = body /\ title' = title
          BY <2>4 DEF ComputeScore
    <3> QED BY <2>1, <3>1 DEF DialInv
  <2>5. CASE CacheScore
    <3>1. /\ dial'.parts = dial.parts /\ dial'.score = dial.score /\ dial.at # "none"
          /\ body' = body /\ title' = title
          BY <2>5 DEF CacheScore, TypeOK
    <3> QED BY <3>1 DEF DialInv
  <2>6. CASE DropScore
        BY <2>6 DEF DropScore, NoDial, DialInv
  <2>7. CASE UNCHANGED vars
        BY <2>7 DEF DialInv, vars
  <2> QED BY <2>2, <2>3, <2>4, <2>5, <2>6, <2>7 DEF Next
<1> QED BY <1>1, <1>2, TypeCorrect, PTL DEF Spec

\* While the dial shows the darkest green and nothing was added since its score was
\* computed, however many repairs were saved, only an unconfirmed item of the
\* checklist can keep the page from being approved
\* (canvas_panorama.py:647-660, 866-908, 1524-1552).
THEOREM GreenIsPublishable == Spec => []DarkGreenIsPublishable
<1>1. TypeOK /\ DialInv => DarkGreenIsPublishable
  <2> SUFFICES ASSUME TypeOK, DialInv, dial.at = "cached",
                      SeverityOf(dial.score) = "dark-green", dial.parts = Len(body)
               PROVE  ~GateBlocked(Report(title, Page), {}, ChecklistItems)
        BY DEF DarkGreenIsPublishable
  <2>1. Report(title, Page) \in Seq(Findings)
        BY PageType, ReportType
  <2>2. ScoreOf(title, body) = Score(Report(title, Page))
        BY DEF ScoreOf, Page
  <2>3. Score(Report(title, Page)) \in Nat /\ dial.score \in Nat
        BY <2>1, ScoreType DEF TypeOK
  <2>4. dial.score >= 90
        BY <2>3 DEF SeverityOf
  <2>5. dial.score <= ScoreOf(title, body)
        BY DEF DialInv
  <2> QED BY <2>1, <2>2, <2>3, <2>4, <2>5, DarkGreenPasses
<1> QED BY <1>1, DialIsModest, PTL
=============================================================================
