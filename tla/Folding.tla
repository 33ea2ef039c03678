------------------------------- MODULE Folding -------------------------------
(***************************************************************************)
(* Facts about sequences that the proofs of the renderers rest on.  They   *)
(* are proved by induction, put as statements about sets: a set of         *)
(* sequences that holds the empty one, and with every sequence the longer  *)
(* ones, holds all.                                                        *)
(*                                                                         *)
(* A fold is the one of the community modules' FoldLeft; its operator is a *)
(* constant of this module, and the modules that fold instantiate it.      *)
(***************************************************************************)
EXTENDS Integers, Sequences, SequenceTheorems, WellFoundedInduction, TLAPS

CONSTANT Op(_, _)

\* Every set of numbers has a least one.
LEMMA LeastNat ==
    ASSUME NEW T \in SUBSET Nat, T # {}
    PROVE  \E x \in T : \A y \in T : x <= y
<1> DEFINE Less == {p \in Nat \X Nat : p[1] < p[2]}
<1>1. IsWellFoundedOn(Less, Nat)
      BY NatLessThanWellFounded DEF OpToRel
<1>2. PICK x \in T : \A y \in T : <<y, x>> \notin Less
      BY <1>1, WFMin
<1>3. \A y \in T : ~ (y < x)
      BY <1>2
<1> QED BY <1>3

\* Induction on numbers up to a bound.
LEMMA BoundedInduction ==
    ASSUME NEW n \in Nat, NEW T,
           0 \in T, \A k \in 0..(n - 1) : k \in T => k + 1 \in T
    PROVE  \A k \in 0..n : k \in T
<1> SUFFICES ASSUME NEW k \in 0..n, k \notin T PROVE FALSE
      OBVIOUS
<1> DEFINE Out == {i \in 0..n : i \notin T}
<1>1. PICK x \in Out : \A y \in Out : x <= y
  <2>1. Out \in SUBSET Nat /\ k \in Out
        OBVIOUS
  <2> HIDE DEF Out
  <2> QED BY <2>1, LeastNat
<1>2. x # 0 /\ x - 1 \in 0..(n - 1) /\ x - 1 \notin Out
      BY <1>1
<1> QED BY <1>1, <1>2

\* Induction on sequences.
LEMMA SeqInduction ==
    ASSUME NEW E, NEW T, <<>> \in T,
           \A s \in Seq(E), e \in E : s \in T => Append(s, e) \in T
    PROVE  \A s \in Seq(E) : s \in T
<1> SUFFICES ASSUME NEW s \in Seq(E) PROVE s \in T
      OBVIOUS
<1> DEFINE Held == {k \in 0..Len(s) : SubSeq(s, 1, k) \in T}
<1>1. Len(s) \in Nat
      OBVIOUS
<1>2. 0 \in Held
  <2>1. SubSeq(s, 1, 0) = <<>>
        BY SubSeqEmpty
  <2>2. 0 \in 0..Len(s)
        BY <1>1
  <2> QED BY <2>1, <2>2
<1>3. ASSUME NEW k \in 0..(Len(s) - 1), k \in Held PROVE k + 1 \in Held
  <2>1. /\ k + 1 \in 1..Len(s) /\ k \in Int /\ (k + 1) - 1 = k
        /\ SubSeq(s, 1, k) \in Seq(E) /\ s[k + 1] \in E /\ SubSeq(s, 1, k) \in T
        BY <1>1, <1>3
  <2>2. SubSeq(s, 1, k + 1) = Append(SubSeq(s, 1, k), s[k + 1])
    <3>1. SubSeq(s, 1, k + 1) = SubSeq(s, 1, k) \o <<s[k + 1]>>
          BY <1>1, <2>1, SubSeqRecursiveSecond
    <3> QED BY <2>1, <3>1, AppendIsConcat
  <2>3. SubSeq(s, 1, k + 1) \in T
        BY <2>1, <2>2
  <2> QED BY <2>1, <2>3
<1>4. Len(s) \in Held
  <2> HIDE DEF Held
  <2>1. \A k \in 0..Len(s) : k \in Held
        BY <1>1, <1>2, <1>3, BoundedInduction
  <2> QED BY <1>1, <2>1
<1> QED BY <1>4, SubSeqFull DEF Held

-----------------------------------------------------------------------------
(***************************************************************************)
(* Folds                                                                   *)
(***************************************************************************)
\* What FoldLeft is by its definition: the last position is taken first.
Greatest(s) == CHOOSE x \in s : \A y \in s : x >= y
Iterates(f, base, seq, n) ==
    f = [s \in SUBSET (1..n) |-> IF s = {} THEN base
                            ELSE LET x == Greatest(s) IN Op(f[s \ {x}], seq[x])]
Fold(base, seq) ==
    LET iter[s \in SUBSET DOMAIN seq] ==
            IF s = {} THEN base
            ELSE LET x == CHOOSE x \in s : \A y \in s : x >= y
                 IN  Op(iter[s \ {x}], seq[x])
    IN  iter[DOMAIN seq]

\* The greatest of some numbers up to k + 1, when k + 1 is among them.
LEMMA GreatestIsLast ==
    ASSUME NEW k \in Nat, NEW s \in SUBSET (1..(k + 1)), k + 1 \in s
    PROVE  Greatest(s) = k + 1
<1>1. \A y \in s : k + 1 >= y
      OBVIOUS
<1>2. \A x \in s : (\A y \in s : x >= y) => x = k + 1
      OBVIOUS
<1> QED BY <1>1, <1>2 DEF Greatest

\* Numbers up to k have a greatest one.
LEMMA GreatestExists ==
    ASSUME NEW k \in Nat, NEW s \in SUBSET (1..k), s # {}
    PROVE  Greatest(s) \in s
<1> DEFINE T == {k - i : i \in s}
<1>1. T \in SUBSET Nat /\ T # {}
  <2>1. \A i \in s : k - i \in Nat
        OBVIOUS
  <2>2. PICK i \in s : TRUE
        OBVIOUS
  <2> QED BY <2>1, <2>2
<1> HIDE DEF T
<1>2. PICK x \in T : \A y \in T : x <= y
      BY <1>1, LeastNat
<1>3. PICK i \in s : x = k - i
      BY <1>2 DEF T
<1>4. \A y \in s : i >= y
      BY <1>2, <1>3 DEF T
<1> QED BY <1>3, <1>4 DEF Greatest

\* The iteration over the positions of a sequence exists.
LEMMA IterationExists ==
    ASSUME NEW base, NEW seq, NEW n \in Nat
    PROVE  \E f : Iterates(f, base, seq, n)
<1> DEFINE T == {k \in 0..n : \E f : Iterates(f, base, seq, k)}
<1>1. 0 \in T
  <2> DEFINE f == [s \in SUBSET (1..0) |-> base]
  <2>1. Iterates(f, base, seq, 0)
    <3>1. \A s \in SUBSET (1..0) : s = {}
          OBVIOUS
    <3> QED BY <3>1 DEF Iterates
  <2> QED BY <2>1
<1>2. ASSUME NEW k \in 0..(n - 1), k \in T PROVE k + 1 \in T
  <2>1. PICK f : Iterates(f, base, seq, k)
        BY <1>2
  <2> DEFINE g == [s \in SUBSET (1..(k + 1)) |->
                      IF k + 1 \in s THEN Op(f[s \ {k + 1}], seq[k + 1]) ELSE f[s]]
             Body(h, s) == IF s = {} THEN base
                           ELSE LET x == Greatest(s) IN Op(h[s \ {x}], seq[x])
  <2>2. \A s \in SUBSET (1..k) : f[s] = Body(f, s)
        BY <2>1 DEF Iterates
  <2>3. \A s \in SUBSET (1..k) : g[s] = f[s]
        OBVIOUS
  <2>4. ASSUME NEW s \in SUBSET (1..(k + 1)) PROVE g[s] = Body(g, s)
    <3>1. CASE k + 1 \in s
      <4>1. s # {} /\ Greatest(s) = k + 1 /\ s \ {k + 1} \in SUBSET (1..k)
            BY <3>1, GreatestIsLast
      <4>2. g[s \ {k + 1}] = f[s \ {k + 1}]
            BY <4>1, <2>3
      <4>3. g[s] = Op(f[s \ {k + 1}], seq[k + 1])
            BY <3>1
      <4> HIDE DEF g
      <4> QED BY <4>1, <4>2, <4>3
    <3>2. CASE k + 1 \notin s
      <4>1. s \in SUBSET (1..k)
            BY <3>2
      <4>2. CASE s = {}
        <5> HIDE DEF g
        <5> QED BY <4>1, <4>2, <2>2, <2>3
      <4>3. CASE s # {}
        <5>1. s \ {Greatest(s)} \in SUBSET (1..k)
              BY <4>1
        <5>2. g[s] = f[s] /\ g[s \ {Greatest(s)}] = f[s \ {Greatest(s)}]
              BY <2>3, <4>1, <5>1
        <5> HIDE DEF g
        <5> QED BY <4>1, <4>3, <5>2, <2>2
      <4> QED BY <4>2, <4>3
    <3> QED BY <3>1, <3>2
  <2>5. DOMAIN g = SUBSET (1..(k + 1)) /\ g = [s \in DOMAIN g |-> g[s]]
        OBVIOUS
  <2> HIDE DEF g
  <2>6. Iterates(g, base, seq, k + 1)
        BY <2>4, <2>5 DEF Iterates
  <2> QED BY <2>6
<1> HIDE DEF T
<1>3. n \in T
      BY <1>1, <1>2, BoundedInduction
<1> QED BY <1>3 DEF T

\* Where an iteration is after its first positions.
Upto(f, k) == f[1..k]

LEMMA IterationStep ==
    ASSUME NEW base, NEW seq, NEW n \in Nat, NEW f, Iterates(f, base, seq, n)
    PROVE  /\ Upto(f, 0) = base
           /\ \A k \in 1..n : Upto(f, k) = Op(Upto(f, k - 1), seq[k])
<1> DEFINE Body(s) == IF s = {} THEN base
                      ELSE LET x == Greatest(s) IN Op(f[s \ {x}], seq[x])
<1>1. \A s \in SUBSET (1..n) : f[s] = Body(s)
      BY DEF Iterates
<1> HIDE DEF Body
<1>2. Upto(f, 0) = base
  <2>1. 1..0 = {}
        OBVIOUS
  <2>2. f[{}] = base
        BY <1>1 DEF Body
  <2> QED BY <2>1, <2>2 DEF Upto
<1>3. ASSUME NEW k \in 1..n PROVE Upto(f, k) = Op(Upto(f, k - 1), seq[k])
  <2>1. /\ k - 1 \in Nat /\ (k - 1) + 1 = k /\ 1..k \in SUBSET (1..n) /\ k \in 1..k
        /\ (1..k) \ {k} = 1..(k - 1)
        OBVIOUS
  <2>2. Greatest(1..k) = k
        BY <2>1, GreatestIsLast
  <2>3. Body(1..k) = Op(f[1..(k - 1)], seq[k])
        BY <2>1, <2>2 DEF Body
  <2> QED BY <1>1, <2>1, <2>3 DEF Upto
<1> QED BY <1>2, <1>3

\* A fold is where the iteration over its positions ends.
LEMMA FoldIterates ==
    ASSUME NEW E, NEW base, NEW seq \in Seq(E)
    PROVE  \E f : Iterates(f, base, seq, Len(seq)) /\ Fold(base, seq) = Upto(f, Len(seq))
<1> DEFINE f == CHOOSE f : Iterates(f, base, seq, Len(seq))
<1>1. Len(seq) \in Nat /\ DOMAIN seq = 1..Len(seq)
      OBVIOUS
<1>2. \E g : Iterates(g, base, seq, Len(seq))
      BY <1>1, IterationExists
<1>3. Iterates(f, base, seq, Len(seq))
      BY <1>2
<1>4. Fold(base, seq) = Upto(f, Len(seq))
      BY <1>1 DEF Fold, Iterates, Greatest, Upto
<1> QED BY <1>3, <1>4

\* Iterations over a sequence and over a longer one agree as far as both go.
LEMMA IterationsAgree ==
    ASSUME NEW base, NEW seq, NEW more, NEW n \in Nat, NEW m \in Nat, m > n,
           \A i \in 1..n : more[i] = seq[i],
           NEW f, Iterates(f, base, seq, n), NEW g, Iterates(g, base, more, m)
    PROVE  Upto(g, n) = Upto(f, n)
<1>1. Upto(f, 0) = base
      BY IterationStep
<1>2. Upto(g, 0) = base
      BY IterationStep
<1>3. \A k \in 1..n : Upto(f, k) = Op(Upto(f, k - 1), seq[k])
      BY IterationStep
<1>4. \A k \in 1..m : Upto(g, k) = Op(Upto(g, k - 1), more[k])
      BY IterationStep
<1> DEFINE Same == {k \in 0..n : Upto(f, k) = Upto(g, k)}
<1>5. 0 \in Same
      BY <1>1, <1>2
<1>6. \A k \in 0..(n - 1) : k \in Same => k + 1 \in Same
  <2> SUFFICES ASSUME NEW k \in 0..(n - 1), k \in Same PROVE k + 1 \in Same
        OBVIOUS
  <2>1. /\ k + 1 \in 1..n /\ k + 1 \in 1..m /\ k + 1 \in 0..n
        /\ (k + 1) - 1 = k /\ more[k + 1] = seq[k + 1]
        OBVIOUS
  <2>2. /\ Upto(f, k + 1) = Op(Upto(f, k), seq[k + 1])
        /\ Upto(g, k + 1) = Op(Upto(g, k), seq[k + 1])
        BY <1>3, <1>4, <2>1
  <2> QED BY <2>1, <2>2
<1>7. n \in Same
  <2> HIDE DEF Same
  <2>1. \A k \in 0..n : k \in Same
        BY <1>5, <1>6, BoundedInduction
  <2> QED BY <2>1
<1> QED BY <1>7

\* A fold over nothing is its base.
LEMMA FoldEmpty ==
    ASSUME NEW base
    PROVE  Fold(base, <<>>) = base
<1>1. <<>> \in Seq({}) /\ Len(<<>>) = 0
      OBVIOUS
<1>2. PICK f : Iterates(f, base, <<>>, 0) /\ Fold(base, <<>>) = Upto(f, 0)
      BY <1>1, FoldIterates
<1>3. Upto(f, 0) = base
      BY <1>2, IterationStep
<1> QED BY <1>2, <1>3

\* A fold over one element more is one step more.
LEMMA FoldAppend ==
    ASSUME NEW E, NEW base, NEW seq \in Seq(E), NEW e \in E
    PROVE  Fold(base, Append(seq, e)) = Op(Fold(base, seq), e)
<1> DEFINE n == Len(seq)
           m == n + 1
           more == Append(seq, e)
<1>1. /\ more \in Seq(E) /\ Len(more) = m /\ more[m] = e
      /\ \A i \in 1..n : more[i] = seq[i]
      BY AppendProperties
<1>2. n \in Nat /\ m > n /\ m \in 1..m /\ m - 1 = n
      OBVIOUS
<1>0. m \in Nat
      OBVIOUS
<1> HIDE DEF n, m, more
<1>3. PICK f : Iterates(f, base, seq, n) /\ Fold(base, seq) = Upto(f, n)
      BY FoldIterates DEF n
<1>4. PICK g : Iterates(g, base, more, m) /\ Fold(base, more) = Upto(g, m)
      BY <1>1, FoldIterates
<1>5. Upto(g, n) = Upto(f, n)
      BY <1>0, <1>1, <1>2, <1>3, <1>4, IterationsAgree
<1>6. \A k \in 1..m : Upto(g, k) = Op(Upto(g, k - 1), more[k])
      BY <1>0, <1>4, IterationStep
<1>7. Upto(g, m) = Op(Upto(f, n), e)
      BY <1>1, <1>2, <1>5, <1>6
<1>8. Fold(base, more) = Op(Fold(base, seq), e)
      BY <1>3, <1>4, <1>7
<1> QED BY <1>8 DEF more
=============================================================================
