---------------------------- MODULE FoldTheorems ----------------------------
(***************************************************************************)
(* What FoldLeft of the community modules computes, for an operator Op.    *)
(* The loops of the program over macros and instructions (EmitAll,         *)
(* FlushAll, the execution of a translation's macros) are such folds; a    *)
(* proof about one of them instantiates this module with its operator.     *)
(*                                                                         *)
(* FoldLeft is defined by recursion over sets of indices.  FoldIs turns    *)
(* that into the values of a loop variable before and after every          *)
(* iteration, and the others follow from it.                               *)
(***************************************************************************)
EXTENDS Integers, Sequences, SequencesExt, WellFoundedInduction, TLAPS

CONSTANT Op(_, _)

Fold(base, seq) == FoldLeft(Op, base, seq)

\* The first n elements of seq.
Prefix(seq, n) == [i \in 1 .. n |-> seq[i]]

\* The recursive function in FoldLeft's definition, on the indices 1..n.
Body(it, base, seq, s) ==
    IF s = {} THEN base ELSE Op(it[s \ {Max(s)}], seq[Max(s)])
Solves(it, base, seq, n) == it = [s \in SUBSET (1 .. n) |-> Body(it, base, seq, s)]
Iter(base, seq, n) == CHOOSE it : Solves(it, base, seq, n)

\* f is the value of the loop variable after each iteration over seq.
IsRun(f, base, seq, n) ==
    /\ f = [i \in 0 .. n |-> f[i]]
    /\ f[0] = base
    /\ \A i \in 1 .. n : f[i] = Op(f[i - 1], seq[i])

-----------------------------------------------------------------------------
\* A set of natural numbers that is not empty has a least element.
LEMMA LeastNatural ==
    ASSUME NEW T \in SUBSET Nat, T # {}
    PROVE  \E x \in T : \A y \in T : x <= y
<1>1. \E x \in T : \A y \in T : ~(<<y, x>> \in OpToRel(<, Nat))
  BY WFMin, NatLessThanWellFounded, Zenon
<1>2. PICK x \in T : \A y \in T : ~(<<y, x>> \in OpToRel(<, Nat))
  BY <1>1
<1>3. \A y \in T : ~(y < x)
  BY <1>2 DEF OpToRel
<1> QED
  BY <1>3

\* Induction on the natural numbers, for membership in a set.
LEMMA SetInduction ==
    ASSUME NEW S, 0 \in S, \A n \in Nat : n \in S => n + 1 \in S
    PROVE  \A n \in Nat : n \in S
<1> SUFFICES ASSUME Nat \ S # {} PROVE FALSE
  OBVIOUS
<1>1. PICK x \in Nat \ S : \A y \in Nat \ S : x <= y
  BY LeastNatural
<1>2. x # 0
  BY <1>1
<1>3. x - 1 \in Nat /\ x - 1 \in S
  BY <1>1, <1>2
<1>4. x - 1 + 1 \in S
  BY <1>3
<1> QED
  BY <1>4

\* Max of a set whose greatest element is known.
LEMMA MaxIs ==
    ASSUME NEW s \in SUBSET Nat, NEW m \in s, \A y \in s : m >= y
    PROVE  Max(s) = m
<1>1. /\ Max(s) \in s
      /\ \A y \in s : Max(s) >= y
  BY Zenon DEF Max
<1>2. Max(s) \in Nat /\ m \in Nat /\ Max(s) >= m /\ m >= Max(s)
  BY <1>1
<1> HIDE DEF Max
<1> QED
  BY <1>2

-----------------------------------------------------------------------------
\* FoldLeft is the recursive function applied to all indices.
LEMMA FoldIter ==
    ASSUME NEW base, NEW seq, NEW n \in Nat, DOMAIN seq = 1 .. n
    PROVE  Fold(base, seq) = Iter(base, seq, n)[1 .. n]
BY DEF Fold, FoldLeft, MapThenFoldSet, Iter, Solves, Body

\* The recursion has a solution.
LEMMA IterExists ==
    ASSUME NEW base, NEW seq, NEW n \in Nat
    PROVE  Solves(Iter(base, seq, n), base, seq, n)
<1> DEFINE S == {k \in Nat : \E it : Solves(it, base, seq, k)}
<1>1. 0 \in S
  <2> DEFINE it == [s \in SUBSET (1 .. 0) |-> base]
  <2>1. 1 .. 0 = {}
    OBVIOUS
  <2>2. Solves(it, base, seq, 0)
    BY <2>1 DEF Solves, Body
  <2> QED
    BY <2>2
<1>2. ASSUME NEW k \in Nat, k \in S
      PROVE  k + 1 \in S
  <2>1. PICK it : Solves(it, base, seq, k)
    BY <1>2
  <2> DEFINE jt == [s \in SUBSET (1 .. k + 1) |->
                       IF k + 1 \in s THEN Op(it[s \ {k + 1}], seq[k + 1]) ELSE it[s]]
  <2>2. ASSUME NEW s \in SUBSET (1 .. k + 1)
        PROVE  jt[s] = Body(jt, base, seq, s)
    <3>1. CASE k + 1 \in s
      <4>1. Max(s) = k + 1
        BY <3>1, MaxIs
      <4>2. s \ {k + 1} \in SUBSET (1 .. k + 1) /\ k + 1 \notin s \ {k + 1}
        OBVIOUS
      <4>3. jt[s \ {k + 1}] = it[s \ {k + 1}]
        BY <4>2
      <4>4. jt[s] = Op(it[s \ {k + 1}], seq[k + 1])
        BY <3>1
      <4> QED
        BY <3>1, <4>1, <4>3, <4>4 DEF Body
    <3>2. CASE k + 1 \notin s
      <4>1. s \in SUBSET (1 .. k)
        BY <3>2
      <4>2. it[s] = Body(it, base, seq, s)
        BY <2>1, <4>1 DEF Solves
      <4>3. s \ {Max(s)} \in SUBSET (1 .. k + 1) /\ k + 1 \notin s \ {Max(s)}
        BY <3>2
      <4>4. jt[s \ {Max(s)}] = it[s \ {Max(s)}]
        BY <4>3
      <4>5. jt[s] = it[s]
        BY <3>2
      <4> QED
        BY <4>2, <4>4, <4>5 DEF Body
    <3> QED
      BY <3>1, <3>2
  <2>3. Solves(jt, base, seq, k + 1)
    <3>1. jt = [s \in SUBSET (1 .. k + 1) |-> jt[s]]
      OBVIOUS
    <3> HIDE DEF jt
    <3> QED
      BY <2>2, <3>1 DEF Solves
  <2> QED
    BY <2>3
<1>3. n \in S
  <2> HIDE DEF S
  <2> QED
    BY <1>1, <1>2, SetInduction
<1> QED
  BY <1>3 DEF Iter

\* If f is a run of the loop over seq, FoldLeft returns its last value.
LEMMA FoldIs ==
    ASSUME NEW base, NEW seq, NEW n \in Nat, DOMAIN seq = 1 .. n,
           NEW f, IsRun(f, base, seq, n)
    PROVE  Fold(base, seq) = f[n]
<1> DEFINE it == Iter(base, seq, n)
           S == {k \in Nat : k <= n => it[1 .. k] = f[k]}
<1>1. \A s \in SUBSET (1 .. n) : it[s] = Body(it, base, seq, s)
  <2>1. Solves(it, base, seq, n)
    BY IterExists
  <2> HIDE DEF it
  <2> QED
    BY <2>1 DEF Solves
<1> HIDE DEF it
<1>2. 0 \in S
  <2>1. 1 .. 0 = {} /\ {} \in SUBSET (1 .. n)
    OBVIOUS
  <2> QED
    BY <1>1, <2>1 DEF Body, IsRun
<1>3. ASSUME NEW k \in Nat, k \in S, k + 1 <= n
      PROVE  it[1 .. k + 1] = f[k + 1]
  <2>1. Max(1 .. k + 1) = k + 1
    BY MaxIs
  <2>2. (1 .. k + 1) \ {k + 1} = 1 .. k /\ 1 .. k + 1 # {} /\ 1 .. k + 1 \in SUBSET (1 .. n)
    BY <1>3
  <2>3. it[1 .. k + 1] = Op(it[1 .. k], seq[k + 1])
    BY <1>1, <2>1, <2>2 DEF Body
  <2>4. it[1 .. k] = f[k]
    BY <1>3
  <2>5. k + 1 \in 1 .. n /\ (k + 1) - 1 = k
    BY <1>3
  <2>6. f[k + 1] = Op(f[(k + 1) - 1], seq[k + 1])
    BY <2>5, Zenon DEF IsRun
  <2> QED
    BY <2>3, <2>4, <2>5, <2>6
<1>4. n \in S
  <2>1. \A k \in Nat : k \in S => k + 1 \in S
    BY <1>3
  <2> HIDE DEF S
  <2> QED
    BY <1>2, <2>1, SetInduction
<1> QED
  BY <1>4, FoldIter DEF it

\* Every loop over a sequence has a run.
LEMMA RunExists ==
    ASSUME NEW base, NEW seq, NEW n \in Nat
    PROVE  \E f : IsRun(f, base, seq, n)
<1> DEFINE S == {k \in Nat : \E f : IsRun(f, base, seq, k)}
<1>1. 0 \in S
  <2>1. IsRun([i \in 0 .. 0 |-> base], base, seq, 0)
    BY DEF IsRun
  <2> QED
    BY <2>1
<1>2. ASSUME NEW k \in Nat, k \in S
      PROVE  k + 1 \in S
  <2>1. PICK f : IsRun(f, base, seq, k)
    BY <1>2
  <2> DEFINE g == [i \in 0 .. k + 1 |-> IF i <= k THEN f[i] ELSE Op(f[k], seq[k + 1])]
  <2>2. IsRun(g, base, seq, k + 1)
    <3>1. g[0] = base
      BY <2>1 DEF IsRun
    <3>2. ASSUME NEW i \in 1 .. k + 1
          PROVE  g[i] = Op(g[i - 1], seq[i])
      <4>1. CASE i <= k
        BY <2>1, <4>1 DEF IsRun
      <4>2. CASE i = k + 1
        <5>1. i - 1 = k /\ g[k] = f[k]
          BY <4>2
        <5> QED
          BY <4>2, <5>1
      <4> QED
        BY <4>1, <4>2
    <3>3. g = [i \in 0 .. k + 1 |-> g[i]]
      OBVIOUS
    <3> HIDE DEF g
    <3> QED
      BY <3>1, <3>2, <3>3 DEF IsRun
  <2> QED
    BY <2>2
<1>3. n \in S
  <2> HIDE DEF S
  <2> QED
    BY <1>1, <1>2, SetInduction
<1> QED
  BY <1>3

\* A loop over nothing leaves the loop variable alone.
LEMMA FoldEmpty ==
    ASSUME NEW base
    PROVE  Fold(base, <<>>) = base
<1>1. IsRun([i \in 0 .. 0 |-> base], base, <<>>, 0)
  BY DEF IsRun
<1>2. DOMAIN << >> = 1 .. 0
  OBVIOUS
<1> QED
  BY <1>1, <1>2, FoldIs

\* One more iteration applies Op once more.
LEMMA FoldPrefix ==
    ASSUME NEW base, NEW seq, NEW n \in Nat
    PROVE  Fold(base, Prefix(seq, n + 1)) = Op(Fold(base, Prefix(seq, n)), seq[n + 1])
<1>1. PICK f : IsRun(f, base, seq, n + 1)
  BY RunExists
<1>2. IsRun(f, base, Prefix(seq, n + 1), n + 1)
  BY <1>1 DEF IsRun, Prefix
<1> DEFINE g == [i \in 0 .. n |-> f[i]]
<1>3. IsRun(g, base, Prefix(seq, n), n)
  <2>1. g = [i \in 0 .. n |-> g[i]] /\ g[0] = base
    BY <1>1 DEF IsRun
  <2>2. ASSUME NEW i \in 1 .. n
        PROVE  g[i] = Op(g[i - 1], Prefix(seq, n)[i])
    <3>1. i \in 1 .. n + 1 /\ i \in 0 .. n /\ i - 1 \in 0 .. n
      OBVIOUS
    <3>2. f[i] = Op(f[i - 1], seq[i])
      BY <1>1, <3>1, Zenon DEF IsRun
    <3>3. g[i] = f[i] /\ g[i - 1] = f[i - 1] /\ Prefix(seq, n)[i] = seq[i]
      BY <3>1 DEF Prefix
    <3> QED
      BY <3>2, <3>3
  <2> HIDE DEF g
  <2> QED
    BY <2>1, <2>2 DEF IsRun
<1>4. Fold(base, Prefix(seq, n + 1)) = f[n + 1]
  BY <1>2, FoldIs DEF Prefix
<1>5. Fold(base, Prefix(seq, n)) = f[n]
  <2>1. g[n] = f[n] /\ DOMAIN Prefix(seq, n) = 1 .. n
    BY DEF Prefix
  <2> HIDE DEF g
  <2> QED
    BY <1>3, <2>1, FoldIs
<1>6. f[n + 1] = Op(f[n], seq[n + 1])
  <2>1. n + 1 \in 1 .. n + 1 /\ (n + 1) - 1 = n
    OBVIOUS
  <2>2. f[n + 1] = Op(f[(n + 1) - 1], seq[n + 1])
    BY <1>1, <2>1, Zenon DEF IsRun
  <2> QED
    BY <2>1, <2>2
<1> QED
  BY <1>4, <1>5, <1>6

\* The same for the sequence that one element was appended to.
LEMMA FoldAppend ==
    ASSUME NEW base, NEW S, NEW seq \in Seq(S), NEW e \in S
    PROVE  Fold(base, Append(seq, e)) = Op(Fold(base, seq), e)
<1> DEFINE t == Append(seq, e)
           n == Len(seq)
<1>1. n \in Nat /\ t \in Seq(S) /\ Len(t) = n + 1 /\ t[n + 1] = e
  OBVIOUS
<1>2. t = Prefix(t, n + 1)
  <2> HIDE DEF t, n
  <2> QED
    BY <1>1 DEF Prefix
<1>3. seq = Prefix(t, n)
  BY DEF Prefix
<1> HIDE DEF t, n
<1>4. Fold(base, Prefix(t, n + 1)) = Op(Fold(base, Prefix(t, n)), t[n + 1])
  BY <1>1, FoldPrefix
<1> QED
  BY <1>1, <1>2, <1>3, <1>4 DEF t

\* What holds before the loop and is kept by every iteration holds after it.
LEMMA FoldInvariant ==
    ASSUME NEW I, NEW S, NEW base \in I, NEW seq \in Seq(S),
           \A x \in I, e \in S : Op(x, e) \in I
    PROVE  Fold(base, seq) \in I
<1> DEFINE K == {k \in Nat : k <= Len(seq) => Fold(base, Prefix(seq, k)) \in I}
<1>1. 0 \in K
  <2>1. Prefix(seq, 0) = <<>>
    BY DEF Prefix
  <2> QED
    BY <2>1, FoldEmpty
<1>2. ASSUME NEW k \in Nat, k \in K
      PROVE  k + 1 \in K
  <2> SUFFICES ASSUME k + 1 <= Len(seq)
               PROVE  Fold(base, Prefix(seq, k + 1)) \in I
    OBVIOUS
  <2>1. Fold(base, Prefix(seq, k)) \in I /\ seq[k + 1] \in S
    BY <1>2
  <2> QED
    BY <2>1, FoldPrefix
<1>3. Len(seq) \in K
  <2> HIDE DEF K
  <2> QED
    BY <1>1, <1>2, SetInduction
<1>4. Prefix(seq, Len(seq)) = seq
  BY DEF Prefix
<1> QED
  BY <1>3, <1>4
=============================================================================
