--------------------------- MODULE FoldInduction ---------------------------
(***************************************************************************)
(* Induction along a fold.  FoldLeft takes an operator, so a fact about    *)
(* what it computes is proved here once, for the operators Op and Good     *)
(* that a module of proofs supplies with INSTANCE ... WITH: what Good says *)
(* of the base and every step keeps is so of the result.                   *)
(*                                                                         *)
(* c and g are what Op and Good read besides (a profile, the keys held).   *)
(***************************************************************************)
EXTENDS Integers, Sequences, NaturalsInduction, WellFoundedInduction, TLAPS

CONSTANTS
    Op(_, _, _),     \* Op(c, a, x): the step from a with element x
    Good(_, _, _)    \* Good(g, k, a): a may be the result of the first k steps

\* FoldLeft(LAMBDA a, x : Op(c, a, x), base, s), its definition written out.
Fold(c, base, s) ==
    LET iter[S \in SUBSET DOMAIN s] ==
          IF S = {} THEN base
          ELSE LET i == CHOOSE x \in S : \A y \in S : x >= y
               IN  Op(c, iter[S \ {i}], s[i])
    IN  iter[DOMAIN s]

\* f is the fold on the subsets of 1..n.
IsFold(c, base, s, n, f) ==
    f = [S \in SUBSET (1..n) |->
           IF S = {} THEN base
           ELSE LET i == CHOOSE x \in S : \A y \in S : x >= y
                IN  Op(c, f[S \ {i}], s[i])]

\* A set of numbers with 0 that is closed under successor holds them all.
LEMMA Counting ==
    ASSUME NEW T \in SUBSET Nat, 0 \in T, \A n \in T : n + 1 \in T
    PROVE  T = Nat
<1> SUFFICES ASSUME Nat \ T # {} PROVE FALSE
  OBVIOUS
<1>1. \E n \in Nat \ T : n - 1 \notin Nat \ T
  <2>1. PICK n \in Nat \ T : \A m \in Nat \ T : ~(<<m, n>> \in OpToRel(<, Nat))
    BY NatLessThanWellFounded, WFMin
  <2>2. \A m \in Nat : m < n => m \notin Nat \ T
    BY <2>1 DEF OpToRel
  <2> QED BY <2>2
<1> QED BY <1>1

\* The greatest element of a set that has one.
LEMMA Greatest ==
    ASSUME NEW n \in Nat, NEW S \in SUBSET (1..n), n \in S
    PROVE  (CHOOSE x \in S : \A y \in S : x >= y) = n
<1>1. \A y \in S : n >= y
  OBVIOUS
<1>2. \A x \in S : (\A y \in S : x >= y) => x = n
  OBVIOUS
<1> QED BY <1>1, <1>2

\* The recursive function of Fold exists.
LEMMA FoldExists ==
    ASSUME NEW c, NEW base, NEW s, NEW n \in Nat
    PROVE  \E f : IsFold(c, base, s, n, f)
<1> DEFINE T == {k \in Nat : \E f : IsFold(c, base, s, k, f)}
<1>1. 0 \in T
  <2> DEFINE f == [S \in SUBSET (1..0) |-> base]
  <2>1. \A S \in SUBSET (1..0) : S = {}
    OBVIOUS
  <2>2. IsFold(c, base, s, 0, f)
    BY <2>1 DEF IsFold
  <2> QED BY <2>2
<1>2. ASSUME NEW k \in T PROVE k + 1 \in T
  <2>1. PICK g : IsFold(c, base, s, k, g)
    OBVIOUS
  <2> DEFINE f == [S \in SUBSET (1..(k + 1)) |->
                     IF k + 1 \in S THEN Op(c, g[S \ {k + 1}], s[k + 1]) ELSE g[S]]
             top(S) == CHOOSE x \in S : \A y \in S : x >= y
             step(S) == IF S = {} THEN base ELSE Op(c, f[S \ {top(S)}], s[top(S)])
  <2>2. ASSUME NEW S \in SUBSET (1..(k + 1)) PROVE f[S] = step(S)
    <3>1. CASE k + 1 \in S
      <4>1. top(S) = k + 1
        BY <3>1, Greatest
      <4>2. S \ {k + 1} \in SUBSET (1..(k + 1)) /\ k + 1 \notin S \ {k + 1}
        OBVIOUS
      <4>3. f[S \ {k + 1}] = g[S \ {k + 1}]
        BY <4>2
      <4>4. f[S] = Op(c, g[S \ {k + 1}], s[k + 1])
        BY <3>1
      <4> HIDE DEF f, top
      <4> QED BY <3>1, <4>1, <4>3, <4>4
    <3>2. CASE k + 1 \notin S
      <4>1. S \in SUBSET (1..k)
        BY <3>2
      <4>2. g[S] = IF S = {} THEN base ELSE Op(c, g[S \ {top(S)}], s[top(S)])
        BY <2>1, <4>1 DEF IsFold
      <4>3. S \ {top(S)} \in SUBSET (1..(k + 1)) /\ k + 1 \notin S \ {top(S)}
        BY <3>2
      <4>4. f[S \ {top(S)}] = g[S \ {top(S)}]
        BY <4>3
      <4>5. f[S] = g[S]
        BY <3>2
      <4> HIDE DEF f, top
      <4> QED BY <4>2, <4>4, <4>5
    <3> QED BY <3>1, <3>2
  <2>3. f = [S \in SUBSET (1..(k + 1)) |-> step(S)]
    <3>1. f = [S \in SUBSET (1..(k + 1)) |-> f[S]]
      OBVIOUS
    <3> HIDE DEF f, step
    <3> QED BY <2>2, <3>1
  <2>4. IsFold(c, base, s, k + 1, f)
    <3> HIDE DEF f
    <3> QED BY <2>3 DEF IsFold
  <2> QED BY <2>4
<1>3. T = Nat
  <2> HIDE DEF T
  <2>1. T \in SUBSET Nat
    BY DEF T
  <2> QED BY <1>1, <1>2, <2>1, Counting
<1> QED BY <1>3

\* Induction along the fold: what holds of the base and is kept by every step
\* holds of the result.
THEOREM FoldKeeps ==
    ASSUME NEW c, NEW g, NEW base, NEW X, NEW s \in Seq(X),
           Good(g, 0, base),
           \A k \in 1..Len(s) : \A a : Good(g, k - 1, a) => Good(g, k, Op(c, a, s[k]))
    PROVE  Good(g, Len(s), Fold(c, base, s))
<1> DEFINE n == Len(s)
           iter == CHOOSE f : IsFold(c, base, s, n, f)
<1>1. n \in Nat /\ DOMAIN s = 1..n
  OBVIOUS
<1>2. Fold(c, base, s) = iter[1..n]
  <2>1. Fold(c, base, s) =
          (CHOOSE f : f = [S \in SUBSET DOMAIN s |->
              IF S = {} THEN base
              ELSE Op(c, f[S \ {CHOOSE x \in S : \A y \in S : x >= y}],
                      s[CHOOSE x \in S : \A y \in S : x >= y])])[DOMAIN s]
    BY DEF Fold
  <2> QED BY <1>1, <2>1 DEF IsFold
<1> HIDE DEF n
<1>3. IsFold(c, base, s, n, iter)
  <2>1. \E f : IsFold(c, base, s, n, f)
    BY <1>1, FoldExists
  <2> QED BY <2>1
<1> HIDE DEF iter
<1>4. iter[{}] = base
  BY <1>3 DEF IsFold
<1>5. ASSUME NEW k \in 1..n PROVE iter[1..k] = Op(c, iter[1..(k - 1)], s[k])
  <2> k \in Nat /\ 1 <= k /\ k <= n
    BY <1>1
  <2>0. k \in 1..k
    OBVIOUS
  <2>1. (1..k) \in SUBSET (1..n) /\ 1..k # {}
    BY <1>1, <2>0
  <2>2. (CHOOSE x \in 1..k : \A y \in 1..k : x >= y) = k
    BY <2>0, Greatest
  <2>3. (1..k) \ {k} = 1..(k - 1)
    BY <1>1
  <2>4. iter[1..k] = Op(c, iter[(1..k) \ {CHOOSE x \in 1..k : \A y \in 1..k : x >= y}],
                        s[CHOOSE x \in 1..k : \A y \in 1..k : x >= y])
    BY <1>3, <2>1 DEF IsFold
  <2> QED BY <2>2, <2>3, <2>4
<1> DEFINE T == {k \in Nat : k <= n => Good(g, k, iter[1..k])}
<1>6. 0 \in T
  <2>1. 1..0 = {}
    OBVIOUS
  <2> QED BY <1>4, <2>1
<1>7. ASSUME NEW k \in T PROVE k + 1 \in T
  <2>1. CASE k + 1 <= n
    <3>1. k + 1 \in 1..n /\ k <= n /\ (k + 1) - 1 = k
      BY <1>1, <2>1
    <3>2. Good(g, k, iter[1..k])
      BY <3>1
    <3>3. iter[1..(k + 1)] = Op(c, iter[1..k], s[k + 1])
      BY <1>5, <3>1
    <3>4. Good(g, k + 1, Op(c, iter[1..k], s[k + 1]))
      BY <3>1, <3>2 DEF n
    <3> QED BY <3>3, <3>4
  <2>2. CASE ~(k + 1 <= n)
    BY <2>2
  <2> QED BY <2>1, <2>2
<1>8. T = Nat
  <2> HIDE DEF T
  <2>1. T \in SUBSET Nat
    BY DEF T
  <2> QED BY <1>6, <1>7, <2>1, Counting
<1>9. Good(g, n, iter[1..n])
  BY <1>1, <1>8
<1> QED BY <1>2, <1>9 DEF n
=============================================================================
