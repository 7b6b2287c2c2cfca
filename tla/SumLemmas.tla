------------------------------ MODULE SumLemmas ------------------------------
(***************************************************************************)
(* Induction over numbers, and sums over finite sets: what the proofs need *)
(* of the passes of a tick and of the ledger of a window.                  *)
(*                                                                         *)
(* Induction is carried out on sets of numbers: a set with 0 that holds    *)
(* the successor of each of its members up to n holds them all (Upto), and *)
(* the set is that of the numbers of which a claim holds.                  *)
(***************************************************************************)
EXTENDS Integers, FiniteSetsExt, FiniteSetTheorems, TLAPS

-----------------------------------------------------------------------------
(***************************************************************************)
(* Induction, and the least and the largest of numbers.                    *)
(***************************************************************************)
\* Every set of numbers has a least one.
LEMMA LeastNumber ==
    ASSUME NEW B, B \subseteq Nat, B # {}
    PROVE  \E m \in B : \A k \in B : m <= k
<1> DEFINE R == {ss \in Nat \X Nat : ss[1] < ss[2]}
<1>1. IsWellFoundedOn(R, Nat)
  BY NatLessThanWellFounded DEF OpToRel
<1>2. \A k, m \in Nat : k < m => <<k, m>> \in R
  OBVIOUS
<1> HIDE DEF R
<1>3. \E m \in B : \A k \in B : ~(<<k, m>> \in R)
  BY <1>1, WFMin
<1>4. PICK m \in B : \A k \in B : ~(<<k, m>> \in R)
  BY <1>3
<1>5. ASSUME NEW k \in B PROVE m <= k
  <2>1. k \in Nat /\ m \in Nat  OBVIOUS
  <2>2. ~(k < m)  BY <1>2, <1>4, <2>1
  <2> QED  BY <2>1, <2>2
<1> QED  BY <1>5

\* Induction up to n, with a set for the claim.
LEMMA Upto ==
    ASSUME NEW n \in Nat, NEW S, 0 \in S, \A i \in 1..n : i - 1 \in S => i \in S
    PROVE  0..n \subseteq S
<1> DEFINE B == (0..n) \ S
<1>1. SUFFICES ASSUME B # {} PROVE FALSE
  OBVIOUS
<1>2. B \subseteq Nat
  OBVIOUS
<1> HIDE DEF B
<1>3. PICK m \in B : \A k \in B : m <= k
  BY <1>1, <1>2, LeastNumber
<1> USE DEF B
<1>4. m \in 1..n
  OBVIOUS
<1>5. m - 1 \in S
  BY <1>3, <1>4
<1> QED BY <1>4, <1>5

\* The minimum of a set of numbers is one.
LEMMA MinIsLeast ==
    ASSUME NEW B, B \subseteq Nat, B # {}
    PROVE  Min(B) \in B /\ \A k \in B : Min(B) <= k
BY LeastNumber DEF Min

\* A minimum is a bound.
LEMMA MinOfTwo ==
    ASSUME NEW a \in Nat, NEW b \in Nat
    PROVE  Min({a, b}) \in Nat /\ Min({a, b}) <= a /\ Min({a, b}) <= b
BY MinIsLeast

\* So is a maximum.
LEMMA MaxOfTwo ==
    ASSUME NEW a \in Int, NEW b \in Int
    PROVE  Max({a, b}) \in {a, b} /\ Max({a, b}) >= a /\ Max({a, b}) >= b
<1>1. \E x \in {a, b} : \A y \in {a, b} : x >= y
  OBVIOUS
<1> QED BY <1>1 DEF Max

-----------------------------------------------------------------------------
(***************************************************************************)
(* Sums.  MapThenSumSet folds over a set in an order CHOOSE makes up; it   *)
(* is shown to be what one expects of a sum.                               *)
(***************************************************************************)
OneOf(s) == CHOOSE t \in s : TRUE

\* The sum of w over ts.
Total(w, ts) == MapThenSumSet(LAMBDA t : w[t], ts)

\* f has the partial sums of ts.
Sums(f, w, ts) ==
    f = [s \in SUBSET ts |-> IF s = {} THEN 0 ELSE w[OneOf(s)] + f[s \ {OneOf(s)}]]

\* The fold of the library, unfolded.
LEMMA TotalChoose == \A w, ts : Total(w, ts) = (CHOOSE f : Sums(f, w, ts))[ts]
BY DEF Total, MapThenSumSet, MapThenFoldSet, Sums, OneOf

\* One step of the fold, and the sets of at most k members.
SumOf(f, w, s) == IF s = {} THEN 0 ELSE w[OneOf(s)] + f[s \ {OneOf(s)}]

UpTo(ts, k) == {s \in SUBSET ts : Cardinality(s) <= k}

\* Taking the chosen member out leaves one member less.
LEMMA OneOfDoes ==
    ASSUME NEW s, IsFiniteSet(s), s # {}
    PROVE  /\ OneOf(s) \in s /\ IsFiniteSet(s \ {OneOf(s)})
           /\ Cardinality(s) \in Nat \ {0}
           /\ Cardinality(s \ {OneOf(s)}) = Cardinality(s) - 1
<1>1. OneOf(s) \in s
  BY DEF OneOf
<1>2. /\ IsFiniteSet(s \ {OneOf(s)})
      /\ Cardinality(s \ {OneOf(s)}) = Cardinality(s) - 1
  BY <1>1, FS_RemoveElement
<1>3. Cardinality(s) \in Nat /\ Cardinality(s) # 0
  BY FS_CardinalityType, FS_EmptySet
<1> QED BY <1>1, <1>2, <1>3

\* There are such partial sums, built up by the number of members.
LEMMA SumExists ==
    ASSUME NEW w, NEW ts, IsFiniteSet(ts)
    PROVE  \E f : Sums(f, w, ts)
<1> DEFINE n == Cardinality(ts)
           Part(f, k) == f = [s \in UpTo(ts, k) |-> SumOf(f, w, s)]
           S == {k \in 0..n : \E f : Part(f, k)}
<1>0. n \in Nat
  BY FS_CardinalityType
<1>a. ASSUME NEW s \in SUBSET ts, s # {}
      PROVE  /\ s \ {OneOf(s)} \in SUBSET ts
             /\ Cardinality(s) \in Nat \ {0}
             /\ Cardinality(s \ {OneOf(s)}) = Cardinality(s) - 1
  BY <1>a, FS_Subset, OneOfDoes
<1>1. 0 \in S
  <2> DEFINE f == [s \in UpTo(ts, 0) |-> 0]
  <2>1. ASSUME NEW s \in UpTo(ts, 0) PROVE s = {}
    <3>1. s \in SUBSET ts /\ Cardinality(s) <= 0
      BY DEF UpTo
    <3>2. s # {} => Cardinality(s) \in Nat \ {0}
      BY <1>a, <3>1
    <3> HIDE DEF f
    <3> QED BY <3>1, <3>2
  <2>2. \A s \in UpTo(ts, 0) : f[s] = SumOf(f, w, s)
    BY <2>1 DEF SumOf
  <2>3. f = [s \in UpTo(ts, 0) |-> f[s]]
    OBVIOUS
  <2> HIDE DEF f
  <2>4. Part(f, 0)
    BY <2>2, <2>3
  <2> QED BY <1>0, <2>4
<1>2. ASSUME NEW k \in 1..n, k - 1 \in S PROVE k \in S
  <2>1. PICK g : Part(g, k - 1)
    BY <1>2
  <2> DEFINE f == [s \in UpTo(ts, k) |-> IF Cardinality(s) = k THEN SumOf(g, w, s) ELSE g[s]]
  <2>2. ASSUME NEW s \in UpTo(ts, k) PROVE f[s] = SumOf(f, w, s)
    <3>1. Cardinality(s) \in Nat /\ Cardinality(s) <= k /\ s \in SUBSET ts
      BY FS_Subset, FS_CardinalityType DEF UpTo
    <3>2. f[s] = SumOf(g, w, s)
      <4>1. CASE Cardinality(s) = k
        BY <4>1
      <4>2. CASE Cardinality(s) # k
        <5>1. s \in UpTo(ts, k - 1)
          BY <1>0, <3>1, <4>2 DEF UpTo
        <5>2. g[s] = SumOf(g, w, s)
          BY <2>1, <5>1
        <5> QED BY <4>2, <5>2
      <4> QED BY <4>1, <4>2
    <3>3. s # {} => f[s \ {OneOf(s)}] = g[s \ {OneOf(s)}]
      <4> SUFFICES ASSUME s # {} PROVE f[s \ {OneOf(s)}] = g[s \ {OneOf(s)}]
        OBVIOUS
      <4>1. /\ s \ {OneOf(s)} \in SUBSET ts
            /\ Cardinality(s \ {OneOf(s)}) = Cardinality(s) - 1
        BY <1>a, <3>1
      <4>2. s \ {OneOf(s)} \in UpTo(ts, k) /\ Cardinality(s \ {OneOf(s)}) # k
        BY <1>0, <3>1, <4>1 DEF UpTo
      <4> QED BY <4>2
    <3> HIDE DEF f
    <3> QED BY <3>2, <3>3 DEF SumOf
  <2>3. f = [s \in UpTo(ts, k) |-> f[s]]
    OBVIOUS
  <2> HIDE DEF f
  <2>4. Part(f, k)
    BY <2>2, <2>3
  <2> QED BY <2>4
<1> HIDE DEF n, S
<1>3. 0..n \subseteq S
  BY <1>0, <1>1, <1>2, Upto
<1>4. n \in S
  BY <1>0, <1>3
<1>5. PICK f : Part(f, n)
  BY <1>4 DEF S
<1>6. UpTo(ts, n) = SUBSET ts
  <2>1. ASSUME NEW s \in SUBSET ts PROVE Cardinality(s) <= n
    BY FS_Subset DEF n
  <2> QED BY <2>1 DEF UpTo
<1> QED BY <1>5, <1>6 DEF Sums, SumOf

\* A set has the same sum, whichever larger one it is taken from.
LEMMA SumsAgree ==
    ASSUME NEW w, NEW ts, IsFiniteSet(ts), NEW f, Sums(f, w, ts), NEW us \in SUBSET ts, NEW g, Sums(g, w, us)
    PROVE  f[us] = g[us]
<1> DEFINE n == Cardinality(us)
           S == {k \in 0..n : \A s \in SUBSET us : Cardinality(s) = k => f[s] = g[s]}
<1>0. n \in Nat /\ IsFiniteSet(us)
  BY FS_Subset, FS_CardinalityType
<1>1. ASSUME NEW s \in SUBSET us
      PROVE  /\ f[s] = SumOf(f, w, s) /\ g[s] = SumOf(g, w, s)
             /\ IsFiniteSet(s) /\ Cardinality(s) \in Nat
             /\ s # {} => /\ s \ {OneOf(s)} \in SUBSET us /\ Cardinality(s) # 0
                          /\ Cardinality(s \ {OneOf(s)}) = Cardinality(s) - 1
  <2>1. s \in SUBSET ts /\ IsFiniteSet(s) /\ Cardinality(s) \in Nat
    BY <1>0, FS_Subset, FS_CardinalityType
  <2>2. f[s] = SumOf(f, w, s) /\ g[s] = SumOf(g, w, s)
    BY <2>1 DEF Sums, SumOf
  <2> QED BY <2>1, <2>2, OneOfDoes
<1>2. 0 \in S
  <2>1. ASSUME NEW s \in SUBSET us, Cardinality(s) = 0 PROVE f[s] = g[s]
    <3>1. s = {}
      BY <1>1, <2>1
    <3> QED BY <1>1, <3>1 DEF SumOf
  <2> QED BY <1>0, <2>1
<1>3. ASSUME NEW k \in 1..n, k - 1 \in S PROVE k \in S
  <2>1. ASSUME NEW s \in SUBSET us, Cardinality(s) = k PROVE f[s] = g[s]
    <3>1. s # {}
      BY <2>1, FS_EmptySet
    <3>2. s \ {OneOf(s)} \in SUBSET us /\ Cardinality(s \ {OneOf(s)}) = k - 1
      BY <1>1, <2>1, <3>1
    <3>3. f[s \ {OneOf(s)}] = g[s \ {OneOf(s)}]
      BY <1>3, <3>2
    <3> QED BY <1>1, <3>1, <3>3 DEF SumOf
  <2> QED BY <2>1
<1> HIDE DEF S
<1>4. 0..n \subseteq S
  BY <1>0, <1>2, <1>3, Upto
<1>5. n \in S
  BY <1>0, <1>4
<1> QED BY <1>5 DEF S

\* So the fold takes one member at a time,
LEMMA TotalTakesOne ==
    ASSUME NEW w, NEW ts, IsFiniteSet(ts)
    PROVE  Total(w, ts) = IF ts = {} THEN 0 ELSE w[OneOf(ts)] + Total(w, ts \ {OneOf(ts)})
<1> DEFINE f == CHOOSE f : Sums(f, w, ts)
           us == ts \ {OneOf(ts)}
           g == CHOOSE g : Sums(g, w, us)
<1>0. IsFiniteSet(us) /\ us \in SUBSET ts
  BY FS_Subset
<1>1. Sums(f, w, ts) /\ Sums(g, w, us)
  BY <1>0, SumExists
<1>2. Total(w, ts) = f[ts] /\ Total(w, us) = g[us]
  BY TotalChoose
<1> HIDE DEF f, g
<1>3. f[us] = g[us]
  BY <1>0, <1>1, SumsAgree
<1>4. f[ts] = IF ts = {} THEN 0 ELSE w[OneOf(ts)] + f[us]
  BY <1>1 DEF Sums
<1> QED BY <1>2, <1>3, <1>4

\* and which one does not matter: every member can be split off.
LEMMA TotalAdd ==
    ASSUME NEW w, NEW ts, IsFiniteSet(ts), \A t \in ts : w[t] \in Nat
    PROVE  /\ Total(w, ts) \in Nat
           /\ \A x \in ts : Total(w, ts) = w[x] + Total(w, ts \ {x})
<1> DEFINE n == Cardinality(ts)
           Good(s) == /\ Total(w, s) \in Nat
                      /\ \A x \in s : Total(w, s) = w[x] + Total(w, s \ {x})
           S == {k \in 0..n : \A s \in SUBSET ts : Cardinality(s) <= k => Good(s)}
<1>0. n \in Nat
  BY FS_CardinalityType
<1>a. ASSUME NEW s \in SUBSET ts
      PROVE  /\ IsFiniteSet(s) /\ Cardinality(s) \in Nat
             /\ \A x \in s : /\ s \ {x} \in SUBSET ts /\ w[x] \in Nat
                             /\ Cardinality(s \ {x}) = Cardinality(s) - 1
  BY FS_Subset, FS_CardinalityType, FS_RemoveElement
<1>1. 0 \in S
  <2>1. ASSUME NEW s \in SUBSET ts, Cardinality(s) <= 0 PROVE Good(s)
    <3>1. s = {}
      BY <1>a, <2>1, FS_EmptySet
    <3>2. Total(w, {}) = 0
      BY FS_EmptySet, TotalTakesOne
    <3> QED BY <3>1, <3>2
  <2> QED BY <1>0, <2>1
<1>2. ASSUME NEW k \in 1..n, k - 1 \in S PROVE k \in S
  <2>1. ASSUME NEW s \in SUBSET ts, Cardinality(s) <= k, s # {} PROVE Good(s)
    <3>1. s # {} /\ IsFiniteSet(s)
      BY <1>a, <2>1
    <3> DEFINE o == OneOf(s)
    <3>2. o \in s /\ Total(w, s) = w[o] + Total(w, s \ {o})
      BY <3>1, OneOfDoes, TotalTakesOne
    <3> HIDE DEF o
    <3>3. ASSUME NEW x \in s PROVE s \ {x} \in SUBSET ts /\ Good(s \ {x}) /\ w[x] \in Nat
      <4>1. /\ s \ {x} \in SUBSET ts /\ Cardinality(s \ {x}) = Cardinality(s) - 1
            /\ w[x] \in Nat /\ Cardinality(s) \in Nat
        BY <1>a
      <4> HIDE DEF Good
      <4>2. Cardinality(s \ {x}) <= k - 1
        BY <2>1, <4>1, <1>0
      <4> QED BY <1>2, <4>1, <4>2
    <3>4. Total(w, s) \in Nat
      BY <3>2, <3>3
    <3>5. ASSUME NEW x \in s PROVE Total(w, s) = w[x] + Total(w, s \ {x})
      <4>1. CASE x = o
        BY <3>2, <4>1
      <4>2. CASE x # o
        <5> DEFINE rest0 == (s \ {x}) \ {o}
        <5>1. rest0 = (s \ {o}) \ {x} /\ x \in s \ {o} /\ o \in s \ {x}
          BY <3>2, <4>2
        <5>2. Total(w, s \ {o}) = w[x] + Total(w, rest0)
          BY <3>2, <3>3, <5>1
        <5>3. Total(w, s \ {x}) = w[o] + Total(w, rest0)
          BY <3>3, <5>1
        <5>4. w[x] \in Nat /\ w[o] \in Nat /\ Total(w, s \ {x}) \in Nat /\ Total(w, s \ {o}) \in Nat
          BY <3>2, <3>3
        <5>5. Total(w, rest0) \in Int
          <6>1. s \ {o} \in SUBSET ts /\ x \in s \ {o} /\ Good(s \ {o})
            BY <3>2, <3>3, <5>1
          <6>2. /\ rest0 \in SUBSET ts /\ Cardinality(s \ {o}) = Cardinality(s) - 1
                /\ Cardinality(rest0) = Cardinality(s \ {o}) - 1 /\ Cardinality(s) \in Nat
            BY <1>a, <3>2, <5>1, <6>1
          <6> HIDE DEF rest0, Good
          <6>3. Cardinality(rest0) <= k - 1
            BY <2>1, <6>2, <1>0
          <6>4. Good(rest0)
            BY <1>2, <6>2, <6>3
          <6> QED BY <6>4 DEF Good
        <5> HIDE DEF rest0
        <5> QED BY <3>2, <5>2, <5>3, <5>4, <5>5
      <4> QED BY <4>1, <4>2
    <3> QED BY <3>4, <3>5
  <2>2. Good({})
    <3>1. Total(w, {}) = 0
      BY FS_EmptySet, TotalTakesOne
    <3> QED BY <3>1
  <2> HIDE DEF Good
  <2> QED BY <2>1, <2>2
<1> HIDE DEF n, S, Good
<1>3. 0..n \subseteq S
  BY <1>0, <1>1, <1>2, Upto
<1>4. n \in S
  BY <1>0, <1>3
<1>5. Good(ts)
  BY <1>4 DEF S, n
<1> QED BY <1>5 DEF Good

\* Nothing adds up to nothing.
LEMMA TotalOfNone == \A w : Total(w, {}) = 0
BY FS_EmptySet, TotalTakesOne

\* A sum depends on the weights of its members only.
LEMMA TotalDepends ==
    ASSUME NEW w, NEW v, NEW ts, IsFiniteSet(ts), \A t \in ts : w[t] = v[t]
    PROVE  Total(w, ts) = Total(v, ts)
<1> DEFINE n == Cardinality(ts)
           S == {k \in 0..n : \A s \in SUBSET ts : Cardinality(s) = k => Total(w, s) = Total(v, s)}
<1>0. n \in Nat
  BY FS_CardinalityType
<1>1. ASSUME NEW s \in SUBSET ts
      PROVE  /\ IsFiniteSet(s) /\ Cardinality(s) \in Nat
             /\ Total(w, s) = IF s = {} THEN 0 ELSE w[OneOf(s)] + Total(w, s \ {OneOf(s)})
             /\ Total(v, s) = IF s = {} THEN 0 ELSE v[OneOf(s)] + Total(v, s \ {OneOf(s)})
             /\ s # {} => /\ OneOf(s) \in s /\ s \ {OneOf(s)} \in SUBSET ts /\ Cardinality(s) # 0
                          /\ Cardinality(s \ {OneOf(s)}) = Cardinality(s) - 1
  <2>1. IsFiniteSet(s) /\ Cardinality(s) \in Nat
    BY FS_Subset, FS_CardinalityType
  <2> QED BY <2>1, OneOfDoes, TotalTakesOne
<1>2. 0 \in S
  <2>1. ASSUME NEW s \in SUBSET ts, Cardinality(s) = 0 PROVE Total(w, s) = Total(v, s)
    BY <1>1, <2>1
  <2> QED BY <1>0, <2>1
<1>3. ASSUME NEW k \in 1..n, k - 1 \in S PROVE k \in S
  <2>1. ASSUME NEW s \in SUBSET ts, Cardinality(s) = k PROVE Total(w, s) = Total(v, s)
    <3>1. s # {}
      BY <2>1, FS_EmptySet
    <3>2. /\ s \ {OneOf(s)} \in SUBSET ts /\ Cardinality(s \ {OneOf(s)}) = k - 1
          /\ OneOf(s) \in ts
      BY <1>1, <2>1, <3>1
    <3>3. Total(w, s \ {OneOf(s)}) = Total(v, s \ {OneOf(s)})
      BY <1>3, <3>2
    <3> QED BY <1>1, <3>1, <3>2, <3>3
  <2> QED BY <2>1
<1> HIDE DEF S
<1>4. n \in S
  <2>1. 0..n \subseteq S
    BY <1>0, <1>2, <1>3, Upto
  <2> QED BY <1>0, <2>1
<1> QED BY <1>4 DEF S

\* A member more, or several.
LEMMA TotalAddsOne ==
    ASSUME NEW w, NEW ts, IsFiniteSet(ts), NEW x, x \notin ts, \A t \in ts \cup {x} : w[t] \in Nat
    PROVE  Total(w, ts \cup {x}) = w[x] + Total(w, ts)
<1>1. IsFiniteSet(ts \cup {x}) /\ (ts \cup {x}) \ {x} = ts
  BY FS_AddElement
<1> QED BY <1>1, TotalAdd

LEMMA TotalAddsSet ==
    ASSUME NEW w, NEW ts, NEW us, IsFiniteSet(ts), IsFiniteSet(us), ts \cap us = {},
           \A t \in ts \cup us : w[t] \in Nat
    PROVE  Total(w, ts \cup us) = Total(w, ts) + Total(w, us)
<1> DEFINE n == Cardinality(us)
           S == {k \in 0..n : \A s \in SUBSET us :
                    Cardinality(s) = k => Total(w, ts \cup s) = Total(w, ts) + Total(w, s)}
<1>0. n \in Nat /\ Total(w, ts) \in Nat
  BY FS_CardinalityType, TotalAdd
<1>1. 0 \in S
  <2>1. ASSUME NEW s \in SUBSET us, Cardinality(s) = 0
        PROVE  Total(w, ts \cup s) = Total(w, ts) + Total(w, s)
    <3>1. s = {}
      BY <2>1, FS_Subset, FS_EmptySet
    <3>2. ts \cup s = ts
      BY <3>1
    <3> QED BY <1>0, <3>1, <3>2, TotalOfNone
  <2> QED BY <1>0, <2>1
<1>2. ASSUME NEW k \in 1..n, k - 1 \in S PROVE k \in S
  <2>1. ASSUME NEW s \in SUBSET us, Cardinality(s) = k
        PROVE  Total(w, ts \cup s) = Total(w, ts) + Total(w, s)
    <3> DEFINE x == OneOf(s)
               r == s \ {x}
    <3>1. s # {} /\ IsFiniteSet(s)
      BY <2>1, FS_Subset, FS_EmptySet
    <3>2. x \in s /\ IsFiniteSet(r) /\ Cardinality(r) = k - 1
      BY <2>1, <3>1, OneOfDoes
    <3>3. r \in SUBSET us /\ x \notin r /\ x \notin ts \cup r /\ s = r \cup {x}
      BY <3>2
    <3> HIDE DEF x, r
    <3>4. Total(w, ts \cup r) = Total(w, ts) + Total(w, r)
      BY <1>2, <3>2, <3>3
    <3>5. IsFiniteSet(ts \cup r)
      BY <3>2, FS_Union
    <3>6. w[x] \in Nat /\ \A t \in r \cup {x} : w[t] \in Nat
      BY <3>2, <3>3
    <3>7. Total(w, (ts \cup r) \cup {x}) = w[x] + Total(w, ts \cup r)
      BY <3>3, <3>5, TotalAddsOne
    <3>8. Total(w, s) = w[x] + Total(w, r) /\ Total(w, r) \in Nat
      BY <3>2, <3>3, <3>6, TotalAddsOne, TotalAdd
    <3>9. ts \cup s = (ts \cup r) \cup {x}
      BY <3>3
    <3>10. Total(w, ts \cup s) = w[x] + (Total(w, ts) + Total(w, r))
      BY <3>4, <3>7, <3>9
    <3>11. w[x] \in Nat
      BY <3>6
    <3> QED BY <1>0, <3>8, <3>10, <3>11
  <2> QED BY <2>1
<1> HIDE DEF S
<1>3. n \in S
  <2>1. 0..n \subseteq S
    BY <1>0, <1>1, <1>2, Upto
  <2> QED BY <1>0, <2>1
<1> QED BY <1>3 DEF S

\* A part adds up to no more than the whole.
LEMMA TotalOfPart ==
    ASSUME NEW w, NEW ts, IsFiniteSet(ts), \A t \in ts : w[t] \in Nat, NEW us \in SUBSET ts
    PROVE  Total(w, us) \in Nat /\ Total(w, ts) \in Nat /\ Total(w, us) <= Total(w, ts)
<1>1. IsFiniteSet(us) /\ IsFiniteSet(ts \ us)
  BY FS_Subset
<1>2. Total(w, us) \in Nat /\ Total(w, ts) \in Nat /\ Total(w, ts \ us) \in Nat
  BY <1>1, TotalAdd
<1>3. us \cup (ts \ us) = ts /\ us \cap (ts \ us) = {}
  OBVIOUS
<1>4. Total(w, ts) = Total(w, us) + Total(w, ts \ us)
  BY <1>1, <1>3, TotalAddsSet
<1> QED BY <1>2, <1>4
=============================================================================
