----------------------------- MODULE DataLemmas -----------------------------
(***************************************************************************)
(* Facts about the data the models are built from, for the proofs that     *)
(* need them: induction over the naturals, the greatest element of a       *)
(* bounded set, the sum of the values of some entries of a batch, and      *)
(* sizes in whole blocks.                                                  *)
(* Induction is stated for sets, as a consequence of "<" being well-       *)
(* founded, so that it takes no operator as a parameter.                   *)
(***************************************************************************)
EXTENDS Integers, Sequences, FiniteSets, FiniteSetsExt, FiniteSetTheorems,
        WellFoundedInduction, TLAPS

\* Every nonempty set of naturals has a least element.
LEMMA NatLeast ==
    ASSUME NEW T, T \subseteq Nat, T # {}
    PROVE  \E m \in T : \A k \in T : m <= k
<1>1. IsWellFoundedOn(OpToRel(<, Nat), Nat)
  BY NatLessThanWellFounded
<1>2. PICK m \in T : \A k \in T : ~(<<k, m>> \in OpToRel(<, Nat))
  <2> HIDE DEF OpToRel
  <2> QED BY <1>1, WFMin
<1>3. \A k \in T : ~(k < m)
  BY <1>2 DEF OpToRel
<1>4. QED
  BY <1>3

\* A set with 0 that is closed under + 1 has every natural.
LEMMA Induct ==
    ASSUME NEW S, 0 \in S, \A n \in Nat : n \in S => n + 1 \in S
    PROVE  \A n \in Nat : n \in S
<1> DEFINE T == {n \in Nat : n \notin S}
<1> SUFFICES ASSUME T # {} PROVE FALSE
  OBVIOUS
<1>1. PICK m \in T : \A k \in T : m <= k
  <2> T \subseteq Nat
    OBVIOUS
  <2> HIDE DEF T
  <2> QED BY NatLeast
<1>2. m \in Nat /\ m # 0
  OBVIOUS
<1>3. m - 1 \in Nat /\ m - 1 \notin T
  BY <1>1, <1>2
<1>4. QED
  BY <1>2, <1>3

\* Max of a nonempty set of naturals with a bound is its greatest element.
LEMMA MaxOfBounded ==
    ASSUME NEW T, T \subseteq Nat, T # {}, NEW b \in Nat, \A t \in T : t <= b
    PROVE  Max(T) \in T /\ \A t \in T : t <= Max(T)
<1> DEFINE D == {b - t : t \in T}
<1>1. D \subseteq Nat /\ D # {}
  <2>1. \A t \in T : t \in Nat /\ b - t \in Nat
    OBVIOUS
  <2>2. PICK t \in T : TRUE
    OBVIOUS
  <2>3. b - t \in D
    OBVIOUS
  <2>4. QED
    BY <2>1, <2>3
<1>2. PICK d \in D : \A k \in D : d <= k
  <2> HIDE DEF D
  <2> QED BY <1>1, NatLeast
<1>3. PICK m \in T : d = b - m
  OBVIOUS
<1>4. \A t \in T : m >= t
  <2> SUFFICES ASSUME NEW t \in T PROVE m >= t
    OBVIOUS
  <2>1. b - t \in D
    OBVIOUS
  <2>2. b - m <= b - t
    BY <1>2, <1>3, <2>1
  <2>3. QED
    BY <2>2
<1>5. Max(T) \in T /\ \A t \in T : Max(T) >= t
  BY <1>4 DEF Max
<1>6. QED
  BY <1>5

LEMMA MaxOfTwo ==
    ASSUME NEW a \in Int, NEW b \in Int
    PROVE  Max({a, b}) = IF a >= b THEN a ELSE b
<1> DEFINE m == IF a >= b THEN a ELSE b
<1>1. m \in {a, b} /\ \A y \in {a, b} : m >= y
  OBVIOUS
<1>2. Max({a, b}) \in {a, b} /\ \A y \in {a, b} : Max({a, b}) >= y
  BY <1>1 DEF Max
<1>3. QED
  BY <1>2

-----------------------------------------------------------------------------
(* Sums of the values of some entries of a sequence, which MapThenSumSet    *)
(* computes by a recursion that takes the entries in any order.             *)

SumOf(es, ns) == MapThenSumSet(LAMBDA n : es[n].val, ns)

Some(s) == CHOOSE x \in s : TRUE

SumStep(es, f, s) == IF s = {} THEN 0 ELSE es[Some(s)].val + f[s \ {Some(s)}]

\* f is the function of that recursion for the subsets of ns.
IsSum(es, ns, f) == f = [s \in SUBSET ns |-> SumStep(es, f, s)]

LEMMA SumUnfold ==
    ASSUME NEW es, NEW ns
    PROVE  SumOf(es, ns) = (CHOOSE f : IsSum(es, ns, f))[ns]
  BY Zenon DEF SumOf, MapThenSumSet, MapThenFoldSet, IsSum, SumStep, Some

\* A smaller set, for the induction on the size.
LEMMA Smaller ==
    ASSUME NEW s, IsFiniteSet(s), NEW x \in s
    PROVE  /\ IsFiniteSet(s \ {x}) /\ Cardinality(s \ {x}) = Cardinality(s) - 1
           /\ Cardinality(s) \in Nat /\ Cardinality(s \ {x}) \in Nat
  BY FS_RemoveElement, FS_CardinalityType

LEMMA SomeIn ==
    ASSUME NEW s, s # {}
    PROVE  Some(s) \in s
  BY DEF Some

LEMMA SumExists ==
    ASSUME NEW es, NEW ns, IsFiniteSet(ns)
    PROVE  \E f : IsSum(es, ns, f)
<1> DEFINE Sub(k) == {s \in SUBSET ns : Cardinality(s) <= k}
           A == {k \in Nat : \E g : g = [s \in Sub(k) |-> SumStep(es, g, s)]}
<1>1. \A s \in SUBSET ns : IsFiniteSet(s) /\ Cardinality(s) \in Nat
  BY FS_Subset, FS_CardinalityType
<1>2. 0 \in A
  <2> DEFINE g == [s \in Sub(0) |-> 0]
  <2>1. \A s \in Sub(0) : s = {}
    <3>1. \A s \in Sub(0) : s \in SUBSET ns /\ Cardinality(s) = 0
      BY <1>1
    <3>2. QED
      BY <1>1, <3>1, FS_EmptySet
  <2>2. \A s \in Sub(0) : SumStep(es, g, s) = 0
    BY <2>1 DEF SumStep
  <2>3. g = [s \in Sub(0) |-> SumStep(es, g, s)]
    BY <2>2
  <2> HIDE DEF Sub, g
  <2>4. QED
    BY <2>3
<1>3. ASSUME NEW k \in Nat, k \in A
      PROVE  k + 1 \in A
  <2>1. PICK g : g = [s \in Sub(k) |-> SumStep(es, g, s)]
    BY <1>3
  <2> DEFINE h == [s \in Sub(k + 1) |-> SumStep(es, g, s)]
  <2>2. \A s \in Sub(k) : s \in Sub(k + 1)
    BY <1>1
  <2>3. \A s \in Sub(k + 1) : s # {} => s \ {Some(s)} \in Sub(k)
    <3> SUFFICES ASSUME NEW s \in Sub(k + 1), s # {} PROVE s \ {Some(s)} \in Sub(k)
      OBVIOUS
    <3>1. s \in SUBSET ns /\ Cardinality(s) <= k + 1 /\ IsFiniteSet(s)
      BY <1>1
    <3>2. Some(s) \in s
      BY SomeIn
    <3>3. Cardinality(s \ {Some(s)}) = Cardinality(s) - 1 /\ Cardinality(s) \in Nat
      BY <3>1, <3>2, Smaller
    <3>4. s \ {Some(s)} \in SUBSET ns /\ Cardinality(s \ {Some(s)}) <= k
      BY <3>1, <3>3
    <3>5. QED
      BY <3>4
  <2> HIDE DEF Sub
  <2>4. \A s \in Sub(k) : h[s] = g[s]
    BY <2>1, <2>2
  <2>5. \A s \in Sub(k + 1) : SumStep(es, h, s) = SumStep(es, g, s)
    <3> HIDE DEF h
    <3> QED BY <2>3, <2>4 DEF SumStep
  <2>6. h = [s \in Sub(k + 1) |-> SumStep(es, h, s)]
    BY <2>5
  <2> HIDE DEF h
  <2>7. QED
    BY <2>6
<1>4. \A k \in Nat : k \in A
  <2> HIDE DEF A
  <2> QED BY <1>2, <1>3, Induct
<1>5. Cardinality(ns) \in Nat
  BY FS_CardinalityType
<1>6. Sub(Cardinality(ns)) = SUBSET ns
  BY FS_Subset
<1> HIDE DEF Sub
<1>7. PICK g : g = [s \in Sub(Cardinality(ns)) |-> SumStep(es, g, s)]
  BY <1>4, <1>5
<1>8. QED
  BY <1>6, <1>7 DEF IsSum

\* The function is the same for a larger set of entries.
LEMMA SumUnique ==
    ASSUME NEW es, NEW ns, IsFiniteSet(ns), NEW ms, ms \subseteq ns,
           NEW f, IsSum(es, ns, f), NEW g, IsSum(es, ms, g)
    PROVE  \A s \in SUBSET ms : f[s] = g[s]
<1> DEFINE A == {k \in Nat : \A s \in SUBSET ms : Cardinality(s) <= k => f[s] = g[s]}
<1>1. \A s \in SUBSET ms : /\ IsFiniteSet(s) /\ Cardinality(s) \in Nat
                           /\ f[s] = SumStep(es, f, s) /\ g[s] = SumStep(es, g, s)
  <2>1. \A s \in SUBSET ms : IsFiniteSet(s) /\ Cardinality(s) \in Nat
    BY FS_Subset, FS_CardinalityType
  <2>2. \A s \in SUBSET ms : s \in SUBSET ns
    OBVIOUS
  <2>3. QED
    BY <2>1, <2>2 DEF IsSum
<1>2. 0 \in A
  <2>1. \A s \in SUBSET ms : Cardinality(s) <= 0 => s = {}
    BY <1>1, FS_EmptySet
  <2>2. QED
    BY <1>1, <2>1 DEF SumStep
<1>3. ASSUME NEW k \in Nat, k \in A
      PROVE  k + 1 \in A
  <2> SUFFICES ASSUME NEW s \in SUBSET ms, Cardinality(s) <= k + 1 PROVE f[s] = g[s]
    OBVIOUS
  <2>1. CASE s = {}
    BY <1>1, <2>1 DEF SumStep
  <2>2. CASE s # {}
    <3>1. Some(s) \in s
      BY <2>2, SomeIn
    <3>2. Cardinality(s \ {Some(s)}) <= k /\ s \ {Some(s)} \in SUBSET ms
      BY <1>1, <3>1, Smaller
    <3>3. f[s \ {Some(s)}] = g[s \ {Some(s)}]
      BY <1>3, <3>2
    <3>4. QED
      BY <1>1, <2>2, <3>3 DEF SumStep
  <2>3. QED
    BY <2>1, <2>2
<1>4. \A k \in Nat : k \in A
  <2> HIDE DEF A
  <2> QED BY <1>2, <1>3, Induct
<1>5. QED
  BY <1>1, <1>4

\* The order in which the entries are taken does not matter.
LEMMA SumAnyOrder ==
    ASSUME NEW es, NEW ns, IsFiniteSet(ns), \A n \in ns : es[n].val \in Int,
           NEW f, IsSum(es, ns, f)
    PROVE  \A s \in SUBSET ns : /\ f[s] \in Int
                                /\ \A x \in s : f[s] = es[x].val + f[s \ {x}]
<1> DEFINE good(s) == f[s] \in Int /\ \A x \in s : f[s] = es[x].val + f[s \ {x}]
           A == {k \in Nat : \A s \in SUBSET ns : Cardinality(s) <= k => good(s)}
<1>1. \A s \in SUBSET ns : IsFiniteSet(s) /\ Cardinality(s) \in Nat /\ f[s] = SumStep(es, f, s)
  <2>1. \A s \in SUBSET ns : IsFiniteSet(s) /\ Cardinality(s) \in Nat
    BY FS_Subset, FS_CardinalityType
  <2>2. QED
    BY <2>1 DEF IsSum
<1>2. good({})
  <2>1. {} \in SUBSET ns
    OBVIOUS
  <2>2. f[{}] = 0
    BY <1>1, <2>1 DEF SumStep
  <2>3. QED
    BY <2>2
<1>3. 0 \in A
  <2>1. \A s \in SUBSET ns : Cardinality(s) <= 0 => s = {}
    BY <1>1, FS_EmptySet
  <2> HIDE DEF good
  <2>2. QED
    BY <1>2, <2>1
<1>4. ASSUME NEW k \in Nat, k \in A
      PROVE  k + 1 \in A
  <2> SUFFICES ASSUME NEW s \in SUBSET ns, Cardinality(s) <= k + 1, s # {} PROVE good(s)
    <3> HIDE DEF good
    <3> QED BY <1>2
  <2> DEFINE c == Some(s)
  <2>1. c \in s /\ f[s] = es[c].val + f[s \ {c}]
    BY <1>1, SomeIn DEF SumStep
  <2> HIDE DEF c
  <2>2. \A x \in s : s \ {x} \in SUBSET ns /\ Cardinality(s \ {x}) <= k
    BY <1>1, Smaller
  <2>3. \A x \in s : good(s \ {x})
    <3> HIDE DEF good
    <3> QED BY <1>4, <2>2
  <2>4. f[s] \in Int
    <3>1. es[c].val \in Int /\ f[s \ {c}] \in Int
      BY <2>1, <2>3
    <3>2. QED
      BY <2>1, <3>1
  <2>5. ASSUME NEW x \in s, x # c
        PROVE  f[s] = es[x].val + f[s \ {x}]
    <3>1. (s \ {c}) \ {x} = (s \ {x}) \ {c} /\ x \in s \ {c} /\ c \in s \ {x}
      BY <2>1, <2>5
    <3>2. f[s \ {c}] = es[x].val + f[(s \ {c}) \ {x}]
      BY <2>1, <2>3, <3>1
    <3>3. f[s \ {x}] = es[c].val + f[(s \ {c}) \ {x}]
      BY <2>3, <3>1
    <3>4. (s \ {c}) \ {x} \in SUBSET ns /\ Cardinality((s \ {c}) \ {x}) <= k
      <4>1. s \ {c} \in SUBSET ns /\ Cardinality(s \ {c}) <= k
        BY <2>1, <2>2
      <4>2. Cardinality((s \ {c}) \ {x}) = Cardinality(s \ {c}) - 1 /\ Cardinality(s \ {c}) \in Nat
        BY <1>1, <3>1, <4>1, Smaller
      <4>3. QED
        BY <4>1, <4>2
    <3>5. PICK r \in Int : r = f[(s \ {c}) \ {x}]
      BY <1>4, <3>4
    <3>6. PICK u \in Int, w \in Int : u = es[x].val /\ w = es[c].val
      BY <2>1
    <3>7. QED
      BY <2>1, <3>2, <3>3, <3>5, <3>6
  <2>6. QED
    BY <2>1, <2>4, <2>5
<1>5. \A k \in Nat : k \in A
  <2> HIDE DEF A
  <2> QED BY <1>3, <1>4, Induct
<1>6. \A s \in SUBSET ns : good(s)
  <2> HIDE DEF good
  <2> QED BY <1>1, <1>5
<1>7. QED
  BY <1>6

LEMMA SumEmpty ==
    ASSUME NEW es
    PROVE  SumOf(es, {}) = 0
<1>1. PICK f : IsSum(es, {}, f)
  BY SumExists, FS_EmptySet
<1>2. IsSum(es, {}, CHOOSE g : IsSum(es, {}, g))
  BY <1>1
<1>3. (CHOOSE g : IsSum(es, {}, g))[{}] = 0
  BY <1>2 DEF IsSum, SumStep
<1>4. QED
  BY <1>3, SumUnfold

LEMMA SumType ==
    ASSUME NEW es, NEW ns, IsFiniteSet(ns), \A m \in ns : es[m].val \in Int
    PROVE  SumOf(es, ns) \in Int
<1> DEFINE f == CHOOSE g : IsSum(es, ns, g)
<1>1. IsSum(es, ns, f)
  BY SumExists
<1>2. SumOf(es, ns) = f[ns]
  BY SumUnfold
<1> HIDE DEF f
<1>3. \A s \in SUBSET ns : f[s] \in Int
  BY <1>1, SumAnyOrder
<1>4. QED
  BY <1>2, <1>3

\* One entry more adds its value.
LEMMA SumInsert ==
    ASSUME NEW es, NEW ns, IsFiniteSet(ns), NEW n, n \notin ns,
           \A m \in ns \cup {n} : es[m].val \in Int
    PROVE  SumOf(es, ns) \in Int /\ SumOf(es, ns \cup {n}) = SumOf(es, ns) + es[n].val
<1> DEFINE all == ns \cup {n}
           f == CHOOSE g : IsSum(es, all, g)
           g == CHOOSE h : IsSum(es, ns, h)
<1>1. IsFiniteSet(all)
  BY FS_AddElement
<1>2. IsSum(es, all, f) /\ IsSum(es, ns, g)
  BY <1>1, SumExists
<1>3. SumOf(es, all) = f[all] /\ SumOf(es, ns) = g[ns]
  BY SumUnfold
<1> HIDE DEF f, g
<1>s. ns \subseteq all /\ ns \in SUBSET ns /\ ns \in SUBSET all /\ all \in SUBSET all /\ n \in all
  OBVIOUS
<1>v. \A m \in all : es[m].val \in Int
  OBVIOUS
<1>4. f[ns] = g[ns]
  <2> HIDE DEF all
  <2> QED BY <1>1, <1>2, <1>s, SumUnique
<1>5. f[all] = es[n].val + f[all \ {n}] /\ f[ns] \in Int
  <2> HIDE DEF all
  <2>1. \A s \in SUBSET all : f[s] \in Int /\ \A x \in s : f[s] = es[x].val + f[s \ {x}]
    BY <1>1, <1>2, <1>v, SumAnyOrder
  <2>2. QED
    BY <1>s, <2>1
<1>6. all \ {n} = ns
  OBVIOUS
<1>7. PICK v \in Int : v = es[n].val
  OBVIOUS
<1>8. PICK u \in Int : u = f[ns]
  BY <1>5
<1>9. SumOf(es, ns) = u /\ SumOf(es, all) = v + u
  BY <1>3, <1>4, <1>5, <1>6, <1>7, <1>8
<1>10. QED
  BY <1>7, <1>8, <1>9

\* The sum is the same for entries that are.
LEMMA SumSame ==
    ASSUME NEW es, NEW fs, NEW ns, IsFiniteSet(ns), \A n \in ns : es[n].val = fs[n].val
    PROVE  SumOf(es, ns) = SumOf(fs, ns)
<1> DEFINE f == CHOOSE h : IsSum(es, ns, h)
           g == CHOOSE h : IsSum(fs, ns, h)
<1>1. IsSum(es, ns, f) /\ IsSum(fs, ns, g)
  BY SumExists
<1>2. SumOf(es, ns) = f[ns] /\ SumOf(fs, ns) = g[ns]
  BY SumUnfold
<1> HIDE DEF f, g
<1>3. \A s \in SUBSET ns : SumStep(fs, g, s) = SumStep(es, g, s)
  <2> SUFFICES ASSUME NEW s \in SUBSET ns, s # {}
               PROVE  es[Some(s)].val = fs[Some(s)].val
    BY DEF SumStep
  <2> QED BY SomeIn
<1>4. IsSum(es, ns, g)
  BY <1>1, <1>3 DEF IsSum
<1>5. ns \subseteq ns /\ ns \in SUBSET ns
  OBVIOUS
<1>6. f[ns] = g[ns]
  BY <1>1, <1>4, <1>5, SumUnique
<1>7. QED
  BY <1>2, <1>6

\* Values that are not negative add up to one that is not.
LEMMA SumNonNegative ==
    ASSUME NEW es, NEW ns, IsFiniteSet(ns), \A n \in ns : es[n].val \in Nat
    PROVE  SumOf(es, ns) \in Nat
<1> DEFINE f == CHOOSE h : IsSum(es, ns, h)
           A == {k \in Nat : \A s \in SUBSET ns : Cardinality(s) <= k => f[s] \in Nat}
<1>1. IsSum(es, ns, f)
  BY SumExists
<1>2. SumOf(es, ns) = f[ns]
  BY SumUnfold
<1> HIDE DEF f
<1>3. \A s \in SUBSET ns : /\ IsFiniteSet(s) /\ Cardinality(s) \in Nat
                           /\ f[s] = SumStep(es, f, s)
  <2>1. \A s \in SUBSET ns : IsFiniteSet(s) /\ Cardinality(s) \in Nat
    BY FS_Subset, FS_CardinalityType
  <2>2. QED
    BY <1>1, <2>1 DEF IsSum
<1>4. 0 \in A
  <2>1. \A s \in SUBSET ns : Cardinality(s) <= 0 => s = {}
    BY <1>3, FS_EmptySet
  <2>2. QED
    BY <1>3, <2>1 DEF SumStep
<1>5. ASSUME NEW k \in Nat, k \in A
      PROVE  k + 1 \in A
  <2> SUFFICES ASSUME NEW s \in SUBSET ns, Cardinality(s) <= k + 1 PROVE f[s] \in Nat
    OBVIOUS
  <2>0. f[s] = SumStep(es, f, s)
    BY <1>3
  <2>1. CASE s = {}
    <3>1. SumStep(es, f, s) = 0
      BY <2>1 DEF SumStep
    <3>2. QED
      BY <2>0, <3>1
  <2>2. CASE s # {}
    <3>1. Some(s) \in s
      BY <2>2, SomeIn
    <3>2. Cardinality(s \ {Some(s)}) <= k /\ s \ {Some(s)} \in SUBSET ns
      BY <1>3, <3>1, Smaller
    <3>3. f[s \ {Some(s)}] \in Nat /\ es[Some(s)].val \in Nat
      BY <1>5, <3>1, <3>2
    <3>4. PICK u \in Nat, v \in Nat : u = es[Some(s)].val /\ v = f[s \ {Some(s)}]
      BY <3>3
    <3>5. SumStep(es, f, s) = u + v
      BY <2>2, <3>4 DEF SumStep
    <3>6. QED
      BY <2>0, <3>5
  <2>3. QED
    BY <2>1, <2>2
<1>6. \A k \in Nat : k \in A
  <2> HIDE DEF A
  <2> QED BY <1>4, <1>5, Induct
<1>7. ns \in SUBSET ns
  OBVIOUS
<1>8. QED
  BY <1>2, <1>3, <1>6, <1>7

LEMMA SumZeros ==
    ASSUME NEW es, NEW ns, IsFiniteSet(ns), \A n \in ns : es[n].val = 0
    PROVE  SumOf(es, ns) = 0
<1> DEFINE f == [s \in SUBSET ns |-> 0]
           g == CHOOSE h : IsSum(es, ns, h)
<1>1. \A s \in SUBSET ns : SumStep(es, f, s) = 0
  <2> SUFFICES ASSUME NEW s \in SUBSET ns, s # {} PROVE SumStep(es, f, s) = 0
    BY DEF SumStep
  <2>1. Some(s) \in ns /\ s \ {Some(s)} \in SUBSET ns
    BY SomeIn
  <2>2. es[Some(s)].val = 0 /\ f[s \ {Some(s)}] = 0
    BY <2>1
  <2> HIDE DEF f
  <2>3. QED
    BY <2>2 DEF SumStep
<1>2. IsSum(es, ns, f)
  BY <1>1 DEF IsSum
<1>3. IsSum(es, ns, g) /\ SumOf(es, ns) = g[ns]
  BY SumExists, SumUnfold
<1>4. ns \subseteq ns /\ ns \in SUBSET ns /\ f[ns] = 0
  OBVIOUS
<1> HIDE DEF f, g
<1>5. \A s \in SUBSET ns : f[s] = g[s]
  <2>1. ns \subseteq ns /\ IsSum(es, ns, g)
    BY <1>3
  <2>2. QED
    BY <1>2, <2>1, SumUnique
<1>6. QED
  BY <1>3, <1>4, <1>5

\* One entry changes: the sum changes by as much.
LEMMA SumChange ==
    ASSUME NEW es, NEW fs, NEW ns, IsFiniteSet(ns), NEW c \in ns,
           \A n \in ns : es[n].val \in Int /\ fs[n].val \in Int,
           \A n \in ns : n # c => es[n].val = fs[n].val
    PROVE  /\ SumOf(es, ns) \in Int /\ SumOf(fs, ns) \in Int
           /\ SumOf(fs, ns) = SumOf(es, ns) + fs[c].val - es[c].val
<1> DEFINE ms == ns \ {c}
<1>1. IsFiniteSet(ms) /\ c \notin ms /\ ms \cup {c} = ns /\ ms \subseteq ns
  BY FS_Subset
<1>2. \A n \in ms : es[n].val = fs[n].val
  OBVIOUS
<1> HIDE DEF ms
<1>3. SumOf(es, ms) = SumOf(fs, ms)
  BY <1>1, <1>2, SumSame
<1>4. SumOf(es, ms) \in Int /\ SumOf(es, ms \cup {c}) = SumOf(es, ms) + es[c].val
  BY <1>1, SumInsert
<1>5. SumOf(fs, ms) \in Int /\ SumOf(fs, ms \cup {c}) = SumOf(fs, ms) + fs[c].val
  BY <1>1, SumInsert
<1>6. PICK u \in Int, v \in Int, w \in Int :
         u = SumOf(es, ms) /\ v = es[c].val /\ w = fs[c].val
  BY <1>4
<1>7. SumOf(es, ns) = u + v /\ SumOf(fs, ns) = u + w
  BY <1>1, <1>3, <1>4, <1>5, <1>6
<1>8. QED
  BY <1>6, <1>7

-----------------------------------------------------------------------------
(* Sizes in whole blocks.                                                   *)

\* Products of naturals grow with their factors.
LEMMA Grows ==
    ASSUME NEW a \in Nat, NEW b \in Nat, a <= b, NEW k \in Nat
    PROVE  a * k \in Nat /\ a * k <= b * k
<1>1. PICK d \in Nat : b = a + d
  <2>1. b - a \in Nat /\ b = a + (b - a)
    OBVIOUS
  <2>2. QED
    BY <2>1
<1>2. d * k \in Nat /\ a * k \in Nat /\ (a + d) * k = a * k + d * k
  OBVIOUS
<1>3. QED
  BY <1>1, <1>2

\* So many blocks of a positive size hold n bytes, and one less does not.
LEMMA RoundedUp ==
    ASSUME NEW n \in Nat, NEW k \in Nat \ {0}
    PROVE  LET m == (n + k - 1) \div k
           IN  m \in Nat /\ n <= m * k /\ m * k <= n + k - 1
<1> DEFINE a == n + k - 1
           m == a \div k
           r == a % k
<1>1. a \in Nat /\ k \in Nat /\ k > 0
  OBVIOUS
<1>2. m \in Nat /\ r \in 0..(k - 1) /\ a = k * m + r
  <2> HIDE DEF a
  <2> QED BY <1>1
<1>3. k * m = m * k /\ m * k \in Nat
  <2> HIDE DEF m
  <2> QED BY <1>1, <1>2
<1>4. m * k = a - r
  <2> HIDE DEF m, a, r
  <2> QED BY <1>1, <1>2, <1>3
<1>5. QED
  <2> HIDE DEF m, r
  <2> QED BY <1>2, <1>3, <1>4

\* A product is not rounded.
LEMMA Exactly ==
    ASSUME NEW m \in Nat, NEW k \in Nat \ {0}
    PROVE  (m * k + k - 1) \div k = m
<1>1. PICK q \in Nat : q = (m * k + k - 1) \div k /\ m * k <= q * k /\ q * k <= m * k + k - 1
  <2>1. m * k \in Nat
    OBVIOUS
  <2>2. QED
    BY <2>1, RoundedUp
<1>2. CASE q < m
  <2>1. q + 1 \in Nat /\ q + 1 <= m /\ (q + 1) * k = q * k + k /\ k > 0 /\ q * k \in Nat /\ m * k \in Nat
    BY <1>2
  <2>2. (q + 1) * k <= m * k
    BY <2>1, Grows
  <2>3. QED
    BY <1>1, <2>1, <2>2
<1>3. CASE q > m
  <2>1. m + 1 \in Nat /\ m + 1 <= q /\ (m + 1) * k = m * k + k /\ q * k \in Nat /\ m * k \in Nat
    BY <1>3
  <2>2. (m + 1) * k <= q * k
    BY <2>1, Grows
  <2>3. QED
    BY <1>1, <2>1, <2>2
<1>4. QED
  BY <1>1, <1>2, <1>3
=============================================================================
