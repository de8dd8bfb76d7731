--------------------------- MODULE FileScanProofs ---------------------------
(***************************************************************************)
(* The static scan of a file, for any finite sets of findings, rules and   *)
(* combinations and any number of archive entries: the verdict is one its  *)
(* findings have earned, and more findings never make it milder.           *)
(***************************************************************************)
EXTENDS FileScan, FiniteSetTheorems, WellFoundedInduction, TLAPS


------------------------------------------------------------------------------
(* Sums over finite sets.                                                  *)


LEMMA LeastNat ==
    ASSUME NEW B, B \subseteq Nat, B # {}
    PROVE  \E n \in B : \A m \in B : n <= m
<1>1. \A x, y \in Nat : x < y => <<x, y>> \in OpToRel(<, Nat)
  BY DEF OpToRel
<1>2. PICK R : IsWellFoundedOn(R, Nat) /\ \A x, y \in Nat : x < y => <<x, y>> \in R
  BY <1>1, NatLessThanWellFounded, Zenon
<1>3. PICK n \in B : \A m \in B : ~(<<m, n>> \in R)
  <2>1. IsWellFoundedOn(R, Nat) /\ B \subseteq Nat
    BY <1>2
  <2> QED BY <2>1, WFMin, Zenon
<1>4. ASSUME NEW m \in B PROVE n <= m
  <2>1. m \in Nat /\ n \in Nat /\ ~(m < n)
    BY <1>2, <1>3
  <2> QED BY <2>1
<1>. QED BY <1>4

(* SumFunctionOnSet is a fold: the function on the subsets of S that takes *)
(* one element after another from a subset and adds its value.             *)
Pick(s) == CHOOSE x \in s : TRUE
Iter(w, S) ==
    CHOOSE iter :
        iter = [s \in SUBSET S |-> IF s = {} THEN 0 ELSE w[Pick(s)] + iter[s \ {Pick(s)}]]

(* The fold of the library is that function.                               *)
LEMMA TotalIter == ASSUME NEW w, NEW S PROVE SumFunctionOnSet(w, S) = Iter(w, S)[S]
BY Zenon DEF SumFunctionOnSet, FoldFunctionOnSet, MapThenFoldSet, Iter, Pick

(* One step of it, and what it satisfies on the subsets of at most n       *)
(* elements.                                                               *)
Unfolded(w, g, s) == IF s = {} THEN 0 ELSE w[Pick(s)] + g[s \ {Pick(s)}]
UpTo(w, S, g, n) == \A s \in SUBSET S : Cardinality(s) <= n => g[s] = Unfolded(w, g, s)

(* There is such a function up to every number of elements: the least      *)
(* number without one would be one more than a number with one.            *)
LEMMA IterExists ==
    ASSUME NEW w, NEW S, IsFiniteSet(S), NEW n \in Nat
    PROVE  \E g : g = [s \in SUBSET S |-> g[s]] /\ UpTo(w, S, g, n)
<1>0. /\ \A s \in SUBSET S : IsFiniteSet(s) /\ Cardinality(s) \in Nat
      /\ \A s \in SUBSET S : s = {} <=> Cardinality(s) = 0
      /\ \A s \in SUBSET S : s # {} => /\ Pick(s) \in s /\ s \ {Pick(s)} \in SUBSET S
                                       /\ Cardinality(s \ {Pick(s)}) = Cardinality(s) - 1
  <2>1. \A s \in SUBSET S : IsFiniteSet(s) /\ Cardinality(s) \in Nat
    BY FS_Subset, FS_CardinalityType
  <2>2. \A s \in SUBSET S : s # {} => Pick(s) \in s
    BY DEF Pick
  <2> QED BY <2>1, <2>2, FS_EmptySet, FS_RemoveElement
<1>1. PICK B : B = {k \in Nat : ~ \E g : g = [s \in SUBSET S |-> g[s]] /\ UpTo(w, S, g, k)}
  OBVIOUS
<1>2. ASSUME B # {} PROVE FALSE
  <2>1. PICK k \in B : \A m \in B : k <= m
    BY <1>1, <1>2, LeastNat
  <2>2. k \in Nat /\ ~ \E g : g = [s \in SUBSET S |-> g[s]] /\ UpTo(w, S, g, k)
    BY <1>1
  <2>3. CASE k = 0
    <3>1. PICK g : g = [s \in SUBSET S |-> 0]
      OBVIOUS
    <3>2. g = [s \in SUBSET S |-> g[s]]
      BY <3>1
    <3>3. UpTo(w, S, g, k)
      BY <3>1, <2>3, <1>0 DEF UpTo, Unfolded
    <3> QED BY <2>2, <3>2, <3>3
  <2>4. CASE k # 0
    <3>1. k - 1 \in Nat /\ k - 1 \notin B
      BY <2>1, <2>2, <2>4
    <3>2. PICK g : g = [s \in SUBSET S |-> g[s]] /\ UpTo(w, S, g, k - 1)
      BY <3>1, <1>1
    <3>3. PICK h : h = [s \in SUBSET S |-> IF Cardinality(s) = k THEN Unfolded(w, g, s) ELSE g[s]]
      OBVIOUS
    <3>4. h = [s \in SUBSET S |-> h[s]]
      BY <3>3
    <3>5. UpTo(w, S, h, k)
      <4> SUFFICES ASSUME NEW s \in SUBSET S, Cardinality(s) <= k PROVE h[s] = Unfolded(w, h, s)
        BY DEF UpTo
      <4>1. Unfolded(w, h, s) = Unfolded(w, g, s)
        <5>1. CASE s = {}
          BY <5>1 DEF Unfolded
        <5>2. CASE s # {}
          <6>1. h[s \ {Pick(s)}] = g[s \ {Pick(s)}]
            BY <5>2, <3>3, <1>0, <2>2
          <6> QED BY <6>1, <5>2 DEF Unfolded
        <5> QED BY <5>1, <5>2
      <4>2. CASE Cardinality(s) = k
        BY <4>1, <4>2, <3>3
      <4>3. CASE Cardinality(s) # k
        <5>1. Cardinality(s) <= k - 1
          BY <4>3, <1>0, <2>2
        <5> QED BY <5>1, <4>1, <4>3, <3>2, <3>3 DEF UpTo
      <4> QED BY <4>2, <4>3
    <3> QED BY <2>2, <3>4, <3>5
  <2> QED BY <2>3, <2>4
<1> QED BY <1>1, <1>2

(* So the function that is chosen satisfies its equation on every subset   *)
(* of a finite set.                                                        *)
LEMMA IterDef ==
    ASSUME NEW w, NEW S, IsFiniteSet(S), NEW s \in SUBSET S
    PROVE  Iter(w, S)[s] = Unfolded(w, Iter(w, S), s)
<1>1. PICK n : n = Cardinality(S) /\ n \in Nat
  BY FS_CardinalityType
<1>2. PICK g : g = [t \in SUBSET S |-> g[t]] /\ UpTo(w, S, g, n)
  BY <1>1, IterExists
<1>3. \A t \in SUBSET S : Cardinality(t) <= n
  BY <1>1, FS_Subset
<1>4. \A t \in SUBSET S : g[t] = Unfolded(w, g, t)
  BY <1>2, <1>3 DEF UpTo
<1>5. g = [t \in SUBSET S |-> Unfolded(w, g, t)]
  BY <1>2, <1>4
<1>6. \E f : f = [t \in SUBSET S |-> Unfolded(w, f, t)]
  BY <1>5
<1>7. Iter(w, S) = [t \in SUBSET S |-> Unfolded(w, Iter(w, S), t)]
  BY <1>6, Zenon DEF Iter, Unfolded
<1> QED BY <1>7

(* Induction over the subsets of a finite set.                             *)
LEMMA SubsetInduction ==
    ASSUME NEW S, IsFiniteSet(S), NEW G,
           {} \in G,
           \A T \in SUBSET S : T # {} /\ (\A x \in T : T \ {x} \in G) => T \in G
    PROVE  SUBSET S \subseteq G
<1>1. \A T \in SUBSET S : IsFiniteSet(T) /\ Cardinality(T) \in Nat
  BY FS_Subset, FS_CardinalityType
<1>2. PICK B : B = {Cardinality(T) : T \in (SUBSET S) \ G}
  OBVIOUS
<1>3. SUFFICES ASSUME NEW U \in (SUBSET S) \ G PROVE FALSE
  OBVIOUS
<1>4. B # {} /\ B \subseteq Nat
  BY <1>1, <1>2, <1>3
<1>5. PICK n \in B : \A m \in B : n <= m
  BY <1>4, LeastNat
<1>6. PICK T \in (SUBSET S) \ G : n = Cardinality(T)
  BY <1>2, <1>5
<1>7. ASSUME NEW x \in T PROVE T \ {x} \in G
  <2>1. Cardinality(T \ {x}) = n - 1 /\ n \in Nat /\ T \ {x} \in SUBSET S
    BY <1>1, <1>6, FS_RemoveElement
  <2>2. T \ {x} \notin G => n - 1 \in B
    BY <1>2, <2>1
  <2> QED BY <2>1, <2>2, <1>5
<1> QED BY <1>6, <1>7

(* The sum over a set does not depend on the set it is a part of.          *)
LEMMA IterSame ==
    ASSUME NEW w, NEW S, IsFiniteSet(S), NEW T \in SUBSET S
    PROVE  \A s \in SUBSET T : Iter(w, T)[s] = Iter(w, S)[s]
<1>1. IsFiniteSet(T)
  BY FS_Subset
<1>2. PICK G : G = {s \in SUBSET T : Iter(w, T)[s] = Iter(w, S)[s]}
  OBVIOUS
<1>3. ASSUME NEW s \in SUBSET T PROVE /\ Iter(w, T)[s] = Unfolded(w, Iter(w, T), s)
                                     /\ Iter(w, S)[s] = Unfolded(w, Iter(w, S), s)
  BY <1>1, IterDef
<1>4. {} \in G
  <2>1. {} \in SUBSET T
    OBVIOUS
  <2> QED BY <2>1, <1>2, <1>3 DEF Unfolded
<1>5. ASSUME NEW s \in SUBSET T, s # {}, \A x \in s : s \ {x} \in G PROVE s \in G
  <2>1. Pick(s) \in s
    BY <1>5 DEF Pick
  <2>2. Iter(w, T)[s \ {Pick(s)}] = Iter(w, S)[s \ {Pick(s)}]
    BY <2>1, <1>5, <1>2
  <2> QED BY <2>2, <1>5, <1>2, <1>3 DEF Unfolded
<1>6. SUBSET T \subseteq G
  BY <1>1, <1>4, <1>5, SubsetInduction
<1> QED BY <1>6, <1>2

(* The sum of nothing is 0.                                                *)
LEMMA SumEmpty == ASSUME NEW w PROVE SumFunctionOnSet(w, {}) = 0
<1>1. IsFiniteSet({}) /\ {} \in SUBSET {}
  BY FS_EmptySet
<1>2. Iter(w, {})[{}] = Unfolded(w, Iter(w, {}), {})
  BY <1>1, IterDef
<1> QED BY <1>2, TotalIter DEF Unfolded

(* A sum is the term that is picked and the sum of the others.             *)
LEMMA SumPick ==
    ASSUME NEW w, NEW S, IsFiniteSet(S), S # {}
    PROVE  Pick(S) \in S /\ SumFunctionOnSet(w, S) = w[Pick(S)] + SumFunctionOnSet(w, S \ {Pick(S)})
<1>1. Pick(S) \in S
  BY DEF Pick
<1>2. PICK T : T = S \ {Pick(S)}
  OBVIOUS
<1>3. Iter(w, T)[T] = Iter(w, S)[T]
  BY <1>2, IterSame
<1>4. Iter(w, S)[S] = w[Pick(S)] + Iter(w, S)[T]
  <2>1. Iter(w, S)[S] = Unfolded(w, Iter(w, S), S)
    BY IterDef
  <2> QED BY <2>1, <1>2 DEF Unfolded
<1> QED BY <1>1, <1>2, <1>3, <1>4, TotalIter

(* Sums of natural numbers.                                                *)
LEMMA SumIsNat ==
    ASSUME NEW w, NEW S, IsFiniteSet(S), \A x \in S : w[x] \in Nat
    PROVE  SumFunctionOnSet(w, S) \in Nat
<1>1. PICK G : G = {s \in SUBSET S : SumFunctionOnSet(w, s) \in Nat}
  OBVIOUS
<1>2. {} \in G
  BY <1>1, SumEmpty
<1>3. ASSUME NEW s \in SUBSET S, s # {}, \A x \in s : s \ {x} \in G PROVE s \in G
  <2>1. IsFiniteSet(s)
    BY FS_Subset
  <2>2. Pick(s) \in s /\ SumFunctionOnSet(w, s) = w[Pick(s)] + SumFunctionOnSet(w, s \ {Pick(s)})
    BY <2>1, <1>3, SumPick
  <2>3. w[Pick(s)] \in Nat /\ SumFunctionOnSet(w, s \ {Pick(s)}) \in Nat
    BY <2>2, <1>3, <1>1
  <2> QED BY <2>2, <2>3, <1>1
<1>4. SUBSET S \subseteq G
  BY <1>2, <1>3, SubsetInduction
<1> QED BY <1>4, <1>1

(* A sum is any of its terms and the sum of the others.                    *)
LEMMA SumRemove ==
    ASSUME NEW w, NEW S, IsFiniteSet(S), \A x \in S : w[x] \in Nat
    PROVE  \A x \in S : SumFunctionOnSet(w, S) = w[x] + SumFunctionOnSet(w, S \ {x})
<1>1. PICK G : G = {s \in SUBSET S :
            \A x \in s : SumFunctionOnSet(w, s) = w[x] + SumFunctionOnSet(w, s \ {x})}
  OBVIOUS
<1>2. {} \in G
  BY <1>1
<1>3. ASSUME NEW s \in SUBSET S, s # {}, \A x \in s : s \ {x} \in G PROVE s \in G
  <2>1. \A t \in SUBSET S : IsFiniteSet(t) /\ SumFunctionOnSet(w, t) \in Nat
    <3>1. ASSUME NEW t \in SUBSET S PROVE IsFiniteSet(t) /\ SumFunctionOnSet(w, t) \in Nat
      <4>1. IsFiniteSet(t)
        BY FS_Subset
      <4> QED BY <4>1, SumIsNat
    <3> QED BY <3>1
  <2>2. PICK p \in s : p = Pick(s) /\ SumFunctionOnSet(w, s) = w[p] + SumFunctionOnSet(w, s \ {p})
    BY <2>1, <1>3, SumPick
  <2>3. ASSUME NEW x \in s PROVE SumFunctionOnSet(w, s) = w[x] + SumFunctionOnSet(w, s \ {x})
    <3>1. CASE x = p
      BY <3>1, <2>2
    <3>2. CASE x # p
      <4>1. s \ {p} \in G /\ s \ {x} \in G /\ x \in s \ {p} /\ p \in s \ {x}
        BY <1>3, <3>2
      <4>2. PICK t : t = (s \ {p}) \ {x} /\ t = (s \ {x}) \ {p}
        OBVIOUS
      <4>3. SumFunctionOnSet(w, s \ {p}) = w[x] + SumFunctionOnSet(w, t)
        BY <4>1, <4>2, <1>1
      <4>4. SumFunctionOnSet(w, s \ {x}) = w[p] + SumFunctionOnSet(w, t)
        BY <4>1, <4>2, <1>1
      <4>5. w[x] \in Nat /\ w[p] \in Nat /\ SumFunctionOnSet(w, t) \in Nat
        BY <4>2, <2>1
      <4> QED BY <2>2, <4>3, <4>4, <4>5
    <3> QED BY <3>1, <3>2
  <2> QED BY <2>3, <1>1
<1>4. SUBSET S \subseteq G
  BY <1>2, <1>3, SubsetInduction
<1> QED BY <1>4, <1>1

(* More and larger terms make a sum larger.                                *)
LEMMA SumGrows ==
    ASSUME NEW v, NEW w, NEW T, IsFiniteSet(T), NEW S \in SUBSET T,
           \A x \in T : w[x] \in Nat, \A x \in S : v[x] \in Nat /\ v[x] <= w[x]
    PROVE  SumFunctionOnSet(v, S) <= SumFunctionOnSet(w, T)
<1>0. IsFiniteSet(S)
  BY FS_Subset
<1>1. PICK G : G = {s \in SUBSET S :
            \A t \in SUBSET T : s \subseteq t => SumFunctionOnSet(v, s) <= SumFunctionOnSet(w, t)}
  OBVIOUS
<1>2. ASSUME NEW t \in SUBSET T PROVE IsFiniteSet(t) /\ SumFunctionOnSet(w, t) \in Nat
  <2>1. IsFiniteSet(t)
    BY FS_Subset
  <2> QED BY <2>1, SumIsNat
<1>3. ASSUME NEW s \in SUBSET S PROVE IsFiniteSet(s) /\ SumFunctionOnSet(v, s) \in Nat
  <2>1. IsFiniteSet(s)
    BY <1>0, FS_Subset
  <2> QED BY <2>1, SumIsNat
<1>4. {} \in G
  <2>1. \A t \in SUBSET T : 0 <= SumFunctionOnSet(w, t)
    BY <1>2
  <2> QED BY <2>1, <1>1, SumEmpty
<1>5. ASSUME NEW s \in SUBSET S, s # {}, \A x \in s : s \ {x} \in G PROVE s \in G
  <2> SUFFICES ASSUME NEW t \in SUBSET T, s \subseteq t
               PROVE  SumFunctionOnSet(v, s) <= SumFunctionOnSet(w, t)
    BY <1>1
  <2>1. PICK x \in s : TRUE
    BY <1>5
  <2>2. SumFunctionOnSet(v, s) = v[x] + SumFunctionOnSet(v, s \ {x})
    <3>1. IsFiniteSet(s) /\ \A y \in s : v[y] \in Nat
      BY <1>3
    <3> QED BY <3>1, SumRemove
  <2>3. SumFunctionOnSet(w, t) = w[x] + SumFunctionOnSet(w, t \ {x})
    BY <1>2, SumRemove
  <2>4. SumFunctionOnSet(v, s \ {x}) <= SumFunctionOnSet(w, t \ {x})
    BY <1>5, <1>1
  <2>5. /\ SumFunctionOnSet(v, s \ {x}) \in Nat /\ SumFunctionOnSet(w, t \ {x}) \in Nat
        /\ v[x] \in Nat /\ w[x] \in Nat /\ v[x] <= w[x]
    BY <1>2, <1>3
  <2> QED BY <2>2, <2>3, <2>4, <2>5
<1>6. SUBSET S \subseteq G
  BY <1>0, <1>4, <1>5, SubsetInduction
<1> QED BY <1>6, <1>1

------------------------------------------------------------------------------
(* Totals.                                                                 *)



(* The sum of a function's values.                                         *)
LEMMA TotalGrows ==
    ASSUME NEW v, NEW w, IsFiniteSet(DOMAIN w), DOMAIN v \subseteq DOMAIN w,
           \A x \in DOMAIN w : w[x] \in Nat,
           \A x \in DOMAIN v : v[x] \in Nat /\ v[x] <= w[x]
    PROVE  SumFunction(v) <= SumFunction(w)
BY SumGrows DEF SumFunction

(* A total of natural numbers is one.                                      *)
LEMMA TotalIsNat ==
    ASSUME NEW w, IsFiniteSet(DOMAIN w), \A x \in DOMAIN w : w[x] \in Nat
    PROVE  SumFunction(w) \in Nat
BY SumIsNat DEF SumFunction

(* The total of nothing is 0.                                              *)
LEMMA TotalOfNone == ASSUME NEW w, DOMAIN w = {} PROVE SumFunction(w) = 0
BY SumEmpty DEF SumFunction

(* No term is more than the total, and a single term is the total.         *)
LEMMA TotalOfTerm ==
    ASSUME NEW w, IsFiniteSet(DOMAIN w), \A x \in DOMAIN w : w[x] \in Nat, NEW x \in DOMAIN w
    PROVE  /\ w[x] <= SumFunction(w)
           /\ DOMAIN w = {x} => SumFunction(w) = w[x]
<1>1. SumFunction(w) = w[x] + SumFunctionOnSet(w, DOMAIN w \ {x})
  BY SumRemove DEF SumFunction
<1>2. SumFunctionOnSet(w, DOMAIN w \ {x}) \in Nat
  <2>1. IsFiniteSet(DOMAIN w \ {x})
    BY FS_RemoveElement
  <2> QED BY <2>1, SumIsNat
<1>3. DOMAIN w = {x} => SumFunctionOnSet(w, DOMAIN w \ {x}) = 0
  <2>1. DOMAIN w = {x} => DOMAIN w \ {x} = {}
    OBVIOUS
  <2> QED BY <2>1, SumEmpty
<1> QED BY <1>1, <1>2, <1>3

(* A finite set of numbers has a largest one.                              *)
LEMMA MaxIsLargest ==
    ASSUME NEW S, IsFiniteSet(S), S \subseteq Nat, S # {}
    PROVE  Max(S) \in S /\ \A x \in S : x <= Max(S)
<1>1. PICK G : G = {T \in SUBSET S : T # {} => \E m \in T : \A x \in T : x <= m}
  OBVIOUS
<1>2. {} \in G
  BY <1>1
<1>3. ASSUME NEW T \in SUBSET S, T # {}, \A x \in T : T \ {x} \in G PROVE T \in G
  <2>1. PICK x \in T : TRUE
    BY <1>3
  <2>2. CASE T \ {x} = {}
    <3>1. \A y \in T : y <= x
      BY <2>2
    <3> QED BY <3>1, <1>1
  <2>3. CASE T \ {x} # {}
    <3>1. PICK m \in T \ {x} : \A y \in T \ {x} : y <= m
      BY <2>3, <1>1, <1>3
    <3>2. CASE x <= m
      <4>1. m \in T /\ \A y \in T : y <= m
        BY <3>1, <3>2
      <4> QED BY <4>1, <1>1
    <3>3. CASE ~(x <= m)
      <4>1. \A y \in T : y <= x
        BY <3>1, <3>3
      <4> QED BY <4>1, <1>1
    <3> QED BY <3>2, <3>3
  <2> QED BY <2>2, <2>3
<1>4. SUBSET S \subseteq G
  BY <1>2, <1>3, SubsetInduction
<1>5. PICK m \in S : \A x \in S : x <= m
  BY <1>4, <1>1
<1>6. \A x, y \in S : (x >= y) <=> (y <= x)
  OBVIOUS
<1> QED BY <1>5, <1>6 DEF Max

------------------------------------------------------------------------------
(* Scores.                                                                 *)

LEMMA ImagesAreFinite ==
    ASSUME NEW found, IsFiniteSet(found)
    PROVE  /\ IsFiniteSet(Categories(found))
           /\ IsFiniteSet({f.weight : f \in found})
           /\ IsFiniteSet({f.rule : f \in found})
           /\ \A c : IsFiniteSet(InCategory(found, c))
<1>1. ASSUME NEW h, DOMAIN h = found PROVE IsFiniteSet({h[x] : x \in found})
  <2>1. PICK T : T = {h[x] : x \in found}
    OBVIOUS
  <2>2. PICK k : k = [x \in found |-> h[x]]
    OBVIOUS
  <2>3. k \in Surjection(found, T)
    BY <2>1, <2>2 DEF Surjection
  <2> QED BY <2>1, <2>3, FS_Surjection
<1>2. IsFiniteSet(Categories(found))
  <2>1. PICK h : h = [f \in found |-> f.category]
    OBVIOUS
  <2>2. Categories(found) = {h[x] : x \in found}
    BY <2>1 DEF Categories
  <2> QED BY <1>1, <2>1, <2>2
<1>3. IsFiniteSet({f.weight : f \in found})
  <2>1. PICK h : h = [f \in found |-> f.weight]
    OBVIOUS
  <2>2. {f.weight : f \in found} = {h[x] : x \in found}
    BY <2>1
  <2> QED BY <1>1, <2>1, <2>2
<1>4. IsFiniteSet({f.rule : f \in found})
  <2>1. PICK h : h = [f \in found |-> f.rule]
    OBVIOUS
  <2>2. {f.rule : f \in found} = {h[x] : x \in found}
    BY <2>1
  <2> QED BY <1>1, <2>1, <2>2
<1>5. ASSUME NEW c PROVE IsFiniteSet(InCategory(found, c))
  <2>1. InCategory(found, c) \in SUBSET found
    BY DEF InCategory
  <2> QED BY <2>1, FS_Subset
<1> QED BY <1>2, <1>3, <1>4, <1>5

(* More findings in a category never lower its score: the sum and the      *)
(* largest weight both grow.                                               *)
LEMMA CategoryScoreGrows ==
    ASSUME NEW g, IsFiniteSet(g), \A x \in g : x.weight \in Nat, NEW f \in SUBSET g, f # {}
    PROVE  /\ CategoryScore(f) \in Nat /\ CategoryScore(g) \in Nat
           /\ CategoryScore(f) <= CategoryScore(g)
<1>1. ASSUME NEW h \in SUBSET g, h # {}
      PROVE  \E top, all \in Nat :
                /\ top = Max({x.weight : x \in h}) /\ all = SumFunction(Weight(h)) /\ top <= all
                /\ CategoryScore(h) = (6 * top + 4 * all + 5) \div 10
  <2>0. IsFiniteSet(h)
    BY FS_Subset
  <2>1. PICK top : top = Max({x.weight : x \in h})
    OBVIOUS
  <2>2. PICK all : all = SumFunction(Weight(h))
    OBVIOUS
  <2>3. top \in {x.weight : x \in h} 
    <3>1. {x.weight : x \in h} \subseteq Nat /\ {x.weight : x \in h} # {}
      BY <1>1
    <3> QED BY <2>0, <2>1, <3>1, MaxIsLargest, ImagesAreFinite
  <2>4. PICK x \in h : top = x.weight
    BY <2>3
  <2>5. DOMAIN Weight(h) = h /\ \A y \in h : Weight(h)[y] = y.weight /\ Weight(h)[y] \in Nat
    BY <1>1 DEF Weight
  <2>6. all \in Nat /\ top \in Nat /\ top <= all
    <3>1. SumFunction(Weight(h)) \in Nat
      BY <2>0, <2>5, TotalIsNat
    <3>2. Weight(h)[x] <= SumFunction(Weight(h))
      BY <2>0, <2>5, TotalOfTerm
    <3> QED BY <3>1, <3>2, <2>2, <2>4, <2>5
  <2>7. CategoryScore(h) = (10 * top + 4 * (all - top) + 5) \div 10
    BY <2>1, <2>2 DEF CategoryScore
  <2>8. 10 * top + 4 * (all - top) + 5 = 6 * top + 4 * all + 5
    BY <2>6
  <2> QED BY <2>1, <2>2, <2>6, <2>7, <2>8
<1>2. PICK top1, all1 \in Nat :
        /\ top1 = Max({x.weight : x \in f}) /\ all1 = SumFunction(Weight(f))
        /\ CategoryScore(f) = (6 * top1 + 4 * all1 + 5) \div 10
  BY <1>1
<1>3. PICK top2, all2 \in Nat :
        /\ top2 = Max({x.weight : x \in g}) /\ all2 = SumFunction(Weight(g))
        /\ CategoryScore(g) = (6 * top2 + 4 * all2 + 5) \div 10
  BY <1>1
<1>4. top1 <= top2
  <2>0. IsFiniteSet(f)
    BY FS_Subset
  <2>1. {x.weight : x \in f} \subseteq Nat /\ {x.weight : x \in f} # {}
    OBVIOUS
  <2>2. top1 \in {x.weight : x \in f}
    BY <2>0, <2>1, <1>2, MaxIsLargest, ImagesAreFinite
  <2>3. {x.weight : x \in g} \subseteq Nat /\ top1 \in {x.weight : x \in g}
    BY <2>2
  <2>4. {x.weight : x \in g} # {}
    BY <2>3
  <2>5. IsFiniteSet({x.weight : x \in g})
    BY ImagesAreFinite
  <2> QED BY <2>3, <2>4, <2>5, <1>3, MaxIsLargest
<1>5. all1 <= all2
  <2>1. DOMAIN Weight(f) = f /\ DOMAIN Weight(g) = g
    BY DEF Weight
  <2>2. \A x \in g : Weight(g)[x] \in Nat
    BY DEF Weight
  <2>3. \A x \in f : Weight(f)[x] \in Nat /\ Weight(f)[x] <= Weight(g)[x]
    BY DEF Weight
  <2>4. SumFunction(Weight(f)) <= SumFunction(Weight(g))
    BY <2>1, <2>2, <2>3, TotalGrows
  <2> QED BY <2>4, <1>2, <1>3
<1>6. \A a, b \in Nat : a <= b => a \div 10 \in Nat /\ b \div 10 \in Nat /\ a \div 10 <= b \div 10
  OBVIOUS
<1>7. PICK a, b : a = 6 * top1 + 4 * all1 + 5 /\ b = 6 * top2 + 4 * all2 + 5
  OBVIOUS
<1>8. a \in Nat /\ b \in Nat /\ a <= b
  BY <1>4, <1>5, <1>7
<1> QED BY <1>2, <1>3, <1>6, <1>7, <1>8

(* More findings fire more combinations.                                   *)
LEMMA FiredGrows ==
    ASSUME NEW combos, \A c \in combos : c.min \in Nat /\ c.rules \in Nat,
           NEW g, IsFiniteSet(g), NEW f \in SUBSET g
    PROVE  Fired(combos, f) \subseteq Fired(combos, g)
<1> SUFFICES ASSUME NEW c \in Fired(combos, f) PROVE c \in Fired(combos, g)
  OBVIOUS
<1>1. PICK a, b : a = c.categories \cap Categories(f) /\ b = c.categories \cap Categories(g)
  OBVIOUS
<1>2. Cardinality(a) \in Nat /\ Cardinality(b) \in Nat /\ Cardinality(a) <= Cardinality(b)
  <2>1. a \subseteq b /\ b \subseteq Categories(g)
    BY <1>1 DEF Categories
  <2>2. IsFiniteSet(b)
    BY <2>1, ImagesAreFinite, FS_Subset
  <2> QED BY <2>1, <2>2, FS_Subset, FS_CardinalityType
<1>3. PICK s, t : /\ s = {x.rule : x \in {y \in f : y.category \in c.categories}}
                  /\ t = {x.rule : x \in {y \in g : y.category \in c.categories}}
  OBVIOUS
<1>4. Cardinality(s) \in Nat /\ Cardinality(t) \in Nat /\ Cardinality(s) <= Cardinality(t)
  <2>1. s \subseteq t /\ t \subseteq {x.rule : x \in g}
    BY <1>3
  <2>2. IsFiniteSet(t)
    BY <2>1, ImagesAreFinite, FS_Subset
  <2> QED BY <2>1, <2>2, FS_Subset, FS_CardinalityType
<1>5. c \in combos /\ Cardinality(a) >= c.min /\ Cardinality(s) >= c.rules
  BY <1>1, <1>3 DEF Fired
<1>6. Cardinality(b) >= c.min /\ Cardinality(t) >= c.rules
  BY <1>2, <1>4, <1>5
<1> QED BY <1>1, <1>3, <1>5, <1>6 DEF Fired

(* More combinations add more bonus.                                       *)
LEMMA BonusGrows ==
    ASSUME NEW combos, IsFiniteSet(combos), \A c \in combos : c.bonus \in Nat,
           NEW few \in SUBSET combos
    PROVE  /\ SumFunction(Bonus(few)) \in Nat /\ SumFunction(Bonus(combos)) \in Nat
           /\ SumFunction(Bonus(few)) <= SumFunction(Bonus(combos))
<1>0. IsFiniteSet(few)
  BY FS_Subset
<1>1. DOMAIN Bonus(few) = few /\ DOMAIN Bonus(combos) = combos
  BY DEF Bonus
<1>2. \A c \in combos : Bonus(combos)[c] \in Nat
  BY DEF Bonus
<1>3. \A c \in few : Bonus(few)[c] \in Nat /\ Bonus(few)[c] <= Bonus(combos)[c]
  BY DEF Bonus
<1>4. SumFunction(Bonus(few)) <= SumFunction(Bonus(combos))
  BY <1>1, <1>2, <1>3, TotalGrows
<1>5. SumFunction(Bonus(few)) \in Nat
  BY <1>0, <1>1, <1>3, TotalIsNat
<1>6. SumFunction(Bonus(combos)) \in Nat
  BY <1>1, <1>2, TotalIsNat
<1> QED BY <1>4, <1>5, <1>6

(* More findings never lower the penalty of a file.                        *)
LEMMA PenaltyGrows ==
    ASSUME NEW combos, IsFiniteSet(combos),
           \A c \in combos : c.min \in Nat /\ c.rules \in Nat /\ c.bonus \in Nat,
           NEW g, IsFiniteSet(g), \A x \in g : x.weight \in Nat, NEW f \in SUBSET g
    PROVE  /\ Penalty(f, combos) \in Nat /\ Penalty(g, combos) \in Nat
           /\ Penalty(f, combos) <= Penalty(g, combos)
<1>0. IsFiniteSet(f)
  BY FS_Subset
<1>1. PICK v, w : /\ v = [c \in Categories(f) |-> CategoryScore(InCategory(f, c))]
                  /\ w = [c \in Categories(g) |-> CategoryScore(InCategory(g, c))]
  OBVIOUS
<1>2. /\ DOMAIN v = Categories(f) /\ DOMAIN w = Categories(g) /\ Categories(f) \subseteq Categories(g)
      /\ IsFiniteSet(DOMAIN v) /\ IsFiniteSet(DOMAIN w)
  <2>1. Categories(f) \subseteq Categories(g)
    BY DEF Categories
  <2> QED BY <2>1, <1>0, <1>1, ImagesAreFinite
<1>3. ASSUME NEW c \in Categories(g) PROVE w[c] \in Nat
  <2>1. InCategory(g, c) # {} /\ InCategory(g, c) \subseteq g
    BY DEF Categories, InCategory
  <2>2. CategoryScore(InCategory(g, c)) \in Nat
    BY <2>1, ImagesAreFinite, CategoryScoreGrows
  <2> QED BY <2>2, <1>1
<1>4. ASSUME NEW c \in Categories(f) PROVE v[c] \in Nat /\ v[c] <= w[c]
  <2>1. /\ InCategory(f, c) # {} /\ InCategory(f, c) \in SUBSET InCategory(g, c)
        /\ InCategory(g, c) \subseteq g
    BY DEF Categories, InCategory
  <2>2. /\ CategoryScore(InCategory(f, c)) \in Nat
        /\ CategoryScore(InCategory(f, c)) <= CategoryScore(InCategory(g, c))
    BY <2>1, ImagesAreFinite, CategoryScoreGrows
  <2> QED BY <2>2, <1>1, <1>2
<1>5. SumFunction(v) \in Nat /\ SumFunction(w) \in Nat /\ SumFunction(v) <= SumFunction(w)
  <2>1. SumFunction(v) \in Nat
    BY <1>2, <1>4, TotalIsNat
  <2>2. SumFunction(w) \in Nat
    BY <1>2, <1>3, TotalIsNat
  <2>3. SumFunction(v) <= SumFunction(w)
    BY <1>2, <1>3, <1>4, TotalGrows
  <2> QED BY <2>1, <2>2, <2>3
<1>6. PICK m, n : m = SumFunction(Bonus(Fired(combos, f))) /\ n = SumFunction(Bonus(Fired(combos, g)))
  OBVIOUS
<1>7. m \in Nat /\ n \in Nat /\ m <= n
  <2>0. Fired(combos, g) \subseteq combos
    BY DEF Fired
  <2>1. Fired(combos, f) \in SUBSET Fired(combos, g) /\ Fired(combos, g) \subseteq combos
    BY <2>0, FiredGrows
  <2>2. IsFiniteSet(Fired(combos, g)) /\ \A c \in Fired(combos, g) : c.bonus \in Nat
    BY <2>1, FS_Subset
  <2> QED BY <2>1, <2>2, <1>6, BonusGrows
<1>8. Penalty(f, combos) = SumFunction(v) + m /\ Penalty(g, combos) = SumFunction(w) + n
  BY <1>1, <1>6 DEF Penalty
<1> QED BY <1>5, <1>7, <1>8

------------------------------------------------------------------------------
(* Verdicts.                                                               *)


Graded == {"safe", "inconclusive", "suspicious", "malicious"}

(* A floor raises a verdict to a verdict.                                  *)
LEMMA RaisedIsGraded ==
    ASSUME NEW verdict \in Graded, NEW combos,
           \A c \in combos : c.floor \in {"safe", "suspicious", "malicious"}
    PROVE  Raised(verdict, combos) \in Graded
<1>1. PICK floors : floors = {c.floor : c \in combos} \cup {verdict}
  OBVIOUS
<1>2. floors \subseteq Graded /\ verdict \in floors
  BY <1>1 DEF Graded
<1>3. \A v \in Graded : Rank[v] = IF v = "safe" THEN 0 ELSE IF v = "inconclusive" THEN 1
                                  ELSE IF v = "suspicious" THEN 2 ELSE 3
  BY DEF Graded, Rank
<1>4. \E v \in floors : \A w \in floors : Rank[w] <= Rank[v]
  <2>1. CASE "malicious" \in floors
    BY <1>2, <1>3, <2>1 DEF Graded
  <2>2. CASE "malicious" \notin floors /\ "suspicious" \in floors
    BY <1>2, <1>3, <2>2 DEF Graded
  <2>3. CASE "malicious" \notin floors /\ "suspicious" \notin floors /\ "inconclusive" \in floors
    BY <1>2, <1>3, <2>3 DEF Graded
  <2>4. CASE floors = {"safe"}
    BY <1>2, <1>3, <2>4 DEF Graded
  <2> QED BY <1>2, <2>1, <2>2, <2>3, <2>4 DEF Graded
<1>5. Raised(verdict, combos) \in floors
  <2>1. Raised(verdict, combos) = CHOOSE v \in floors : \A w \in floors : Rank[w] <= Rank[v]
    BY <1>1 DEF Raised
  <2> QED BY <1>4, <2>1
<1> QED BY <1>2, <1>5

(* A score gives a verdict.                                                *)
LEMMA ScoresAreGraded ==
    ASSUME NEW penalty, NEW safeAt
    PROVE  FromScore(penalty, safeAt) \in Graded
BY DEF FromScore, Graded

(* A script gets a verdict.                                                *)
LEMMA ScriptVerdictsAreGraded ==
    ASSUME NEW found
    PROVE  ScriptVerdict(found) \in Graded
<1>1. \A c \in Fired(ScriptCombos, Weighty(found)) : c.floor \in {"safe", "suspicious", "malicious"}
  BY VerdictAssumption DEF Fired
<1> QED BY <1>1, ScoresAreGraded, RaisedIsGraded DEF ScriptVerdict

(* What MultiLayerSecurity makes of an engine result: it takes no          *)
(* detection back, and it adds no trust.                                   *)
LEMMA GatesKeepTheVerdict ==
    ASSUME NEW r
    PROVE  /\ MultiLayer(r) \in Graded
           /\ r.verdict = "malicious" => MultiLayer(r) = "malicious"
           /\ MultiLayer(r) = "safe" => r.verdict = "safe" /\ r.status = "official"
<1>1. PICK g : g = Gates(r)
  OBVIOUS
<1>2. MultiLayer(r) = Decide(r, g)
  BY <1>1 DEF MultiLayer
<1>3. Decide(r, g) \in Graded
  BY DEF Decide, Graded
<1>4. r.verdict = "malicious" => "FAIL" \in {g.reputation, g.rule_evidence, g.static_correlation}
  BY <1>1 DEF Gates
<1>5. r.status # "official" => g.anomaly_uncertainty = "INCONCLUSIVE"
  BY <1>1 DEF Gates
<1>6. r.verdict = "malicious" => Decide(r, g) = "malicious"
  <2>1. {"rule_evidence", "static_correlation"} \subseteq DOMAIN g
    BY <1>1 DEF Gates
  <2>2. "FAIL" \in {g.rule_evidence, g.static_correlation} => "FAIL" \in Results(g)
    BY <2>1 DEF Results
  <2>3. "FAIL" \in {g.reputation, g.rule_evidence, g.static_correlation} => ~RecheckRequired(g)
    BY <2>2 DEF RecheckRequired
  <2> QED BY <1>4, <2>3 DEF Decide
<1>7. Decide(r, g) = "safe" => r.verdict = "safe" /\ g.anomaly_uncertainty # "INCONCLUSIVE"
  BY DEF Decide
<1> QED BY <1>2, <1>3, <1>5, <1>6, <1>7


(* The verdicts a score or a combination can give.                         *)
Grades == {"safe", "suspicious", "malicious"}

(* The order of the verdicts.                                              *)
LEMMA Ranks ==
    /\ Rank["safe"] = 0 /\ Rank["inconclusive"] = 1
    /\ Rank["suspicious"] = 2 /\ Rank["malicious"] = 3
    /\ \A v \in Graded : Rank[v] \in 0 .. 3
BY DEF Rank, Graded

(* The engine's verdict is one of three, and it grows with the score and   *)
(* with the combinations that fire.                                        *)
LEMMA RaisedIsLargest ==
    ASSUME NEW verdict \in Grades, NEW combos, \A c \in combos : c.floor \in Grades
    PROVE  /\ Raised(verdict, combos) \in {c.floor : c \in combos} \cup {verdict}
           /\ Raised(verdict, combos) \in Grades
           /\ \A v \in {c.floor : c \in combos} \cup {verdict} :
                 Rank[v] <= Rank[Raised(verdict, combos)]
<1>1. PICK floors : floors = {c.floor : c \in combos} \cup {verdict}
  OBVIOUS
<1>2. floors \subseteq Grades /\ verdict \in floors
  BY <1>1
<1>3. \E v \in floors : \A w \in floors : Rank[w] <= Rank[v]
  <2>1. CASE "malicious" \in floors
    BY <1>2, <2>1, Ranks DEF Grades
  <2>2. CASE "malicious" \notin floors /\ "suspicious" \in floors
    BY <1>2, <2>2, Ranks DEF Grades
  <2>3. CASE "malicious" \notin floors /\ "suspicious" \notin floors
    BY <1>2, <2>3, Ranks DEF Grades
  <2> QED BY <2>1, <2>2, <2>3
<1>4. Raised(verdict, combos) = CHOOSE v \in floors : \A w \in floors : Rank[w] <= Rank[v]
  BY <1>1 DEF Raised
<1>5. Raised(verdict, combos) \in floors /\ \A w \in floors : Rank[w] <= Rank[Raised(verdict, combos)]
  BY <1>3, <1>4
<1> QED BY <1>1, <1>2, <1>5

(* More combinations and a more severe score give no milder verdict.       *)
LEMMA RaisedGrows ==
    ASSUME NEW v \in Grades, NEW w \in Grades, Rank[v] <= Rank[w],
           NEW combos, \A c \in combos : c.floor \in Grades, NEW few \in SUBSET combos
    PROVE  Rank[Raised(v, few)] <= Rank[Raised(w, combos)]
<1>1. PICK r : r = Raised(v, few)
  OBVIOUS
<1>2. PICK q : q = Raised(w, combos)
  OBVIOUS
<1>3. r \in {c.floor : c \in few} \cup {v} /\ r \in Grades
  BY <1>1, RaisedIsLargest
<1>4. q \in Grades /\ \A u \in {c.floor : c \in combos} \cup {w} : Rank[u] <= Rank[q]
  BY <1>2, RaisedIsLargest
<1>5. CASE r \in {c.floor : c \in few}
  BY <1>1, <1>2, <1>4, <1>5
<1>6. CASE r = v
  <2>1. Rank[v] \in Int /\ Rank[w] \in Int /\ Rank[q] \in Int /\ Rank[w] <= Rank[q]
    BY <1>4, Ranks DEF Grades, Graded
  <2> QED BY <1>1, <1>2, <1>6, <2>1
<1> QED BY <1>3, <1>5, <1>6

(* A higher penalty gives no milder verdict.                               *)
LEMMA ScoresGrow ==
    ASSUME NEW a \in Nat, NEW b \in Nat, a <= b, NEW safeAt \in {80, 85}
    PROVE  /\ FromScore(a, safeAt) \in Grades /\ FromScore(b, safeAt) \in Grades
           /\ Rank[FromScore(a, safeAt)] <= Rank[FromScore(b, safeAt)]
<1>1. ASSUME NEW x \in Nat
      PROVE  FromScore(x, safeAt) = IF x + safeAt <= 100 THEN "safe"
                                    ELSE IF x <= 50 THEN "suspicious" ELSE "malicious"
  <2>1. CASE x + safeAt <= 100
    BY <2>1 DEF FromScore
  <2>2. CASE x + safeAt > 100 /\ x <= 50
    BY <2>2 DEF FromScore
  <2>3. CASE ~(x + safeAt <= 100) /\ ~(x + safeAt > 100 /\ x <= 50)
    BY <2>3 DEF FromScore
  <2> QED BY <2>1, <2>2, <2>3
<1>2. PICK v, w : v = FromScore(a, safeAt) /\ w = FromScore(b, safeAt)
  OBVIOUS
<1>3. /\ v = IF a + safeAt <= 100 THEN "safe" ELSE IF a <= 50 THEN "suspicious" ELSE "malicious"
      /\ w = IF b + safeAt <= 100 THEN "safe" ELSE IF b <= 50 THEN "suspicious" ELSE "malicious"
  BY <1>1, <1>2
<1>4. v \in Grades /\ w \in Grades
  BY <1>3 DEF Grades
<1>5. CASE v = "safe"
  BY <1>2, <1>4, <1>5, Ranks DEF Grades
<1>6. CASE v # "safe"
  <2>1. ~(a + safeAt <= 100) /\ ~(b + safeAt <= 100)
    BY <1>3, <1>6
  <2>2. w = "malicious" \/ (v = "suspicious" /\ w = "suspicious")
    <3>1. CASE a <= 50
      BY <1>3, <2>1, <3>1
    <3>2. CASE ~(a <= 50)
      <4>1. ~(b <= 50)
        BY <3>2
      <4> QED BY <1>3, <2>1, <4>1
    <3> QED BY <3>1, <3>2
  <2> QED BY <1>2, <1>4, <2>2, Ranks DEF Grades
<1> QED BY <1>2, <1>4, <1>5, <1>6

(* More evidence gives no less confidence.                                 *)
LEMMA ConfidenceGrows ==
    ASSUME NEW g, IsFiniteSet(g), NEW f \in SUBSET g, NEW combos, NEW few \in SUBSET combos,
           Confidence(f, few) # "low"
    PROVE  Confidence(g, combos) # "low"
<1>1. PICK a, b : /\ a = Categories(f) \ {"metadata_anomaly"}
                  /\ b = Categories(g) \ {"metadata_anomaly"}
  OBVIOUS
<1>2. a \subseteq b /\ b \subseteq Categories(g)
  BY <1>1 DEF Categories
<1>3. Cardinality(a) \in Nat /\ Cardinality(b) \in Nat /\ Cardinality(a) <= Cardinality(b)
  <2>1. IsFiniteSet(b)
    BY <1>2, ImagesAreFinite, FS_Subset
  <2> QED BY <1>2, <2>1, FS_Subset, FS_CardinalityType
<1>4. Blacklisted \in f \/ few # {} \/ Cardinality(a) >= 2 \/ Strong(f) # {}
  BY <1>1, <1>3 DEF Confidence
<1>5. Blacklisted \in g \/ combos # {} \/ Cardinality(b) >= 2 \/ Strong(g) # {}
  BY <1>3, <1>4 DEF Strong
<1>6. CASE Blacklisted \in g \/ combos # {} \/ Cardinality(b) >= 3
  BY <1>1, <1>6 DEF Confidence
<1>7. CASE ~(Blacklisted \in g \/ combos # {} \/ Cardinality(b) >= 3)
  <2>1. Blacklisted \notin g /\ combos = {} /\ Cardinality(b) < 3
        /\ (Cardinality(b) = 2 \/ Strong(g) # {})
    BY <1>3, <1>5, <1>7
  <2> QED BY <1>1, <1>7, <2>1 DEF Confidence
<1> QED BY <1>6, <1>7

(* What the engine makes of a plugin it can parse.                         *)
LEMMA ParsedResult ==
    ASSUME NEW found, NEW reputation, NEW status,
           NEW r, r = EngineResult(found, "pe", reputation, status),
           NEW e, e = Evidence(found, reputation)
    PROVE  /\ r.verdict = Raised(Scored(e, reputation), Fired(Combos, e))
           /\ r.evidence = e /\ r.confidence = Confidence(e, Fired(Combos, e))
           /\ r.reputation = reputation /\ r.status = status /\ r.error = "none"
           /\ r.hashed /\ r.pe
           /\ r.floor => r.verdict # Scored(e, reputation)
<1>1. PICK combos, scored, raised : /\ combos = Fired(Combos, e) /\ scored = Scored(e, reputation)
                                    /\ raised = Raised(scored, combos)
  OBVIOUS
<1>2. PICK confidence : confidence = Confidence(e, combos)
  OBVIOUS
<1>3. r = [verdict |-> raised, evidence |-> e, confidence |-> confidence, hashed |-> TRUE,
           pe |-> TRUE, floor |-> raised # scored, reputation |-> reputation,
           status |-> status, error |-> "none"]
  BY <1>1, <1>2 DEF EngineResult
<1>4. /\ r.verdict = raised /\ r.evidence = e /\ r.confidence = confidence
      /\ r.reputation = reputation /\ r.status = status /\ r.error = "none"
  BY <1>3
<1>5. r.hashed = TRUE /\ r.pe = TRUE
  BY <1>3
<1>6. r.floor = (raised # scored)
  BY <1>3
<1> QED BY <1>1, <1>2, <1>4, <1>5, <1>6

(* The evidence is finite and has weights.                                 *)
LEMMA EvidenceIsFinite ==
    ASSUME NEW found \in SUBSET Findings, NEW reputation
    PROVE  /\ IsFiniteSet(Evidence(found, reputation))
           /\ \A x \in Evidence(found, reputation) : x.weight \in Nat
<1>1. IsFiniteSet(found) /\ \A x \in found : x.weight \in Nat
  BY VerdictAssumption, FS_Subset
<1>2. Blacklisted.weight \in Nat
  BY DEF Blacklisted
<1>3. Evidence(found, reputation) \in {found, found \cup {Blacklisted}}
  BY DEF Evidence
<1>4. IsFiniteSet(found \cup {Blacklisted})
  BY <1>1, FS_AddElement
<1> QED BY <1>1, <1>2, <1>3, <1>4

(* The bounds, bonuses and floors of the combinations.                     *)
LEMMA CombosAreSound ==
    \A c \in Combos : c.min \in Nat /\ c.rules \in Nat /\ c.bonus \in Nat /\ c.floor \in Grades
BY VerdictAssumption DEF Grades

(* More findings: more evidence, no milder verdict, no less confidence.    *)
Grown(r, q) ==
    /\ r.verdict \in Grades /\ q.verdict \in Grades
    /\ Rank[r.verdict] <= Rank[q.verdict]
    /\ r.evidence \subseteq q.evidence
    /\ r.confidence # "low" => q.confidence # "low"
    /\ r.floor => r.verdict # "safe"
    /\ q.floor => q.verdict # "safe"

LEMMA ResultGrows ==
    ASSUME NEW more \in SUBSET Findings, NEW few \in SUBSET more, NEW reputation, NEW status,
           NEW r, r = EngineResult(few, "pe", reputation, status),
           NEW q, q = EngineResult(more, "pe", reputation, status)
    PROVE  Grown(r, q)
<1>1. PICK e, g : e = Evidence(few, reputation) /\ g = Evidence(more, reputation)
  OBVIOUS
<1>2. e \in SUBSET g /\ IsFiniteSet(g) /\ (\A x \in g : x.weight \in Nat)
  <2>1. e \subseteq g
    BY <1>1 DEF Evidence
  <2>2. IsFiniteSet(g) /\ \A x \in g : x.weight \in Nat
    BY <1>1, EvidenceIsFinite
  <2> QED BY <2>1, <2>2
<1>3. PICK a, b : a = Fired(Combos, e) /\ b = Fired(Combos, g)
  OBVIOUS
<1>4. a \in SUBSET b /\ (\A c \in a : c.floor \in Grades) /\ (\A c \in b : c.floor \in Grades)
  <2>1. Fired(Combos, e) \subseteq Fired(Combos, g)
    BY <1>2, CombosAreSound, FiredGrows
  <2>2. Fired(Combos, g) \subseteq Combos
    BY DEF Fired
  <2> QED BY <2>1, <2>2, CombosAreSound, <1>3
<1>5. PICK v, w : v = Scored(e, reputation) /\ w = Scored(g, reputation)
  OBVIOUS
<1>6. v \in Grades /\ w \in Grades /\ Rank[v] <= Rank[w]
  <2>1. PICK m, n : m = Penalty(e, Combos) /\ n = Penalty(g, Combos)
    OBVIOUS
  <2>2. m \in Nat /\ n \in Nat /\ m <= n
    BY <2>1, <1>2, CombosAreSound, VerdictAssumption, PenaltyGrows
  <2>3. /\ FromScore(m, 80) \in Grades /\ FromScore(n, 80) \in Grades
        /\ Rank[FromScore(m, 80)] <= Rank[FromScore(n, 80)]
    BY <2>2, ScoresGrow
  <2>4. CASE reputation = "found"
    BY <2>4, <1>5, Ranks DEF Grades, Scored
  <2>5. CASE reputation # "found"
    BY <2>1, <2>3, <2>5, <1>5 DEF Scored
  <2> QED BY <2>4, <2>5
<1>7. /\ r.verdict = Raised(v, a) /\ q.verdict = Raised(w, b) /\ r.evidence = e /\ q.evidence = g
      /\ r.confidence = Confidence(e, a) /\ q.confidence = Confidence(g, b)
      /\ r.floor => r.verdict # v
      /\ q.floor => q.verdict # w
  <2>1. /\ r.verdict = Raised(v, a) /\ r.evidence = e /\ r.confidence = Confidence(e, a)
        /\ r.floor => r.verdict # v
    BY <1>1, <1>3, <1>5, ParsedResult
  <2>2. /\ q.verdict = Raised(w, b) /\ q.evidence = g /\ q.confidence = Confidence(g, b)
        /\ q.floor => q.verdict # w
    BY <1>1, <1>3, <1>5, ParsedResult
  <2> QED BY <2>1, <2>2
<1>8. Rank[r.verdict] <= Rank[q.verdict]
  BY <1>4, <1>6, <1>7, RaisedGrows
<1>9. r.confidence # "low" => q.confidence # "low"
  BY <1>2, <1>4, <1>7, ConfidenceGrows
<1>10. /\ r.verdict \in Grades /\ Rank[v] <= Rank[r.verdict]
       /\ q.verdict \in Grades /\ Rank[w] <= Rank[q.verdict]
  BY <1>4, <1>6, <1>7, RaisedIsLargest
<1>11. (r.floor => r.verdict # "safe") /\ (q.floor => q.verdict # "safe")
  <2>1. \A x, y \in Grades : Rank[x] <= Rank[y] /\ x # y => y # "safe"
    BY Ranks DEF Grades
  <2> QED BY <2>1, <1>6, <1>7, <1>10
<1> QED BY <1>2, <1>7, <1>8, <1>9, <1>10, <1>11 DEF Grown


(* What the gates see in a file that is not malicious.                     *)
Doubtful(r) == r.verdict = "suspicious" \/ Strong(Static(r)) # {}
Unsure(r) == r.reputation # "not_found" \/ r.status # "official"

(* What the gates make of a file that is neither malicious nor             *)
(* blacklisted.                                                            *)
LEMMA CleanGates ==
    ASSUME NEW r, r.error = "none", r.hashed, r.pe, r.verdict \in {"safe", "suspicious"},
           Blacklisted \notin r.evidence, r.floor => r.verdict # "safe"
    PROVE  MultiLayer(r) = IF Doubtful(r)
                           THEN IF Unsure(r) /\ ~LeansSuspicious(r) THEN "inconclusive"
                                ELSE "suspicious"
                           ELSE IF r.status # "official" THEN "inconclusive" ELSE "safe"
<1>1. PICK g : g = Gates(r)
  OBVIOUS
<1>2. /\ g.file_integrity = "PASS" /\ g.pe_structure = "PASS"
      /\ g.rule_evidence = IF Doubtful(r) THEN "SUSPICIOUS" ELSE "PASS"
      /\ g.reputation = IF r.reputation = "not_found" THEN "PASS" ELSE "INCONCLUSIVE"
      /\ g.static_correlation = IF r.floor THEN "SUSPICIOUS" ELSE "PASS"
      /\ g.anomaly_uncertainty = IF r.status # "official" THEN "INCONCLUSIVE"
                                 ELSE IF r.confidence = "low" /\ r.verdict # "safe"
                                 THEN "SUSPICIOUS" ELSE "PASS"
  <2>1. g.file_integrity = "PASS" /\ g.pe_structure = "PASS"
    BY <1>1 DEF Gates
  <2>2. g.rule_evidence = IF Doubtful(r) THEN "SUSPICIOUS" ELSE "PASS"
    BY <1>1 DEF Gates, Doubtful
  <2>3. g.reputation = IF r.reputation = "not_found" THEN "PASS" ELSE "INCONCLUSIVE"
    BY <1>1 DEF Gates
  <2>4. g.static_correlation = IF r.floor THEN "SUSPICIOUS" ELSE "PASS"
    BY <1>1 DEF Gates
  <2>5. g.anomaly_uncertainty = IF r.status # "official" THEN "INCONCLUSIVE"
                                ELSE IF r.confidence = "low" /\ r.verdict # "safe"
                                THEN "SUSPICIOUS" ELSE "PASS"
    BY <1>1 DEF Gates
  <2> QED BY <2>1, <2>2, <2>3, <2>4, <2>5
<1>3. Results(g) = {g.file_integrity, g.pe_structure, g.rule_evidence, g.reputation,
                    g.static_correlation, g.anomaly_uncertainty}
  <2>1. DOMAIN g = {"file_integrity", "pe_structure", "rule_evidence", "reputation",
                    "static_correlation", "anomaly_uncertainty"}
    BY <1>1 DEF Gates
  <2> QED BY <2>1 DEF Results
<1>4. r.floor => r.verdict = "suspicious"
  OBVIOUS
<1>5. "FAIL" \notin Results(g) /\ g.reputation # "FAIL"
      /\ "FAIL" \notin {g.reputation, g.rule_evidence, g.static_correlation}
  BY <1>2, <1>3
<1>6. "SUSPICIOUS" \in Results(g) <=> Doubtful(r)
  BY <1>2, <1>3, <1>4 DEF Doubtful
<1>7. "INCONCLUSIVE" \in Results(g) <=> Unsure(r)
  BY <1>2, <1>3 DEF Unsure
<1>8. RecheckRequired(g) <=> Doubtful(r) /\ Unsure(r)
  BY <1>5, <1>6, <1>7 DEF RecheckRequired
<1>9. MultiLayer(r) = Decide(r, g)
  BY <1>1 DEF MultiLayer
<1>10. CASE RecheckRequired(g)
  <2>1. Decide(r, g) = IF LeansSuspicious(r) THEN "suspicious" ELSE "inconclusive"
    BY <1>5, <1>10 DEF Decide
  <2> QED BY <1>8, <1>9, <1>10, <2>1
<1>11. CASE ~RecheckRequired(g)
  <2>1. Decide(r, g) = IF "SUSPICIOUS" \in Results(g) \/ r.verdict = "suspicious" THEN "suspicious"
                       ELSE IF r.verdict # "safe" \/ g.anomaly_uncertainty = "INCONCLUSIVE"
                       THEN "inconclusive" ELSE "safe"
    BY <1>5, <1>11 DEF Decide
  <2>2. CASE Doubtful(r)
    BY <1>6, <1>8, <1>9, <1>11, <2>1, <2>2
  <2>3. CASE ~Doubtful(r)
    <3>1. r.verdict = "safe"
      BY <2>3 DEF Doubtful
    <3>2. g.anomaly_uncertainty = "INCONCLUSIVE" <=> r.status # "official"
      BY <1>2, <3>1
    <3> QED BY <1>6, <1>9, <2>1, <2>3, <3>1, <3>2
  <2> QED BY <2>2, <2>3
<1> QED BY <1>10, <1>11

(* A blacklisted file is malicious for the gates.                          *)
LEMMA BlacklistedFails ==
    ASSUME NEW r, Blacklisted \in r.evidence
    PROVE  MultiLayer(r) = "malicious"
<1>1. PICK g : g = Gates(r)
  OBVIOUS
<1>2. g.reputation = "FAIL"
  BY <1>1 DEF Gates
<1>3. "FAIL" \in {g.reputation, g.rule_evidence, g.static_correlation} /\ ~RecheckRequired(g)
  BY <1>2 DEF RecheckRequired
<1> QED BY <1>1, <1>3 DEF MultiLayer, Decide

(* What a file's analysis makes of more findings, in both modes.           *)
LEMMA VerdictGrows ==
    ASSUME NEW more \in SUBSET Findings, NEW few \in SUBSET more,
           NEW reputation, NEW status, status \in Statuses,
           NEW r, r = EngineResult(few, "pe", reputation, status),
           NEW q, q = EngineResult(more, "pe", reputation, status)
    PROVE  /\ Rank[FreeVerdict(r)] <= Rank[FreeVerdict(q)]
           /\ Rank[ProVerdict(r)] <= Rank[ProVerdict(q)]
<1>1. /\ r.verdict \in Grades /\ q.verdict \in Grades
      /\ Rank[r.verdict] <= Rank[q.verdict]
      /\ r.evidence \subseteq q.evidence
      /\ r.confidence # "low" => q.confidence # "low"
      /\ r.floor => r.verdict # "safe"
      /\ q.floor => q.verdict # "safe"
  <2>1. Grown(r, q)
    BY ResultGrows
  <2> QED BY <2>1 DEF Grown
<1>2. /\ r.reputation = reputation /\ r.status = status /\ r.error = "none" /\ r.hashed /\ r.pe
      /\ q.reputation = reputation /\ q.status = status /\ q.error = "none" /\ q.hashed /\ q.pe
  <2>1. /\ r.reputation = reputation /\ r.status = status /\ r.error = "none" /\ r.hashed /\ r.pe
    BY ParsedResult
  <2>2. /\ q.reputation = reputation /\ q.status = status /\ q.error = "none" /\ q.hashed /\ q.pe
    BY ParsedResult
  <2> QED BY <2>1, <2>2
<1>3. ResultAccepted(r) /\ ResultAccepted(q)
  BY <1>2 DEF ResultAccepted, Statuses
<1>4. ProVerdict(r) = MultiLayer(r) /\ ProVerdict(q) = MultiLayer(q)
  BY <1>2, <1>3 DEF ProVerdict
<1>5. /\ FreeVerdict(r) = IF status # "official" /\ r.verdict = "safe" THEN "inconclusive" ELSE r.verdict
      /\ FreeVerdict(q) = IF status # "official" /\ q.verdict = "safe" THEN "inconclusive" ELSE q.verdict
  BY <1>2, <1>3 DEF FreeVerdict
<1>6. Rank[FreeVerdict(r)] <= Rank[FreeVerdict(q)]
  BY <1>1, <1>5, Ranks DEF Grades
<1>7. CASE q.verdict = "malicious" \/ Blacklisted \in q.evidence
  <2>1. MultiLayer(q) = "malicious"
    BY <1>7, GatesKeepTheVerdict, BlacklistedFails
  <2>2. MultiLayer(r) \in Graded
    BY GatesKeepTheVerdict
  <2> QED BY <1>4, <1>6, <2>1, <2>2, Ranks DEF Graded
<1>8. CASE ~(q.verdict = "malicious" \/ Blacklisted \in q.evidence)
  <2>1. /\ q.verdict \in {"safe", "suspicious"} /\ r.verdict \in {"safe", "suspicious"}
        /\ Blacklisted \notin q.evidence /\ Blacklisted \notin r.evidence
        /\ r.verdict = "suspicious" => q.verdict = "suspicious"
    BY <1>1, <1>8, Ranks DEF Grades
  <2>2. MultiLayer(r) = IF Doubtful(r)
                        THEN IF Unsure(r) /\ ~LeansSuspicious(r) THEN "inconclusive" ELSE "suspicious"
                        ELSE IF status # "official" THEN "inconclusive" ELSE "safe"
    BY <1>1, <1>2, <2>1, CleanGates
  <2>3. MultiLayer(q) = IF Doubtful(q)
                        THEN IF Unsure(q) /\ ~LeansSuspicious(q) THEN "inconclusive" ELSE "suspicious"
                        ELSE IF status # "official" THEN "inconclusive" ELSE "safe"
    BY <1>1, <1>2, <2>1, CleanGates
  <2>4. Strong(Static(r)) \subseteq Strong(Static(q))
    BY <1>1 DEF Strong, Static
  <2>5. Doubtful(r) => Doubtful(q)
    BY <2>1, <2>4 DEF Doubtful
  <2>6. Unsure(r) <=> Unsure(q)
    BY <1>2 DEF Unsure
  <2>7. LeansSuspicious(r) => LeansSuspicious(q)
    BY <1>1, <2>4 DEF LeansSuspicious
  <2>8. Rank[MultiLayer(r)] <= Rank[MultiLayer(q)]
    <3>1. CASE ~Doubtful(q)
      BY <2>2, <2>3, <2>5, <3>1, Ranks
    <3>2. CASE Doubtful(q) /\ MultiLayer(q) = "suspicious"
      BY <2>2, <3>2, Ranks
    <3>3. CASE Doubtful(q) /\ MultiLayer(q) = "inconclusive"
      <4>1. Unsure(q) /\ ~LeansSuspicious(q)
        BY <2>3, <3>3
      <4>2. MultiLayer(r) # "suspicious"
        BY <4>1, <2>2, <2>6, <2>7
      <4> QED BY <4>2, <2>2, <3>3, Ranks
    <3> QED BY <2>3, <3>1, <3>2, <3>3
  <2> QED BY <1>4, <1>6, <2>8
<1> QED BY <1>7, <1>8


(* The score of a category in a script: at most 40, and each finding in it *)
(* counts with its whole weight.                                           *)
LEMMA ScriptScoreBounds ==
    ASSUME NEW h, IsFiniteSet(h), h # {}, \A x \in h : x.weight \in Nat
    PROVE  /\ ScriptCategoryScore(h) \in Nat /\ ScriptCategoryScore(h) <= 4000
           /\ \A x \in h : ScriptCategoryScore(h) = 4000 \/ 100 * x.weight <= ScriptCategoryScore(h)
<1>1. PICK first : first = CHOOSE f \in h : \A g \in h : g.weight <= f.weight
  OBVIOUS
<1>2. first \in h /\ \A g \in h : g.weight <= first.weight
  <2>1. PICK W : W = {f.weight : f \in h}
    OBVIOUS
  <2>2. W \subseteq Nat /\ W # {} /\ IsFiniteSet(W)
    BY <2>1, ImagesAreFinite
  <2>3. Max(W) \in W /\ \A x \in W : x <= Max(W)
    BY <2>2, MaxIsLargest
  <2>4. \E f \in h : \A g \in h : g.weight <= f.weight
    BY <2>1, <2>3
  <2> QED BY <1>1, <2>4
<1>3. PICK rest : rest = h \ {first}
  OBVIOUS
<1>4. IsFiniteSet(rest) /\ \A x \in rest : x.weight \in Nat
  BY <1>3, FS_RemoveElement
<1>5. PICK all : all = SumFunction(Weight(rest))
  OBVIOUS
<1>6. all \in Nat
  <2>1. DOMAIN Weight(rest) = rest /\ \A x \in rest : Weight(rest)[x] \in Nat
    BY <1>4 DEF Weight
  <2> QED BY <2>1, <1>4, <1>5, TotalIsNat
<1>7. PICK second : second = IF rest = {} THEN 0 ELSE Max({f.weight : f \in rest})
  OBVIOUS
<1>8. second \in Nat
  <2>1. CASE rest = {}
    BY <2>1, <1>7
  <2>2. CASE rest # {}
    <3>1. PICK W : W = {f.weight : f \in rest}
      OBVIOUS
    <3>2. W \subseteq Nat /\ W # {} /\ IsFiniteSet(W)
      BY <3>1, <2>2, <1>4, ImagesAreFinite
    <3>3. Max(W) \in W
      BY <3>2, MaxIsLargest
    <3> QED BY <2>2, <3>1, <3>2, <3>3, <1>7
  <2> QED BY <2>1, <2>2
<1>9. PICK sum : sum = 100 * first.weight + 20 * second + 15 * all
  OBVIOUS
<1>10. sum \in Nat /\ 100 * first.weight <= sum /\ first.weight \in Nat
  BY <1>2, <1>6, <1>8, <1>9
<1>11. ScriptCategoryScore(h) = Min({4000, sum})
  BY <1>1, <1>3, <1>5, <1>7, <1>9 DEF ScriptCategoryScore
<1>12. PICK score : score = Min({4000, sum})
  OBVIOUS
<1>13. score \in {4000, sum} /\ score <= 4000 /\ score <= sum
  <2>1. \E x \in {4000, sum} : \A y \in {4000, sum} : x <= y
    BY <1>10
  <2> QED BY <2>1, <1>12 DEF Min
<1>14. ASSUME NEW x \in h PROVE score = 4000 \/ 100 * x.weight <= score
  BY <1>2, <1>10, <1>13
<1>15. score \in Nat
  BY <1>10, <1>13
<1>16. ScriptCategoryScore(h) = score
  BY <1>11, <1>12
<1> QED BY <1>13, <1>14, <1>15, <1>16

(* One strong finding makes a script suspicious at least, and one category *)
(* of findings makes it suspicious at most.                                *)
LEMMA ScriptVerdictIsMeasured ==
    ASSUME NEW found \in SUBSET ScriptFindings
    PROVE  /\ ScriptVerdict(found) \in Grades
           /\ Strong(found) # {} => ScriptVerdict(found) # "safe"
           /\ ScriptVerdict(found) = "malicious" => Cardinality(Categories(found)) > 1
<1>0. PICK w : w = Weighty(found)
  OBVIOUS
<1>1. w \subseteq found /\ IsFiniteSet(found) /\ IsFiniteSet(w) /\ \A x \in w : x.weight \in Nat
  <2>1. w \subseteq found
    BY <1>0 DEF Weighty
  <2>2. IsFiniteSet(found)
    BY VerdictAssumption, FS_Subset
  <2> QED BY <2>1, <2>2, VerdictAssumption, FS_Subset
<1>2. PICK scoreOf : scoreOf = [c \in Categories(w) |-> ScriptCategoryScore(InCategory(w, c))]
  OBVIOUS
<1>3. PICK fired : fired = Fired(ScriptCombos, w)
  OBVIOUS
<1>4. PICK scores, bonuses : scores = SumFunction(scoreOf) /\ bonuses = SumFunction(Bonus(fired))
  OBVIOUS
<1>5. PICK penalty : penalty = (scores + 100 * bonuses + 49) \div 100
  OBVIOUS
<1>6. ScriptVerdict(found) = Raised(FromScore(penalty, 85), fired)
  BY <1>0, <1>2, <1>3, <1>4, <1>5 DEF ScriptVerdict, ScriptPenalty
<1>7. fired \subseteq ScriptCombos /\ IsFiniteSet(fired)
      /\ \A c \in fired : c.bonus \in Nat /\ c.floor \in Grades /\ c.min \in Nat /\ c.min >= 2
  <2>1. fired \subseteq ScriptCombos
    BY <1>3 DEF Fired
  <2>2. \A c \in fired : c.bonus \in Nat /\ c.floor \in Grades /\ c.min \in Nat /\ c.min >= 2
    BY <2>1, VerdictAssumption, ScriptRulesAssumption DEF Grades
  <2> QED BY <2>1, <2>2, VerdictAssumption, FS_Subset
<1>8. DOMAIN scoreOf = Categories(w) /\ IsFiniteSet(DOMAIN scoreOf)
  BY <1>1, <1>2, ImagesAreFinite
<1>9. ASSUME NEW c \in Categories(w)
      PROVE  /\ InCategory(w, c) # {} /\ InCategory(w, c) \subseteq w
             /\ scoreOf[c] \in Nat /\ scoreOf[c] <= 4000
             /\ \A x \in InCategory(w, c) : scoreOf[c] = 4000 \/ 100 * x.weight <= scoreOf[c]
  <2>1. InCategory(w, c) # {} /\ InCategory(w, c) \subseteq w
    BY DEF Categories, InCategory
  <2>2. IsFiniteSet(InCategory(w, c)) /\ \A x \in InCategory(w, c) : x.weight \in Nat
    BY <2>1, <1>1, ImagesAreFinite
  <2>3. scoreOf[c] = ScriptCategoryScore(InCategory(w, c))
    BY <1>2
  <2> QED BY <2>1, <2>2, <2>3, ScriptScoreBounds
<1>10. scores \in Nat /\ bonuses \in Nat
  <2>1. scores \in Nat
    BY <1>4, <1>8, <1>9, TotalIsNat
  <2> QED BY <2>1, <1>4, <1>7, BonusGrows
<1>11. PICK raw : raw = scores + 100 * bonuses + 49
  OBVIOUS
<1>12. raw \in Nat /\ scores + 49 <= raw /\ penalty = raw \div 100
  BY <1>5, <1>10, <1>11
<1>13. penalty \in Nat
  BY <1>12
<1>14. FromScore(penalty, 85) \in Grades
  BY DEF FromScore, Grades
<1>15. /\ ScriptVerdict(found) \in Grades
       /\ ScriptVerdict(found) \in {c.floor : c \in fired} \cup {FromScore(penalty, 85)}
       /\ Rank[FromScore(penalty, 85)] <= Rank[ScriptVerdict(found)]
  BY <1>6, <1>7, <1>14, RaisedIsLargest
<1>16. ASSUME Strong(found) # {} PROVE ScriptVerdict(found) # "safe"
  <2>1. PICK x \in found : x.severity \in {"high", "critical"}
    BY <1>16 DEF Strong
  <2>2. x.weight \in Nat /\ x.weight >= 18
    BY <2>1, VerdictAssumption, ScriptRulesAssumption
  <2>3. x \in w /\ x.category \in Categories(w) /\ x \in InCategory(w, x.category)
    BY <2>2, <1>0 DEF Weighty, Categories, InCategory
  <2>4. scoreOf[x.category] \in Nat /\ scoreOf[x.category] >= 1800
    BY <2>2, <2>3, <1>9
  <2>5. scoreOf[x.category] <= scores
    <3>1. \A c \in DOMAIN scoreOf : scoreOf[c] \in Nat
      BY <1>8, <1>9
    <3>2. x.category \in DOMAIN scoreOf
      BY <2>3, <1>8
    <3> QED BY <3>1, <3>2, <1>4, <1>8, TotalOfTerm
  <2>6. raw >= 1800
    BY <2>4, <2>5, <1>10, <1>12
  <2>7. penalty >= 18
    BY <2>6, <1>12
  <2>8. FromScore(penalty, 85) # "safe"
    <3>1. ~(penalty + 85 <= 100)
      BY <2>7, <1>13
    <3> QED BY <3>1 DEF FromScore
  <2> QED BY <2>8, <1>14, <1>15, Ranks DEF Grades
<1>17. ASSUME ~(Cardinality(Categories(found)) > 1) PROVE ScriptVerdict(found) # "malicious"
  <2>1. /\ IsFiniteSet(Categories(found)) /\ Cardinality(Categories(found)) \in Nat
        /\ Categories(w) \subseteq Categories(found)
    <3>1. Categories(w) \subseteq Categories(found)
      BY <1>1 DEF Categories
    <3> QED BY <3>1, <1>1, ImagesAreFinite, FS_CardinalityType
  <2>2. Cardinality(Categories(w)) \in Nat /\ Cardinality(Categories(w)) <= 1
    BY <2>1, <1>17, <1>8, FS_Subset, FS_CardinalityType
  <2>3. fired = {}
    <3>1. SUFFICES ASSUME NEW c \in fired PROVE FALSE
      OBVIOUS
    <3>2. Cardinality(c.categories \cap Categories(w)) >= c.min
      BY <1>3 DEF Fired
    <3>3. PICK a : a = c.categories \cap Categories(w)
      OBVIOUS
    <3>4. Cardinality(a) \in Nat /\ Cardinality(a) <= Cardinality(Categories(w))
      BY <3>3, <1>8, FS_Subset, FS_CardinalityType
    <3> QED BY <3>2, <3>3, <3>4, <2>2, <1>7
  <2>4. bonuses = 0
    <3>1. DOMAIN Bonus(fired) = {}
      BY <2>3 DEF Bonus
    <3> QED BY <3>1, <1>4, TotalOfNone
  <2>5. scores <= 4000
    <3>1. CASE Categories(w) = {}
      BY <3>1, <1>4, <1>8, TotalOfNone
    <3>2. CASE Categories(w) # {}
      <4>1. PICK c \in Categories(w) : Categories(w) = {c}
        <5>1. Cardinality(Categories(w)) = 1
          BY <2>2, <3>2, <1>8, FS_EmptySet
        <5> QED BY <5>1, <1>8, FS_Singleton
      <4>2. scores = scoreOf[c]
        BY <4>1, <1>4, <1>8, <1>9, TotalOfTerm
      <4> QED BY <4>2, <1>9
    <3> QED BY <3>1, <3>2
  <2>6. raw <= 4049
    BY <2>4, <2>5, <1>10, <1>11
  <2>7. penalty <= 50
    BY <2>6, <1>12
  <2>8. FromScore(penalty, 85) # "malicious"
    <3>1. penalty + 85 <= 100 \/ penalty + 85 > 100
      BY <1>13
    <3> QED BY <2>7, <3>1 DEF FromScore
  <2> QED BY <2>3, <2>8, <1>15
<1> QED BY <1>15, <1>16, <1>17

------------------------------------------------------------------------------
(* The scan.                                                               *)

LEMMA EngineResultsAreKept ==
    ASSUME NEW f, NEW b, NEW p, NEW status \in Statuses, NEW r, r = EngineResult(f, b, p, status)
    PROVE  /\ r.verdict \in FileVerdicts /\ FreeVerdict(r) \in FileVerdicts
           /\ ProVerdict(r) \in FileVerdicts
           /\ r.verdict = "malicious" => FreeVerdict(r) = "malicious" /\ ProVerdict(r) = "malicious"
           /\ FreeVerdict(r) = "safe" \/ ProVerdict(r) = "safe"
                => r.verdict = "safe" /\ status = "official"
<1> DEFINE evidence == Evidence(f, p)
           combos == Fired(Combos, evidence)
           scored == Scored(evidence, p)
           verdict == Raised(scored, combos)
<1>1. verdict \in Graded
  <2>1. \A c \in combos : c.floor \in {"safe", "suspicious", "malicious"}
    BY VerdictAssumption DEF Fired
  <2>2. scored \in Graded
    BY ScoresAreGraded DEF Graded, Scored
  <2> QED BY <2>1, <2>2, RaisedIsGraded
<1>2. r.verdict \in FileVerdicts /\ r.status = status /\ r.error # "before_analysis"
  <2>1. CASE b = "unhashed"
    BY <2>1 DEF EngineResult, Rejected, FileVerdicts
  <2>2. CASE b # "unhashed" /\ b # "pe"
    BY <2>2 DEF EngineResult, Rejected, FileVerdicts
  <2>3. CASE b = "pe"
    <3>1. r.verdict = verdict /\ r.status = status /\ r.error = "none"
      BY <2>3 DEF EngineResult
    <3> QED BY <1>1, <3>1 DEF FileVerdicts, Graded
  <2> QED BY <2>1, <2>2, <2>3
<1>3. ResultAccepted(r)
  BY <1>2 DEF ResultAccepted, Statuses
<1>4. ProVerdict(r) = MultiLayer(r)
  BY <1>2, <1>3 DEF ProVerdict
<1>5. FreeVerdict(r) = IF status # "official" /\ r.verdict = "safe" THEN "inconclusive" ELSE r.verdict
  BY <1>2, <1>3 DEF FreeVerdict
<1> QED BY <1>2, <1>4, <1>5, GatesKeepTheVerdict DEF FileVerdicts, Graded

(* A file the engine rejects is never safe.                                *)
LEMMA RejectedIsNotSafe ==
    ASSUME NEW status, NEW r \in {Rejected(status), Torn(status)}
    PROVE  /\ FreeVerdict(r) \in FileVerdicts \ {"safe"}
           /\ ProVerdict(r) \in FileVerdicts \ {"safe"}
<1>1. r.verdict = "invalid"
  BY DEF Rejected, Torn
<1> QED BY <1>1, GatesKeepTheVerdict DEF FreeVerdict, ProVerdict, FileVerdicts, Graded

(* The verdicts of an archive's parts.                                     *)
LEMMA SeenIsComplete ==
    ASSUME NEW v \in FileVerdicts
    PROVE  /\ Seen(v) \subseteq {"inconclusive", "suspicious", "malicious"}
           /\ Seen(v) = {} => v = "safe"
           /\ v = "malicious" => "malicious" \in Seen(v)
BY DEF Seen, FileVerdicts

LEMMA LeastIsMember ==
    ASSUME NEW S \in SUBSET Nat, S # {}
    PROVE  Min(S) \in S
BY LeastNat DEF Min

(* The targets of an archive whose reading began: there is one.            *)
LEMMA TargetsAreFinite ==
    ASSUME NEW a, a \in [fault : ArchiveFaults, entries : Seq(Entries)], NEW k
    PROVE  /\ Kind(a, k) \subseteq Nat /\ Targets(a, k) \subseteq Kind(a, k)
           /\ Kind(a, k) \subseteq DOMAIN a.entries
           /\ Cardinality(Targets(a, k)) \in Nat
           /\ Targets(a, k) # {} => Cardinality(Targets(a, k)) > 0
<1>1. DOMAIN a.entries = 1..Len(a.entries) /\ Len(a.entries) \in Nat
  OBVIOUS
<1>2. Targets(a, k) \subseteq Kind(a, k) /\ Kind(a, k) \subseteq DOMAIN a.entries
  BY DEF Targets, Kind
<1>3. IsFiniteSet(Targets(a, k))
  <2>1. IsFiniteSet(1..Len(a.entries))
    BY <1>1, FS_Interval
  <2> QED BY <1>1, <1>2, <2>1, FS_Subset
<1>4. Cardinality(Targets(a, k)) \in Nat /\ (Cardinality(Targets(a, k)) = 0 <=> Targets(a, k) = {})
  BY <1>3, FS_CardinalityType, FS_EmptySet
<1> QED BY <1>1, <1>2, <1>4

(* A loop that ended with nothing doubtful has read every active entry.    *)
LEMMA ConclusionIsEarned ==
    ASSUME NEW j, NEW status, JobTypes(j), InArchive(j), LoopIsSound(j, status),
           j.at = "scripts", j.left = {}, Aggregate(j.archive, j.saw, j.report) = "safe"
    PROVE  SafeEarned(j, status)
<1>1. PICK a : a = j.archive
  OBVIOUS
<1>2. /\ a \in [fault : ArchiveFaults, entries : Seq(Entries)] /\ j.type = "archive"
      /\ j.saw \subseteq {"inconclusive", "suspicious", "malicious"}
      /\ j.parts \in Seq(FileVerdicts)
  BY <1>1 DEF JobTypes
<1>3. ~Structural(a) /\ ~Unscanned(a) /\ j.saw = {} /\ j.report = TargetCount(a)
  <2>1. /\ ~Structural(a) /\ ~Unscanned(a) /\ j.report = TargetCount(a)
        /\ "malicious" \notin j.saw /\ "suspicious" \notin j.saw /\ "inconclusive" \notin j.saw
    BY <1>1 DEF Aggregate
  <2> QED BY <1>2, <2>1
<1>4. PICK ps, ss : ps = Targets(a, "plugin") /\ ss = Targets(a, "script")
  OBVIOUS
<1>5. Kind(a, "plugin") = ps /\ Kind(a, "script") = ss /\ Kind(a, "other") = {}
  BY <1>3, <1>4 DEF Unscanned
<1>6. /\ \A i \in ps : Readable(a, a.entries[i]) /\ status = "official"
      /\ \A i \in ss : Readable(a, a.entries[i]) /\ a.entries[i].fault # "large"
      /\ Range(j.parts) \subseteq {"safe"} /\ j.report = Len(j.parts)
  BY <1>1, <1>3, <1>4 DEF LoopIsSound, TargetsRead, PluginsRead, ScriptsRead
<1>7. PICK t \in ps \cup ss : TRUE
  BY <1>1, <1>4 DEF LoopIsSound, Inspected
<1>8. Len(j.parts) > 0 /\ Len(j.parts) = Cardinality(ps) + Cardinality(ss)
  BY <1>2, <1>3, <1>4, <1>6, <1>7, TargetsAreFinite DEF TargetCount
<1>9. j.parts # <<>> /\ Range(j.parts) = {"safe"}
  <2>1. j.parts # <<>>
    BY <1>8
  <2>2. 1 \in DOMAIN j.parts
    BY <1>2, <1>8
  <2>3. j.parts[1] \in Range(j.parts)
    BY <2>2 DEF Range
  <2> QED BY <1>6, <2>1, <2>3
<1>10. ASSUME NEW i \in DOMAIN a.entries
       PROVE  LET e == a.entries[i] IN
              \/ e.fault = "none" /\ e.kind # "other"
              \/ e.kind = "asset" /\ e.fault \in {"lfh", "large"}
  <2>1. a.entries[i].kind \in {"plugin", "script", "asset", "other"} /\ a.entries[i].fault \in Faults
    <3>1. a.entries[i] \in Entries
      BY <1>2
    <3> QED BY <3>1 DEF Entries
  <2>2. a.entries[i].fault \notin {"path", "zip64", "policy", "twice", "twoext"}
    BY <1>3, <1>6, <1>7 DEF Readable, Structural
  <2>3. a.entries[i].kind # "other"
    BY <1>5 DEF Kind
  <2>4. a.entries[i].kind = "plugin" => i \in ps
    BY <1>5 DEF Kind
  <2>5. a.entries[i].kind = "script" => i \in ss
    BY <1>5 DEF Kind
  <2>6. a.entries[i].kind \in {"plugin", "script"} => a.entries[i].fault \notin {"lfh", "large"}
    BY <1>6, <2>4, <2>5 DEF Readable
  <2> QED BY <2>1, <2>2, <2>3, <2>6 DEF Faults
<1> QED BY <1>1, <1>2, <1>5, <1>6, <1>8, <1>9, <1>10 DEF SafeEarned

(* The sequence of the parts' verdicts grows by one.                       *)
LEMMA PartsGrow ==
    ASSUME NEW parts \in Seq(FileVerdicts), NEW v \in FileVerdicts
    PROVE  /\ Append(parts, v) \in Seq(FileVerdicts)
           /\ Range(Append(parts, v)) = Range(parts) \cup {v}
           /\ Len(Append(parts, v)) = Len(parts) + 1
<1>1. PICK q : q = Append(parts, v)
  OBVIOUS
<1>2. /\ q \in Seq(FileVerdicts) /\ Len(q) = Len(parts) + 1 /\ DOMAIN q = 1..(Len(parts) + 1)
      /\ DOMAIN parts = 1..Len(parts) /\ Len(parts) \in Nat
      /\ q[Len(parts) + 1] = v /\ \A i \in 1..Len(parts) : q[i] = parts[i]
  BY <1>1
<1>3. Range(q) \subseteq Range(parts) \cup {v}
  <2>1. ASSUME NEW i \in DOMAIN q PROVE q[i] \in Range(parts) \cup {v}
    <3>1. CASE i = Len(parts) + 1
      BY <1>2, <3>1
    <3>2. CASE i \in 1..Len(parts)
      BY <1>2, <3>2 DEF Range
    <3> QED BY <1>2, <2>1, <3>1, <3>2
  <2> QED BY <2>1 DEF Range
<1>4. Range(parts) \cup {v} \subseteq Range(q)
  <2>1. ASSUME NEW i \in DOMAIN parts PROVE parts[i] \in Range(q)
    BY <1>2, <2>1 DEF Range
  <2>2. v \in Range(q)
    BY <1>2 DEF Range
  <2> QED BY <2>1, <2>2 DEF Range
<1> QED BY <1>1, <1>2, <1>3, <1>4

(* The verdict on an archive, after the last target or before it: a doubt  *)
(* is never safe, and a detection is never less.                           *)
LEMMA ConcludesSoundly ==
    ASSUME NEW j, NEW status, JobTypes(j), j.type = "archive",
           "malicious" \in Range(j.parts) => "malicious" \in j.saw,
           j.saw # {} \/ (InArchive(j) /\ LoopIsSound(j, status) /\ j.at = "scripts" /\ j.left = {}),
           NEW verdict, verdict = Aggregate(j.archive, j.saw, j.report),
           NEW k, k = [j EXCEPT !.at = "done", !.verdict = verdict]
    PROVE  JobIsSound(k, status)
<1>1. verdict \in FileVerdicts
  BY DEF Aggregate, FileVerdicts
<1>2. JobTypes(k) /\ k.at = "done" /\ ~InArchive(k) /\ k.parts = j.parts /\ k.verdict = verdict
      /\ k.archive = j.archive /\ k.type = j.type
  BY <1>1 DEF JobTypes, InArchive
<1>3. "malicious" \in Range(j.parts) => verdict = "malicious"
  BY DEF Aggregate
<1>4. verdict = "safe" => SafeEarned(k, status)
  <2>1. ASSUME verdict = "safe" PROVE j.saw = {}
    <3>1. "malicious" \notin j.saw /\ "suspicious" \notin j.saw /\ "inconclusive" \notin j.saw
      BY <2>1 DEF Aggregate
    <3> QED BY <3>1 DEF JobTypes
  <2>2. verdict = "safe" => SafeEarned(j, status)
    BY <2>1, ConclusionIsEarned
  <2> QED BY <1>2, <2>2 DEF SafeEarned
<1> QED BY <1>2, <1>3, <1>4 DEF JobIsSound

LEMMA NoArchiveIsEmpty ==
    /\ NoArchive \in [fault : ArchiveFaults, entries : Seq(Entries)]
    /\ NoArchive.entries = <<>> /\ Inspected(NoArchive) # "read"
<1>1. NoArchive.entries = <<>> /\ NoArchive.fault = "none" /\ DOMAIN <<>> = {}
  BY DEF NoArchive
<1>2. NoArchive \in [fault : ArchiveFaults, entries : Seq(Entries)]
  BY DEF NoArchive, ArchiveFaults
<1>3. \A k : Targets(NoArchive, k) = {}
  BY <1>1 DEF Targets, Kind
<1> QED BY <1>1, <1>2, <1>3 DEF Inspected

(* A file that is not looked into entry by entry: its one part, if any.    *)
LEMMA SingleEndsSoundly ==
    ASSUME NEW j, NEW status, JobTypes(j), NEW parts \in {<<>>} \cup {<<v>> : v \in FileVerdicts},
           NEW subject, NEW verdict \in FileVerdicts,
           parts = <<"malicious">> => verdict = "malicious",
           verdict = "safe" => /\ parts = <<"safe">> /\ j.archive = NoArchive /\ j.type # "archive"
                               /\ j.type \in {"asi", "dll"} => status = "official",
           NEW k, k = [j EXCEPT !.at = "done", !.parts = parts, !.subject = subject,
                                !.verdict = verdict]
    PROVE  JobIsSound(k, status)
<1>1. parts \in Seq(FileVerdicts)
  <2>1. <<>> \in Seq(FileVerdicts) /\ \A v \in FileVerdicts : <<v>> \in Seq(FileVerdicts)
    OBVIOUS
  <2> QED BY <2>1
<1>2. JobTypes(k) /\ k.at = "done" /\ ~InArchive(k) /\ k.parts = parts /\ k.verdict = verdict
      /\ k.archive = j.archive /\ k.type = j.type
  BY <1>1 DEF JobTypes, InArchive
<1>3. \A v : Range(<<v>>) = {v}
  <2>1. \A v : DOMAIN <<v>> = {1} /\ <<v>>[1] = v
    OBVIOUS
  <2> QED BY <2>1 DEF Range
<1>4. Range(<<>>) = {}
  <2>1. DOMAIN <<>> = {}
    OBVIOUS
  <2> QED BY <2>1 DEF Range
<1>5. "malicious" \in Range(parts) => verdict = "malicious"
  BY <1>3, <1>4
<1>6. verdict = "safe" => SafeEarned(k, status)
  <2>1. SUFFICES ASSUME verdict = "safe" PROVE SafeEarned(k, status)
    OBVIOUS
  <2>0. <<"safe">> # <<>> /\ DOMAIN <<>> = {}
    OBVIOUS
  <2>2. k.parts # <<>> /\ Range(k.parts) = {"safe"}
    BY <1>2, <1>3, <2>0, <2>1
  <2>3. DOMAIN k.archive.entries = {}
    BY <1>2, <2>0, <2>1, NoArchiveIsEmpty
  <2> QED BY <1>2, <2>1, <2>2, <2>3 DEF SafeEarned
<1> QED BY <1>2, <1>5, <1>6 DEF JobIsSound

LEMMA NoJobIsSound ==
    ASSUME NEW status
    PROVE  JobIsSound(NoJob, status) /\ JobTypes(NoJob)
<1>1. /\ NoJob.at = "idle" /\ NoJob.archive = NoArchive /\ NoJob.left = {} /\ NoJob.saw = {}
      /\ NoJob.parts = <<>> /\ NoJob.report = 0
  BY DEF NoJob
<1>2. JobTypes(NoJob)
  BY <1>1, NoArchiveIsEmpty DEF JobTypes, NoJob, FileVerdicts
<1>3. ~InArchive(NoJob)
  BY <1>1 DEF InArchive
<1> QED BY <1>1, <1>2, <1>3 DEF JobIsSound

LEMMA ArchivesAreTyped == Archives \subseteq [fault : ArchiveFaults, entries : Seq(Entries)]
<1>1. Contents \subseteq Seq(Entries)
  <2>1. ASSUME NEW e \in BoundedSeq(Entries, MaxArchiveEntries) PROVE e \in Seq(Entries)
    <3>1. PICK m \in 0..MaxArchiveEntries : e \in [1..m -> Entries]
      BY <2>1 DEF BoundedSeq, SeqOf
    <3>2. m \in Nat
      BY <3>1, FileScanAssumption
    <3> QED BY <3>1, <3>2
  <2> QED BY <2>1 DEF Contents
<1>2. "none" \in ArchiveFaults
  BY DEF ArchiveFaults
<1> QED BY <1>1, <1>2 DEF Archives

(* A scan begins in free mode, or by what the detector says of its name.   *)
LEMMA SubmitStep ==
    ASSUME FileScanInv, Submit
    PROVE  FileScanInv'
<1>1. rules' = rules /\ rules \in Statuses \cup {"none"}
  BY DEF Submit, FileScanInv
<1>2. ASSUME NEW k, JobTypes(k), k.at = "done", k.parts = <<>>, k.verdict # "safe"
      PROVE  JobIsSound(k, rules)
  <2>1. Range(<<>>) = {}
    <3>1. DOMAIN <<>> = {}
      OBVIOUS
    <3> QED BY <3>1 DEF Range
  <2> QED BY <1>2, <2>1 DEF JobIsSound, InArchive
<1>3. ASSUME NEW k, JobTypes(k), k.at \in {"engine", "inspect", "script", "odd script"},
             k.archive = NoArchive \/ k.at = "inspect",
             k.parts = <<>>, k.saw = {}, k.report = 0
      PROVE  JobIsSound(k, rules)
  BY <1>3 DEF JobIsSound, InArchive
<1>4. /\ JobTypes(NoJob) /\ NoJob.archive = NoArchive /\ NoJob.left = {} /\ NoJob.saw = {}
      /\ NoJob.parts = <<>> /\ NoJob.report = 0 /\ NoJob.mode = "free" /\ NoJob.at = "idle"
  BY NoJobIsSound DEF NoJob
<1>5. CASE SubmitFree
  <2>1. PICK type \in {"asi", "other"} :
          LET j == [NoJob EXCEPT !.at = "engine", !.type = type]
          IN  IF type = "asi" THEN job' = j ELSE FinishScan(j, FreeVerdict(Rejected(rules)))
    BY <1>5 DEF SubmitFree
  <2>2. CASE type = "asi"
    <3>1. PICK k : k = [NoJob EXCEPT !.at = "engine", !.type = "asi"]
      OBVIOUS
    <3>2. /\ JobTypes(k) /\ k.at = "engine" /\ k.archive = NoArchive
          /\ k.parts = <<>> /\ k.saw = {} /\ k.report = 0
      BY <1>4, <3>1 DEF JobTypes
    <3> QED BY <1>1, <1>3, <2>1, <2>2, <3>1, <3>2 DEF FileScanInv
  <2>3. CASE type = "other"
    <3>1. PICK verdict : verdict = FreeVerdict(Rejected(rules))
      OBVIOUS
    <3>2. verdict \in FileVerdicts \ {"safe"}
      BY <3>1, RejectedIsNotSafe
    <3>3. PICK k : k = [[NoJob EXCEPT !.at = "engine", !.type = "other"] EXCEPT
                         !.at = "done", !.verdict = verdict]
      OBVIOUS
    <3>4. JobTypes(k) /\ k.at = "done" /\ k.parts = <<>> /\ k.verdict = verdict
      BY <1>4, <3>2, <3>3 DEF JobTypes
    <3> QED BY <1>1, <1>2, <2>1, <2>3, <3>1, <3>2, <3>3, <3>4 DEF FileScanInv, FinishScan
  <2> QED BY <2>1, <2>2, <2>3
<1>6. CASE SubmitPro
  <2>1. PICK n \in Names :
          LET j == [NoJob EXCEPT !.mode = "pro", !.type = n.type] IN
          CASE Classify(n) = "ENGINE" -> job' = [j EXCEPT !.at = "engine"]
            [] Classify(n) = "ARCHIVE_INSPECTION" ->
                  \E a \in Archives : job' = [j EXCEPT !.at = "inspect", !.archive = a]
            [] Classify(n) \notin {"ENGINE", "ARCHIVE_INSPECTION"} /\ n.type = "script" ->
                  job' = [j EXCEPT !.at = IF n.odd THEN "odd script" ELSE "script"]
            [] OTHER -> FinishScan(j, IF Classify(n) = "REJECT" THEN "invalid" ELSE "inconclusive")
    BY <1>6 DEF SubmitPro
  <2>2. n.type \in {"asi", "dll", "script", "archive", "known", "unknown"}
    BY DEF Names
  <2>3. PICK j : j = [NoJob EXCEPT !.mode = "pro", !.type = n.type]
    OBVIOUS
  <2>4. /\ JobTypes(j) /\ j.archive = NoArchive /\ j.left = {} /\ j.type = n.type
        /\ j.parts = <<>> /\ j.saw = {} /\ j.report = 0
    BY <1>4, <2>2, <2>3 DEF JobTypes
  <2>5. CASE Classify(n) = "ENGINE"
    <3>1. n.type \in {"asi", "dll"}
      BY <2>2, <2>5 DEF Classify
    <3>2. PICK k : k = [j EXCEPT !.at = "engine"]
      OBVIOUS
    <3>3. /\ JobTypes(k) /\ k.at = "engine" /\ k.archive = NoArchive
          /\ k.parts = <<>> /\ k.saw = {} /\ k.report = 0
      BY <2>4, <3>1, <3>2 DEF JobTypes
    <3> QED BY <1>1, <1>3, <2>1, <2>3, <2>5, <3>2, <3>3 DEF FileScanInv
  <2>6. CASE Classify(n) = "ARCHIVE_INSPECTION"
    <3>1. n.type = "archive"
      BY <2>2, <2>6 DEF Classify, Names
    <3>2. PICK a \in Archives : job' = [j EXCEPT !.at = "inspect", !.archive = a]
      BY <2>1, <2>3, <2>6
    <3>3. a \in [fault : ArchiveFaults, entries : Seq(Entries)]
      BY ArchivesAreTyped
    <3>4. PICK k : k = [j EXCEPT !.at = "inspect", !.archive = a]
      OBVIOUS
    <3>5. /\ JobTypes(k) /\ k.at = "inspect" /\ k.parts = <<>> /\ k.saw = {} /\ k.report = 0
      BY <2>4, <3>1, <3>3, <3>4 DEF JobTypes
    <3> QED BY <1>1, <1>3, <3>2, <3>4, <3>5 DEF FileScanInv
  <2>7. CASE Classify(n) \notin {"ENGINE", "ARCHIVE_INSPECTION"} /\ n.type = "script"
    <3>1. PICK at : at = IF n.odd THEN "odd script" ELSE "script"
      OBVIOUS
    <3>2. at \in {"script", "odd script"}
      BY <3>1
    <3>3. PICK k : k = [j EXCEPT !.at = at]
      OBVIOUS
    <3>4. /\ JobTypes(k) /\ k.at = at /\ k.archive = NoArchive
          /\ k.parts = <<>> /\ k.saw = {} /\ k.report = 0
      BY <2>4, <2>7, <3>2, <3>3 DEF JobTypes
    <3>5. job' = k
      BY <2>1, <2>3, <2>7, <3>1, <3>3
    <3> QED BY <1>1, <1>3, <3>2, <3>4, <3>5 DEF FileScanInv
  <2>8. CASE Classify(n) \notin {"ENGINE", "ARCHIVE_INSPECTION"} /\ n.type # "script"
    <3>1. PICK verdict : verdict = IF Classify(n) = "REJECT" THEN "invalid" ELSE "inconclusive"
      OBVIOUS
    <3>2. verdict \in FileVerdicts \ {"safe"}
      BY <3>1 DEF FileVerdicts
    <3>3. PICK k : k = [j EXCEPT !.at = "done", !.verdict = verdict]
      OBVIOUS
    <3>4. JobTypes(k) /\ k.at = "done" /\ k.parts = <<>> /\ k.verdict = verdict
      BY <2>4, <3>2, <3>3 DEF JobTypes
    <3>5. job' = k
      BY <2>1, <2>3, <2>8, <3>1, <3>3 DEF FinishScan
    <3> QED BY <1>1, <1>2, <3>2, <3>4, <3>5 DEF FileScanInv
  <2> QED BY <2>5, <2>6, <2>7, <2>8
<1> QED BY <1>5, <1>6 DEF Submit

(* A file outside an archive is judged: its one part and its verdict.      *)
LEMMA SingleScanStep ==
    ASSUME FileScanInv, RejectFile \/ ScanPlugin \/ ScanScript
    PROVE  FileScanInv'
<1>1. PICK j : j = job
  OBVIOUS
<1>2. /\ JobTypes(j) /\ rules' = rules /\ rules \in Statuses \cup {"none"}
      /\ j.at \in {"engine", "script", "odd script"} /\ (j.at = "engine" => j.archive = NoArchive)
  BY <1>1 DEF FileScanInv, JobIsSound, RejectFile, ScanPlugin, ScanScript
<1>3. /\ j.archive = NoArchive /\ j.type # "archive" /\ ~InArchive(j)
      /\ j.at = "engine" \/ j.type = "script"
  BY <1>2 DEF JobTypes, InArchive
<1>4. j.parts = <<>>
  BY <1>1, <1>2, <1>3 DEF FileScanInv, JobIsSound
<1>5. ASSUME NEW parts \in {<<>>} \cup {<<v>> : v \in FileVerdicts}, NEW subject,
             NEW verdict \in FileVerdicts,
             parts = <<"malicious">> => verdict = "malicious",
             verdict = "safe" => /\ parts = <<"safe">>
                                 /\ j.type \in {"asi", "dll"} => rules = "official",
             job' = [j EXCEPT !.at = "done", !.parts = parts, !.subject = subject,
                              !.verdict = verdict]
      PROVE  FileScanInv'
  <2>1. PICK k : k = [j EXCEPT !.at = "done", !.parts = parts, !.subject = subject,
                              !.verdict = verdict]
    OBVIOUS
  <2>2. JobIsSound(k, rules)
    BY <1>2, <1>3, <1>5, <2>1, SingleEndsSoundly
  <2> QED BY <1>2, <1>5, <2>1, <2>2 DEF FileScanInv
<1>6. <<>> # <<"malicious">> /\ \A v, w : <<v>> = <<w>> => v = w
  OBVIOUS
<1>7. CASE RejectFile
  <2>1. PICK r \in {Rejected(rules), Torn(rules)} :
          FinishScan(job, IF job.mode = "free" THEN FreeVerdict(r) ELSE ProVerdict(r))
    BY <1>7 DEF RejectFile
  <2>2. PICK verdict : verdict = IF j.mode = "free" THEN FreeVerdict(r) ELSE ProVerdict(r)
    OBVIOUS
  <2>3. verdict \in FileVerdicts \ {"safe"}
    BY <2>2, RejectedIsNotSafe
  <2>4. job' = [j EXCEPT !.at = "done", !.parts = <<>>, !.subject = j.subject, !.verdict = verdict]
    BY <1>1, <1>2, <1>4, <2>1, <2>2 DEF FinishScan, JobTypes
  <2> QED BY <1>5, <1>6, <2>3, <2>4
<1>8. CASE ScanPlugin
  <2>1. rules \in Statuses
    BY <1>2, <1>8 DEF ScanPlugin
  <2>2. PICK f \in SUBSET Findings, b \in Bodies, p \in Reputations :
          LET r == EngineResult(f, b, p, rules) IN
          FinishScan([job EXCEPT !.parts = <<r.verdict>>,
                             !.subject = [found |-> f, body |-> b, reputation |-> p]],
                     IF job.mode = "free" THEN FreeVerdict(r) ELSE ProVerdict(r))
    BY <1>8 DEF ScanPlugin
  <2>3. PICK r : r = EngineResult(f, b, p, rules)
    OBVIOUS
  <2>4. PICK verdict : verdict = IF j.mode = "free" THEN FreeVerdict(r) ELSE ProVerdict(r)
    OBVIOUS
  <2>5. PICK subject : subject = [found |-> f, body |-> b, reputation |-> p]
    OBVIOUS
  <2>6. PICK v : v = r.verdict
    OBVIOUS
  <2>7. /\ v \in FileVerdicts /\ verdict \in FileVerdicts
        /\ v = "malicious" => verdict = "malicious"
        /\ verdict = "safe" => v = "safe" /\ rules = "official"
    BY <2>1, <2>3, <2>4, <2>6, EngineResultsAreKept
  <2>8. job' = [j EXCEPT !.at = "done", !.parts = <<v>>, !.subject = subject, !.verdict = verdict]
    BY <1>1, <1>2, <2>2, <2>3, <2>4, <2>5, <2>6 DEF FinishScan, JobTypes
  <2>9. PICK parts : parts = <<v>>
    OBVIOUS
  <2>10. /\ parts \in {<<>>} \cup {<<w>> : w \in FileVerdicts}
         /\ parts = <<"malicious">> => verdict = "malicious"
         /\ verdict = "safe" => parts = <<"safe">>
    BY <1>6, <2>7, <2>9
  <2> QED BY <1>5, <2>7, <2>8, <2>9, <2>10
<1>9. CASE ScanScript
  <2>1. j.type = "script"
    BY <1>1, <1>2, <1>9 DEF ScanScript, JobTypes
  <2>2. ASSUME NEW f \in SUBSET ScriptFindings,
               LET v == ScriptVerdict(f) IN
               FinishScan([job EXCEPT !.parts = <<v>>, !.subject.found = f],
                          IF job.at = "odd script" /\ v = "safe" THEN "suspicious" ELSE v)
        PROVE  FileScanInv'
    <3>1. PICK v : v = ScriptVerdict(f)
      OBVIOUS
    <3>2. PICK verdict : verdict = IF j.at = "odd script" /\ v = "safe" THEN "suspicious" ELSE v
      OBVIOUS
    <3>3. /\ v \in FileVerdicts /\ verdict \in FileVerdicts
          /\ v = "malicious" => verdict = "malicious"
          /\ verdict = "safe" => v = "safe"
      BY <3>1, <3>2, ScriptVerdictsAreGraded DEF Graded, FileVerdicts
    <3>4. PICK subject : subject = [j.subject EXCEPT !.found = f]
      OBVIOUS
    <3>5. job' = [j EXCEPT !.at = "done", !.parts = <<v>>, !.subject = subject, !.verdict = verdict]
      BY <1>1, <1>2, <2>2, <3>1, <3>2, <3>4 DEF FinishScan, JobTypes
    <3>6. PICK parts : parts = <<v>>
      OBVIOUS
    <3>7. /\ parts \in {<<>>} \cup {<<w>> : w \in FileVerdicts}
          /\ parts = <<"malicious">> => verdict = "malicious"
          /\ verdict = "safe" => parts = <<"safe">>
      BY <1>6, <3>3, <3>6
    <3> QED BY <1>5, <2>1, <3>3, <3>5, <3>6, <3>7
  <2>3. ASSUME NEW v \in {"invalid", "inconclusive"},
               FinishScan(job, IF job.at = "odd script" THEN "suspicious" ELSE v)
        PROVE  FileScanInv'
    <3>1. PICK verdict : verdict = IF j.at = "odd script" THEN "suspicious" ELSE v
      OBVIOUS
    <3>2. verdict \in FileVerdicts \ {"safe"}
      BY <3>1 DEF FileVerdicts
    <3>3. job' = [j EXCEPT !.at = "done", !.parts = <<>>, !.subject = j.subject, !.verdict = verdict]
      BY <1>1, <1>2, <1>4, <2>3, <3>1 DEF FinishScan, JobTypes
    <3> QED BY <1>5, <1>6, <3>2, <3>3
  <2>4. CASE FinishScan(job, "inconclusive")
    <3>1. job' = [j EXCEPT !.at = "done", !.parts = <<>>, !.subject = j.subject,
                           !.verdict = "inconclusive"]
      BY <1>1, <1>2, <1>4, <2>4 DEF FinishScan, JobTypes
    <3> QED BY <1>5, <1>6, <3>1 DEF FileVerdicts
  <2> QED BY <1>9, <2>2, <2>3, <2>4 DEF ScanScript
<1> QED BY <1>7, <1>8, <1>9

(* The archive's inspection ends with a verdict that is not safe, or the   *)
(* loop over its plugins begins.                                           *)
LEMMA InspectStep ==
    ASSUME FileScanInv, Inspect
    PROVE  FileScanInv'
<1>1. PICK j : j = job
  OBVIOUS
<1>2. /\ JobTypes(j) /\ rules' = rules /\ rules \in Statuses \cup {"none"}
      /\ j.at = "inspect" /\ j.type = "archive" /\ j.parts = <<>> /\ j.saw = {} /\ j.report = 0
  BY <1>1 DEF FileScanInv, JobIsSound, Inspect, InArchive, JobTypes
<1>3. ASSUME NEW verdict \in FileVerdicts \ {"safe"}, FinishScan(job, verdict)
      PROVE  FileScanInv'
  <2>1. PICK k : k = [j EXCEPT !.at = "done", !.parts = <<>>, !.subject = j.subject,
                              !.verdict = verdict]
    OBVIOUS
  <2>2. job' = k
    BY <1>1, <1>2, <1>3, <2>1 DEF FinishScan, JobTypes
  <2>3. <<>> # <<"malicious">>
    OBVIOUS
  <2>4. JobIsSound(k, rules)
    BY <1>2, <2>1, <2>3, SingleEndsSoundly
  <2> QED BY <1>2, <2>2, <2>4 DEF FileScanInv
<1>4. CASE Inspected(j.archive) = "read"
           /\ job' = [job EXCEPT !.at = "plugins", !.left = Targets(job.archive, "plugin")]
  <2>1. PICK plugins : plugins = Targets(j.archive, "plugin")
    OBVIOUS
  <2>2. PICK k : k = [j EXCEPT !.at = "plugins", !.left = plugins]
    OBVIOUS
  <2>3. plugins \subseteq DOMAIN j.archive.entries
    BY <2>1 DEF Targets, Kind
  <2>4. /\ JobTypes(k) /\ k.at = "plugins" /\ k.left = plugins /\ k.archive = j.archive
        /\ k.parts = <<>> /\ k.report = 0
    BY <1>2, <2>2, <2>3 DEF JobTypes
  <2>5. Range(<<>>) = {} /\ Len(<<>>) = 0
    <3>1. DOMAIN <<>> = {} /\ Len(<<>>) = 0
      OBVIOUS
    <3> QED BY <3>1 DEF Range
  <2>6. LoopIsSound(k, rules)
    BY <1>4, <2>1, <2>4, <2>5 DEF LoopIsSound, TargetsRead, PluginsRead
  <2> QED BY <1>1, <1>2, <1>4, <2>1, <2>2, <2>4, <2>6 DEF FileScanInv, JobIsSound, InArchive
<1>5. Inspected(j.archive) # "read" => Inspected(j.archive) \in FileVerdicts \ {"safe"}
  BY DEF Inspected, FileVerdicts
<1>6. "inconclusive" \in FileVerdicts
  BY DEF FileVerdicts
<1> QED BY <1>1, <1>3, <1>4, <1>5, <1>6 DEF Inspect

(* To the scripts: all plugins were read, or something was doubtful.       *)
LEMMA ToScriptsIsSound ==
    ASSUME NEW j, NEW status, JobTypes(j), j.type = "archive", Inspected(j.archive) = "read",
           "malicious" \in Range(j.parts) => "malicious" \in j.saw,
           j.saw = {} => /\ Range(j.parts) \subseteq {"safe"} /\ j.report = Len(j.parts)
                         /\ PluginsRead(j.archive, Targets(j.archive, "plugin"), status)
    PROVE  JobIsSound(ToScripts(j), status)
<1>1. PICK scripts : scripts = Targets(j.archive, "script")
  OBVIOUS
<1>2. PICK k : k = [j EXCEPT !.at = "scripts", !.left = scripts]
  OBVIOUS
<1>3. scripts \subseteq DOMAIN j.archive.entries
  BY <1>1 DEF Targets, Kind
<1>4. /\ JobTypes(k) /\ k.at = "scripts" /\ k.left = scripts /\ k.archive = j.archive
      /\ k.parts = j.parts /\ k.report = j.report /\ k.saw = j.saw
  BY <1>2, <1>3 DEF JobTypes
<1>5. LoopIsSound(k, status)
  BY <1>1, <1>4 DEF LoopIsSound, TargetsRead, ScriptsRead
<1> QED BY <1>1, <1>2, <1>4, <1>5 DEF JobIsSound, InArchive, ToScripts

LEMMA NextPluginStep ==
    ASSUME FileScanInv, NextPlugin
    PROVE  FileScanInv'
<1>1. PICK j : j = job
  OBVIOUS
<1>2. /\ JobTypes(j) /\ rules' = rules /\ rules \in Statuses \cup {"none"}
      /\ j.at = "plugins" /\ j.type = "archive" /\ LoopIsSound(j, rules)
  BY <1>1 DEF FileScanInv, JobIsSound, NextPlugin, InArchive, JobTypes
<1>3. PICK plugins : plugins = Targets(j.archive, "plugin")
  OBVIOUS
<1>4. j.saw = {} => PluginsRead(j.archive, plugins \ j.left, rules)
  BY <1>2, <1>3 DEF LoopIsSound, TargetsRead
<1>5. CASE j.left = {} /\ job' = ToScripts(j)
  <2>1. plugins \ j.left = plugins
    BY <1>5
  <2>2. JobIsSound(ToScripts(j), rules)
    BY <1>2, <1>3, <1>4, <2>1, ToScriptsIsSound DEF LoopIsSound
  <2> QED BY <1>2, <1>5, <2>2 DEF FileScanInv
<1>6. ASSUME NEW d, JobTypes(d), d.type = "archive", d.archive = j.archive,
             d.saw = j.saw \cup {"inconclusive"}, d.parts = j.parts,
             job' = ToScripts(d)
      PROVE  FileScanInv'
  <2>1. JobIsSound(ToScripts(d), rules)
    BY <1>2, <1>6, ToScriptsIsSound DEF LoopIsSound
  <2> QED BY <1>2, <1>6, <2>1 DEF FileScanInv
<1>7. CASE j.left # {} /\ Readable(j.archive, j.archive.entries[Min(j.left)])
           /\ job' = [job EXCEPT !.at = "engine"]
  <2>1. PICK k : k = [j EXCEPT !.at = "engine"]
    OBVIOUS
  <2>2. j.archive # NoArchive
    BY <1>2, NoArchiveIsEmpty DEF LoopIsSound
  <2>3. /\ JobTypes(k) /\ k.at = "engine" /\ k.left = j.left /\ k.archive = j.archive
        /\ k.parts = j.parts /\ k.report = j.report /\ k.saw = j.saw
    BY <1>2, <2>1, <2>2 DEF JobTypes
  <2>4. LoopIsSound(k, rules)
    BY <1>2, <1>3, <1>4, <1>7, <2>3 DEF LoopIsSound, TargetsRead
  <2> QED BY <1>1, <1>2, <1>7, <2>1, <2>2, <2>3, <2>4 DEF FileScanInv, JobIsSound, InArchive
<1>8. PICK d : d = [j EXCEPT !.saw = j.saw \cup {"inconclusive"}]
  OBVIOUS
<1>9. PICK report : report = d.report + 1
  OBVIOUS
<1>e. PICK e : e = [d EXCEPT !.report = report]
  OBVIOUS
<1>10. /\ JobTypes(d) /\ d.type = "archive" /\ d.archive = j.archive
       /\ d.saw = j.saw \cup {"inconclusive"} /\ d.parts = j.parts
  BY <1>2, <1>8 DEF JobTypes
<1>11. /\ JobTypes(e) /\ e.type = "archive" /\ e.archive = j.archive
       /\ e.saw = j.saw \cup {"inconclusive"} /\ e.parts = j.parts
  <2>1. d.report \in Nat
    BY <1>10 DEF JobTypes
  <2>2. report \in Nat
    BY <1>9, <2>1
  <2> QED BY <1>e, <1>10, <2>2 DEF JobTypes
<1>12. \/ j.left = {} /\ job' = ToScripts(j)
       \/ job' = ToScripts(d)
       \/ job' = ToScripts(e)
       \/ j.left # {} /\ Readable(j.archive, j.archive.entries[Min(j.left)])
           /\ job' = [job EXCEPT !.at = "engine"]
  BY <1>1, <1>8, <1>9, <1>e DEF NextPlugin, Target
<1> QED BY <1>5, <1>6, <1>7, <1>10, <1>11, <1>12

(* A plugin of the archive was judged: its part and its verdict are kept.  *)
LEMMA JudgePluginStep ==
    ASSUME FileScanInv, JudgePlugin
    PROVE  FileScanInv'
<1>1. PICK j : j = job
  OBVIOUS
<1>2. /\ JobTypes(j) /\ rules' = rules /\ rules \in Statuses \cup {"none"}
      /\ j.at = "engine" /\ j.archive # NoArchive /\ j.type = "archive" /\ LoopIsSound(j, rules)
  BY <1>1 DEF FileScanInv, JobIsSound, JudgePlugin, InArchive, JobTypes
<1>3. PICK plugins, m : plugins = Targets(j.archive, "plugin") /\ m = Min(j.left)
  OBVIOUS
<1>4. /\ j.left \subseteq plugins /\ m \in j.left
      /\ Readable(j.archive, j.archive.entries[m])
      /\ j.saw = {} => PluginsRead(j.archive, plugins \ j.left, rules)
  <2>1. j.left # {} /\ j.left \subseteq Nat
    <3>1. j.archive \in [fault : ArchiveFaults, entries : Seq(Entries)]
      BY <1>2 DEF JobTypes
    <3> QED BY <1>2, <1>3, <3>1, TargetsAreFinite DEF LoopIsSound
  <2>2. m \in j.left
    BY <1>3, <2>1, LeastIsMember
  <2> QED BY <1>2, <1>3, <2>2 DEF LoopIsSound, TargetsRead
<1>5. ASSUME NEW v \in FileVerdicts, NEW final \in FileVerdicts,
             v = "malicious" => final = "malicious",
             final = "safe" => v = "safe" /\ rules = "official",
             job' = Judged(v, final)
      PROVE  FileScanInv'
  <2>1. PICK report, parts, saw : report = j.report + 1 /\ parts = Append(j.parts, v)
                                  /\ saw = j.saw \cup Seen(final)
    OBVIOUS
  <2>2. PICK k : k = [j EXCEPT !.report = report, !.parts = parts, !.saw = saw]
    OBVIOUS
  <2>3. /\ report \in Nat /\ saw \in SUBSET {"inconclusive", "suspicious", "malicious"}
        /\ parts \in Seq(FileVerdicts)
        /\ Range(parts) = Range(j.parts) \cup {v} /\ Len(parts) = Len(j.parts) + 1
    <3>1. /\ j.report \in Nat /\ j.saw \in SUBSET {"inconclusive", "suspicious", "malicious"}
          /\ j.parts \in Seq(FileVerdicts)
      BY <1>2 DEF JobTypes
    <3> QED BY <2>1, <3>1, PartsGrow, SeenIsComplete
  <2>4. /\ JobTypes(k) /\ k.at = "engine" /\ k.archive = j.archive /\ k.type = j.type
        /\ k.left = j.left /\ k.report = report /\ k.parts = parts /\ k.saw = saw
    BY <1>2, <2>2, <2>3 DEF JobTypes
  <2>5. "malicious" \in Range(parts) => "malicious" \in saw
    BY <1>2, <1>5, <2>1, <2>3, SeenIsComplete DEF LoopIsSound
  <2>6. ASSUME saw = {}
        PROVE  /\ Range(parts) \subseteq {"safe"} /\ report = Len(parts)
               /\ PluginsRead(j.archive, plugins \ (j.left \ {m}), rules)
    <3>1. final = "safe" /\ j.saw = {}
      BY <2>1, <2>6, SeenIsComplete
    <3>2. v = "safe" /\ rules = "official"
      BY <1>5, <3>1
    <3>3. Range(j.parts) \subseteq {"safe"} /\ j.report = Len(j.parts)
      BY <1>2, <3>1 DEF LoopIsSound
    <3>4. PluginsRead(j.archive, plugins \ (j.left \ {m}), rules)
      BY <1>4, <3>1, <3>2 DEF PluginsRead
    <3> QED BY <2>1, <2>3, <3>2, <3>3, <3>4
  <2>7. CASE final = "malicious"
    <3>1. job' = ToScripts(k)
      BY <1>1, <1>5, <2>1, <2>2, <2>7 DEF Judged
    <3>2. "malicious" \in saw
      BY <2>1, <2>7, SeenIsComplete
    <3>3. JobIsSound(ToScripts(k), rules)
      BY <1>2, <2>4, <2>5, <3>2, ToScriptsIsSound DEF LoopIsSound
    <3> QED BY <1>2, <3>1, <3>3 DEF FileScanInv
  <2>8. CASE final # "malicious"
    <3>1. PICK left : left = j.left \ {m}
      OBVIOUS
    <3>2. PICK q : q = [k EXCEPT !.at = "plugins", !.left = left]
      OBVIOUS
    <3>3. job' = q
      BY <1>1, <1>3, <1>5, <2>1, <2>2, <2>4, <2>8, <3>1, <3>2 DEF Judged
    <3>4. /\ JobTypes(q) /\ q.at = "plugins" /\ q.archive = j.archive /\ q.type = j.type
          /\ q.left = left /\ q.report = report /\ q.parts = parts /\ q.saw = saw
      BY <1>2, <2>4, <3>1, <3>2 DEF JobTypes
    <3>5. LoopIsSound(q, rules)
      BY <1>2, <1>3, <1>4, <2>5, <2>6, <3>1, <3>4 DEF LoopIsSound, TargetsRead
    <3> QED BY <1>2, <3>3, <3>4, <3>5 DEF FileScanInv, JobIsSound, InArchive
  <2> QED BY <2>7, <2>8
<1>6. CASE job' = Judged("invalid", ProVerdict(Rejected(rules)))
  <2>1. ProVerdict(Rejected(rules)) \in FileVerdicts \ {"safe"} /\ "invalid" \in FileVerdicts
    BY RejectedIsNotSafe DEF FileVerdicts
  <2> QED BY <1>5, <1>6, <2>1
<1>7. CASE rules # "none" /\ \E o \in PluginOutcomes[rules] : job' = Judged(o[1], o[2])
  <2>1. rules \in Statuses
    BY <1>2, <1>7
  <2>2. PICK o \in PluginOutcomes[rules] : job' = Judged(o[1], o[2])
    BY <1>7
  <2>3. PICK f \in SUBSET Findings, b \in Bodies, p \in Reputations :
          LET r == EngineResult(f, b, p, rules) IN o = <<r.verdict, ProVerdict(r)>>
    BY <2>1, <2>2 DEF PluginOutcomes
  <2>4. PICK r : r = EngineResult(f, b, p, rules)
    OBVIOUS
  <2>5. PICK v, final : v = r.verdict /\ final = ProVerdict(r)
    OBVIOUS
  <2>6. o = <<v, final>>
    BY <2>3, <2>4, <2>5
  <2>7. o[1] = v /\ o[2] = final
    BY <2>6
  <2>8. /\ v \in FileVerdicts /\ final \in FileVerdicts
        /\ v = "malicious" => final = "malicious"
        /\ final = "safe" => v = "safe" /\ rules = "official"
    BY <2>1, <2>4, <2>5, EngineResultsAreKept
  <2> QED BY <1>5, <2>2, <2>7, <2>8
<1> QED BY <1>6, <1>7 DEF JudgePlugin

(* The loop over the scripts: a doubt, or a script that was read.          *)
LEMMA NextScriptStep ==
    ASSUME FileScanInv, NextScript
    PROVE  FileScanInv'
<1>1. PICK j : j = job
  OBVIOUS
<1>2. /\ JobTypes(j) /\ rules' = rules /\ rules \in Statuses \cup {"none"}
      /\ j.at = "scripts" /\ j.type = "archive" /\ LoopIsSound(j, rules) /\ InArchive(j)
  BY <1>1 DEF FileScanInv, JobIsSound, NextScript, InArchive, JobTypes
<1>3. PICK plugins, scripts, m : /\ plugins = Targets(j.archive, "plugin")
                                 /\ scripts = Targets(j.archive, "script") /\ m = Min(j.left)
  OBVIOUS
<1>4. /\ j.left \subseteq scripts
      /\ j.saw = {} => /\ PluginsRead(j.archive, plugins, rules)
                       /\ ScriptsRead(j.archive, scripts \ j.left)
      /\ j.left # {} => m \in j.left
  <2>1. j.left \subseteq Nat
    <3>1. j.archive \in [fault : ArchiveFaults, entries : Seq(Entries)]
      BY <1>2 DEF JobTypes
    <3> QED BY <1>2, <1>3, <3>1, TargetsAreFinite DEF LoopIsSound
  <2>2. j.left # {} => m \in j.left
    BY <1>3, <2>1, LeastIsMember
  <2> QED BY <1>2, <1>3, <2>2 DEF LoopIsSound, TargetsRead
<1>5. ASSUME NEW d, JobTypes(d), d.type = "archive",
             "malicious" \in Range(d.parts) => "malicious" \in d.saw,
             d.saw # {} \/ (d = j /\ j.left = {}),
             Conclude(d)
      PROVE  FileScanInv'
  <2>1. PICK verdict : verdict = Aggregate(d.archive, d.saw, d.report)
    OBVIOUS
  <2>2. PICK k : k = [d EXCEPT !.at = "done", !.verdict = verdict]
    OBVIOUS
  <2>3. JobIsSound(k, rules)
    BY <1>2, <1>5, <2>1, <2>2, ConcludesSoundly
  <2>4. job' = k
    BY <1>5, <2>1, <2>2 DEF Conclude, FinishScan
  <2> QED BY <1>2, <2>3, <2>4 DEF FileScanInv
<1>6. CASE j.left = {} /\ Conclude(j)
  BY <1>2, <1>5, <1>6 DEF LoopIsSound
<1>7. PICK saw, report, left : /\ saw = j.saw \cup {"inconclusive"} /\ report = j.report + 1
                               /\ left = j.left \ {m}
  OBVIOUS
<1>8. report \in Nat /\ left \subseteq DOMAIN j.archive.entries
  <2>1. j.report \in Nat /\ j.left \subseteq DOMAIN j.archive.entries
    BY <1>2 DEF JobTypes
  <2> QED BY <1>7, <2>1
<1>9. PICK d : d = [j EXCEPT !.saw = saw]
  OBVIOUS
<1>10. /\ JobTypes(d) /\ d.type = "archive" /\ d.archive = j.archive /\ d.at = "scripts"
       /\ d.saw = saw /\ d.parts = j.parts /\ d.report = j.report /\ d.left = j.left
  BY <1>2, <1>7, <1>9 DEF JobTypes
<1>11. PICK e : e = [d EXCEPT !.report = report]
  OBVIOUS
<1>12. /\ JobTypes(e) /\ e.type = "archive" /\ e.archive = j.archive /\ e.at = "scripts"
       /\ e.saw = saw /\ e.parts = j.parts /\ e.left = j.left
  BY <1>8, <1>10, <1>11 DEF JobTypes
<1>13. "malicious" \in Range(j.parts) => "malicious" \in saw
  BY <1>2, <1>7 DEF LoopIsSound
<1>14. saw # {}
  BY <1>7
<1>15. CASE Conclude(d) \/ Conclude(e)
  BY <1>5, <1>10, <1>12, <1>13, <1>14, <1>15
<1>16. CASE job' = [e EXCEPT !.left = left]
  <2>1. PICK k : k = [e EXCEPT !.left = left]
    OBVIOUS
  <2>2. /\ JobTypes(k) /\ k.at = "scripts" /\ k.archive = j.archive /\ k.saw = saw
        /\ k.parts = j.parts /\ k.left = left
    BY <1>8, <1>12, <2>1 DEF JobTypes
  <2>3. LoopIsSound(k, rules)
    BY <1>2, <1>3, <1>4, <1>7, <1>13, <1>14, <2>2 DEF LoopIsSound
  <2> QED BY <1>2, <1>16, <2>1, <2>2, <2>3 DEF FileScanInv, JobIsSound, InArchive
<1>17. ASSUME j.left # {}, j.archive.entries[m].fault # "large",
              Readable(j.archive, j.archive.entries[m]), NEW v \in ScriptOutcomes,
              LET k == [job EXCEPT !.report = @ + 1, !.parts = Append(@, v),
                                   !.saw = @ \cup Seen(v), !.left = @ \ {Min(@)}]
              IN  IF v = "malicious" THEN Conclude(k) ELSE job' = k
       PROVE  FileScanInv'
  <2>1. v \in FileVerdicts
    BY ScriptVerdictsAreGraded DEF ScriptOutcomes, Graded, FileVerdicts
  <2>2. PICK parts, seen : parts = Append(j.parts, v) /\ seen = j.saw \cup Seen(v)
    OBVIOUS
  <2>3. PICK k : k = [j EXCEPT !.report = report, !.parts = parts, !.saw = seen, !.left = left]
    OBVIOUS
  <2>4. /\ seen \in SUBSET {"inconclusive", "suspicious", "malicious"} /\ parts \in Seq(FileVerdicts)
        /\ Range(parts) = Range(j.parts) \cup {v} /\ Len(parts) = Len(j.parts) + 1
    <3>1. /\ j.saw \in SUBSET {"inconclusive", "suspicious", "malicious"}
          /\ j.parts \in Seq(FileVerdicts)
      BY <1>2 DEF JobTypes
    <3> QED BY <2>1, <2>2, <3>1, PartsGrow, SeenIsComplete
  <2>5. /\ JobTypes(k) /\ k.type = "archive" /\ k.at = "scripts" /\ k.archive = j.archive
        /\ k.saw = seen /\ k.parts = parts /\ k.left = left /\ k.report = report
    BY <1>2, <1>8, <2>3, <2>4 DEF JobTypes
  <2>6. IF v = "malicious" THEN Conclude(k) ELSE job' = k
    BY <1>1, <1>3, <1>7, <1>17, <2>2, <2>3
  <2>7. "malicious" \in Range(parts) => "malicious" \in seen
    BY <1>2, <2>1, <2>2, <2>4, SeenIsComplete DEF LoopIsSound
  <2>8. CASE v = "malicious"
    <3>1. "malicious" \in seen
      BY <2>1, <2>2, <2>8, SeenIsComplete
    <3> QED BY <1>5, <2>5, <2>6, <2>7, <2>8, <3>1
  <2>9. CASE v # "malicious"
    <3>1. ASSUME seen = {}
          PROVE  /\ Range(parts) \subseteq {"safe"} /\ report = Len(parts)
                 /\ PluginsRead(j.archive, plugins, rules)
                 /\ ScriptsRead(j.archive, scripts \ left)
      <4>1. v = "safe" /\ j.saw = {}
        BY <2>1, <2>2, <3>1, SeenIsComplete
      <4>2. Range(j.parts) \subseteq {"safe"} /\ j.report = Len(j.parts)
        BY <1>2, <4>1 DEF LoopIsSound
      <4>3. ScriptsRead(j.archive, scripts \ left)
        BY <1>4, <1>7, <1>17, <4>1 DEF ScriptsRead
      <4> QED BY <1>4, <1>7, <2>4, <4>1, <4>2, <4>3
    <3>2. LoopIsSound(k, rules)
      BY <1>2, <1>3, <1>4, <1>7, <2>5, <2>7, <3>1 DEF LoopIsSound, TargetsRead
    <3> QED BY <1>2, <2>5, <2>6, <2>9, <3>2 DEF FileScanInv, JobIsSound, InArchive
  <2> QED BY <2>8, <2>9
<1>18. \/ j.left = {} /\ Conclude(j)
       \/ Conclude(d) \/ Conclude(e)
       \/ job' = [e EXCEPT !.left = left]
       \/ /\ j.left # {} /\ j.archive.entries[m].fault # "large"
          /\ Readable(j.archive, j.archive.entries[m])
          /\ \E v \in ScriptOutcomes :
                LET k == [job EXCEPT !.report = @ + 1, !.parts = Append(@, v),
                                     !.saw = @ \cup Seen(v), !.left = @ \ {Min(@)}]
                IN  IF v = "malicious" THEN Conclude(k) ELSE job' = k
  BY <1>1, <1>3, <1>7, <1>9, <1>10, <1>11, <1>12 DEF NextScript, Target
<1> QED BY <1>6, <1>15, <1>16, <1>17, <1>18

(* The rules are loaded, which may make them official: while they are not  *)
(* loaded no plugin is done without a doubt.                               *)
LEMMA LoadRulesStep ==
    ASSUME FileScanInv, LoadRules
    PROVE  FileScanInv'
<1>1. PICK j : j = job
  OBVIOUS
<1>2. /\ JobTypes(j) /\ JobIsSound(j, rules) /\ rules' \in Statuses /\ rules = "none"
      /\ j.at = "engine" /\ job' = j
  BY <1>1 DEF FileScanInv, JobIsSound, LoadRules
<1>3. JobIsSound(j, rules')
  <2>1. CASE InArchive(j)
    <3>1. LoopIsSound(j, rules)
      BY <1>2, <2>1 DEF JobIsSound
    <3>2. LoopIsSound(j, rules')
      BY <1>2, <3>1 DEF LoopIsSound, TargetsRead, PluginsRead
    <3> QED BY <1>2, <2>1, <3>2 DEF JobIsSound
  <2>2. CASE ~InArchive(j)
    BY <1>2, <2>2 DEF JobIsSound
  <2> QED BY <2>1, <2>2
<1> QED BY <1>2, <1>3 DEF FileScanInv

LEMMA FileScanStepInv ==
    ASSUME FileScanInv, [FileScanNext]_fileScanVars
    PROVE  FileScanInv'
<1>1. CASE Submit
  BY <1>1, SubmitStep
<1>2. CASE RejectFile \/ ScanPlugin \/ ScanScript
  BY <1>2, SingleScanStep
<1>3. CASE LoadRules
  BY <1>3, LoadRulesStep
<1>4. CASE Inspect
  BY <1>4, InspectStep
<1>5. CASE NextPlugin
  BY <1>5, NextPluginStep
<1>6. CASE JudgePlugin
  BY <1>6, JudgePluginStep
<1>7. CASE NextScript
  BY <1>7, NextScriptStep
<1>8. CASE Post \/ WorkerKilled
  BY <1>8, NoJobIsSound DEF FileScanInv, Post, WorkerKilled
<1>9. CASE UNCHANGED fileScanVars
  BY <1>9 DEF FileScanInv, fileScanVars
<1> QED BY <1>1, <1>2, <1>3, <1>4, <1>5, <1>6, <1>7, <1>8, <1>9 DEF FileScanNext

(* The invariant of the static scan: as long as nothing in an archive was  *)
(* doubtful, every target that is behind the loop was read, each plugin    *)
(* with the official rules, and there is one part for each; a detection    *)
(* stays among the verdicts the loop has seen (runArchivePipeline).        *)
THEOREM FileScanInvariant == FileScanSpec => []FileScanInv
<1>1. FileScanInit => FileScanInv
  BY NoJobIsSound DEF FileScanInit, FileScanInv
<1>2. FileScanInv /\ [FileScanNext]_fileScanVars => FileScanInv'
  BY FileScanStepInv
<1> QED BY <1>1, <1>2, PTL DEF FileScanSpec

(* A file is called safe only when everything active in it was read and    *)
(* called safe, plugins under the official rules, for archives of every    *)
(* length and every limit on their targets (scanFileWithMode).             *)
THEOREM SafeVerdictsAreEarned == FileScanSpec => []SafeIsEarned
<1>1. FileScanInv => SafeIsEarned
  BY DEF FileScanInv, JobIsSound, InArchive, SafeIsEarned
<1> QED BY <1>1, FileScanInvariant, PTL

(* A part that the engine or the script analyser called malicious makes    *)
(* the file's verdict malicious, whatever the gates of the multi-layer     *)
(* check, the parts after it and the archive's structure say.              *)
THEOREM DetectionsAreKept == FileScanSpec => []MaliciousIsKept
<1>1. FileScanInv => MaliciousIsKept
  BY DEF FileScanInv, JobIsSound, InArchive, MaliciousIsKept
<1> QED BY <1>1, FileScanInvariant, PTL

------------------------------------------------------------------------------
(* The verdict and its subject.                                            *)

(* A subject that was not analysed on its own: a scan that goes on, one    *)
(* that ended before the analysis, or an archive's.                        *)
LEMMA NotAnalysed ==
    ASSUME NEW j, NEW status, j.subject = NoSubject, j.type # "script" \/ j.parts = <<>>
    PROVE  SubjectIsJudged(j, status)
BY DEF SubjectIsJudged, NoSubject

(* A scan that begins has no subject yet.                                  *)
LEMMA SubmitJudged ==
    ASSUME Submit
    PROVE  JudgementInv'
<1>1. /\ NoJob.subject = NoSubject /\ NoJob.parts = <<>>
      /\ {"at", "mode", "type", "archive", "parts", "subject", "verdict"} \subseteq DOMAIN NoJob
  BY DEF NoJob
<1>2. SUFFICES job'.subject = NoSubject /\ job'.parts = <<>>
  BY NotAnalysed DEF JudgementInv
<1>3. CASE SubmitFree
  BY <1>3 DEF SubmitFree, FinishScan, NoJob
<1>4. CASE SubmitPro
  <2>1. PICK n \in Names :
          LET j == [NoJob EXCEPT !.mode = "pro", !.type = n.type] IN
          CASE Classify(n) = "ENGINE" -> job' = [j EXCEPT !.at = "engine"]
            [] Classify(n) = "ARCHIVE_INSPECTION" ->
                  \E a \in Archives : job' = [j EXCEPT !.at = "inspect", !.archive = a]
            [] Classify(n) \notin {"ENGINE", "ARCHIVE_INSPECTION"} /\ n.type = "script" ->
                  job' = [j EXCEPT !.at = IF n.odd THEN "odd script" ELSE "script"]
            [] OTHER -> FinishScan(j, IF Classify(n) = "REJECT" THEN "invalid" ELSE "inconclusive")
    BY <1>4 DEF SubmitPro
  <2>2. PICK j : j = [NoJob EXCEPT !.mode = "pro", !.type = n.type]
    OBVIOUS
  <2>3. /\ j.subject = NoSubject /\ j.parts = <<>>
        /\ {"at", "mode", "type", "archive", "parts", "subject", "verdict"} \subseteq DOMAIN j
    BY <1>1, <2>2
  <2>4. \/ job' = [j EXCEPT !.at = "engine"]
        \/ \E a \in Archives : job' = [j EXCEPT !.at = "inspect", !.archive = a]
        \/ job' = [j EXCEPT !.at = IF n.odd THEN "odd script" ELSE "script"]
        \/ FinishScan(j, IF Classify(n) = "REJECT" THEN "invalid" ELSE "inconclusive")
    BY <2>1, <2>2
  <2>5. ASSUME NEW at, NEW archive, NEW verdict
        PROVE  LET k == [j EXCEPT !.at = at, !.archive = archive, !.verdict = verdict]
               IN  k.subject = NoSubject /\ k.parts = <<>>
    BY <2>3
  <2> QED BY <2>3, <2>4 DEF FinishScan
<1> QED BY <1>3, <1>4 DEF Submit

(* A file outside an archive: the verdict is the one on its findings.      *)
LEMMA SingleScanJudged ==
    ASSUME FileScanInv, JudgementInv, RejectFile \/ ScanPlugin \/ ScanScript
    PROVE  JudgementInv'
<1>1. PICK j : j = job
  OBVIOUS
<1>2. /\ JobTypes(j) /\ rules' = rules /\ rules \in Statuses \cup {"none"}
      /\ j.at \in {"engine", "script", "odd script"} /\ (j.at = "engine" => j.archive = NoArchive)
  BY <1>1 DEF FileScanInv, JobIsSound, RejectFile, ScanPlugin, ScanScript
<1>3. j.subject = NoSubject /\ ~InArchive(j)
  BY <1>1, <1>2 DEF JudgementInv, SubjectIsJudged, InArchive
<1>4. j.parts = <<>>
  BY <1>1, <1>2, <1>3 DEF FileScanInv, JobIsSound
<1>5. ASSUME NEW verdict, FinishScan(j, verdict)
      PROVE  JudgementInv'
  <2>1. job'.subject = NoSubject /\ job'.parts = <<>>
    BY <1>2, <1>3, <1>4, <1>5 DEF FinishScan, JobTypes
  <2> QED BY <2>1, NotAnalysed DEF JudgementInv
<1>6. CASE RejectFile
  BY <1>1, <1>5, <1>6 DEF RejectFile
<1>7. CASE ScanPlugin
  <2>1. rules \in Statuses /\ j.type # "script"
    BY <1>1, <1>2, <1>7 DEF ScanPlugin, JobTypes
  <2>2. PICK f \in SUBSET Findings, b \in Bodies, p \in Reputations :
          LET r == EngineResult(f, b, p, rules) IN
          FinishScan([job EXCEPT !.parts = <<r.verdict>>,
                             !.subject = [found |-> f, body |-> b, reputation |-> p]],
                     IF job.mode = "free" THEN FreeVerdict(r) ELSE ProVerdict(r))
    BY <1>7 DEF ScanPlugin
  <2>3. PICK r, parts : r = EngineResult(f, b, p, rules) /\ parts = <<r.verdict>>
    OBVIOUS
  <2>4. PICK verdict : verdict = IF j.mode = "free" THEN FreeVerdict(r) ELSE ProVerdict(r)
    OBVIOUS
  <2>5. PICK subject : subject = [found |-> f, body |-> b, reputation |-> p]
    OBVIOUS
  <2>6. PICK k : k = [j EXCEPT !.at = "done", !.parts = parts, !.subject = subject,
                               !.verdict = verdict]
    OBVIOUS
  <2>7. job' = k
    BY <1>1, <1>2, <2>2, <2>3, <2>4, <2>5, <2>6 DEF FinishScan, JobTypes
  <2>8. /\ k.subject = subject /\ k.type = j.type /\ k.mode = j.mode
        /\ k.verdict = verdict /\ k.at = "done"
    BY <1>2, <2>6 DEF JobTypes
  <2>9. subject.found = f /\ subject.body = b /\ subject.reputation = p
    BY <2>5
  <2>10. b = "pe" => PluginIsJudged(k, rules)
    BY <2>1, <2>3, <2>4, <2>8, <2>9 DEF PluginIsJudged
  <2> QED BY <1>2, <2>1, <2>7, <2>8, <2>9, <2>10 DEF JudgementInv, SubjectIsJudged
<1>8. CASE ScanScript
  <2>1. ASSUME NEW f \in SUBSET ScriptFindings,
               LET v == ScriptVerdict(f) IN
               FinishScan([job EXCEPT !.parts = <<v>>, !.subject.found = f],
                          IF job.at = "odd script" /\ v = "safe" THEN "suspicious" ELSE v)
        PROVE  JudgementInv'
    <3>1. PICK v, parts : v = ScriptVerdict(f) /\ parts = <<v>>
      OBVIOUS
    <3>2. PICK verdict : verdict = IF j.at = "odd script" /\ v = "safe" THEN "suspicious" ELSE v
      OBVIOUS
    <3>3. PICK subject : subject = [NoSubject EXCEPT !.found = f]
      OBVIOUS
    <3>4. PICK k : k = [j EXCEPT !.at = "done", !.parts = parts, !.subject = subject,
                                 !.verdict = verdict]
      OBVIOUS
    <3>5. job' = k
      BY <1>1, <1>2, <1>3, <2>1, <3>1, <3>2, <3>3, <3>4 DEF FinishScan, JobTypes
    <3>6. k.subject = subject /\ k.verdict = verdict /\ k.at = "done"
      BY <1>2, <3>4 DEF JobTypes
    <3>7. subject.found = f /\ subject.body = "none"
      BY <3>3 DEF NoSubject
    <3>8. ScriptIsJudged(k)
      BY <3>1, <3>2, <3>6, <3>7 DEF ScriptIsJudged
    <3> QED BY <3>5, <3>6, <3>7, <3>8 DEF JudgementInv, SubjectIsJudged
  <2>2. ASSUME NEW v, FinishScan(job, v)
        PROVE  JudgementInv'
    BY <1>1, <1>5, <2>2
  <2> QED BY <1>8, <2>1, <2>2 DEF ScanScript
<1> QED BY <1>6, <1>7, <1>8

(* An archive's parts are judged one by one; its verdict is of no subject. *)
LEMMA ArchiveJudged ==
    ASSUME FileScanInv, JudgementInv, Inspect \/ NextPlugin \/ JudgePlugin \/ NextScript
    PROVE  JudgementInv'
<1>1. PICK j : j = job
  OBVIOUS
<1>2. JobTypes(j) /\ j.type = "archive" /\ j.at # "done"
  BY <1>1 DEF FileScanInv, JobIsSound, JobTypes, Inspect, NextPlugin, JudgePlugin, NextScript
<1>3. j.subject = NoSubject /\ {"at", "left", "saw", "parts", "report", "verdict", "type", "subject"}
                               \subseteq DOMAIN j
  BY <1>1, <1>2 DEF JudgementInv, SubjectIsJudged, JobTypes
<1>4. SUFFICES job'.subject = j.subject /\ job'.type = j.type
  BY <1>2, <1>3, NotAnalysed DEF JudgementInv
<1>5. CASE Inspect
  BY <1>1, <1>3, <1>5 DEF Inspect, FinishScan
<1>6. CASE NextPlugin
  BY <1>1, <1>3, <1>6 DEF NextPlugin, ToScripts
<1>7. CASE JudgePlugin
  BY <1>1, <1>3, <1>7 DEF JudgePlugin, Judged, ToScripts
<1>8. CASE NextScript
  BY <1>1, <1>3, <1>8 DEF NextScript, Conclude, FinishScan
<1> QED BY <1>5, <1>6, <1>7, <1>8

LEMMA JudgementStepInv ==
    ASSUME FileScanInv, JudgementInv, [FileScanNext]_fileScanVars
    PROVE  JudgementInv'
<1>1. CASE Submit
  BY <1>1, SubmitJudged
<1>2. CASE RejectFile \/ ScanPlugin \/ ScanScript
  BY <1>2, SingleScanJudged
<1>3. CASE LoadRules
  BY <1>3 DEF LoadRules, JudgementInv, SubjectIsJudged
<1>4. CASE Inspect \/ NextPlugin \/ JudgePlugin \/ NextScript
  BY <1>4, ArchiveJudged
<1>5. CASE Post \/ WorkerKilled
  BY <1>5 DEF Post, WorkerKilled, NoJob, JudgementInv, SubjectIsJudged
<1>6. CASE UNCHANGED fileScanVars
  BY <1>6 DEF fileScanVars, JudgementInv, SubjectIsJudged
<1> QED BY <1>1, <1>2, <1>3, <1>4, <1>5, <1>6 DEF FileScanNext

(* A verdict is always the one on the findings the scan reports with it.   *)
THEOREM VerdictsAreOfTheirFindings == FileScanSpec => []JudgementInv
<1>1. FileScanInit => JudgementInv
  BY DEF FileScanInit, NoJob, JudgementInv, SubjectIsJudged
<1>2. FileScanInv /\ JudgementInv /\ [FileScanNext]_fileScanVars => JudgementInv'
  BY JudgementStepInv
<1> QED BY <1>1, <1>2, FileScanInvariant, PTL DEF FileScanSpec

(* However many rules there are and whatever a file's findings, a part of  *)
(* them would never have given it a more severe verdict: score, floors,    *)
(* confidence and gates all move the same way (engine.js, multilayer.js).  *)
THEOREM MoreEvidenceNeverMilder == FileScanSpec => []MoreFindingsNeverMilder
<1>1. ASSUME JudgementInv, job.at = "done", job.subject.body = "pe",
             NEW f \in SUBSET job.subject.found
      PROVE  LET r == EngineResult(f, "pe", job.subject.reputation, rules)
                 v == IF job.mode = "free" THEN FreeVerdict(r) ELSE ProVerdict(r)
             IN  Rank[v] <= Rank[job.verdict]
  <2>1. PICK more, p : more = job.subject.found /\ p = job.subject.reputation
    OBVIOUS
  <2>2. PICK r, q : r = EngineResult(f, "pe", p, rules) /\ q = EngineResult(more, "pe", p, rules)
    OBVIOUS
  <2>3. /\ more \in SUBSET Findings /\ rules \in Statuses
        /\ job.verdict = IF job.mode = "free" THEN FreeVerdict(q) ELSE ProVerdict(q)
    BY <1>1, <2>1, <2>2 DEF JudgementInv, SubjectIsJudged, PluginIsJudged
  <2>4. /\ Rank[FreeVerdict(r)] <= Rank[FreeVerdict(q)]
        /\ Rank[ProVerdict(r)] <= Rank[ProVerdict(q)]
    BY <2>1, <2>2, <2>3, VerdictGrows
  <2> QED BY <2>1, <2>2, <2>3, <2>4
<1>2. JudgementInv => MoreFindingsNeverMilder
  BY <1>1 DEF MoreFindingsNeverMilder
<1> QED BY <1>2, VerdictsAreOfTheirFindings, PTL

(* For every table of script rules that weighs a strong finding 18 or more *)
(* and asks two categories of a combination: one strong finding is never   *)
(* safe, and one category never malicious (script-analyzer.js).            *)
THEOREM ScriptScoresAreMeasured == FileScanSpec => []ScriptScoreIsMeasured
<1>1. ASSUME JudgementInv, job.at = "done", job.type = "script", job.parts # <<>>
      PROVE  /\ Strong(job.subject.found) # {} => job.verdict # "safe"
             /\ job.verdict = "malicious" => Cardinality(Categories(job.subject.found)) > 1
  <2>1. PICK found : found = job.subject.found
    OBVIOUS
  <2>2. /\ found \in SUBSET ScriptFindings
        /\ job.verdict = ScriptVerdict(found)
           \/ (ScriptVerdict(found) = "safe" /\ job.verdict = "suspicious")
    BY <1>1, <2>1 DEF JudgementInv, SubjectIsJudged, ScriptIsJudged
  <2>3. /\ Strong(found) # {} => ScriptVerdict(found) # "safe"
        /\ ScriptVerdict(found) = "malicious" => Cardinality(Categories(found)) > 1
    BY <2>2, ScriptVerdictIsMeasured
  <2> QED BY <2>1, <2>2, <2>3
<1>2. JudgementInv => ScriptScoreIsMeasured
  BY <1>1 DEF ScriptScoreIsMeasured
<1> QED BY <1>2, VerdictsAreOfTheirFindings, PTL
=============================================================================
