----------------------- MODULE SignatureQuorum_proofs -----------------------
(***************************************************************************)
(* Proofs about SignatureQuorum, for every word, threshold and number of   *)
(* keys: the checked sum of clause_reaches_one is the rational one as far  *)
(* as the word holds it, and fails closed beyond.                          *)
(*                                                                         *)
(* Both sides are folds: the code's one in the order of the positions, the *)
(* reference's in any order. A fold is a recursive function on the subsets *)
(* of its domain; that it has a solution, and that the order of a sum or a *)
(* product does not matter, is shown by looking at a smallest set for      *)
(* which it would fail.                                                    *)
(***************************************************************************)
EXTENDS SignatureQuorum, TLAPS, FiniteSetTheorems, WellFoundedInduction

-----------------------------------------------------------------------------
(* Smallest sets, and folds over the subsets of a finite set.              *)

(* Every set of numbers that is not empty has a least one.                 *)
LEMMA LeastNumber ==
  ASSUME NEW T \in SUBSET Nat, T # {}
  PROVE  \E x \in T : \A y \in T : x <= y
<1> DEFINE R == OpToRel(<, Nat)
<1>1. IsWellFoundedOn(R, Nat)
  BY NatLessThanWellFounded
<1>2. \A x, y \in Nat : x < y => <<x, y>> \in R
  BY DEF OpToRel
<1> HIDE DEF R
<1>3. PICK x \in T : \A y \in T : ~(<<y, x>> \in R)
  BY <1>1, WFMin
<1>4. ASSUME NEW y \in T PROVE x <= y
  <2>1. x \in Nat /\ y \in Nat /\ ~(y < x)
    BY <1>2, <1>3
  <2>2. QED
    BY <2>1
<1>5. QED
  BY <1>4

(* Among some subsets of a finite set one has none of the others below it. *)
LEMMA SmallestSet ==
  ASSUME NEW S, IsFiniteSet(S), NEW T \in SUBSET SUBSET S, T # {}
  PROVE  \E s \in T : \A x \in s : s \ {x} \notin T
<1> DEFINE sizes == {Cardinality(s) : s \in T}
<1>1. \A s \in T : IsFiniteSet(s) /\ Cardinality(s) \in Nat
  BY FS_Subset, FS_CardinalityType
<1>2. sizes \in SUBSET Nat /\ sizes # {}
  BY <1>1
<1>3. PICK n \in sizes : \A k \in sizes : n <= k
  <2> HIDE DEF sizes
  <2> QED
    BY <1>2, LeastNumber
<1>4. PICK s \in T : n = Cardinality(s)
  BY <1>3
<1>5. ASSUME NEW x \in s, s \ {x} \in T PROVE FALSE
  <2>1. IsFiniteSet(s) /\ Cardinality(s) \in Nat
    BY <1>1
  <2>2. Cardinality(s \ {x}) = Cardinality(s) - 1
    BY <2>1, FS_RemoveElement
  <2>3. n <= Cardinality(s \ {x})
    BY <1>3, <1>5
  <2> QED
    BY <1>4, <2>1, <2>2, <2>3
<1> QED
  BY <1>5

(* One step of a fold, and a table of what the fold yields for the subsets *)
(* of S with at most n members.                                            *)
FoldAt(base, step, pick, g, s) ==
  IF s = {} THEN base ELSE step[<<pick[s], g[s \ {pick[s]}]>>]

Picks(pick, S) == \A s \in SUBSET S : s # {} => pick[s] \in s

IsFoldOf(g, S, V, base, step, pick) ==
  /\ g \in [SUBSET S -> V]
  /\ \A s \in SUBSET S : g[s] = FoldAt(base, step, pick, g, s)

Upto(S, n) == {s \in SUBSET S : Cardinality(s) <= n}

(* Whatever a fold does with a member and the rest, it has a solution.     *)
LEMMA FoldExists ==
  ASSUME NEW S, IsFiniteSet(S), NEW V, NEW base \in V, NEW step \in [S \X V -> V],
         NEW pick, Picks(pick, S)
  PROVE  \E g : IsFoldOf(g, S, V, base, step, pick)
<1> DEFINE Solved(n) == \E g \in [Upto(S, n) -> V] :
                          \A s \in Upto(S, n) : g[s] = FoldAt(base, step, pick, g, s)
           missing == {n \in Nat : ~Solved(n)}
<1>0. \A s \in SUBSET S : IsFiniteSet(s) /\ Cardinality(s) \in Nat
  BY FS_Subset, FS_CardinalityType
<1>1. Solved(0)
  <2> DEFINE g == [s \in Upto(S, 0) |-> base]
  <2>1. \A s \in Upto(S, 0) : s = {}
    BY <1>0, FS_EmptySet DEF Upto
  <2>2. g \in [Upto(S, 0) -> V] /\ \A s \in Upto(S, 0) : g[s] = base
    OBVIOUS
  <2> HIDE DEF g
  <2>3. \A s \in Upto(S, 0) : g[s] = FoldAt(base, step, pick, g, s)
    BY <2>1, <2>2 DEF FoldAt
  <2> QED
    BY <2>2, <2>3
<1>2. ASSUME NEW n \in Nat, Solved(n) PROVE Solved(n + 1)
  <2>1. PICK f \in [Upto(S, n) -> V] : \A s \in Upto(S, n) : f[s] = FoldAt(base, step, pick, f, s)
    BY <1>2
  <2> DEFINE g == [s \in Upto(S, n + 1) |-> FoldAt(base, step, pick, f, s)]
  <2>2. \A s \in Upto(S, n + 1) : s # {} => pick[s] \in S /\ s \ {pick[s]} \in Upto(S, n)
    <3> SUFFICES ASSUME NEW s \in Upto(S, n + 1), s # {}
                 PROVE  pick[s] \in S /\ s \ {pick[s]} \in Upto(S, n)
      OBVIOUS
    <3>1. s \in SUBSET S /\ pick[s] \in s /\ Cardinality(s) <= n + 1
      BY DEF Upto, Picks
    <3>2. Cardinality(s \ {pick[s]}) = Cardinality(s) - 1 /\ Cardinality(s) \in Nat
      BY <1>0, <3>1, FS_RemoveElement
    <3> QED
      BY <3>1, <3>2 DEF Upto
  <2>3. \A s \in Upto(S, n + 1) : g[s] = FoldAt(base, step, pick, f, s)
    OBVIOUS
  <2>4. g \in [Upto(S, n + 1) -> V]
    <3>1. \A s \in Upto(S, n + 1) : FoldAt(base, step, pick, f, s) \in V
      BY <2>1, <2>2 DEF FoldAt
    <3> QED
      BY <3>1
  <2>5. \A s \in Upto(S, n) : s \in Upto(S, n + 1) /\ g[s] = f[s]
    <3>1. \A s \in Upto(S, n) : s \in Upto(S, n + 1)
      BY <1>0 DEF Upto
    <3> QED
      BY <2>1, <2>3, <3>1
  <2> HIDE DEF g
  <2>6. \A s \in Upto(S, n + 1) : g[s] = FoldAt(base, step, pick, g, s)
    BY <2>2, <2>3, <2>5 DEF FoldAt
  <2> QED
    BY <2>4, <2>6
<1>3. missing = {}
  <2> SUFFICES ASSUME missing # {} PROVE FALSE
    OBVIOUS
  <2>1. PICK n \in missing : \A k \in missing : n <= k
    <3>1. missing \in SUBSET Nat
      OBVIOUS
    <3> HIDE DEF missing
    <3> QED
      BY <3>1, LeastNumber
  <2>2. n \in Nat /\ n # 0 /\ ~Solved(n)
    BY <1>1, <2>1
  <2>3. n - 1 \in Nat /\ n - 1 \notin missing
    BY <2>1, <2>2
  <2>4. Solved(n - 1) /\ (n - 1) + 1 = n
    BY <2>2, <2>3
  <2> HIDE DEF Solved, missing
  <2> QED
    BY <1>2, <2>2, <2>3, <2>4
<1>4. Solved(Cardinality(S))
  <2>1. Cardinality(S) \in Nat
    BY <1>0
  <2> QED
    BY <1>3, <2>1
<1>5. Upto(S, Cardinality(S)) = SUBSET S
  BY FS_Subset, FS_CardinalityType DEF Upto
<1> QED
  BY <1>4, <1>5 DEF IsFoldOf

-----------------------------------------------------------------------------
(* Sums and products over a finite set do not depend on the order.         *)

Pick(s) == CHOOSE x \in s : TRUE

IsSumTable(g, D, w) ==
  /\ g \in [SUBSET D -> Nat]
  /\ g[{}] = 0
  /\ \A s \in SUBSET D : \A x \in s : g[s] = w[x] + g[s \ {x}]

(* All the sums of a function over parts of its domain in one table.       *)
LEMMA SumTable ==
  ASSUME NEW D, IsFiniteSet(D), NEW w \in [D -> Nat]
  PROVE  \E g : IsSumTable(g, D, w)
<1> DEFINE step == [p \in D \X Nat |-> w[p[1]] + p[2]]
           pick == [s \in SUBSET D |-> Pick(s)]
<1>1. step \in [D \X Nat -> Nat] /\ \A x \in D : \A n \in Nat : step[<<x, n>>] = w[x] + n
  OBVIOUS
<1>2. \A s \in SUBSET D : pick[s] = Pick(s) /\ (s # {} => pick[s] \in s)
  BY DEF Pick
<1> HIDE DEF step, pick
<1>3. PICK g \in [SUBSET D -> Nat] : \A s \in SUBSET D : g[s] = FoldAt(0, step, pick, g, s)
  <2>1. 0 \in Nat /\ Picks(pick, D)
    BY <1>2 DEF Picks
  <2>2. PICK g : IsFoldOf(g, D, Nat, 0, step, pick)
    BY <1>1, <2>1, FoldExists, Zenon
  <2> QED
    BY <2>2 DEF IsFoldOf
<1>4. g[{}] = 0
  BY <1>3 DEF FoldAt
<1>5. \A s \in SUBSET D : s # {} =>
        /\ Pick(s) \in s /\ s \ {Pick(s)} \in SUBSET D
        /\ g[s] = w[Pick(s)] + g[s \ {Pick(s)}]
  <2> SUFFICES ASSUME NEW s \in SUBSET D, s # {}
               PROVE  /\ Pick(s) \in s /\ s \ {Pick(s)} \in SUBSET D
                      /\ g[s] = w[Pick(s)] + g[s \ {Pick(s)}]
    OBVIOUS
  <2>1. Pick(s) \in s /\ Pick(s) \in D /\ s \ {Pick(s)} \in SUBSET D
    BY <1>2
  <2>2. g[s \ {Pick(s)}] \in Nat
    BY <2>1
  <2>3. g[s] = step[<<Pick(s), g[s \ {Pick(s)}]>>]
    BY <1>2, <1>3 DEF FoldAt
  <2> QED
    BY <1>1, <2>1, <2>2, <2>3
<1> DEFINE wrong == {s \in SUBSET D : \E x \in s : g[s] # w[x] + g[s \ {x}]}
<1>6. wrong = {}
  <2> SUFFICES ASSUME wrong # {} PROVE FALSE
    OBVIOUS
  <2>1. PICK s \in wrong : \A x \in s : s \ {x} \notin wrong
    <3>1. wrong \in SUBSET SUBSET D
      OBVIOUS
    <3> HIDE DEF wrong
    <3> QED
      BY <3>1, SmallestSet
  <2>2. PICK x \in s : g[s] # w[x] + g[s \ {x}]
    BY <2>1
  <2> DEFINE c == Pick(s)
  <2>3. c \in s /\ g[s] = w[c] + g[s \ {c}] /\ s \in SUBSET D
    BY <1>5, <2>1, <2>2
  <2>4. c # x
    BY <2>2, <2>3
  <2> HIDE DEF c
  <2>5. s \ {c} \in SUBSET D /\ s \ {c} \notin wrong /\ s \ {x} \in SUBSET D /\ s \ {x} \notin wrong
    BY <2>1, <2>2, <2>3
  <2>6. g[s \ {c}] = w[x] + g[(s \ {c}) \ {x}] /\ g[s \ {x}] = w[c] + g[(s \ {x}) \ {c}]
    BY <2>2, <2>3, <2>4, <2>5
  <2>7. PICK r \in Nat : r = g[(s \ {c}) \ {x}] /\ r = g[(s \ {x}) \ {c}]
    <3>1. (s \ {c}) \ {x} = (s \ {x}) \ {c} /\ (s \ {x}) \ {c} \in SUBSET D
      BY <2>3
    <3> QED
      BY <3>1
  <2>8. w[x] \in Nat /\ w[c] \in Nat
    BY <2>2, <2>3
  <2>9. g[s] = w[c] + (w[x] + r) /\ g[s \ {x}] = w[c] + r
    BY <2>3, <2>6, <2>7
  <2>10. w[c] + (w[x] + r) = w[x] + (w[c] + r)
    BY <2>8
  <2> QED
    BY <2>2, <2>9, <2>10
<1>7. \A s \in SUBSET D : \A x \in s : g[s] = w[x] + g[s \ {x}]
  BY <1>6
<1> HIDE DEF wrong
<1> QED
  BY <1>4, <1>7 DEF IsSumTable

(* What the library's sum computes for a part of the domain.               *)
LEMMA SumIs ==
  ASSUME NEW D, IsFiniteSet(D), NEW w \in [D -> Nat], NEW g, IsSumTable(g, D, w),
         NEW E \in SUBSET D, NEW v, v = [i \in E |-> w[i]]
  PROVE  SumFunction(v) = g[E]
<1> DEFINE At(it, s) == IF s = {} THEN 0 ELSE v[Pick(s)] + it[s \ {Pick(s)}]
           Solves(it) == it = [s \in SUBSET E |-> At(it, s)]
           sum == CHOOSE it : Solves(it)
<1>1. SumFunction(v) = sum[E]
  <2>1. DOMAIN v = E
    OBVIOUS
  <2> QED
    BY <2>1 DEF SumFunction, SumFunctionOnSet, FoldFunctionOnSet, MapThenFoldSet, Pick
<1>0. /\ g \in [SUBSET D -> Nat] /\ g[{}] = 0
      /\ \A s \in SUBSET D : \A x \in s : g[s] = w[x] + g[s \ {x}]
  BY DEF IsSumTable
<1>2. \A s \in SUBSET E : s # {} =>
        Pick(s) \in s /\ s \ {Pick(s)} \in SUBSET E /\ v[Pick(s)] = w[Pick(s)]
  BY DEF Pick
<1>3. Solves([s \in SUBSET E |-> g[s]])
  <2> DEFINE h == [s \in SUBSET E |-> g[s]]
  <2>1. \A s \in SUBSET E : h[s] = g[s]
    OBVIOUS
  <2> HIDE DEF h
  <2>2. \A s \in SUBSET E : At(h, s) = g[s]
    BY <1>0, <1>2, <2>1
  <2>3. h = [s \in SUBSET E |-> At(h, s)]
    BY <2>2 DEF h
  <2> QED
    BY <2>3 DEF h
<1>4. Solves(sum)
  BY <1>3
<1>5. \A s \in SUBSET E : sum[s] = At(sum, s)
  BY <1>4
<1> HIDE DEF sum
<1> DEFINE wrong == {s \in SUBSET E : sum[s] # g[s]}
<1>6. wrong = {}
  <2> SUFFICES ASSUME wrong # {} PROVE FALSE
    OBVIOUS
  <2>1. PICK s \in wrong : \A x \in s : s \ {x} \notin wrong
    <3>1. wrong \in SUBSET SUBSET E /\ IsFiniteSet(E)
      BY FS_Subset
    <3> HIDE DEF wrong
    <3> QED
      BY <3>1, SmallestSet
  <2>2. s \in SUBSET E /\ s \in SUBSET D /\ sum[s] # g[s]
    BY <2>1
  <2>3. s # {}
    BY <1>0, <1>5, <2>2
  <2>4. sum[s \ {Pick(s)}] = g[s \ {Pick(s)}]
    BY <1>2, <2>1, <2>2, <2>3
  <2> QED
    BY <1>0, <1>2, <1>5, <2>2, <2>3, <2>4
<1> QED
  BY <1>1, <1>6

Product(w) == FoldFunction(LAMBDA a, b : a * b, 1, w)

IsProductTable(g, D, w) ==
  /\ g \in [SUBSET D -> Nat]
  /\ g[{}] = 1
  /\ \A s \in SUBSET D : \A x \in s : g[s] = w[x] * g[s \ {x}]

(* All the products of a function over parts of its domain in one table.   *)
LEMMA ProductTable ==
  ASSUME NEW D, IsFiniteSet(D), NEW w \in [D -> Nat]
  PROVE  \E g : IsProductTable(g, D, w)
<1> DEFINE step == [p \in D \X Nat |-> w[p[1]] * p[2]]
           pick == [s \in SUBSET D |-> Pick(s)]
<1>1. step \in [D \X Nat -> Nat] /\ \A x \in D : \A n \in Nat : step[<<x, n>>] = w[x] * n
  OBVIOUS
<1>2. \A s \in SUBSET D : pick[s] = Pick(s) /\ (s # {} => pick[s] \in s)
  BY DEF Pick
<1> HIDE DEF step, pick
<1>3. PICK g \in [SUBSET D -> Nat] : \A s \in SUBSET D : g[s] = FoldAt(1, step, pick, g, s)
  <2>1. 1 \in Nat /\ Picks(pick, D)
    BY <1>2 DEF Picks
  <2>2. PICK g : IsFoldOf(g, D, Nat, 1, step, pick)
    BY <1>1, <2>1, FoldExists, Zenon
  <2> QED
    BY <2>2 DEF IsFoldOf
<1>4. g[{}] = 1
  BY <1>3 DEF FoldAt
<1>5. \A s \in SUBSET D : s # {} =>
        /\ Pick(s) \in s /\ s \ {Pick(s)} \in SUBSET D
        /\ g[s] = w[Pick(s)] * g[s \ {Pick(s)}]
  <2> SUFFICES ASSUME NEW s \in SUBSET D, s # {}
               PROVE  /\ Pick(s) \in s /\ s \ {Pick(s)} \in SUBSET D
                      /\ g[s] = w[Pick(s)] * g[s \ {Pick(s)}]
    OBVIOUS
  <2>1. Pick(s) \in s /\ Pick(s) \in D /\ s \ {Pick(s)} \in SUBSET D
    BY <1>2
  <2>2. g[s \ {Pick(s)}] \in Nat
    BY <2>1
  <2>3. g[s] = step[<<Pick(s), g[s \ {Pick(s)}]>>]
    BY <1>2, <1>3 DEF FoldAt
  <2> QED
    BY <1>1, <2>1, <2>2, <2>3
<1> DEFINE wrong == {s \in SUBSET D : \E x \in s : g[s] # w[x] * g[s \ {x}]}
<1>6. wrong = {}
  <2> SUFFICES ASSUME wrong # {} PROVE FALSE
    OBVIOUS
  <2>1. PICK s \in wrong : \A x \in s : s \ {x} \notin wrong
    <3>1. wrong \in SUBSET SUBSET D
      OBVIOUS
    <3> HIDE DEF wrong
    <3> QED
      BY <3>1, SmallestSet
  <2>2. PICK x \in s : g[s] # w[x] * g[s \ {x}]
    BY <2>1
  <2> DEFINE c == Pick(s)
  <2>3. c \in s /\ g[s] = w[c] * g[s \ {c}] /\ s \in SUBSET D
    BY <1>5, <2>1, <2>2
  <2>4. c # x
    BY <2>2, <2>3
  <2> HIDE DEF c
  <2>5. s \ {c} \in SUBSET D /\ s \ {c} \notin wrong /\ s \ {x} \in SUBSET D /\ s \ {x} \notin wrong
    BY <2>1, <2>2, <2>3
  <2>6. g[s \ {c}] = w[x] * g[(s \ {c}) \ {x}] /\ g[s \ {x}] = w[c] * g[(s \ {x}) \ {c}]
    BY <2>2, <2>3, <2>4, <2>5
  <2>7. PICK r \in Nat : r = g[(s \ {c}) \ {x}] /\ r = g[(s \ {x}) \ {c}]
    <3>1. (s \ {c}) \ {x} = (s \ {x}) \ {c} /\ (s \ {x}) \ {c} \in SUBSET D
      BY <2>3
    <3> QED
      BY <3>1
  <2>8. w[x] \in Nat /\ w[c] \in Nat
    BY <2>2, <2>3
  <2>9. g[s] = w[c] * (w[x] * r) /\ g[s \ {x}] = w[c] * r
    BY <2>3, <2>6, <2>7
  <2>10. w[c] * (w[x] * r) = w[x] * (w[c] * r)
    BY <2>8
  <2> QED
    BY <2>2, <2>9, <2>10
<1>7. \A s \in SUBSET D : \A x \in s : g[s] = w[x] * g[s \ {x}]
  BY <1>6
<1> HIDE DEF wrong
<1> QED
  BY <1>4, <1>7 DEF IsProductTable

(* What the product computes for a part of the domain.                     *)
LEMMA ProductIs ==
  ASSUME NEW D, IsFiniteSet(D), NEW w \in [D -> Nat], NEW g, IsProductTable(g, D, w),
         NEW E \in SUBSET D, NEW v, v = [i \in E |-> w[i]]
  PROVE  Product(v) = g[E]
<1> DEFINE At(it, s) == IF s = {} THEN 1 ELSE v[Pick(s)] * it[s \ {Pick(s)}]
           Solves(it) == it = [s \in SUBSET E |-> At(it, s)]
           product == CHOOSE it : Solves(it)
<1>1. Product(v) = product[E]
  <2>1. DOMAIN v = E
    OBVIOUS
  <2> QED
    BY <2>1 DEF Product, FoldFunction, FoldFunctionOnSet, MapThenFoldSet, Pick
<1>0. /\ g \in [SUBSET D -> Nat] /\ g[{}] = 1
      /\ \A s \in SUBSET D : \A x \in s : g[s] = w[x] * g[s \ {x}]
  BY DEF IsProductTable
<1>2. \A s \in SUBSET E : s # {} =>
        Pick(s) \in s /\ s \ {Pick(s)} \in SUBSET E /\ v[Pick(s)] = w[Pick(s)]
  BY DEF Pick
<1>3. Solves([s \in SUBSET E |-> g[s]])
  <2> DEFINE h == [s \in SUBSET E |-> g[s]]
  <2>1. \A s \in SUBSET E : h[s] = g[s]
    OBVIOUS
  <2> HIDE DEF h
  <2>2. \A s \in SUBSET E : At(h, s) = g[s]
    BY <1>0, <1>2, <2>1
  <2>3. h = [s \in SUBSET E |-> At(h, s)]
    BY <2>2 DEF h
  <2> QED
    BY <2>3 DEF h
<1>4. Solves(product)
  BY <1>3
<1>5. \A s \in SUBSET E : product[s] = At(product, s)
  BY <1>4
<1> HIDE DEF product
<1> DEFINE wrong == {s \in SUBSET E : product[s] # g[s]}
<1>6. wrong = {}
  <2> SUFFICES ASSUME wrong # {} PROVE FALSE
    OBVIOUS
  <2>1. PICK s \in wrong : \A x \in s : s \ {x} \notin wrong
    <3>1. wrong \in SUBSET SUBSET E /\ IsFiniteSet(E)
      BY FS_Subset
    <3> HIDE DEF wrong
    <3> QED
      BY <3>1, SmallestSet
  <2>2. s \in SUBSET E /\ s \in SUBSET D /\ product[s] # g[s]
    BY <2>1
  <2>3. s # {}
    BY <1>0, <1>5, <2>2
  <2>4. product[s \ {Pick(s)}] = g[s \ {Pick(s)}]
    BY <1>2, <2>1, <2>2, <2>3
  <2> QED
    BY <1>0, <1>2, <1>5, <2>2, <2>3, <2>4
<1> QED
  BY <1>1, <1>6

-----------------------------------------------------------------------------
(* The rational sum of the fractions at some positions of a clause.        *)

Fraction == [num : Nat, den : Nat]

LEMMA Positions ==
  ASSUME NEW clause \in Seq(Fraction)
  PROVE  /\ DOMAIN clause = 1..Len(clause) /\ Len(clause) \in Nat
         /\ IsFiniteSet(DOMAIN clause)
         /\ \A i \in DOMAIN clause : clause[i].num \in Nat /\ clause[i].den \in Nat
<1>1. DOMAIN clause = 1..Len(clause) /\ Len(clause) \in Nat
  OBVIOUS
<1>2. IsFiniteSet(1..Len(clause))
  BY <1>1, FS_Interval
<1>3. \A i \in DOMAIN clause : clause[i] \in Fraction
  OBVIOUS
<1> QED
  BY <1>1, <1>2, <1>3 DEF Fraction

(* The denominator of the sum is a product that any position may be taken  *)
(* out of.                                                                 *)
LEMMA DenominatorSteps ==
  ASSUME NEW clause \in Seq(Fraction)
  PROVE  /\ Denominator(clause, {}) = 1
         /\ \A local \in SUBSET DOMAIN clause :
              /\ Denominator(clause, local) \in Nat
              /\ \A x \in local :
                   Denominator(clause, local) = clause[x].den * Denominator(clause, local \ {x})
<1> DEFINE D == DOMAIN clause
           w == [i \in D |-> clause[i].den]
<1>1. IsFiniteSet(D) /\ w \in [D -> Nat]
  BY Positions
<1>2. PICK g : IsProductTable(g, D, w)
  <2> HIDE DEF D, w
  <2> QED
    BY <1>1, ProductTable
<1>3. ASSUME NEW E \in SUBSET D PROVE Denominator(clause, E) = g[E]
  <2> DEFINE v == [i \in E |-> clause[i].den]
  <2>1. v = [i \in E |-> w[i]]
    OBVIOUS
  <2>2. Denominator(clause, E) = Product(v)
    BY DEF Denominator, Product
  <2> HIDE DEF D, w, v
  <2> QED
    BY <1>1, <1>2, <2>1, <2>2, ProductIs
<1>4. /\ g \in [SUBSET D -> Nat] /\ g[{}] = 1
      /\ \A s \in SUBSET D : \A x \in s : g[s] = clause[x].den * g[s \ {x}]
  BY <1>2 DEF IsProductTable
<1>5. \A s \in SUBSET D : \A x \in s : x \in D /\ s \ {x} \in SUBSET D
  OBVIOUS
<1>6. Denominator(clause, {}) = 1
  BY <1>3, <1>4
<1>7. ASSUME NEW local \in SUBSET D
      PROVE  /\ Denominator(clause, local) \in Nat
             /\ \A x \in local :
                  Denominator(clause, local) = clause[x].den * Denominator(clause, local \ {x})
  BY <1>3, <1>4, <1>5
<1> QED
  BY <1>6, <1>7

(* One more fraction a/b is added to n/d as (n * b + a * d) / (d * b).     *)
LEMMA NumeratorSteps ==
  ASSUME NEW clause \in Seq(Fraction)
  PROVE  /\ Numerator(clause, {}) = 0
         /\ \A local \in SUBSET DOMAIN clause :
              /\ Numerator(clause, local) \in Nat
              /\ \A x \in local :
                   Numerator(clause, local) =
                     Numerator(clause, local \ {x}) * clause[x].den
                       + clause[x].num * Denominator(clause, local \ {x})
<1> DEFINE D == DOMAIN clause
           w(L) == [i \in L |-> clause[i].num * Denominator(clause, L \ {i})]
<1>1. \A L \in SUBSET D : \A i \in L :
        clause[i].num \in Nat /\ clause[i].den \in Nat /\ Denominator(clause, L \ {i}) \in Nat
  BY Positions, DenominatorSteps
<1>2. \A L \in SUBSET D : w(L) \in [L -> Nat] /\ IsFiniteSet(L)
  <2>1. \A L \in SUBSET D : IsFiniteSet(L)
    BY Positions, FS_Subset
  <2>2. \A L \in SUBSET D : \A i \in L : clause[i].num * Denominator(clause, L \ {i}) \in Nat
    <3> SUFFICES ASSUME NEW L \in SUBSET D, NEW i \in L
                 PROVE  clause[i].num * Denominator(clause, L \ {i}) \in Nat
      OBVIOUS
    <3>1. PICK a \in Nat, b \in Nat : a = clause[i].num /\ b = Denominator(clause, L \ {i})
      BY <1>1
    <3>2. a * b \in Nat
      OBVIOUS
    <3> QED
      BY <3>1, <3>2
  <2> QED
    BY <2>1, <2>2
<1>3. ASSUME NEW L \in SUBSET D
      PROVE  \E g : IsSumTable(g, L, w(L)) /\ Numerator(clause, L) = g[L]
  <2>1. PICK u : u = w(L)
    OBVIOUS
  <2>0. IsFiniteSet(L) /\ u \in [L -> Nat]
    BY <1>2, <2>1
  <2>2. PICK g : IsSumTable(g, L, u)
    BY <2>0, SumTable
  <2>3. Numerator(clause, L) = SumFunction(u)
    BY <2>1 DEF Numerator
  <2>4. u = [i \in L |-> u[i]] /\ u \in [L -> Nat] /\ L \in SUBSET L
    BY <2>0
  <2>5. SumFunction(u) = g[L]
    BY <2>0, <2>2, <2>4, SumIs
  <2> QED
    BY <2>1, <2>2, <2>3, <2>5
<1>4. Numerator(clause, {}) = 0
  BY <1>3 DEF IsSumTable
<1>5. ASSUME NEW L \in SUBSET D PROVE Numerator(clause, L) \in Nat
  <2>1. PICK g : IsSumTable(g, L, w(L)) /\ Numerator(clause, L) = g[L]
    BY <1>3
  <2> HIDE DEF w
  <2> QED
    BY <2>1 DEF IsSumTable
<1>6. ASSUME NEW L \in SUBSET D, NEW x \in L
      PROVE  Numerator(clause, L) = Numerator(clause, L \ {x}) * clause[x].den
                                      + clause[x].num * Denominator(clause, L \ {x})
  <2> DEFINE M == L \ {x}
  <2>1. M \in SUBSET D /\ M \in SUBSET L
    OBVIOUS
  <2>2. PICK g : IsSumTable(g, L, w(L)) /\ Numerator(clause, L) = g[L]
    BY <1>3
  <2>3. PICK h : IsSumTable(h, M, w(M)) /\ Numerator(clause, M) = h[M]
    BY <1>3, <2>1
  <2>c. PICK wl, wm : wl = w(L) /\ wm = w(M)
    OBVIOUS
  <2>g. /\ g \in [SUBSET L -> Nat] /\ g[{}] = 0
        /\ \A s \in SUBSET L : \A y \in s : g[s] = wl[y] + g[s \ {y}]
    <3> HIDE DEF w, M
    <3> QED
      BY <2>2, <2>c DEF IsSumTable
  <2>h. /\ h \in [SUBSET M -> Nat] /\ h[{}] = 0
        /\ \A s \in SUBSET M : \A y \in s : h[s] = wm[y] + h[s \ {y}]
    <3> HIDE DEF w, M
    <3> QED
      BY <2>3, <2>c DEF IsSumTable
  <2>4. PICK d \in Nat : d = clause[x].den
    BY <1>1
  <2>5. ASSUME NEW c \in M PROVE wl[c] = d * wm[c] /\ wm[c] \in Nat
    <3>1. c # x /\ c \in L /\ x \in L \ {c} /\ L \ {c} \in SUBSET D /\ (L \ {c}) \ {x} = M \ {c}
      OBVIOUS
    <3>2. Denominator(clause, L \ {c}) = d * Denominator(clause, M \ {c})
      BY <2>4, <3>1, DenominatorSteps
    <3>3. PICK a \in Nat, b \in Nat : a = clause[c].num /\ b = Denominator(clause, M \ {c})
      BY <1>1, <2>1
    <3>4. wl[c] = a * (d * b) /\ wm[c] = a * b
      BY <2>c, <3>1, <3>2, <3>3
    <3>5. a * (d * b) = d * (a * b) /\ a * b \in Nat
      OBVIOUS
    <3> QED
      BY <3>4, <3>5
  <2> DEFINE wrong == {s \in SUBSET M : g[s] # d * h[s]}
  <2>6. wrong = {}
    <3> SUFFICES ASSUME wrong # {} PROVE FALSE
      OBVIOUS
    <3>1. PICK s \in wrong : \A y \in s : s \ {y} \notin wrong
      <4>1. wrong \in SUBSET SUBSET M /\ IsFiniteSet(M)
        BY <1>2, <2>1
      <4> HIDE DEF wrong, M
      <4> QED
        BY <4>1, SmallestSet
    <3>2. s \in SUBSET M /\ s \in SUBSET L /\ g[s] # d * h[s]
      BY <3>1
    <3>3. s # {}
      <4>1. g[{}] = 0 /\ h[{}] = 0 /\ d * 0 = 0
        BY <2>g, <2>h
      <4> HIDE DEF M, wrong
      <4> QED
        BY <3>2, <4>1
    <3>4. PICK c \in s : TRUE
      BY <3>3
    <3>5. c \in M /\ s \ {c} \in SUBSET M /\ g[s \ {c}] = d * h[s \ {c}]
      BY <3>1, <3>2
    <3>6. g[s] = wl[c] + g[s \ {c}] /\ h[s] = wm[c] + h[s \ {c}]
      BY <2>g, <2>h, <3>2, <3>4
    <3>7. PICK a \in Nat, b \in Nat : a = wm[c] /\ b = h[s \ {c}]
      BY <2>h, <2>5, <3>5
    <3>8. g[s] = d * a + d * b /\ h[s] = a + b
      BY <2>5, <3>5, <3>6, <3>7
    <3>9. d * a + d * b = d * (a + b)
      OBVIOUS
    <3> QED
      BY <3>2, <3>8, <3>9
  <2>7. g[M] = d * h[M]
    BY <2>6
  <2>8. g[L] = wl[x] + g[M]
    BY <2>g
  <2>9. wl[x] = clause[x].num * Denominator(clause, M)
    BY <2>c
  <2>10. PICK p \in Nat, q \in Nat : p = clause[x].num * Denominator(clause, M) /\ q = h[M]
    <3>1. clause[x].num \in Nat /\ Denominator(clause, M) \in Nat
      BY <1>1
    <3>2. clause[x].num * Denominator(clause, M) \in Nat
      BY <3>1
    <3> QED
      BY <2>h, <3>2
  <2>11. p + d * q = q * d + p
    OBVIOUS
  <2> HIDE DEF M
  <2> QED
    BY <2>2, <2>3, <2>4, <2>7, <2>8, <2>9, <2>10, <2>11 DEF M
<1> QED
  BY <1>4, <1>5, <1>6

(* Where no denominator is zero, part of a clause has no larger numerator  *)
(* and denominator than the whole.                                         *)
LEMMA PartsAreSmaller ==
  ASSUME NEW clause \in Seq(Fraction), \A i \in DOMAIN clause : clause[i].den # 0,
         NEW local \in SUBSET DOMAIN clause
  PROVE  /\ Denominator(clause, local) <= Denominator(clause, DOMAIN clause)
         /\ Numerator(clause, local) <= Numerator(clause, DOMAIN clause)
<1> DEFINE D == DOMAIN clause
           Smaller(L) == /\ Denominator(clause, L) <= Denominator(clause, D)
                         /\ Numerator(clause, L) <= Numerator(clause, D)
           wrong == {R \in SUBSET D : ~Smaller(D \ R)}
<1>1. \A L \in SUBSET D : Denominator(clause, L) \in Nat /\ Numerator(clause, L) \in Nat
  BY DenominatorSteps, NumeratorSteps
<1>2. ASSUME NEW L \in SUBSET D, NEW x \in L
      PROVE  /\ Denominator(clause, L \ {x}) <= Denominator(clause, L)
             /\ Numerator(clause, L \ {x}) <= Numerator(clause, L)
  <2>1. PICK a \in Nat, b \in Nat : a = clause[x].num /\ b = clause[x].den /\ b >= 1
    BY Positions
  <2>2. PICK n \in Nat, d \in Nat :
          n = Numerator(clause, L \ {x}) /\ d = Denominator(clause, L \ {x})
    BY <1>1
  <2>3. Denominator(clause, L) = b * d /\ Numerator(clause, L) = n * b + a * d
    BY <2>1, <2>2, DenominatorSteps, NumeratorSteps
  <2>4. n * b + a * d >= n /\ b * d >= d
    <3>1. PICK k \in Nat : b = k + 1
      <4>1. b - 1 \in Nat /\ b = (b - 1) + 1
        BY <2>1
      <4> QED
        BY <4>1
    <3>2. n * k \in Nat /\ k * d \in Nat /\ a * d \in Nat
      OBVIOUS
    <3>3. n * b = n * k + n /\ b * d = k * d + d
      BY <3>1
    <3> QED
      BY <3>2, <3>3
  <2> QED
    BY <2>2, <2>3, <2>4
<1>3. wrong = {}
  <2> SUFFICES ASSUME wrong # {} PROVE FALSE
    OBVIOUS
  <2>1. PICK R \in wrong : \A x \in R : R \ {x} \notin wrong
    <3>1. wrong \in SUBSET SUBSET D /\ IsFiniteSet(D)
      BY Positions
    <3> HIDE DEF wrong, D
    <3> QED
      BY <3>1, SmallestSet
  <2>2. R \in SUBSET D /\ ~Smaller(D \ R)
    BY <2>1
  <2>3. R # {}
    <3>1. D \ {} = D /\ Smaller(D)
      BY <1>1
    <3> HIDE DEF Smaller, D
    <3> QED
      BY <2>2, <3>1
  <2>4. PICK x \in R : TRUE
    BY <2>3
  <2>5. PICK L : L = D \ (R \ {x})
    OBVIOUS
  <2>6. L \in SUBSET D /\ x \in L /\ D \ R = L \ {x}
    BY <2>2, <2>4, <2>5
  <2>7. Smaller(L)
    <3>1. R \ {x} \in SUBSET D /\ R \ {x} \notin wrong
      BY <2>1, <2>2, <2>4
    <3> QED
      BY <2>5, <3>1
  <2>8. Smaller(L \ {x})
    <3>1. L \ {x} \in SUBSET D
      BY <2>6
    <3>2. /\ Denominator(clause, L \ {x}) <= Denominator(clause, L)
          /\ Numerator(clause, L \ {x}) <= Numerator(clause, L)
      BY <1>2, <2>6
    <3>3. D \in SUBSET D
      OBVIOUS
    <3> HIDE DEF D
    <3> QED
      BY <1>1, <2>6, <2>7, <3>1, <3>2, <3>3
  <2> HIDE DEF Smaller, D
  <2> QED
    BY <2>2, <2>6, <2>8
<1>4. D \ local \in SUBSET D /\ D \ (D \ local) = local
  OBVIOUS
<1>5. Smaller(D \ (D \ local))
  BY <1>3, <1>4
<1> QED
  BY <1>4, <1>5

-----------------------------------------------------------------------------
(* The code's folds, in the order of the positions.                        *)

(* A set of positions has a last one.                                      *)
LEMMA LastPosition ==
  ASSUME NEW n \in Nat, NEW s \in SUBSET (1..n), s # {}
  PROVE  Max(s) \in s /\ \A y \in s : Max(s) >= y
<1> DEFINE above == {n - y : y \in s}
<1>1. \A y \in s : y \in Nat /\ n - y \in Nat
  OBVIOUS
<1>2. above \in SUBSET Nat /\ above # {}
  BY <1>1
<1>3. PICK k \in above : \A j \in above : k <= j
  <2> HIDE DEF above
  <2> QED
    BY <1>2, LeastNumber
<1>4. PICK m \in s : k = n - m
  BY <1>3
<1>5. \A y \in s : m >= y
  <2> SUFFICES ASSUME NEW y \in s PROVE m >= y
    OBVIOUS
  <2>1. n - m <= n - y
    BY <1>3, <1>4
  <2> QED
    BY <1>1, <2>1
<1> QED
  BY <1>5 DEF Max

(* The last of the first k positions, and the others.                      *)
LEMMA FirstPositions ==
  ASSUME NEW k \in Nat, k >= 1
  PROVE  Max(1..k) = k /\ (1..k) \ {k} = 1..(k - 1)
<1>1. 1..k \in SUBSET (1..k) /\ 1..k # {} /\ k \in 1..k
  BY SMT
<1>2. Max(1..k) \in 1..k /\ Max(1..k) >= k
  BY <1>1, LastPosition
<1> QED
  BY <1>2

(* One weight of clause_reaches_one, signed for or not.                    *)
TakeUp(acc, clause, i, local) ==
  IF clause[i].den = 0 THEN Lost
  ELSE IF i \in local THEN CheckedAdd(acc, clause[i])
  ELSE acc

Start == [ok |-> TRUE, num |-> 0, den |-> 1]
Accumulator == [ok : BOOLEAN, num : Nat, den : Nat]

LEMMA TakeUpType ==
  ASSUME NEW acc \in Accumulator, NEW clause \in Seq(Fraction), NEW i \in DOMAIN clause, NEW local
  PROVE  TakeUp(acc, clause, i, local) \in Accumulator
<1> DEFINE w == clause[i]
<1>0. w \in Fraction
  OBVIOUS
<1> HIDE DEF w
<1>1. Lost \in Accumulator
  BY DEF Lost, Accumulator
<1>2. CheckedAdd(acc, w) \in Accumulator
  <2>1. PICK n \in Nat, d \in Nat, a \in Nat, b \in Nat :
          n = acc.num /\ d = acc.den /\ a = w.num /\ b = w.den
    BY <1>0 DEF Accumulator, Fraction
  <2>2. n * b + a * d \in Nat /\ d * b \in Nat
    OBVIOUS
  <2>3. CheckedAdd(acc, w) = Lost
        \/ CheckedAdd(acc, w) = [ok |-> TRUE, num |-> n * b + a * d, den |-> d * b]
    BY <2>1 DEF CheckedAdd
  <2>4. [ok |-> TRUE, num |-> n * b + a * d, den |-> d * b] \in Accumulator
    <3>1. PICK p \in Nat, q \in Nat : p = n * b + a * d /\ q = d * b
      BY <2>2
    <3>2. [ok |-> TRUE, num |-> p, den |-> q] \in Accumulator
      BY DEF Accumulator
    <3> QED
      BY <3>1, <3>2
  <2> QED
    BY <1>1, <2>3, <2>4
<1> QED
  BY <1>1, <1>2 DEF TakeUp, w

(* clause_reaches_one runs over the positions one by one.                  *)
LEMMA ClauseSumSteps ==
  ASSUME NEW clause \in Seq(Fraction), NEW local
  PROVE  \E a \in [0..Len(clause) -> Accumulator] :
           /\ a[0] = Start
           /\ \A k \in 1..Len(clause) : a[k] = TakeUp(a[k - 1], clause, k, local)
           /\ ClauseSum(clause, local) = a[Len(clause)]
<1> DEFINE D == 1..Len(clause)
           step == [p \in D \X Accumulator |-> TakeUp(p[2], clause, p[1], local)]
           pick == [s \in SUBSET D |-> Max(s)]
<1>1. Len(clause) \in Nat /\ IsFiniteSet(D) /\ D = DOMAIN clause
  BY Positions
<1>2. \A x \in D : \A acc \in Accumulator :
        /\ TakeUp(acc, clause, x, local) \in Accumulator
        /\ step[<<x, acc>>] = TakeUp(acc, clause, x, local)
  <2>1. \A x \in D : \A acc \in Accumulator : TakeUp(acc, clause, x, local) \in Accumulator
    BY <1>1, TakeUpType
  <2> QED
    BY <2>1
<1>3. step \in [D \X Accumulator -> Accumulator]
  <2> SUFFICES ASSUME NEW p \in D \X Accumulator
               PROVE  TakeUp(p[2], clause, p[1], local) \in Accumulator
    OBVIOUS
  <2>1. p[1] \in D /\ p[2] \in Accumulator
    OBVIOUS
  <2> QED
    BY <1>2, <2>1
<1>4. \A s \in SUBSET D : s # {} => Max(s) \in s /\ pick[s] = Max(s)
  BY <1>1, LastPosition
<1>5. Start \in Accumulator /\ Picks(pick, D)
  BY <1>4 DEF Start, Accumulator, Picks
<1> HIDE DEF step, pick
<1>6. PICK g : IsFoldOf(g, D, Accumulator, Start, step, pick)
  BY <1>1, <1>3, <1>5, FoldExists, Zenon
<1>7. /\ g \in [SUBSET D -> Accumulator] /\ g[{}] = Start
      /\ \A s \in SUBSET D : s # {} =>
           g[s] = TakeUp(g[s \ {Max(s)}], clause, Max(s), local)
  <2>1. g \in [SUBSET D -> Accumulator] /\ g[{}] = Start
    BY <1>6 DEF IsFoldOf, FoldAt
  <2> SUFFICES ASSUME NEW s \in SUBSET D, s # {}
               PROVE  g[s] = TakeUp(g[s \ {Max(s)}], clause, Max(s), local)
    BY <2>1
  <2>2. Max(s) \in D /\ s \ {Max(s)} \in SUBSET D /\ pick[s] = Max(s)
    BY <1>4
  <2>3. g[s] = step[<<Max(s), g[s \ {Max(s)}]>>]
    BY <1>6, <2>2 DEF IsFoldOf, FoldAt
  <2>4. g[s \ {Max(s)}] \in Accumulator
    BY <2>1, <2>2
  <2> QED
    BY <1>2, <2>2, <2>3, <2>4
<1> DEFINE order == [i \in DOMAIN clause |-> i]
           At(it, s) == IF s = {} THEN Start
                        ELSE TakeUp(it[s \ {Max(s)}], clause, order[Max(s)], local)
           Solves(it) == it = [s \in SUBSET D |-> At(it, s)]
           sum == CHOOSE it : Solves(it)
<1>8. DOMAIN order = D /\ \A s \in SUBSET D : s # {} => order[Max(s)] = Max(s)
  BY <1>1, <1>4
<1>9. ClauseSum(clause, local) = sum[D]
  <2>1. order \in [D -> D]
    BY <1>1
  <2> QED
    BY <1>8 DEF ClauseSum, FoldLeftDomain, FoldLeft, MapThenFoldSet, TakeUp, Start
<1> HIDE DEF order
<1>10. Solves(g)
  <2>1. \A s \in SUBSET D : At(g, s) = g[s]
    BY <1>7, <1>8
  <2>2. g = [s \in SUBSET D |-> g[s]]
    BY <1>7
  <2> HIDE DEF At
  <2> QED
    BY <2>1, <2>2
<1>11. Solves(sum)
  BY <1>10
<1>12. \A s \in SUBSET D : sum[s] = At(sum, s)
  BY <1>11
<1> HIDE DEF sum
<1> DEFINE a == [k \in 0..Len(clause) |-> sum[1..k]]
<1>13. sum = g
  <2> DEFINE wrong == {s \in SUBSET D : sum[s] # g[s]}
  <2>1. wrong = {}
    <3> SUFFICES ASSUME wrong # {} PROVE FALSE
      OBVIOUS
    <3>1. PICK s \in wrong : \A x \in s : s \ {x} \notin wrong
      <4>1. wrong \in SUBSET SUBSET D
        OBVIOUS
      <4> HIDE DEF wrong, D
      <4> QED
        BY <1>1, <4>1, SmallestSet
    <3>2. s \in SUBSET D /\ sum[s] # g[s]
      BY <3>1
    <3>3. s # {}
      BY <1>7, <1>12, <3>2
    <3>4. Max(s) \in s /\ s \ {Max(s)} \in SUBSET D
      BY <1>4, <3>2, <3>3
    <3>5. sum[s \ {Max(s)}] = g[s \ {Max(s)}]
      BY <3>1, <3>4
    <3> QED
      BY <1>7, <1>8, <1>12, <3>2, <3>3, <3>5
  <2>2. sum = [s \in SUBSET D |-> sum[s]] /\ g = [s \in SUBSET D |-> g[s]]
    BY <1>7, <1>11
  <2> QED
    BY <2>1, <2>2
<1>14. \A k \in 0..Len(clause) : 1..k \in SUBSET D /\ a[k] = g[1..k]
  BY <1>1, <1>13
<1>15. a \in [0..Len(clause) -> Accumulator]
  <2>1. \A k \in 0..Len(clause) : sum[1..k] \in Accumulator
    BY <1>7, <1>13, <1>14
  <2> QED
    BY <2>1
<1>16. a[0] = Start
  <2>1. 1..0 = {} /\ 0 \in 0..Len(clause)
    BY <1>1
  <2> QED
    BY <1>7, <1>14, <2>1
<1>17. ASSUME NEW k \in 1..Len(clause)
       PROVE  a[k] = TakeUp(a[k - 1], clause, k, local)
  <2>1. k \in Nat /\ k >= 1 /\ k \in 0..Len(clause) /\ k - 1 \in 0..Len(clause)
    BY <1>1
  <2>2. Max(1..k) = k /\ (1..k) \ {k} = 1..(k - 1) /\ 1..k # {}
    BY <2>1, FirstPositions
  <2>3. 1..k \in SUBSET D /\ a[k] = g[1..k] /\ a[k - 1] = g[1..(k - 1)]
    BY <1>14, <2>1
  <2> HIDE DEF a
  <2> QED
    BY <1>7, <2>2, <2>3
<1>18. ClauseSum(clause, local) = a[Len(clause)]
  BY <1>1, <1>9
<1> HIDE DEF a
<1> QED
  BY <1>15, <1>16, <1>17, <1>18

-----------------------------------------------------------------------------
(* One clause.                                                             *)

(* Up to any position the code's sum is lost, or it is the rational one of *)
(* the positions passed and no denominator passed was zero.                *)
LEMMA ClauseSumIsExact ==
  ASSUME NEW clause \in Seq(Fraction), NEW local \in SUBSET DOMAIN clause
  PROVE  ClauseSum(clause, local).ok =>
           /\ \A i \in DOMAIN clause : clause[i].den # 0
           /\ ClauseSum(clause, local).num = Numerator(clause, local)
           /\ ClauseSum(clause, local).den = Denominator(clause, local)
<1> DEFINE n == Len(clause)
           Passed(k) == local \cap 1..k
           Exact(acc, k) ==
             acc.ok => /\ \A i \in 1..k : clause[i].den # 0
                       /\ acc.num = Numerator(clause, Passed(k))
                       /\ acc.den = Denominator(clause, Passed(k))
<1>1. n \in Nat /\ DOMAIN clause = 1..n
  BY Positions
<1>2. PICK a \in [0..n -> Accumulator] :
        /\ a[0] = Start
        /\ \A k \in 1..n : a[k] = TakeUp(a[k - 1], clause, k, local)
        /\ ClauseSum(clause, local) = a[n]
  BY ClauseSumSteps
<1>3. Exact(a[0], 0)
  <2>1. 1..0 = {} /\ Passed(0) = {}
    BY <1>1
  <2>2. Numerator(clause, Passed(0)) = 0 /\ Denominator(clause, Passed(0)) = 1
    BY <2>1, NumeratorSteps, DenominatorSteps
  <2> QED
    BY <1>2, <2>1, <2>2 DEF Start
<1>4. ASSUME NEW k \in 1..n, Exact(a[k - 1], k - 1) PROVE Exact(a[k], k)
  <2>1. /\ k \in Nat /\ k - 1 \in 0..n /\ a[k - 1] \in Accumulator
        /\ a[k] = TakeUp(a[k - 1], clause, k, local)
        /\ k \in DOMAIN clause
    BY <1>1, <1>2
  <2>2. \A i \in 1..k : i = k \/ i \in 1..(k - 1)
    BY <2>1
  <2>3. CASE clause[k].den = 0
    <3>1. ~a[k].ok
      BY <2>1, <2>3 DEF TakeUp, Lost
    <3> QED
      BY <3>1
  <2>4. CASE clause[k].den # 0 /\ k \notin local
    <3>1. a[k] = a[k - 1]
      BY <2>1, <2>4 DEF TakeUp
    <3>2. Passed(k) = Passed(k - 1)
      BY <2>1, <2>2, <2>4
    <3> HIDE DEF Passed
    <3> QED
      BY <1>4, <2>2, <2>4, <3>1, <3>2
  <2>5. CASE clause[k].den # 0 /\ k \in local
    <3>1. a[k] = CheckedAdd(a[k - 1], clause[k])
      BY <2>1, <2>5 DEF TakeUp
    <3>2. Passed(k) \ {k} = Passed(k - 1) /\ k \in Passed(k) /\ Passed(k) \in SUBSET DOMAIN clause
      BY <2>1, <2>2, <2>5
    <3>3. SUFFICES ASSUME a[k].ok PROVE Exact(a[k], k)
      OBVIOUS
    <3>4. /\ a[k - 1].ok
          /\ a[k].num = a[k - 1].num * clause[k].den + clause[k].num * a[k - 1].den
          /\ a[k].den = a[k - 1].den * clause[k].den
      BY <3>1, <3>3 DEF CheckedAdd, Lost
    <3>5. /\ Numerator(clause, Passed(k)) =
               Numerator(clause, Passed(k - 1)) * clause[k].den
                 + clause[k].num * Denominator(clause, Passed(k - 1))
          /\ Denominator(clause, Passed(k)) = clause[k].den * Denominator(clause, Passed(k - 1))
      BY <3>2, NumeratorSteps, DenominatorSteps
    <3>6. /\ \A i \in 1..(k - 1) : clause[i].den # 0
          /\ a[k - 1].num = Numerator(clause, Passed(k - 1))
          /\ a[k - 1].den = Denominator(clause, Passed(k - 1))
      BY <1>4, <3>4
    <3>7. PICK b \in Nat, d \in Nat : b = clause[k].den /\ d = a[k - 1].den
      BY <2>1, Positions DEF Accumulator
    <3>8. d * b = b * d
      OBVIOUS
    <3> HIDE DEF Passed
    <3>9. a[k].num = Numerator(clause, Passed(k)) /\ a[k].den = Denominator(clause, Passed(k))
      BY <3>4, <3>5, <3>6, <3>7, <3>8
    <3> QED
      BY <2>2, <2>5, <3>6, <3>9
  <2> QED
    BY <2>3, <2>4, <2>5
<1> DEFINE wrong == {k \in 0..n : ~Exact(a[k], k)}
<1>5. wrong = {}
  <2> SUFFICES ASSUME wrong # {} PROVE FALSE
    OBVIOUS
  <2>1. PICK k \in wrong : \A j \in wrong : k <= j
    <3>1. wrong \in SUBSET Nat
      BY <1>1
    <3> HIDE DEF wrong
    <3> QED
      BY <3>1, LeastNumber
  <2>2. k \in 0..n /\ ~Exact(a[k], k)
    BY <2>1
  <2> HIDE DEF Exact
  <2>3. k # 0
    BY <1>3, <2>2
  <2>4. k \in 1..n /\ k - 1 \in 0..n /\ k - 1 \notin wrong
    BY <1>1, <2>1, <2>2, <2>3
  <2>5. Exact(a[k - 1], k - 1)
    BY <2>4
  <2> QED
    BY <1>4, <2>2, <2>4, <2>5
<1>6. Exact(a[n], n)
  <2>1. n \in 0..n
    BY <1>1
  <2> HIDE DEF Exact
  <2> QED
    BY <1>5, <2>1
<1>7. Passed(n) = local
  BY <1>1
<1> QED
  BY <1>1, <1>2, <1>6, <1>7

(* Where the word holds the sum of the whole clause and no denominator is  *)
(* zero, nothing is lost on the way.                                       *)
LEMMA ClauseSumIsKept ==
  ASSUME NEW clause \in Seq(Fraction), NEW local \in SUBSET DOMAIN clause,
         \A i \in DOMAIN clause : clause[i].den # 0, WordHolds(clause)
  PROVE  ClauseSum(clause, local).ok
<1> DEFINE n == Len(clause)
           Passed(k) == local \cap 1..k
           Kept(acc, k) ==
             /\ acc.ok
             /\ acc.num = Numerator(clause, Passed(k))
             /\ acc.den = Denominator(clause, Passed(k))
<1>1. n \in Nat /\ DOMAIN clause = 1..n
  BY Positions
<1>2. PICK a \in [0..n -> Accumulator] :
        /\ a[0] = Start
        /\ \A k \in 1..n : a[k] = TakeUp(a[k - 1], clause, k, local)
        /\ ClauseSum(clause, local) = a[n]
  BY ClauseSumSteps
<1>3. Kept(a[0], 0)
  <2>1. Passed(0) = {}
    BY <1>1
  <2>2. Numerator(clause, Passed(0)) = 0 /\ Denominator(clause, Passed(0)) = 1
    BY <2>1, NumeratorSteps, DenominatorSteps
  <2> HIDE DEF Passed
  <2> QED
    BY <1>2, <2>2 DEF Start
<1>4. ASSUME NEW k \in 1..n, Kept(a[k - 1], k - 1) PROVE Kept(a[k], k)
  <2>1. /\ k \in Nat /\ k - 1 \in 0..n /\ a[k - 1] \in Accumulator
        /\ a[k] = TakeUp(a[k - 1], clause, k, local)
        /\ k \in DOMAIN clause /\ clause[k].den # 0
    BY <1>1, <1>2
  <2>2. CASE k \notin local
    <3>1. a[k] = a[k - 1]
      BY <2>1, <2>2 DEF TakeUp
    <3>2. Passed(k) = Passed(k - 1)
      BY <2>1, <2>2
    <3> HIDE DEF Passed
    <3> QED
      BY <1>4, <3>1, <3>2
  <2>3. CASE k \in local
    <3>1. a[k] = CheckedAdd(a[k - 1], clause[k])
      BY <2>1, <2>3 DEF TakeUp
    <3>2. Passed(k) \ {k} = Passed(k - 1) /\ k \in Passed(k) /\ Passed(k) \in SUBSET DOMAIN clause
      BY <2>1, <2>3
    <3>3. PICK x \in Nat, b \in Nat, p \in Nat, d \in Nat :
            x = clause[k].num /\ b = clause[k].den /\ p = a[k - 1].num /\ d = a[k - 1].den
      BY <2>1, Positions DEF Accumulator
    <3>4. /\ Numerator(clause, Passed(k)) = p * b + x * d
          /\ Denominator(clause, Passed(k)) = b * d
      <4>1. /\ Numerator(clause, Passed(k)) =
                 Numerator(clause, Passed(k - 1)) * clause[k].den
                   + clause[k].num * Denominator(clause, Passed(k - 1))
            /\ Denominator(clause, Passed(k)) = clause[k].den * Denominator(clause, Passed(k - 1))
        BY <3>2, NumeratorSteps, DenominatorSteps
      <4>2. p = Numerator(clause, Passed(k - 1)) /\ d = Denominator(clause, Passed(k - 1))
        BY <1>4, <3>3
      <4> HIDE DEF Passed
      <4> QED
        BY <3>3, <4>1, <4>2
    <3>5. Fits(p * b + x * d) /\ Fits(b * d)
      <4>1. PICK u \in Nat, v \in Nat : /\ u = Numerator(clause, DOMAIN clause)
                                        /\ v = Denominator(clause, DOMAIN clause)
        BY NumeratorSteps, DenominatorSteps
      <4>2. u <= MaxWord /\ v <= MaxWord
        BY <4>1 DEF WordHolds, Fits
      <4>3. p * b + x * d <= u /\ b * d <= v
        <5> HIDE DEF Passed
        <5> QED
          BY <3>2, <3>4, <4>1, PartsAreSmaller
      <4>4. p * b + x * d \in Nat /\ b * d \in Nat /\ MaxWord \in Nat
        BY MaxWordAssumption
      <4> QED
        BY <4>2, <4>3, <4>4 DEF Fits
    <3>6. Fits(p * b) /\ Fits(x * d) /\ Fits(d * b)
      <4>1. p * b \in Nat /\ x * d \in Nat /\ d * b = b * d /\ MaxWord \in Nat
        BY MaxWordAssumption
      <4> QED
        BY <3>5, <4>1 DEF Fits
    <3>7. a[k] = [ok |-> TRUE, num |-> p * b + x * d, den |-> d * b]
      BY <1>4, <3>1, <3>3, <3>5, <3>6 DEF CheckedAdd
    <3>8. d * b = b * d
      OBVIOUS
    <3> HIDE DEF Passed
    <3> QED
      BY <3>4, <3>7, <3>8
  <2> QED
    BY <2>2, <2>3
<1> DEFINE wrong == {k \in 0..n : ~Kept(a[k], k)}
<1>5. wrong = {}
  <2> SUFFICES ASSUME wrong # {} PROVE FALSE
    OBVIOUS
  <2>1. PICK k \in wrong : \A j \in wrong : k <= j
    <3>1. wrong \in SUBSET Nat
      BY <1>1
    <3> HIDE DEF wrong
    <3> QED
      BY <3>1, LeastNumber
  <2>2. k \in 0..n /\ ~Kept(a[k], k)
    BY <2>1
  <2> HIDE DEF Kept
  <2>3. k # 0
    BY <1>3, <2>2
  <2>4. k \in 1..n /\ k - 1 \in 0..n /\ k - 1 \notin wrong
    BY <1>1, <2>1, <2>2, <2>3
  <2>5. Kept(a[k - 1], k - 1)
    BY <2>4
  <2> QED
    BY <1>4, <2>2, <2>4, <2>5
<1>6. n \in 0..n
  BY <1>1
<1>7. Kept(a[n], n)
  <2> HIDE DEF Kept
  <2> QED
    BY <1>5, <1>6
<1> QED
  BY <1>2, <1>7

(* The verdict on a clause never exceeds the rational one, and is the same *)
(* where the word holds the sum.                                           *)
LEMMA ClauseJudgement ==
  ASSUME NEW clause \in Seq(Fraction), NEW local \in SUBSET DOMAIN clause
  PROVE  /\ ClauseReachesOne(clause, local) => ClauseExactlyReachesOne(clause, local)
         /\ WordHolds(clause) /\ ClauseExactlyReachesOne(clause, local)
              => ClauseReachesOne(clause, local)
<1>1. ClauseReachesOne(clause, local) => ClauseExactlyReachesOne(clause, local)
  BY ClauseSumIsExact DEF ClauseReachesOne, ClauseExactlyReachesOne
<1>2. ASSUME WordHolds(clause), ClauseExactlyReachesOne(clause, local)
      PROVE  ClauseReachesOne(clause, local)
  <2>1. \A i \in DOMAIN clause : clause[i].den # 0
    BY <1>2 DEF ClauseExactlyReachesOne
  <2>2. ClauseSum(clause, local).ok
    BY <1>2, <2>1, ClauseSumIsKept
  <2> QED
    BY <1>2, <2>2, ClauseSumIsExact DEF ClauseReachesOne, ClauseExactlyReachesOne
<1> QED
  BY <1>1, <1>2

-----------------------------------------------------------------------------
(* A whole threshold.                                                      *)

(* The library's sum of a whole function.                                  *)
LEMMA SumOfAll ==
  ASSUME NEW D, IsFiniteSet(D), NEW w \in [D -> Nat], NEW g, IsSumTable(g, D, w)
  PROVE  SumFunction(w) = g[D]
<1>1. w = [i \in D |-> w[i]] /\ D \in SUBSET D
  OBVIOUS
<1> QED
  BY <1>1, SumIs

(* Clauses own contiguous runs of positions: the code's running base is    *)
(* the number of weights of the clauses before.                            *)
LEMMA BaseIsSum ==
  ASSUME NEW clauses \in Seq(Seq(Fraction)), NEW c \in DOMAIN clauses
  PROVE  /\ ClauseBase(clauses, c) = SumFunction([b \in 1..(c - 1) |-> Len(clauses[b])])
<1> DEFINE D == 1..(c - 1)
           before == SubSeq(clauses, 1, c - 1)
           w == [b \in D |-> Len(clauses[b])]
<1>1. /\ c \in Nat /\ c >= 1 /\ c - 1 \in Nat /\ c <= Len(clauses) /\ Len(clauses) \in Nat
      /\ IsFiniteSet(D)
  <2>1. c \in 1..Len(clauses) /\ Len(clauses) \in Nat
    OBVIOUS
  <2>2. c \in Nat /\ c >= 1 /\ c - 1 \in Nat /\ c <= Len(clauses)
    BY <2>1
  <2> QED
    BY <2>1, <2>2, FS_Interval
<1>2. DOMAIN before = D /\ \A b \in D : before[b] = clauses[b] /\ Len(clauses[b]) \in Nat
  BY <1>1
<1>3. w \in [D -> Nat] /\ \A b \in D : w[b] = Len(before[b])
  BY <1>2
<1>4. PICK g : IsSumTable(g, D, w)
  <2> HIDE DEF D, w
  <2> QED
    BY <1>1, <1>3, SumTable
<1>5. SumFunction(w) = g[D]
  <2> HIDE DEF D, w
  <2> QED
    BY <1>1, <1>3, <1>4, SumOfAll
<1>6. /\ g \in [SUBSET D -> Nat] /\ g[{}] = 0
      /\ \A s \in SUBSET D : \A x \in s : g[s] = w[x] + g[s \ {x}]
  <2> HIDE DEF D, w
  <2> QED
    BY <1>4 DEF IsSumTable
<1>7. \A s \in SUBSET D : s # {} => Max(s) \in s
  BY <1>1, LastPosition
<1> HIDE DEF before, w
<1> DEFINE At(it, s) == IF s = {} THEN 0 ELSE it[s \ {Max(s)}] + Len(before[Max(s)])
           Solves(it) == it = [s \in SUBSET D |-> At(it, s)]
           base == CHOOSE it : Solves(it)
<1>8. ClauseBase(clauses, c) = base[D]
  BY <1>2 DEF ClauseBase, FoldLeft, MapThenFoldSet, before
<1>9. \A s \in SUBSET D : g[s] = At(g, s)
  <2> SUFFICES ASSUME NEW s \in SUBSET D PROVE g[s] = At(g, s)
    OBVIOUS
  <2>1. CASE s = {}
    BY <1>6, <2>1
  <2>2. CASE s # {}
    <3>1. Max(s) \in s /\ Max(s) \in D /\ s \ {Max(s)} \in SUBSET D
      BY <1>7, <2>2
    <3>2. g[s] = w[Max(s)] + g[s \ {Max(s)}] /\ w[Max(s)] = Len(before[Max(s)])
      BY <1>3, <1>6, <3>1
    <3>3. g[s \ {Max(s)}] \in Nat /\ w[Max(s)] \in Nat
      BY <1>3, <1>6, <3>1
    <3> HIDE DEF D
    <3> QED
      BY <2>2, <3>2, <3>3
  <2> QED
    BY <2>1, <2>2
<1>10. Solves(g)
  <2>1. g = [s \in SUBSET D |-> g[s]]
    BY <1>6
  <2> HIDE DEF At, D
  <2> QED
    BY <1>9, <2>1
<1>11. Solves(base)
  BY <1>10
<1>12. \A s \in SUBSET D : base[s] = At(base, s)
  BY <1>11
<1> HIDE DEF base
<1> DEFINE wrong == {s \in SUBSET D : base[s] # g[s]}
<1>13. wrong = {}
  <2> SUFFICES ASSUME wrong # {} PROVE FALSE
    OBVIOUS
  <2>1. PICK s \in wrong : \A x \in s : s \ {x} \notin wrong
    <3>1. wrong \in SUBSET SUBSET D
      OBVIOUS
    <3> HIDE DEF wrong, D
    <3> QED
      BY <1>1, <3>1, SmallestSet
  <2>2. s \in SUBSET D /\ base[s] # g[s]
    BY <2>1
  <2>3. s # {}
    BY <1>6, <1>12, <2>2
  <2>4. base[s \ {Max(s)}] = g[s \ {Max(s)}]
    BY <1>7, <2>1, <2>2, <2>3
  <2> QED
    BY <1>9, <1>12, <2>2, <2>3, <2>4
<1>14. base[D] = g[D]
  <2>1. D \in SUBSET D
    OBVIOUS
  <2> HIDE DEF D
  <2> QED
    BY <1>13, <2>1
<1> QED
  BY <1>5, <1>8, <1>14 DEF w

(* Who signed for a clause, for the code and for the reference.            *)
LEMMA SameSigners ==
  ASSUME NEW th, th.clauses \in Seq(Seq(Fraction)), NEW c \in DOMAIN th.clauses, NEW indices
  PROVE  LET before == SumFunction([b \in 1..(c - 1) |-> Len(th.clauses[b])])
             local == {i \in DOMAIN th.clauses[c] : before + i - 1 \in indices}
         IN  /\ SignedInClause(th.clauses, c, indices) = local
             /\ local \in SUBSET DOMAIN th.clauses[c]
             /\ th.clauses[c] \in Seq(Fraction)
<1>1. ClauseBase(th.clauses, c) = SumFunction([b \in 1..(c - 1) |-> Len(th.clauses[b])])
  BY BaseIsSum
<1> QED
  BY <1>1 DEF SignedInClause

(* A set of finitely many signers has a part of any smaller size.          *)
LEMMA SomeOfThem ==
  ASSUME NEW S, IsFiniteSet(S), NEW n \in Nat, Cardinality(S) >= n
  PROVE  \E R \in SUBSET S : Cardinality(R) = n
<1> DEFINE enough == {R \in SUBSET S : Cardinality(R) >= n}
<1>1. PICK R \in enough : \A x \in R : R \ {x} \notin enough
  <2>1. enough \in SUBSET SUBSET S /\ enough # {}
    OBVIOUS
  <2> HIDE DEF enough
  <2> QED
    BY <2>1, SmallestSet
<1>2. R \in SUBSET S /\ Cardinality(R) >= n /\ IsFiniteSet(R) /\ Cardinality(R) \in Nat
  <2>1. R \in SUBSET S /\ Cardinality(R) >= n
    BY <1>1
  <2> QED
    BY <2>1, FS_Subset, FS_CardinalityType
<1>3. CASE R = {}
  <2>1. Cardinality(R) = 0
    BY <1>3, FS_EmptySet
  <2> QED
    BY <1>2, <2>1
<1>4. CASE R # {}
  <2>1. PICK x \in R : TRUE
    BY <1>4
  <2>2. Cardinality(R \ {x}) = Cardinality(R) - 1
    BY <1>2, <2>1, FS_RemoveElement
  <2>3. ~(Cardinality(R \ {x}) >= n)
    BY <1>1, <1>2, <2>1
  <2> QED
    BY <1>2, <2>2, <2>3
<1> QED
  BY <1>3, <1>4

(* Satisfied of any threshold and any finite set of signers.               *)
LEMMA ThresholdJudgement ==
  ASSUME NEW th \in Threshold, NEW indices, IsFiniteSet(indices)
  PROVE  /\ Satisfied(th, indices) => ExactlySatisfied(th, indices)
         /\ (th.kind = "weighted" => \A c \in DOMAIN th.clauses : WordHolds(th.clauses[c]))
              /\ ExactlySatisfied(th, indices)
              => Satisfied(th, indices)
<1>1. CASE th.kind = "simple"
  <2>1. th.n \in Nat
    BY <1>1 DEF Threshold
  <2>2. Satisfied(th, indices) <=> Cardinality(indices) >= th.n
    BY <1>1 DEF Satisfied
  <2>3. ExactlySatisfied(th, indices) <=> \E R \in SUBSET indices : Cardinality(R) = th.n
    BY <1>1 DEF ExactlySatisfied
  <2>4. \A R \in SUBSET indices : Cardinality(R) <= Cardinality(indices)
    BY FS_Subset
  <2>5. Cardinality(indices) \in Nat
    BY FS_CardinalityType
  <2> QED
    BY <1>1, <2>1, <2>2, <2>3, <2>4, <2>5, SomeOfThem
<1>2. CASE th.kind # "simple"
  <2>1. th.kind = "weighted" /\ th.clauses \in Seq(Seq(Fraction))
    BY <1>2 DEF Threshold, Fraction
  <2> DEFINE Local(c) == SignedInClause(th.clauses, c, indices)
  <2>2. Satisfied(th, indices) <=>
          th.clauses # <<>> /\ \A c \in DOMAIN th.clauses : ClauseReachesOne(th.clauses[c], Local(c))
    BY <1>2 DEF Satisfied
  <2>3. ExactlySatisfied(th, indices) <=>
          th.clauses # <<>> /\ \A c \in DOMAIN th.clauses : ClauseExactlyReachesOne(th.clauses[c], Local(c))
    <3> DEFINE Reference(c) ==
                 {i \in DOMAIN th.clauses[c] :
                    SumFunction([b \in 1..(c - 1) |-> Len(th.clauses[b])]) + i - 1 \in indices}
    <3>1. \A c \in DOMAIN th.clauses : Local(c) = Reference(c)
      BY <2>1, SameSigners
    <3>2. ExactlySatisfied(th, indices) <=>
            th.clauses # <<>>
              /\ \A c \in DOMAIN th.clauses : ClauseExactlyReachesOne(th.clauses[c], Reference(c))
      BY <1>2 DEF ExactlySatisfied
    <3> HIDE DEF Local, Reference
    <3> QED
      BY <3>1, <3>2
  <2>4. \A c \in DOMAIN th.clauses :
          th.clauses[c] \in Seq(Fraction) /\ Local(c) \in SUBSET DOMAIN th.clauses[c]
    BY <2>1 DEF SignedInClause
  <2> HIDE DEF Local
  <2>5. \A c \in DOMAIN th.clauses :
          /\ ClauseReachesOne(th.clauses[c], Local(c)) => ClauseExactlyReachesOne(th.clauses[c], Local(c))
          /\ WordHolds(th.clauses[c]) /\ ClauseExactlyReachesOne(th.clauses[c], Local(c))
               => ClauseReachesOne(th.clauses[c], Local(c))
    BY <2>4, ClauseJudgement
  <2>6. Satisfied(th, indices) => ExactlySatisfied(th, indices)
    BY <2>2, <2>3, <2>5
  <2>7. (\A c \in DOMAIN th.clauses : WordHolds(th.clauses[c])) /\ ExactlySatisfied(th, indices)
          => Satisfied(th, indices)
    BY <2>2, <2>3, <2>5
  <2> QED
    BY <2>1, <2>6, <2>7
<1> QED
  BY <1>1, <1>2

-----------------------------------------------------------------------------
(* The signers of a threshold in use.                                      *)

Known ==
  /\ threshold \in Threshold
  /\ keyCount \in Nat
  /\ signed \in SUBSET (0..(keyCount - 1))

(* Only positions of the key list are ever signed for.                     *)
LEMMA AlwaysKnown == Spec => []Known
<1>1. Init => Known
  BY MaxKeysAssumption, ThresholdsAssumption DEF Init, Known
<1>2. Known /\ [Next]_vars => Known'
  BY DEF Known, Next, AddSigner, vars
<1> QED
  BY <1>1, <1>2, PTL DEF Spec

(* Whatever the word, the weights and the order in which signatures come,  *)
(* satisfied_by never takes signers for a quorum that do not carry the     *)
(* weight, and where the word holds the sums it refuses no quorum.         *)
THEOREM AlwaysJudgesAsRationals == Spec => []JudgesAsRationals
<1>1. Known => JudgesAsRationals
  <2> SUFFICES ASSUME Known PROVE JudgesAsRationals
    OBVIOUS
  <2>1. IsFiniteSet(signed)
    <3>1. keyCount - 1 \in Int /\ 0 \in Int /\ signed \in SUBSET (0..(keyCount - 1))
      BY DEF Known
    <3>2. IsFiniteSet(0..(keyCount - 1))
      BY <3>1, FS_Interval
    <3> QED
      BY <3>1, <3>2, FS_Subset
  <2>2. threshold \in Threshold
    BY DEF Known
  <2>3. NeverOverAccepts
    BY <2>1, <2>2, ThresholdJudgement DEF NeverOverAccepts
  <2>4. ExactWhereItFits
    BY <2>1, <2>2, ThresholdJudgement DEF ExactWhereItFits
  <2> QED
    BY <2>3, <2>4 DEF JudgesAsRationals
<1> QED
  BY <1>1, AlwaysKnown, PTL
=============================================================================
